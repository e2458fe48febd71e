--------------------------- MODULE Windows_proofs ---------------------------
(***************************************************************************)
(* Proofs about the windows of the client, for any number of popups on the *)
(* screen and of windows closed by the window manager.                     *)
(***************************************************************************)
EXTENDS Windows, TLAPS

-----------------------------------------------------------------------------
(* The popups, the notices and the list of sessions are not pages. *)
LEMMA OthersApart == Others \intersect Pages = {}
BY DEF Others, Pages, Lists, AddPopup, RowPopup, Notices

(* The popups of a list; those of the users are nobody else's. *)
LEMMA PopupNames ==
  \A l \in Lists :
    /\ AddPopup[l] \in Others /\ RowPopup[l] \in Others
    /\ AddPopup[l] \in {AddPopup.users, RowPopup.users} => l = "users"
    /\ RowPopup[l] \in {AddPopup.users, RowPopup.users} => l = "users"
BY DEF Others, Lists, AddPopup, RowPopup

LEMMA QuitNames == Pages \subseteq QuitOnDestroy
BY DEF QuitOnDestroy

-----------------------------------------------------------------------------
(* While the client runs it has one page, and that page was not destroyed. *)
OnePage ==
  running => /\ \E p \in Pages : shown \intersect Pages = {p}
             /\ destroyed \intersect Pages = {}

(* The pages of the restaurant are reached by logging in. *)
Entered ==
  running => \A p \in Pages \intersect shown : (p \in Nav!Public) <=> (role = "none")

(* After the login, users_btn says what the role is. *)
ButtonAgrees == role # "none" => usersBtn = (role = "admin")

IInv == TypeOK /\ OnePage /\ Entered /\ ButtonAgrees /\ UsersForAdmins

LEMMA InitInvariant == Init => IInv
BY DEF Init, IInv, TypeOK, OnePage, Entered, ButtonAgrees, UsersForAdmins,
  Pages, Lists, Others, AddPopup, RowPopup, Nav!Public

(* One page takes the place of another. *)
LEMMA TurnStep ==
  ASSUME IInv, NEW p \in Pages, NEW q \in Pages, Turns(p, q),
         p \in Nav!Public <=> q \in Nav!Public,
         q = "users" => role = "admin"
  PROVE  /\ IInv'
         /\ running /\ running'
         /\ shown \intersect Pages = {p} /\ shown' \intersect Pages = {q}
<1>1. running /\ running' /\ p \in shown /\ shown' = (shown \ {p}) \union {q}
  BY DEF Turns, Go, Clicks
<1>2. UNCHANGED <<running, destroyed, role, usersBtn, connected, chosen>>
  BY DEF Turns
<1>3. shown \intersect Pages = {p}
  BY <1>1 DEF IInv, OnePage
<1>4. shown' \intersect Pages = {q}
  BY <1>1, <1>3
<1>5. TypeOK'
  BY <1>1, <1>2 DEF IInv, TypeOK
<1>6. OnePage'
  BY <1>1, <1>2, <1>4 DEF IInv, OnePage
<1>7. Entered'
  BY <1>1, <1>2, <1>3, <1>4 DEF IInv, Entered
<1>8. ButtonAgrees'
  BY <1>2 DEF IInv, ButtonAgrees
<1>9. UsersForAdmins'
  <2>1. \A w \in {"users", AddPopup.users, RowPopup.users} : w \in shown' => w \in shown \/ w = q
    BY <1>1
  <2>2. AddPopup.users \notin Pages /\ RowPopup.users \notin Pages
    BY DEF Pages, Lists, AddPopup, RowPopup
  <2> QED BY <1>1, <1>2, <2>1, <2>2 DEF IInv, UsersForAdmins
<1> QED BY <1>1, <1>3, <1>4, <1>5, <1>6, <1>7, <1>8, <1>9 DEF IInv

(* Popups and notices come and go, the page stays; those of the users come *)
(* for an admin only.                                                      *)
LEMMA AsideStep ==
  ASSUME IInv, TypeOK',
         running, running',
         shown' \intersect Pages = shown \intersect Pages,
         destroyed' \intersect Pages = destroyed \intersect Pages,
         UNCHANGED <<role, usersBtn>>,
         \A w \in {AddPopup.users, RowPopup.users} :
           w \in shown' => w \in shown \/ role = "admin"
  PROVE  IInv'
<1>1. OnePage'
  BY DEF IInv, OnePage
<1>2. Entered'
  BY DEF IInv, Entered
<1>3. ButtonAgrees'
  BY DEF IInv, ButtonAgrees
<1>4. UsersForAdmins'
  <2>1. "users" \in shown' => "users" \in shown
    BY DEF Pages, Lists
  <2> QED BY <2>1 DEF IInv, UsersForAdmins
<1> QED BY <1>1, <1>2, <1>3, <1>4 DEF IInv

(* The client ends. *)
LEMMA EndStep ==
  ASSUME IInv, TypeOK', ~running', UNCHANGED <<role, usersBtn>>
  PROVE  IInv'
BY DEF IInv, OnePage, Entered, ButtonAgrees, UsersForAdmins

-----------------------------------------------------------------------------
(* What the user sees: a turn is a move, an aside is nothing, and the end   *)
(* takes the page away.                                                    *)
Seen == [Nav!Next]_(Nav!vars)

LEMMA TurnSeen ==
  ASSUME IInv, NEW p \in Pages, NEW q \in Pages, Turns(p, q),
         \/ p \in Nav!Public /\ q \in Nav!Public
         \/ /\ p \in Nav!Inner /\ q \in Nav!Inner
            /\ p = "main" \/ q \in {"main", "profile"}
            /\ q = "users" => role = "admin"
  PROVE  IInv' /\ Seen
<1>1. /\ p \in Nav!Public <=> q \in Nav!Public
      /\ q = "users" => role = "admin"
  BY DEF Nav!Public, Nav!Inner
<1>2. /\ IInv'
      /\ running /\ running'
      /\ shown \intersect Pages = {p} /\ shown' \intersect Pages = {q}
  BY <1>1, TurnStep
<1>3. role' = role
  BY DEF Turns
<1>4. Nav!Move(p, q)
  BY <1>2, <1>3 DEF Nav!Move
<1>5. Nav!Next
  BY <1>4 DEF Nav!Next, Nav!MoveOutside, Nav!MoveInside
<1> QED BY <1>2, <1>5 DEF Seen

LEMMA AsideSeen ==
  ASSUME running' = running, role' = role,
         shown' \intersect Pages = shown \intersect Pages
  PROVE  Seen
BY DEF Seen, Nav!vars

LEMMA EndSeen ==
  ASSUME IInv, running, ~running', role' = role
  PROVE  Seen
<1>1. shown \intersect Pages # {}
  BY DEF IInv, OnePage
<1>2. Nav!End
  BY <1>1 DEF Nav!End
<1> QED BY <1>2 DEF Seen, Nav!Next

-----------------------------------------------------------------------------
(* A popup, a notice or the list of sessions is shown. *)
LEMMA ShowStep ==
  ASSUME IInv, running, NEW w \in Others, Show(w), TypeOK',
         UNCHANGED <<running, destroyed, role, usersBtn>>,
         w \in {AddPopup.users, RowPopup.users} => role = "admin"
  PROVE  IInv' /\ Seen
<1>1. shown' = shown \union {w}
  BY DEF Show
<1>2. shown' \intersect Pages = shown \intersect Pages
  BY <1>1, OthersApart
<1>3. IInv'
  BY <1>1, <1>2, AsideStep
<1> QED BY <1>2, <1>3, AsideSeen

(* It is hidden by one of its buttons. *)
LEMMA HideStep ==
  ASSUME IInv, running, NEW w \in Others, Hide(w),
         UNCHANGED <<running, destroyed, role, usersBtn, connected, chosen>>
  PROVE  IInv' /\ Seen
<1>1. shown' = shown \ {w}
  BY DEF Hide
<1>2. shown' \intersect Pages = shown \intersect Pages
  BY <1>1, OthersApart
<1>3. TypeOK'
  BY <1>1 DEF IInv, TypeOK
<1>4. IInv'
  BY <1>1, <1>2, <1>3, AsideStep
<1> QED BY <1>2, <1>4, AsideSeen

LEMMA LoginStep ==
  ASSUME IInv, NEW r \in {"user", "admin"}, Login(r)
  PROVE  IInv' /\ Seen
<1>1. /\ running /\ running' /\ "login" \in shown
      /\ shown' = (shown \ {"login"}) \union {"main"}
      /\ role' = r /\ usersBtn' = (r = "admin")
      /\ UNCHANGED <<destroyed, connected, chosen>>
  BY DEF Login, Go, Clicks, IInv, TypeOK
<1>2. "login" \in Pages /\ "main" \in Pages
  BY DEF Pages
<1>3. shown \intersect Pages = {"login"}
  BY <1>1, <1>2 DEF IInv, OnePage
<1>4. shown' \intersect Pages = {"main"}
  BY <1>1, <1>2, <1>3
<1>5. TypeOK'
  BY <1>1, <1>2 DEF IInv, TypeOK
<1>6. OnePage'
  BY <1>1, <1>2, <1>4 DEF IInv, OnePage
<1>7. Entered'
  BY <1>1, <1>4 DEF Entered, Nav!Public
<1>8. ButtonAgrees'
  BY <1>1 DEF ButtonAgrees
<1>9. UsersForAdmins'
  <2>1. role = "none"
    BY <1>1, <1>2 DEF IInv, Entered, Nav!Public
  <2>2. \A w \in {"users", AddPopup.users, RowPopup.users} : w \notin shown
    BY <1>1, <2>1 DEF IInv, UsersForAdmins
  <2>3. \A w \in {"users", AddPopup.users, RowPopup.users} : w # "main"
    BY DEF AddPopup, RowPopup
  <2> QED BY <1>1, <2>2, <2>3 DEF UsersForAdmins
<1>10. Nav!LogIn
  BY <1>1, <1>3, <1>4 DEF Nav!LogIn
<1>11. Seen
  BY <1>10 DEF Seen, Nav!Next
<1> QED BY <1>5, <1>6, <1>7, <1>8, <1>9, <1>11 DEF IInv

LEMMA OutsideStep ==
  ASSUME IInv, Outside
  PROVE  IInv' /\ Seen
<1>1. CASE LoginMain \/ RegisterMain \/ RegisterBack \/ LoginBack \/ Register
  <2>1. PICK p \in Nav!Public, q \in Nav!Public : Turns(p, q)
    BY <1>1 DEF LoginMain, RegisterMain, RegisterBack, LoginBack, Register, Nav!Public
  <2>2. Nav!Public \subseteq Pages
    BY DEF Nav!Public, Pages
  <2> QED BY <2>1, <2>2, TurnSeen
<1>2. CASE \E r \in {"user", "admin"} : Login(r)
  BY <1>2, LoginStep
<1>3. ASSUME NEW n \in Notices, RegisterRejects(n) \/ LoginRejects(n)
      PROVE  IInv' /\ Seen
  <2>1. running /\ Show(n) /\ UNCHANGED <<running, destroyed, role, usersBtn, chosen>>
    BY <1>3 DEF RegisterRejects, LoginRejects, Clicks
  <2>2. n \in Others /\ n \notin {AddPopup.users, RowPopup.users}
    BY DEF Others, Notices, AddPopup, RowPopup
  <2>3. TypeOK'
    BY <1>3, <2>1, <2>2 DEF IInv, TypeOK, Show, RegisterRejects, LoginRejects
  <2> QED BY <2>1, <2>2, <2>3, ShowStep
<1>4. ASSUME NEW n \in Notices, NoticeOk(n)
      PROVE  IInv' /\ Seen
  <2>1. n \in Others
    BY DEF Others
  <2> QED BY <1>4, <2>1, HideStep DEF NoticeOk, Clicks
<1> QED BY <1>1, <1>2, <1>3, <1>4 DEF Outside

LEMMA InsideStep ==
  ASSUME IInv, Inside
  PROVE  IInv' /\ Seen
<1> DEFINE Inner == Nav!Inner
<1>1. Inner = Lists \union {"main", "profile"} /\ Inner \subseteq Pages
  BY DEF Nav!Inner, Lists, Pages
<1>2. CASE ProfileBack
  BY <1>1, <1>2, TurnSeen DEF ProfileBack
<1>3. ASSUME NEW p \in Lists \union {"main"}, Profile(p)
      PROVE  IInv' /\ Seen
  BY <1>1, <1>3, TurnSeen DEF Profile
<1>4. ASSUME NEW p \in Lists \union {"main"}, ActiveSessions(p)
      PROVE  IInv' /\ Seen
  <2>1. /\ "ActiveSessionsPage" \in Others
        /\ "ActiveSessionsPage" \notin {AddPopup.users, RowPopup.users}
    BY DEF Others, AddPopup, RowPopup
  <2>2. TypeOK'
    BY <1>4, <2>1 DEF IInv, TypeOK, ActiveSessions, Show
  <2> QED BY <1>4, <2>1, <2>2, ShowStep DEF ActiveSessions, Clicks
<1>5. ASSUME NEW l \in Lists, OpenList(l)
      PROVE  IInv' /\ Seen
  <2>1. Turns("main", l) /\ (l = "users" => usersBtn)
    BY <1>5 DEF OpenList
  <2>2. "main" \in shown /\ running
    BY <2>1 DEF Turns, Go, Clicks
  <2>3. role # "none"
    BY <1>1, <2>2 DEF IInv, Entered, Nav!Public
  <2>4. l = "users" => role = "admin"
    BY <2>1, <2>3 DEF IInv, ButtonAgrees
  <2>5. "main" \in Inner /\ l \in Inner
    BY <1>1
  <2> QED BY <1>1, <2>1, <2>4, <2>5, TurnSeen
<1>6. ASSUME NEW l \in Lists, ListBack(l)
      PROVE  IInv' /\ Seen
  BY <1>1, <1>6, TurnSeen DEF ListBack
<1> QED BY <1>2, <1>3, <1>4, <1>5, <1>6 DEF Inside

LEMMA PopupStep ==
  ASSUME IInv, Popups
  PROVE  IInv' /\ Seen
<1>1. CASE Choose
  <2>1. /\ running /\ running' /\ TypeOK'
        /\ UNCHANGED <<running, shown, destroyed, role, usersBtn>>
    BY <1>1 DEF Choose, Clicks, IInv, TypeOK
  <2> QED BY <2>1, AsideStep, AsideSeen
<1>2. CASE SaveCrashes
  <2>1. running /\ ~running' /\ TypeOK' /\ UNCHANGED <<role, usersBtn>>
    BY <1>2 DEF SaveCrashes, Clicks, IInv, TypeOK
  <2> QED BY <2>1, EndStep, EndSeen
<1>3. ASSUME NEW l \in Lists, Clicks(l)
      PROVE  l = "users" => role = "admin"
  BY <1>3 DEF Clicks, IInv, UsersForAdmins
<1>4. ASSUME NEW l \in Lists, Add(l)
      PROVE  IInv' /\ Seen
  <2>1. AddPopup[l] \in {AddPopup.users, RowPopup.users} => role = "admin"
    BY <1>3, <1>4, PopupNames DEF Add
  <2>2. TypeOK'
    BY <1>4, PopupNames DEF IInv, TypeOK, Add, Show
  <2> QED BY <1>4, <2>1, <2>2, PopupNames, ShowStep DEF Add, Clicks
<1>5. ASSUME NEW l \in Lists, RowActivated(l)
      PROVE  IInv' /\ Seen
  <2>1. RowPopup[l] \in {AddPopup.users, RowPopup.users} => role = "admin"
    BY <1>3, <1>5, PopupNames DEF RowActivated
  <2>2. TypeOK'
    BY <1>5, PopupNames DEF IInv, TypeOK, RowActivated, Show
  <2> QED BY <1>5, <2>1, <2>2, PopupNames, ShowStep DEF RowActivated, Clicks
<1>6. ASSUME NEW l \in Lists, AddDone(l)
      PROVE  IInv' /\ Seen
  BY <1>6, PopupNames, HideStep DEF AddDone, Clicks
<1>7. ASSUME NEW l \in Lists, RowDone(l)
      PROVE  IInv' /\ Seen
  BY <1>7, PopupNames, HideStep DEF RowDone, Clicks
<1> QED BY <1>1, <1>2, <1>4, <1>5, <1>6, <1>7 DEF Popups

LEMMA CloseStep ==
  ASSUME IInv, NEW w \in Pages \union Others, CloseWindow(w)
  PROVE  IInv' /\ Seen
<1>1. /\ running /\ shown' = shown \ {w} /\ destroyed' = destroyed \union {w}
      /\ running' = (w \notin QuitOnDestroy)
      /\ UNCHANGED <<role, usersBtn, connected, chosen>>
  BY DEF CloseWindow, Hide
<1>2. TypeOK'
  BY <1>1 DEF IInv, TypeOK
<1>3. CASE w \in QuitOnDestroy
  <2>1. ~running'
    BY <1>1, <1>3
  <2> QED BY <1>1, <1>2, <2>1, EndStep, EndSeen
<1>4. CASE w \notin QuitOnDestroy
  <2>1. running /\ running' /\ running' = running /\ w \notin Pages
    BY <1>1, <1>4, QuitNames
  <2>2. /\ shown' \intersect Pages = shown \intersect Pages
        /\ destroyed' \intersect Pages = destroyed \intersect Pages
    BY <1>1, <2>1
  <2>3. IInv'
    BY <1>1, <1>2, <2>1, <2>2, AsideStep
  <2> QED BY <1>1, <2>1, <2>2, <2>3, AsideSeen
<1> QED BY <1>3, <1>4

LEMMA NextStep ==
  ASSUME IInv, [Next]_vars
  PROVE  IInv' /\ Seen
<1>1. CASE Next
  BY <1>1, OutsideStep, InsideStep, PopupStep, CloseStep DEF Next
<1>2. CASE UNCHANGED vars
  <2>1. IInv'
    BY <1>2 DEF vars, IInv, TypeOK, OnePage, Entered, ButtonAgrees, UsersForAdmins
  <2>2. Seen
    BY <1>2, AsideSeen DEF vars
  <2> QED BY <2>1, <2>2
<1> QED BY <1>1, <1>2

-----------------------------------------------------------------------------
LEMMA Invariant == Spec => []IInv
<1>1. IInv /\ [Next]_vars => IInv'
  BY NextStep
<1> QED BY <1>1, InitInvariant, PTL DEF Spec

(* The variables of the client stay within their types. *)
THEOREM WindowTypes == Spec => []TypeOK
<1>1. IInv => TypeOK
  BY DEF IInv
<1> QED BY <1>1, Invariant, PTL

(* The users page and its popups are on an admin's screen only: users_btn  *)
(* and the role are written together, before the first page inside, and    *)
(* only the users page opens the popups.                                   *)
THEOREM UsersOfAdmins == Spec => []UsersForAdmins
<1>1. IInv => UsersForAdmins
  BY DEF IInv
<1> QED BY <1>1, Invariant, PTL

(* While the main loop runs there is a page that can be clicked: every page *)
(* ends the loop when it is destroyed, and a handler that hides one page    *)
(* shows another.                                                           *)
THEOREM PageInSight == Spec => []NeverUnseen
<1>1. IInv => NeverUnseen
  BY DEF IInv, OnePage, NeverUnseen
<1> QED BY <1>1, Invariant, PTL

(* The handlers together navigate as Navigation says. *)
THEOREM WindowsNavigate == Spec => Navigates
<1>1. Init => Nav!Init
  BY DEF Init, Nav!Init, Pages
<1>2. IInv /\ [Next]_vars => [Nav!Next]_(Nav!vars)
  BY NextStep DEF Seen
<1> QED BY <1>1, <1>2, Invariant, PTL DEF Spec, Navigates, Nav!Spec
=============================================================================
