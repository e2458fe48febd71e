------------------------------ MODULE Windows -------------------------------
(***************************************************************************)
(* The windows of the client (client.c).  The signal handlers of its       *)
(* buttons and rows hide and show top-level windows that exist from the    *)
(* start; no window is modal, so a popup stays usable while the page       *)
(* behind it changes.  The window manager may close any of them, which     *)
(* destroys it: some "destroy" signals end the main loop, and a destroyed  *)
(* window that is shown again is empty.  What the handlers send and        *)
(* receive is the subject of RestaCore; here the server's answers are free.*)
(***************************************************************************)
EXTENDS Naturals, FiniteSets

CONSTANTS
  MaxPopups,  \* bound: popups and notices on the screen at a time
  MaxClosed   \* bound: windows the window manager destroys

ASSUME BoundAssumption == MaxPopups \in Nat /\ MaxClosed \in Nat

VARIABLES
  running,    \* is gtk_main running?
  shown,      \* the windows on the screen
  destroyed,  \* the windows that were destroyed
  role,       \* current_user.role
  usersBtn,   \* is users_btn of MainPage visible?
  connected,  \* the notices whose OK button has a handler
  chosen      \* are a customer and a product chosen in AddOrderPopup?

vars == <<running, shown, destroyed, role, usersBtn, connected, chosen>>

-----------------------------------------------------------------------------
Lists == {"products", "customers", "orders", "users"}

Pages == {"welcome", "register", "login", "main", "profile"} \union Lists

AddPopup == [products |-> "AddProductPopup", customers |-> "AddCustomerPopup",
             orders |-> "AddOrderPopup", users |-> "AddUserPopup"]

RowPopup == [products |-> "UpdateDeleteProductPopup",
             customers |-> "UpdateDeleteCustomerPopup",
             orders |-> "DeleteOrderPopup", users |-> "UpdateDeleteUserPopup"]

Notices == {"EmptyField", "IncorrectPassword"}

Others == {AddPopup[l] : l \in Lists} \union {RowPopup[l] : l \in Lists}
            \union Notices \union {"ActiveSessionsPage"}

(* Mutant: a page whose "destroy" is not connected. *)
QuitOnDestroyMost == (Pages \ {"profile"}) \union {"AddProductPopup", "AddCustomerPopup"}

(* The windows whose "destroy" is connected to gtk_main_quit. *)
QuitOnDestroy == Pages \union {"AddProductPopup", "AddCustomerPopup"}

-----------------------------------------------------------------------------
Init ==
  /\ running = TRUE
  /\ shown = {"welcome"} /\ destroyed = {}
  /\ role = "none" /\ usersBtn = TRUE
  /\ connected = {}
  /\ chosen = FALSE

(* The user clicks in window w, which still has its contents. *)
Clicks(w) == running /\ w \in shown \ destroyed

(* A handler hides one page and shows another. *)
Go(p, q) ==
  /\ Clicks(p)
  /\ shown' = (shown \ {p}) \union {q}

Show(w) ==
  /\ Cardinality(shown \ Pages) < MaxPopups \/ w \in shown
  /\ shown' = shown \union {w}

Hide(w) == shown' = shown \ {w}

Turns(p, q) == Go(p, q) /\ UNCHANGED <<running, destroyed, role, usersBtn, connected, chosen>>

-----------------------------------------------------------------------------
(* Before the login. *)

LoginMain == Turns("welcome", "login")
RegisterMain == Turns("welcome", "register")
RegisterBack == Turns("register", "welcome")
LoginBack == Turns("login", "welcome")

(* on_register_button_clicked, when the server has registered the user *)
Register == Turns("register", "login")

(* A field is empty, or the two passwords differ. *)
RegisterRejects(n) ==
  /\ Clicks("register") /\ Show(n)
  /\ UNCHANGED <<running, destroyed, role, usersBtn, connected, chosen>>

(* Mutant: a token of the reply is not skipped, and the role is the password. *)
LoginShifted(r) ==
  /\ Go("login", "main")
  /\ role' = "password"
  /\ usersBtn' = (role' = "admin")
  /\ UNCHANGED <<running, destroyed, connected, chosen>>

(* on_login_button_clicked, answered with "true" and a role *)
Login(r) ==
  /\ Go("login", "main")
  /\ role' = r
  /\ usersBtn' = (r = "admin")
  /\ UNCHANGED <<running, destroyed, connected, chosen>>

(* A field is empty, the passwords differ, or the server refuses. *)
LoginRejects(n) ==
  /\ Clicks("login") /\ Show(n)
  /\ connected' = connected \union {n}
  /\ UNCHANGED <<running, destroyed, role, usersBtn, chosen>>

(* on_empty_field_ok_clicked, on_incorrect_password_ok_clicked *)
NoticeOk(n) ==
  /\ Clicks(n) /\ n \in connected
  /\ Hide(n)
  /\ UNCHANGED <<running, destroyed, role, usersBtn, connected, chosen>>

-----------------------------------------------------------------------------
(* The pages. *)

(* Mutant: the users button is not asked for. *)
OpenAnyList(l) == Turns("main", l)

(* on_products_btn_clicked, on_customers_btn_clicked, ... *)
OpenList(l) == (l = "users" => usersBtn) /\ Turns("main", l)

(* on_products_back_clicked, on_customers_back_btn_clicked, ... *)
ListBack(l) == Turns(l, "main")

(* Mutant: the handler of one list, copied from another, hides the wrong page. *)
ProfileCopied(p) ==
  /\ Clicks(p)
  /\ shown' = (shown \ {IF p = "orders" THEN "products" ELSE p}) \union {"profile"}
  /\ UNCHANGED <<running, destroyed, role, usersBtn, connected, chosen>>

(* on_profile_btn_clicked, on_profile_btn_products_clicked, ... *)
Profile(p) == Turns(p, "profile")

ProfileBack == Turns("profile", "main")

(* on_active_sessions_btn_clicked *)
ActiveSessions(p) ==
  /\ Clicks(p) /\ Show("ActiveSessionsPage")
  /\ UNCHANGED <<running, destroyed, role, usersBtn, connected, chosen>>

-----------------------------------------------------------------------------
(* The popups. *)

(* on_add_product_btn_clicked, ...; the boxes of an order are filled anew. *)
Add(l) ==
  /\ Clicks(l) /\ Show(AddPopup[l])
  /\ chosen' = IF l = "orders" THEN FALSE ELSE chosen
  /\ UNCHANGED <<running, destroyed, role, usersBtn, connected>>

(* The user chooses in the boxes of AddOrderPopup. *)
Choose ==
  /\ Clicks("AddOrderPopup") /\ ~chosen
  /\ chosen' = TRUE
  /\ UNCHANGED <<running, shown, destroyed, role, usersBtn, connected>>

(* on_save_product_btn_clicked, on_cancel_product_btn_clicked, ... *)
AddDone(l) ==
  /\ Clicks(AddPopup[l])
  /\ Hide(AddPopup[l])
  /\ UNCHANGED <<running, destroyed, role, usersBtn, connected, chosen>>

(* on_save_order_btn_clicked takes strlen of the NULL that is not chosen. *)
SaveCrashes ==
  /\ Clicks("AddOrderPopup") /\ ~chosen
  /\ running' = FALSE
  /\ UNCHANGED <<shown, destroyed, role, usersBtn, connected, chosen>>

(* on_product_row_double_clicked, ... *)
RowActivated(l) ==
  /\ Clicks(l) /\ Show(RowPopup[l])
  /\ UNCHANGED <<running, destroyed, role, usersBtn, connected, chosen>>

(* on_update_product_btn_clicked, on_delete_product_btn_clicked, on_cancel2_... *)
RowDone(l) ==
  /\ Clicks(RowPopup[l])
  /\ Hide(RowPopup[l])
  /\ UNCHANGED <<running, destroyed, role, usersBtn, connected, chosen>>

(* The window manager closes a window; the popups' handlers of "destroy" hide it. *)
CloseWindow(w) ==
  /\ running /\ w \in shown
  /\ Cardinality(destroyed \union {w}) <= MaxClosed
  /\ Hide(w)
  /\ destroyed' = destroyed \union {w}
  /\ running' = (w \notin QuitOnDestroy)
  /\ UNCHANGED <<role, usersBtn, connected, chosen>>

-----------------------------------------------------------------------------
Outside ==
  \/ LoginMain \/ RegisterMain \/ RegisterBack \/ LoginBack \/ Register
  \/ \E r \in {"user", "admin"} : Login(r)
  \/ \E n \in Notices : RegisterRejects(n) \/ LoginRejects(n) \/ NoticeOk(n)

Inside ==
  \/ ProfileBack
  \/ \E p \in Lists \union {"main"} : Profile(p) \/ ActiveSessions(p)
  \/ \E l \in Lists : OpenList(l) \/ ListBack(l)

Popups ==
  \/ Choose \/ SaveCrashes
  \/ \E l \in Lists : Add(l) \/ AddDone(l) \/ RowActivated(l) \/ RowDone(l)

Next == Outside \/ Inside \/ Popups \/ \E w \in Pages \union Others : CloseWindow(w)

Spec == Init /\ [][Next]_vars

-----------------------------------------------------------------------------
(* Every variable stays within its type. *)
TypeOK ==
  /\ running \in BOOLEAN
  /\ shown \subseteq Pages \union Others
  /\ destroyed \subseteq Pages \union Others
  /\ role \in {"none", "user", "admin"}
  /\ usersBtn \in BOOLEAN
  /\ connected \subseteq Notices
  /\ chosen \in BOOLEAN

(***************************************************************************)
(* The handlers, each of which hides and shows windows by name, together   *)
(* navigate as Navigation says: while the main loop runs there is exactly  *)
(* one page, and it leads back to MainPage.                                *)
(***************************************************************************)
Nav == INSTANCE Navigation
         WITH pages <- IF running THEN shown \intersect Pages ELSE {},
              admin <- (role = "admin")

Navigates == Nav!Spec

(***************************************************************************)
(* The accounts are open to admins only: the users page and its popups,    *)
(* which outlive the page, are on the screen of nobody else                *)
(* (on_login_button_clicked hides users_btn once, before MainPage shows).  *)
(***************************************************************************)
UsersForAdmins ==
  \A w \in {"users", AddPopup.users, RowPopup.users} :
    running /\ w \in shown => role = "admin"

(***************************************************************************)
(* The client does not run on without a page that answers the user: it     *)
(* would hold its connection, the server's thread and its session line.    *)
(***************************************************************************)
NeverUnseen == running => \E p \in Pages : p \in shown \ destroyed
=============================================================================
