----------------------------- MODULE Navigation -----------------------------
(***************************************************************************)
(* What the user of the client sees: one page at a time until the client   *)
(* ends.  The pages of the restaurant are behind the login, the list of    *)
(* users is for admins, and every other page is left by way of MainPage or *)
(* of the profile.                                                         *)
(***************************************************************************)
VARIABLES
  pages,  \* the pages on the screen, none when the client has ended
  admin   \* did an admin log in?

vars == <<pages, admin>>

Public == {"welcome", "register", "login"}
Inner == {"main", "profile", "products", "customers", "orders", "users"}

Init == pages = {"welcome"} /\ admin = FALSE

Move(p, q) == pages = {p} /\ pages' = {q} /\ UNCHANGED admin

MoveOutside == \E p, q \in Public : Move(p, q)

LogIn ==
  /\ pages = {"login"} /\ pages' = {"main"}
  /\ admin' \in BOOLEAN

MoveInside ==
  \E p, q \in Inner :
    /\ Move(p, q)
    /\ p = "main" \/ q \in {"main", "profile"}
    /\ q = "users" => admin

End == pages # {} /\ pages' = {} /\ UNCHANGED admin

Next == MoveOutside \/ LogIn \/ MoveInside \/ End

Spec == Init /\ [][Next]_vars
=============================================================================
