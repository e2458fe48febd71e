--------------------------- MODULE ActiveSessions ---------------------------
(***************************************************************************)
(* What sessions.txt promises to those who read it: a set of lines, each   *)
(* the address of a client machine and a user who logged in from it.  A    *)
(* login adds its line, the end of a connection takes away lines of its    *)
(* own machine and no other, and only the end of the server process may    *)
(* lose lines of everybody, and then it loses them all.                    *)
(*                                                                         *)
(* Server takes these steps with add_session and remove_session as single  *)
(* steps; SessionFile takes them one file operation at a time.             *)
(***************************************************************************)
CONSTANTS
  Addrs,    \* the addresses of client machines
  Users,    \* those who log in
  MayKeep   \* may an end leave lines of its machine behind?

VARIABLES
  running,  \* is the server process running?
  lines     \* the logins listed

vars == <<running, lines>>

Lines == [host : Addrs, user : Users]

Own(h) == {l \in lines : l.host = h}

Init == running = TRUE /\ lines = {}

(* add_session: a login from l.host is listed. *)
Add(l) ==
  /\ running
  /\ lines' = lines \union {l}
  /\ UNCHANGED running

(* remove_session: a connection from machine h has ended. *)
End(h) ==
  /\ running
  /\ \E kept \in SUBSET Own(h) :
       /\ kept # {} => MayKeep
       /\ lines' = (lines \ Own(h)) \union kept
  /\ UNCHANGED running

(* The server process ends, perhaps while the file is being replaced. *)
Die ==
  /\ running' = FALSE
  /\ lines' = lines \/ lines' = {}

Boot == running' = TRUE /\ UNCHANGED lines

Next ==
  \/ \E l \in Lines : Add(l)
  \/ \E h \in Addrs : End(h)
  \/ Die \/ Boot

Spec == Init /\ [][Next]_vars
=============================================================================
