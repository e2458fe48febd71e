------------------------------ MODULE MCServer ------------------------------
(* Instances of Server for TLC. *)
EXTENDS Server, TLC

CONSTANTS c1, c2, h1, h2, h3, ann, bob, pg1, pg2

MCOneHost == [c \in Conns |-> h1]

MCRefs == [customer : {1}, product : {1}, user : {1}]
TheRef == CHOOSE r \in MCRefs : TRUE

(* One registered user, ann, and nothing else. *)
Fresh == [i \in Ids |-> NoRow]
MCInitDb == [t \in Tables |-> IF t = "User" THEN [Fresh EXCEPT ![1] = ann] ELSE Fresh]

Cmd(k, v) == [kind |-> k, id |-> 1, val |-> v, wf |-> TRUE]
Bad(k) == [kind |-> k, id |-> 1, val |-> ann, wf |-> FALSE]

(* Connections from one host, and PostgreSQL's connections, are alike. *)
Alike == Permutations(Conns) \union Permutations(Handles)

(* Sessions, malformed input, an insert that leaks its connection. *)
CoreMsgs == {Cmd("LOGIN", ann), Bad("REGISTER"), Cmd("CREATE_CUSTOMER", ann)}

(* A login, a write that finishes, one that leaks, and two fetches in one. *)
LiveMsgs == {Cmd("LOGIN", ann), Cmd("DELETE_USER", ann), Cmd("UPDATE_USER", bob),
             Cmd("GET_CUSTOMERS_COMBOBOX", ann)}
=============================================================================
