---------------------------- MODULE MCRestaCore -----------------------------
(* Instances of RestaCore for TLC: clients, what their users do, one row   *)
(* per table to begin with.                                                *)
EXTENDS RestaCore, TLC

CONSTANTS c1, c2, c3, h1, h2, h3, ann, bob, p1, p2, pg1, pg2

(* One machine per client; c1 and c3 lead from the first one. *)
MCHostOf == [c \in Conns |-> IF c = c2 THEN h2 ELSE h1]
MCHostAt == [p \in Clients |-> IF p = p2 THEN h2 ELSE h1]

TheRef == [customer |-> 1, product |-> 1, user |-> 1]
MCRefs == {TheRef}

(* ann is registered, and there is one customer and one product. *)
MCInitDb ==
  [t \in Tables |-> [i \in Ids |->
     IF i = 1 /\ t # "Order" THEN ann ELSE NoRow]]

Cmd(k, v) == [kind |-> k, id |-> 1, val |-> v, wf |-> TRUE]

(* Before the first customer, and before the first user as well. *)
EmptyDb == [MCInitDb EXCEPT !["Customer"] = NoRows]
NewDb == [EmptyDb EXCEPT !["User"] = NoRows]

WithFetches(msgs) == msgs \union {Get(k) : k \in Fetches}

CustomerUser == {Cmd("LOGIN", ann), Cmd("CREATE_CUSTOMER", bob)}
CustomerMsgs == WithFetches(CustomerUser)

EveryUser ==
  {Cmd("LOGIN", ann), Cmd("REGISTER", ann)}
    \union {Cmd(k, bob) : k \in (Updates \union Deletes \union Inserts)
                                  \ {"REGISTER", "CREATE_ORDER"}}
EveryMsgs == WithFetches(EveryUser)

OrderUser == {Cmd("LOGIN", ann), Cmd("CREATE_ORDER", TheRef)}
OrderMsgs == WithFetches(OrderUser)
=============================================================================
