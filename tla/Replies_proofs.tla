--------------------------- MODULE Replies_proofs ---------------------------
(***************************************************************************)
(* Proofs about the conversations between the clients and the server: the  *)
(* reply a handler of client.c reads is the reply to its own request.      *)
(***************************************************************************)
EXTENDS RestaCore_proofs

-----------------------------------------------------------------------------
(* The parameters the results are about; README.md says why each is needed.*)

(* Nobody saves orders: no combobox request, no second socket. *)
NoOrders == \A m \in UserMsgs : m.kind # "CREATE_ORDER"

(* add_session can open its file, so a login is answered once. *)
Records == "add" \notin FileFaults

-----------------------------------------------------------------------------
(* The requests that are answered. *)
Answered == Auth \union Fetches

(* What a step of the server does to one connection c. *)

Kept(c) == inbox'[c] = inbox[c] /\ outbox'[c] = outbox[c]

Still(c) ==
  /\ Kept(c) /\ pc'[c] = pc[c] /\ buf'[c] = buf[c] /\ todo'[c] = todo[c]
  /\ cur'[c] = cur[c] /\ res'[c] = res[c]

Cut(c) ==
  /\ inbox'[c] = <<>> /\ outbox'[c] = outbox[c] /\ todo'[c] = {}
  /\ pc'[c] = IF sock[c] = "open" THEN "closed" ELSE "none"

Accepted(c) ==
  /\ Kept(c) /\ pc[c] = "backlog" /\ pc'[c] = "recv"
  /\ buf'[c] = buf[c] /\ todo'[c] = todo[c]

Received(c, n) ==
  /\ pc[c] = "recv" /\ n \in 1..MaxBatch /\ n <= Len(inbox[c])
  /\ outbox'[c] = outbox[c] /\ pc'[c] = "dispatch"
  /\ buf'[c] = SubSeq(inbox[c], 1, n)
  /\ inbox'[c] = SubSeq(inbox[c], n + 1, Len(inbox[c]))
  /\ todo'[c] = Branches(SubSeq(inbox[c], 1, n))

(* A branch of the chain starts: it has read its fields, or it has not. *)
Begun(c) ==
  /\ Kept(c) /\ pc[c] = "dispatch" /\ cur'[c] \in todo[c]
  /\ buf'[c] = buf[c] /\ todo'[c] = todo[c]
  /\ \/ /\ pc'[c] = "query"
        /\ cur'[c] \in Fetches \/ Scans(cur'[c], buf[c])
     \/ /\ pc'[c] = "answer" /\ res'[c].branch = "malformed"
        /\ cur'[c] \notin Fetches /\ ~Scans(cur'[c], buf[c])

Ran(c) ==
  /\ Kept(c) /\ pc[c] = "query" /\ pc'[c] = "answer"
  /\ buf'[c] = buf[c] /\ todo'[c] = todo[c] /\ cur'[c] = cur[c]
  /\ cur[c] \in Answered \ QueryFaults => Answers(cur[c], res'[c].branch)

Replies(c, r) == outbox'[c] = IF sock[c] = "open" THEN Append(outbox[c], r) ELSE outbox[c]

(* The branch returns, and may have sent its reply. *)
Returned(c) ==
  /\ pc[c] \in {"answer", "session"} /\ inbox'[c] = inbox[c]
  /\ todo'[c] = todo[c] \ {cur[c]}
  /\ pc'[c] = IF todo'[c] = {} THEN "recv" ELSE "dispatch"
  /\ todo'[c] # {} => buf'[c] = buf[c]
  /\ \/ outbox'[c] = outbox[c] /\ (pc[c] = "answer" => ~Answers(cur[c], res[c].branch))
     \/ /\ pc[c] = "answer"
        /\ \E r \in Reply : /\ r.to = cur[c] /\ cur[c] \in Auth \union Fetches
                            /\ cur[c] = "LOGIN" => r.says = "false"
                            /\ Replies(c, r)

(* add_session has written the line of a session. *)
Added(c) ==
  sock[c] = "open" => [host |-> HostOf[c], user |-> Head(buf[c]).val] \in sessions'

LoggedIn(c) ==
  /\ pc[c] = "answer" /\ pc'[c] = "session" /\ inbox'[c] = inbox[c]
  /\ buf'[c] = buf[c] /\ todo'[c] = todo[c] /\ cur'[c] = cur[c]
  /\ cur[c] = "LOGIN" /\ res[c].branch = "match"
  /\ \E r \in Reply : r.to = "LOGIN" /\ Replies(c, r)

Effect(c) ==
  \/ Still(c) \/ Cut(c) \/ Accepted(c) \/ Begun(c) \/ Ran(c) \/ LoggedIn(c)
  \/ \E n \in Nat : Received(c, n)
  \/ Returned(c) /\ (pc[c] = "session" => cur[c] = "LOGIN" /\ Added(c))

(***************************************************************************)
(* How the stages of a thread go together: no branch is left before and    *)
(* after a batch, nothing is in flight without a thread or without a       *)
(* client, and the running branch is one of those left; a login under way  *)
(* has read its fields from the head of the buffer.                        *)
(***************************************************************************)
ConnChain(c) ==
  /\ pc[c] \in {"none", "backlog", "recv", "closed"} => todo[c] = {}
  /\ pc[c] \in {"none", "closed"} => inbox[c] = <<>>
  /\ sock[c] # "open" => outbox[c] = <<>>
  /\ pc[c] \in Running => cur[c] \in todo[c]
  /\ pc[c] \in Running /\ cur[c] = "LOGIN" /\ ~(pc[c] = "answer" /\ res[c].branch = "malformed")
       => Head(buf[c]).kind = "LOGIN"

Chain == \A c \in Conns : ConnChain(c)

-----------------------------------------------------------------------------
(* Every step of the server is one of these, on every connection. *)

LEMMA ExitEffect ==
  ASSUME TypeOK, Exit, NEW c \in Conns
  PROVE  Cut(c)
BY DEF TypeOK, Exit, Cut

LEMMA DroppedEffect ==
  ASSUME TypeOK, Chain, NEW d \in Conns, Dropped(d), pc[d] \in {"backlog", "recv"},
         UNCHANGED <<outbox, buf, todo, cur, res>>, NEW c \in Conns
  PROVE  Cut(c) \/ Still(c)
<1>1. todo[d] = {}
  BY DEF Chain, ConnChain
<1>2. CASE c = d
  BY <1>1, <1>2 DEF TypeOK, Dropped, Cut
<1>3. CASE c # d
  BY <1>3 DEF TypeOK, Dropped, Still, Kept
<1> QED BY <1>2, <1>3

(* Returning, with nothing but the replies left to say. *)
LEMMA ReturnEffect ==
  ASSUME TypeOK, NEW d \in Conns, pc[d] \in {"answer", "session"}, Return(d), UNCHANGED inbox,
         NEW c \in Conns
  PROVE  /\ c = d => /\ inbox'[c] = inbox[c]
                     /\ todo'[c] = todo[c] \ {cur[c]}
                     /\ pc'[c] = IF todo'[c] = {} THEN "recv" ELSE "dispatch"
                     /\ todo'[c] # {} => buf'[c] = buf[c]
         /\ c # d /\ outbox'[c] = outbox[c] => Still(c)
<1>1. CASE c = d
  BY <1>1 DEF TypeOK, Return
<1>2. CASE c # d
  BY <1>2 DEF TypeOK, Return, Still, Kept
<1> QED BY <1>1, <1>2

LEMMA DeliverEffect ==
  ASSUME TypeOK, NEW d \in Conns, NEW r, Deliver(d, r), NEW c \in Conns
  PROVE  /\ c = d => Replies(c, r)
         /\ c # d => outbox'[c] = outbox[c]
BY DEF TypeOK, Deliver, Replies

LEMMA AnswerEffect ==
  ASSUME TypeOK, Shape, NEW d \in Conns, Answer(d), NEW c \in Conns
  PROVE  Effect(c)
<1> DEFINE r == [to |-> cur[d], says |-> SaysOf(cur[d], res[d].branch), rows |-> res[d].rows]
<1>1. /\ pc[d] = "answer" /\ res[d].branch # "match" /\ Return(d) /\ UNCHANGED inbox
      /\ \/ Answers(cur[d], res[d].branch) /\ Deliver(d, r)
         \/ ~Answers(cur[d], res[d].branch) /\ UNCHANGED outbox
  BY DEF Answer
<1>2. cur[d] \in Kinds /\ res[d] \in Result
  <2>1. cur[d] \in Kinds
    BY <1>1, RunsHandler DEF Running
  <2> QED BY <2>1 DEF TypeOK
<1>3. r \in Reply
  BY <1>2, SaysType DEF Reply, Result
<1>4. Answers(cur[d], res[d].branch) =>
        cur[d] \in Auth \union Fetches /\ (cur[d] = "LOGIN" => r.says = "false")
  BY <1>1 DEF Answers, SaysOf, Auth, Fetches
<1>5. r.to = cur[d]
  OBVIOUS
<1> HIDE DEF r
<1>6. CASE c = d
  <2>1. \/ Answers(cur[d], res[d].branch) /\ Replies(c, r)
        \/ ~Answers(cur[d], res[d].branch) /\ outbox'[c] = outbox[c]
    BY <1>1, <1>6, DeliverEffect
  <2>2. Returned(c)
    BY <1>1, <1>3, <1>4, <1>5, <1>6, <2>1, ReturnEffect DEF Returned
  <2> QED BY <1>1, <1>6, <2>2 DEF Effect
<1>7. CASE c # d
  BY <1>1, <1>7, DeliverEffect, ReturnEffect DEF Effect
<1> QED BY <1>6, <1>7

LEMMA AnswerLoginEffect ==
  ASSUME TypeOK, Shape, NEW d \in Conns, AnswerLogin(d), NEW c \in Conns
  PROVE  Effect(c)
<1> DEFINE r == [to |-> "LOGIN", says |-> "true", rows |-> NoRows]
<1>1. /\ pc[d] = "answer" /\ res[d].branch = "match" /\ Deliver(d, r)
      /\ pc' = [pc EXCEPT ![d] = "session"]
      /\ UNCHANGED <<inbox, buf, todo, cur, res>>
  BY DEF AnswerLogin
<1>2. cur[d] = "LOGIN"
  BY <1>1 DEF Shape, ThreadShape
<1>3. r \in Reply /\ r.to = "LOGIN"
  BY DEF Reply, Kinds, Auth, Says, NoRows, Rows, Row
<1> HIDE DEF r
<1>4. CASE c = d
  <2>1. Replies(c, r)
    BY <1>1, <1>4, DeliverEffect
  <2>2. LoggedIn(c)
    BY <1>1, <1>2, <1>3, <1>4, <2>1 DEF LoggedIn, TypeOK
  <2> QED BY <2>2 DEF Effect
<1>5. CASE c # d
  <2>1. Still(c)
    BY <1>1, <1>5, DeliverEffect DEF TypeOK, Still, Kept
  <2> QED BY <2>1 DEF Effect
<1> QED BY <1>4, <1>5

LEMMA AddSessionEffect ==
  ASSUME TypeOK, Shape, NEW d \in Conns, NEW a \in Addrs, AddSession(d, a), NEW c \in Conns
  PROVE  Effect(c)
<1>1. /\ pc[d] = "session" /\ Return(d) /\ UNCHANGED <<inbox, outbox>>
      /\ a = HostOf[d] \/ sock[d] = "reset"
      /\ sessions' = sessions \union {[host |-> a, user |-> Head(buf[d]).val]}
  BY DEF AddSession
<1>2. cur[d] = "LOGIN"
  BY <1>1 DEF Shape, ThreadShape
<1>3. CASE c = d
  <2>1. Added(c)
    BY <1>1, <1>3 DEF Added
  <2>2. Returned(c)
    BY <1>1, <1>3, ReturnEffect DEF Returned
  <2> QED BY <1>2, <1>3, <2>1, <2>2 DEF Effect
<1>4. CASE c # d
  BY <1>1, <1>4, ReturnEffect DEF Effect
<1> QED BY <1>3, <1>4

(* A statement that is not made to fail leads to a branch that answers. *)
LEMMA RunQueryRan ==
  ASSUME TypeOK, NEW c \in Conns, RunQuery(c)
  PROVE  Ran(c)
<1>1. PICK r : pc[c] = "query" /\ Executed(c, r)
  BY DEF RunQuery, QueryFails, Fetch, CheckLogin, Insert, Update, Delete
<1>2. ASSUME cur[c] \in Answered \ QueryFaults
      PROVE  Answers(cur[c], res'[c].branch)
  <2>1. cur[c] = "REGISTER" => Answers(cur[c], res'[c].branch)
    BY DEF Answers
  <2>2. CASE cur[c] = "LOGIN"
    <3>1. CheckLogin(c)
      BY <1>2, <2>2 DEF RunQuery, QueryFails, Fetch, Insert, Update, Delete, Inserts, Updates,
            Deletes, Fetches
    <3>2. Executed(c, Outcome("match")) \/ Executed(c, Outcome("nomatch"))
      BY <3>1 DEF CheckLogin
    <3>3. res'[c].branch \in {"match", "nomatch"}
      BY <3>2 DEF Executed, Outcome, TypeOK
    <3> QED BY <2>2, <3>3 DEF Answers
  <2>3. CASE cur[c] \in Fetches
    <3>1. Fetch(c)
      BY <1>2, <2>3 DEF RunQuery, QueryFails, CheckLogin, Insert, Update, Delete, Inserts,
            Updates, Deletes, Fetches
    <3>2. res'[c].branch = "done"
      BY <3>1 DEF Fetch, Executed, TypeOK
    <3> QED BY <2>3, <3>2 DEF Answers
  <2> QED BY <1>2, <2>1, <2>2, <2>3 DEF Answered, Auth
<1> QED BY <1>1, <1>2 DEF Executed, Ran, Kept, TypeOK

LEMMA ServerEffect ==
  ASSUME Records, TypeOK, Shape, Chain, ServerStep, NEW c \in Conns
  PROVE  Effect(c)
<1>1. CASE Restart
  BY <1>1 DEF Restart, thread, Effect, Still, Kept
<1>2. ASSUME NEW d \in Conns, AcceptLoop(d)
      PROVE  Effect(c)
  <2>1. CASE Accept(d)
    BY <2>1 DEF TypeOK, Accept, Effect, Accepted, Still, Kept
  <2>2. CASE Refuse(d)
    BY <2>2, DroppedEffect DEF Refuse, Effect
  <2> QED BY <1>2, <2>1, <2>2 DEF AcceptLoop
<1>3. ASSUME NEW d \in Conns, ThreadStep(d)
      PROVE  Effect(c)
  <2>1. ASSUME NEW n \in 1..MaxBatch, Receive(d, n)
        PROVE  Effect(c)
    <3>1. CASE c = d
      <4>1. Received(c, n) /\ n \in Nat
        BY <2>1, <3>1 DEF TypeOK, Receive, Received
      <4> QED BY <4>1 DEF Effect
    <3>2. CASE c # d
      BY <2>1, <3>2 DEF TypeOK, Receive, Effect, Still, Kept
    <3> QED BY <3>1, <3>2
  <2>2. CASE Disconnect(d)
    BY <2>2, DroppedEffect DEF Disconnect, Ending, Effect
  <2>3. ASSUME NEW h \in Kinds, Misparse(d, h)
        PROVE  Effect(c)
    <3>1. CASE c = d
      <4>1. Begun(c)
        BY <2>3, <3>1 DEF TypeOK, Misparse, IsNext, Outcome, Begun, Kept
      <4> QED BY <4>1 DEF Effect
    <3>2. CASE c # d
      BY <2>3, <3>2 DEF TypeOK, Misparse, Effect, Still, Kept
    <3> QED BY <3>1, <3>2
  <2>4. ASSUME NEW h \in Kinds, OpenDbFails(d, h)
        PROVE  Effect(c)
    BY <2>4, ExitEffect DEF OpenDbFails, Effect
  <2>5. ASSUME NEW h \in Kinds, NEW x \in Handles, OpenDb(d, h, x)
        PROVE  Effect(c)
    <3>1. CASE c = d
      <4>1. Begun(c)
        BY <2>5, <3>1 DEF TypeOK, OpenDb, IsNext, Begun, Kept
      <4> QED BY <4>1 DEF Effect
    <3>2. CASE c # d
      BY <2>5, <3>2 DEF TypeOK, OpenDb, Effect, Still, Kept
    <3> QED BY <3>1, <3>2
  <2>6. CASE RunQuery(d)
    <3>1. pc[d] = "query" /\ \E r : Executed(d, r)
      BY <2>6 DEF RunQuery, QueryFails, Fetch, CheckLogin, Insert, Update, Delete
    <3>2. CASE c = d
      <4>1. Ran(c)
        BY <2>6, <3>2, RunQueryRan
      <4> QED BY <4>1 DEF Effect
    <3>3. CASE c # d
      BY <3>1, <3>3 DEF TypeOK, Executed, Effect, Still, Kept
    <3> QED BY <3>2, <3>3
  <2>7. CASE Answer(d)
    BY <2>7, AnswerEffect
  <2>8. CASE AnswerLogin(d)
    BY <2>8, AnswerLoginEffect
  <2>9. CASE \E a \in Addrs : AddSession(d, a)
    BY <2>9, AddSessionEffect
  <2>10. CASE AddSessionFails(d)
    BY <2>10 DEF AddSessionFails, Records
  <2>11. CASE Sigpipe(d)
    BY <2>11, ExitEffect DEF Sigpipe, Effect
  <2> QED BY <1>3, <2>1, <2>2, <2>3, <2>4, <2>5, <2>6, <2>7, <2>8, <2>9, <2>10, <2>11
       DEF ThreadStep
<1> QED BY <1>1, <1>2, <1>3 DEF ServerStep

-----------------------------------------------------------------------------
(* The stages of a thread go together in every reachable state. *)

LEMMA EffectChain ==
  ASSUME Chain, SameOpen, NEW c \in Conns, Effect(c)
  PROVE  ConnChain(c)'
<1> USE DEF Running
<1>0. ConnChain(c) /\ (sock'[c] = "open" <=> sock[c] = "open")
  BY DEF Chain, SameOpen
<1>1. CASE Still(c)
  BY <1>0, <1>1 DEF Still, Kept, ConnChain
<1>2. CASE Cut(c)
  BY <1>0, <1>2 DEF Cut, ConnChain
<1>3. CASE Accepted(c)
  BY <1>0, <1>3 DEF Accepted, Kept, ConnChain
<1>4. CASE Begun(c)
  <2>1. /\ inbox'[c] = inbox[c] /\ outbox'[c] = outbox[c] /\ buf'[c] = buf[c]
        /\ todo'[c] = todo[c] /\ cur'[c] \in todo[c] /\ pc'[c] \in {"query", "answer"}
        /\ pc'[c] = "query" => cur'[c] \in Fetches \/ Scans(cur'[c], buf[c])
        /\ pc'[c] = "answer" => res'[c].branch = "malformed"
    BY <1>4 DEF Begun, Kept
  <2>2. pc'[c] = "query" /\ cur'[c] = "LOGIN" => Head(buf[c]).kind = "LOGIN"
    BY <2>1 DEF Scans, Fetches
  <2> QED BY <1>0, <2>1, <2>2 DEF ConnChain
<1>5. CASE Ran(c)
  <2>1. /\ inbox'[c] = inbox[c] /\ outbox'[c] = outbox[c] /\ buf'[c] = buf[c]
        /\ todo'[c] = todo[c] /\ cur'[c] = cur[c] /\ pc'[c] = "answer" /\ pc[c] = "query"
    BY <1>5 DEF Ran, Kept
  <2> QED BY <1>0, <2>1 DEF ConnChain
<1>6. CASE LoggedIn(c)
  BY <1>0, <1>6 DEF LoggedIn, Replies, ConnChain
<1>7. CASE \E n \in Nat : Received(c, n)
  BY <1>0, <1>7 DEF Received, ConnChain
<1>8. CASE Returned(c)
  <2>1. pc[c] \in {"answer", "session"} /\ inbox'[c] = inbox[c]
    BY <1>8 DEF Returned
  <2>2. pc'[c] \in {"recv", "dispatch"} /\ (pc'[c] = "recv" => todo'[c] = {})
    BY <1>8 DEF Returned
  <2>3. sock[c] # "open" => outbox'[c] = outbox[c]
    BY <1>8 DEF Returned, Replies
  <2> QED BY <1>0, <2>1, <2>2, <2>3 DEF ConnChain
<1> QED BY <1>1, <1>2, <1>3, <1>4, <1>5, <1>6, <1>7, <1>8 DEF Effect

LEMMA ClientChain ==
  ASSUME TypeOK, Shape, Chain, NEW d \in Conns, ClientStep(d), NEW c \in Conns
  PROVE  ConnChain(c)'
<1> USE DEF Running
<1>0. ConnChain(c) /\ ConnChain(d) /\ ConnShape(d)
  BY DEF Chain, Shape
<1>1. CASE Connect(d)
  BY <1>0, <1>1 DEF TypeOK, Connect, ConnChain, ConnShape
<1>2. CASE Close(d)
  BY <1>0, <1>2 DEF TypeOK, Close, ConnChain
<1>3. CASE \E m \in Msgs : Send(d, m)
  BY <1>0, <1>3 DEF TypeOK, Send, thread, ConnChain, ConnShape
<1>4. CASE \E n \in 1..Len(outbox[d]) : Read(d, n)
  BY <1>0, <1>4 DEF TypeOK, Read, thread, ConnChain
<1> QED BY <1>1, <1>2, <1>3, <1>4 DEF ClientStep

LEMMA ChainInit == Init => Chain
BY DEF Init, Chain, ConnChain, Running

LEMMA ChainNext ==
  ASSUME Records, TypeOK, Shape, Chain, [Next]_vars
  PROVE  Chain'
<1>1. CASE ServerStep
  BY <1>1, ServerEffect, ServerOpen, EffectChain DEF Chain
<1>2. CASE \E d \in Conns : ClientStep(d)
  BY <1>2, ClientChain DEF Chain
<1>3. CASE UNCHANGED vars
  BY <1>3 DEF vars, thread, Chain, ConnChain
<1> QED BY <1>1, <1>2, <1>3 DEF Next, ServerStep

-----------------------------------------------------------------------------
(* The replies a connection still owes to its client. *)

(* The requests that trigger one branch of the chain, and are answered. *)
Plain == Auth \union Listings

(* The branches of the batch whose reply is still to come. *)
Awaited(c) == {h \in todo[c] \intersect Answered : h = "LOGIN" => pc[c] # "session"}

(***************************************************************************)
(* At most one reply is under way, to a request of a kind in K: it is in   *)
(* the outbox, or its branch is among those left, or its request has not   *)
(* been received.                                                          *)
(***************************************************************************)
Owes(c, K) ==
  /\ \A i \in DOMAIN inbox[c] : inbox[c][i].kind \in Answered =>
       /\ inbox[c][i].kind \in K
       /\ Awaited(c) = {} /\ outbox[c] = <<>>
       /\ \A j \in DOMAIN inbox[c] : inbox[c][j].kind \in Answered => j = i
  /\ Awaited(c) \subseteq K
  /\ Awaited(c) # {} => outbox[c] = <<>>
  /\ Len(outbox[c]) <= 1
  /\ \A i \in DOMAIN outbox[c] : outbox[c][i].to \in K

(* What is left to run is no more than it was. *)
LEMMA OwesLess ==
  ASSUME NEW c \in Conns, NEW K, Owes(c, K),
         inbox'[c] \in {inbox[c], <<>>}, outbox'[c] = outbox[c],
         Awaited(c)' \subseteq Awaited(c)
  PROVE  Owes(c, K)'
<1> DEFINE A == Awaited(c)
           B == Awaited(c)'
<1>0. /\ \A i \in DOMAIN inbox[c] : inbox[c][i].kind \in Answered =>
            /\ inbox[c][i].kind \in K
            /\ A = {} /\ outbox[c] = <<>>
            /\ \A j \in DOMAIN inbox[c] : inbox[c][j].kind \in Answered => j = i
      /\ A \subseteq K
      /\ A # {} => outbox[c] = <<>>
      /\ Len(outbox[c]) <= 1
      /\ \A i \in DOMAIN outbox[c] : outbox[c][i].to \in K
  BY DEF Owes
<1> HIDE DEF A, B
<1>1. B \subseteq A
  BY DEF A, B
<1>2. /\ \A i \in DOMAIN inbox'[c] : inbox'[c][i].kind \in Answered =>
            /\ inbox'[c][i].kind \in K
            /\ B = {} /\ outbox'[c] = <<>>
            /\ \A j \in DOMAIN inbox'[c] : inbox'[c][j].kind \in Answered => j = i
      /\ B \subseteq K
      /\ B # {} => outbox'[c] = <<>>
      /\ Len(outbox'[c]) <= 1
      /\ \A i \in DOMAIN outbox'[c] : outbox'[c][i].to \in K
  BY <1>0, <1>1
<1> QED BY <1>2 DEF Owes, B

(* A reply is sent. *)
LEMMA OwesReplied ==
  ASSUME NEW c \in Conns, NEW K, \A k, l \in K : k = l, Owes(c, K),
         NEW r, r.to \in Awaited(c), outbox'[c] = Append(outbox[c], r),
         inbox'[c] = inbox[c], Awaited(c)' \subseteq Awaited(c) \ {r.to}
  PROVE  Owes(c, K)'
<1>1. /\ outbox[c] = <<>> /\ r.to \in K /\ Awaited(c)' = {}
      /\ \A i \in DOMAIN inbox[c] : inbox[c][i].kind \notin Answered
  BY DEF Owes
<1>2. outbox'[c] = <<r>>
  BY <1>1
<1> QED BY <1>1, <1>2 DEF Owes

(* The two parts a receive splits the requests in flight into. *)
LEMMA SplitParts ==
  ASSUME NEW S, NEW s \in Seq(S), NEW n \in 1..Len(s)
  PROVE  /\ SubSeq(s, 1, n) \in Seq(S) /\ Len(SubSeq(s, 1, n)) = n
         /\ \A i \in 1..n : SubSeq(s, 1, n)[i] = s[i]
         /\ SubSeq(s, n + 1, Len(s)) \in Seq(S) /\ Len(SubSeq(s, n + 1, Len(s))) = Len(s) - n
         /\ \A j \in 1..(Len(s) - n) : SubSeq(s, n + 1, Len(s))[j] = s[n + j]
<1>1. n \in Nat \ {0} /\ n <= Len(s)
  OBVIOUS
<1>2. SubSeq(s, 1, n) \in Seq(S) /\ SubSeq(s, n + 1, Len(s)) \in Seq(S)
  BY <1>1, SplitType
<1>3. /\ Len(SubSeq(s, 1, n)) = n
      /\ \A i \in 1..n : SubSeq(s, 1, n)[i] = s[i]
  OBVIOUS
<1>4. /\ Len(SubSeq(s, n + 1, Len(s))) = Len(s) - n
      /\ \A j \in 1..(Len(s) - n) : SubSeq(s, n + 1, Len(s))[j] = s[n + j]
  OBVIOUS
<1> QED BY <1>2, <1>3, <1>4

(* A batch is received. *)
LEMMA OwesReceived ==
  ASSUME TypeOK, NEW c \in Conns, ConnChain(c), NEW K, K \subseteq Plain, Owes(c, K),
         NEW n \in Nat, Received(c, n)
  PROVE  Owes(c, K)'
<1> DEFINE b == inbox[c]
<1>1. /\ b \in Seq(Msgs) /\ n \in 1..Len(b) /\ outbox'[c] = outbox[c]
      /\ inbox'[c] = SubSeq(b, n + 1, Len(b))
      /\ pc'[c] = "dispatch" /\ todo'[c] = Branches(SubSeq(b, 1, n))
  BY DEF TypeOK, Received
<1>2. Awaited(c) = {}
  BY DEF Received, ConnChain, Awaited
<1>3. /\ Len(inbox'[c]) = Len(b) - n
      /\ \A j \in 1..(Len(b) - n) : inbox'[c][j] = b[n + j]
      /\ Len(SubSeq(b, 1, n)) = n
      /\ \A i \in 1..n : SubSeq(b, 1, n)[i] = b[i]
  BY <1>1, SplitParts
<1>4. \A i \in 1..Len(b) : b[i].kind \in Answered =>
        /\ b[i].kind \in K /\ outbox[c] = <<>>
        /\ \A j \in 1..Len(b) : b[j].kind \in Answered => j = i
  BY <1>1 DEF Owes
<1>5. ASSUME NEW h \in Awaited(c)'
      PROVE  \E i \in 1..n : h = b[i].kind /\ h \in Answered
  <2>1. h \in Branches(SubSeq(b, 1, n)) /\ h \in Answered
    BY <1>1 DEF Awaited
  <2>2. PICK i \in 1..n : h \in Keywords(b[i].kind)
    BY <1>1, <1>3, <2>1 DEF Branches
  <2>3. b[i].kind \in Answered => b[i].kind \in Plain
    BY <1>1, <1>4
  <2>4. Keywords(b[i].kind) = {b[i].kind}
    BY <2>3 DEF Keywords, Answered, Plain, Auth, Fetches, Listings
  <2> QED BY <2>1, <2>2, <2>4
<1> HIDE DEF b
<1>6. ASSUME NEW j \in 1..(Len(b) - n), inbox'[c][j].kind \in Answered
      PROVE  /\ inbox'[c][j].kind \in K /\ outbox[c] = <<>> /\ Awaited(c)' = {}
             /\ \A l \in 1..(Len(b) - n) : inbox'[c][l].kind \in Answered => l = j
  <2>1. n + j \in 1..Len(b) /\ b[n + j].kind \in Answered
    BY <1>1, <1>3, <1>6
  <2>2. \A i \in 1..n : i \in 1..Len(b) /\ i # n + j
    BY <1>1
  <2>3. Awaited(c)' = {}
    BY <1>4, <1>5, <2>1, <2>2
  <2>4. ASSUME NEW l \in 1..(Len(b) - n), inbox'[c][l].kind \in Answered
        PROVE  l = j
    <3>1. n + l \in 1..Len(b) /\ b[n + l].kind \in Answered
      BY <1>1, <1>3, <2>4
    <3>2. n + l = n + j
      BY <1>4, <2>1, <3>1
    <3> QED BY <1>1, <3>2
  <2> QED BY <1>3, <1>4, <2>1, <2>3, <2>4
<1>7. Awaited(c)' \subseteq K /\ (Awaited(c)' # {} => outbox[c] = <<>>)
  <2>1. \A i \in 1..n : i \in 1..Len(b)
    BY <1>1
  <2> QED BY <1>4, <1>5, <2>1
<1>8. DOMAIN inbox'[c] = 1..(Len(b) - n)
  BY <1>1, <1>3
<1>9. Len(outbox[c]) <= 1 /\ \A i \in DOMAIN outbox[c] : outbox[c][i].to \in K
  BY DEF Owes
<1> QED BY <1>1, <1>6, <1>7, <1>8, <1>9 DEF Owes

LEMMA EffectOwes ==
  ASSUME TypeOK, NEW c \in Conns, ConnChain(c), sock[c] = "open",
         NEW K, K \subseteq Plain, \A k, l \in K : k = l, Owes(c, K), Effect(c)
  PROVE  Owes(c, K)'
<1>1. CASE Still(c) \/ Cut(c) \/ Accepted(c) \/ Begun(c) \/ Ran(c)
  <2>1. inbox'[c] \in {inbox[c], <<>>} /\ outbox'[c] = outbox[c]
    BY <1>1 DEF Still, Cut, Accepted, Begun, Ran, Kept
  <2>2. \/ todo'[c] = todo[c] /\ (pc[c] = "session" => pc'[c] = "session")
        \/ todo'[c] = {}
    BY <1>1 DEF Still, Cut, Accepted, Begun, Ran
  <2>3. Awaited(c)' \subseteq Awaited(c)
    BY <2>2 DEF Awaited
  <2> QED BY <2>1, <2>3, OwesLess
<1>2. CASE LoggedIn(c)
  <2>1. PICK r \in Reply : r.to = "LOGIN" /\ Replies(c, r)
    BY <1>2 DEF LoggedIn
  <2>2. "LOGIN" \in Awaited(c)
    BY <1>2 DEF LoggedIn, ConnChain, Awaited, Answered, Auth, Running
  <2>3. Awaited(c)' \subseteq Awaited(c) \ {"LOGIN"}
    BY <1>2 DEF LoggedIn, Awaited
  <2> QED BY <1>2, <2>1, <2>2, <2>3, OwesReplied DEF LoggedIn, Replies
<1>3. CASE \E n \in Nat : Received(c, n)
  BY <1>3, OwesReceived
<1>4. CASE Returned(c) /\ (pc[c] = "session" => cur[c] = "LOGIN")
  <2>1. /\ inbox'[c] = inbox[c] /\ todo'[c] = todo[c] \ {cur[c]}
        /\ pc[c] \in {"answer", "session"} /\ cur[c] \in todo[c] /\ pc'[c] # "session"
    BY <1>4 DEF Returned, ConnChain, Running
  <2>2. Awaited(c)' \subseteq Awaited(c) \ {cur[c]}
    BY <1>4, <2>1 DEF Awaited
  <2>3. CASE outbox'[c] = outbox[c]
    BY <2>1, <2>2, <2>3, OwesLess
  <2>4. ASSUME NEW r \in Reply, r.to = cur[c], cur[c] \in Auth \union Fetches,
               pc[c] = "answer", Replies(c, r)
        PROVE  Owes(c, K)'
    <3>1. r.to \in Awaited(c)
      BY <2>1, <2>4 DEF Awaited, Answered
    <3> QED BY <2>1, <2>2, <2>4, <3>1, OwesReplied DEF Replies
  <2> QED BY <1>4, <2>3, <2>4 DEF Returned
<1> QED BY <1>1, <1>2, <1>3, <1>4 DEF Effect

-----------------------------------------------------------------------------
(* What a client does, when nobody saves orders. *)

Changed == (Inserts \union Updates \union Deletes) \ {"REGISTER", "CREATE_ORDER"}

Refresh(m) == Get(Listing(TableOf(m.kind)))
Recvs(m) == <<Step("recv", "main", m)>>

(* The handlers of the pages send a write or not, ask, and wait. *)
Talks(p) ==
  /\ second[p] = NoConn
  /\ \/ script[p] = <<>>
     \/ script[p] = <<Closes("main")>>
     \/ \E m \in Msgs : /\ m.kind \in Plain /\ script[p] \in {Ask("main", m), Recvs(m)}
                        /\ m.kind \in Auth <=> page[p] = "auth"
     \/ \E m \in Msgs : m.kind \in Changed /\ script[p] = Change(m) /\ page[p] # "auth"

Talking == \A p \in Clients : Talks(p)

Started(p) ==
  /\ main[p] = NoConn /\ script'[p] = <<>> /\ page'[p] = "auth" /\ user'[p] = Nobody
  /\ \E c \in Conns : HostOf[c] = HostAt[p] /\ Connect(c) /\ main'[p] = c

Began(p) ==
  /\ UNCHANGED vars /\ script[p] = <<>> /\ main'[p] = main[p] /\ user'[p] = user[p]
  /\ page'[p] = "auth" <=> page[p] = "auth"
  /\ \/ script'[p] = <<>>
     \/ \E m \in Msgs : /\ m.kind \in Plain /\ script'[p] = Ask("main", m)
                        /\ m.kind \in Auth <=> page'[p] = "auth"
     \/ \E m \in Msgs : m.kind \in Changed /\ script'[p] = Change(m) /\ page'[p] # "auth"

Ended(p) ==
  /\ UNCHANGED vars /\ main'[p] = main[p] /\ user'[p] = user[p] /\ page'[p] = page[p]
  /\ script'[p] = <<Closes("main")>>

Sent(p, m) ==
  /\ main'[p] = main[p] /\ user'[p] = user[p] /\ page'[p] = page[p]
  /\ \/ pc[main[p]] = "closed" /\ UNCHANGED vars
     \/ Send(main[p], m)
  /\ \/ /\ m.kind \in Plain /\ script[p] = Ask("main", m) /\ script'[p] = Recvs(m)
        /\ m.kind \in Auth <=> page[p] = "auth"
     \/ /\ m.kind \in Changed /\ script[p] = Change(m) /\ page[p] # "auth"
        /\ script'[p] = Ask("main", Refresh(m))

Heard(p, m) ==
  /\ main'[p] = main[p] /\ script[p] = Recvs(m) /\ script'[p] = <<>> /\ m.kind \in Plain
  /\ \E n \in 1..Len(outbox[main[p]]) : Read(main[p], n)
  /\ IF m.kind = "LOGIN" /\ Head(outbox[main[p]]).says = "true"
     THEN user'[p] = m.val /\ page'[p] = "Main"
     ELSE user'[p] = user[p] /\ page'[p] = page[p]

Missed(p) ==
  /\ UNCHANGED vars /\ main'[p] = main[p] /\ user'[p] = user[p] /\ page'[p] = page[p]
  /\ pc[main[p]] = "closed" /\ outbox[main[p]] = <<>> /\ script'[p] = <<>>

Hung(p) == main'[p] = NoConn /\ script'[p] = <<>> /\ Close(main[p])

Act(p) ==
  \/ Started(p) \/ Began(p) \/ Ended(p) \/ Missed(p) \/ Hung(p)
  \/ \E m \in Msgs : Sent(p, m) \/ Heard(p, m)

(* A step put before two others. *)
LEMMA ThreeSteps ==
  ASSUME NEW S, NEW a \in S, NEW b \in S, NEW c \in S
  PROVE  <<a>> \o <<b, c>> = <<a, b, c>>
<1>1. /\ <<a>> \o <<b, c>> \in Seq(S) /\ Len(<<a>> \o <<b, c>>) = 3
      /\ <<a, b, c>> \in Seq(S) /\ Len(<<a, b, c>>) = 3
  OBVIOUS
<1>2. /\ (<<a>> \o <<b, c>>)[1] = a /\ (<<a>> \o <<b, c>>)[2] = b
      /\ (<<a>> \o <<b, c>>)[3] = c
  OBVIOUS
<1>3. \A i \in 1..3 : (<<a>> \o <<b, c>>)[i] = <<a, b, c>>[i]
  BY <1>2
<1> QED BY <1>1, <1>3, SeqEqual

(* The steps of the scripts, one after the other. *)
LEMMA ScriptParts ==
  ASSUME NEW m \in Msgs
  PROVE  /\ Ask("main", m) # <<>> /\ Head(Ask("main", m)) = Step("send", "main", m)
         /\ Tail(Ask("main", m)) = Recvs(m)
         /\ Recvs(m) # <<>> /\ Head(Recvs(m)) = Step("recv", "main", m)
         /\ Tail(Recvs(m)) = <<>>
         /\ Change(m) # <<>> /\ Head(Change(m)) = Step("send", "main", m)
         /\ Tail(Change(m)) = Ask("main", Refresh(m))
         /\ <<Closes("main")>> # <<>> /\ Head(<<Closes("main")>>) = Closes("main")
         /\ Tail(<<Closes("main")>>) = <<>>
<1> DEFINE a == Step("send", "main", m)
           d == Step("recv", "main", m)
           b == Step("send", "main", Refresh(m))
           c == Step("recv", "main", Refresh(m))
           e == Closes("main")
<1>1. /\ Ask("main", m) = <<a, d>> /\ Recvs(m) = <<d>>
      /\ Ask("main", Refresh(m)) = <<b, c>>
      /\ Change(m) = <<a>> \o <<b, c>>
  BY DEF Ask, Change, Refresh, Recvs
<1> HIDE DEF a, b, c, d, e
<1>2. <<a>> \o <<b, c>> = <<a, b, c>>
  <2>1. a \in {a, b, c} /\ b \in {a, b, c} /\ c \in {a, b, c}
    OBVIOUS
  <2> QED BY <2>1, ThreeSteps
<1>3. /\ Head(<<a, b, c>>) = a /\ Tail(<<a, b, c>>) = <<b, c>> /\ <<a, b, c>> # <<>>
      /\ Head(<<a, d>>) = a /\ Tail(<<a, d>>) = <<d>> /\ <<a, d>> # <<>>
      /\ Head(<<d>>) = d /\ Tail(<<d>>) = <<>> /\ <<d>> # <<>>
      /\ Head(<<e>>) = e /\ Tail(<<e>>) = <<>> /\ <<e>> # <<>>
  OBVIOUS
<1> QED BY <1>1, <1>2, <1>3 DEF a, d, e

(* The kinds of steps of the scripts. *)
LEMMA NextTalk ==
  ASSUME NEW p \in Clients, Talks(p), script[p] # <<>>
  PROVE  /\ Head(script[p]).on = "main" /\ Head(script[p]).op # "open"
         /\ Head(script[p]).op = "close" => script[p] = <<Closes("main")>>
         /\ Head(script[p]).op = "recv" =>
              \E m \in Msgs : /\ m.kind \in Plain /\ script[p] = Recvs(m)
                              /\ m.kind \in Auth <=> page[p] = "auth"
         /\ Head(script[p]).op = "send" =>
              \E m \in Msgs :
                \/ /\ m.kind \in Plain /\ script[p] = Ask("main", m)
                   /\ m.kind \in Auth <=> page[p] = "auth"
                \/ m.kind \in Changed /\ script[p] = Change(m) /\ page[p] # "auth"
<1>1. CASE script[p] = <<Closes("main")>>
  <2>1. Head(script[p]) = Closes("main")
    BY <1>1
  <2> QED BY <1>1, <2>1 DEF Closes, Step
<1>2. ASSUME NEW m \in Msgs, m.kind \in Plain, m.kind \in Auth <=> page[p] = "auth",
             script[p] = Ask("main", m) \/ script[p] = Recvs(m)
      PROVE  /\ Head(script[p]).on = "main" /\ Head(script[p]).op \in {"send", "recv"}
             /\ Head(script[p]).op = "recv" => script[p] = Recvs(m)
             /\ Head(script[p]).op = "send" => script[p] = Ask("main", m)
  <2>1. CASE script[p] = Ask("main", m)
    <3>1. Head(script[p]) = Step("send", "main", m)
      BY <2>1, ScriptParts
    <3> QED BY <2>1, <3>1 DEF Step
  <2>2. CASE script[p] = Recvs(m)
    <3>1. Head(script[p]) = Step("recv", "main", m)
      BY <2>2, ScriptParts
    <3> QED BY <2>2, <3>1 DEF Step
  <2> QED BY <1>2, <2>1, <2>2
<1>3. ASSUME NEW m \in Msgs, m.kind \in Changed, script[p] = Change(m)
      PROVE  Head(script[p]).on = "main" /\ Head(script[p]).op = "send"
  <2>1. Head(script[p]) = Step("send", "main", m)
    BY <1>3, ScriptParts
  <2> QED BY <2>1 DEF Step
<1> QED BY <1>1, <1>2, <1>3 DEF Talks

(* A step of one client leaves the others as they are. *)
Others(p) ==
  /\ second' = second
  /\ \A q \in Clients \ {p} : /\ main'[q] = main[q] /\ script'[q] = script[q]
                              /\ page'[q] = page[q] /\ user'[q] = user[q]

LEMMA UserActs ==
  ASSUME NoOrders, CInv, NEW p \in Clients, Talks(p), UserStep(p)
  PROVE  Act(p) /\ Others(p)
<1>1. CASE Start(p)
  <2>1. Started(p)
    BY <1>1 DEF Start, Started, CInv, CTypeOK
  <2>2. Others(p)
    BY <1>1 DEF Start, Others, CInv, CTypeOK
  <2> QED BY <2>1, <2>2 DEF Act
<1>2. CASE Back(p)
  <2>1. Began(p)
    BY <1>2 DEF Back, Begins, Began, CInv, CTypeOK, Tables
  <2>2. Others(p)
    BY <1>2 DEF Back, Begins, Others, CInv, CTypeOK
  <2> QED BY <2>1, <2>2 DEF Act
<1>3. CASE AddOrder(p)
  BY <1>3 DEF AddOrder, NoOrders
<1>4. ASSUME NEW t \in Tables, OpenPage(p, t)
      PROVE  Act(p) /\ Others(p)
  <2> DEFINE m == Get(Listing(t))
  <2>1. m \in Msgs /\ m.kind \in Listings
    <3>1. Listing(t) \in Listings /\ Listing(t) \in Fetches
      BY GetType
    <3> QED BY <3>1, GetType
  <2>2. m.kind \in Plain /\ m.kind \notin Auth
    BY <2>1 DEF Plain, Auth, Listings
  <2>3. /\ UNCHANGED vars /\ UNCHANGED <<main, second, user>>
        /\ script[p] = <<>> /\ script' = [script EXCEPT ![p] = Ask("main", m)]
        /\ page[p] = "Main" /\ page' = [page EXCEPT ![p] = t]
    BY <1>4 DEF OpenPage, Begins
  <2> HIDE DEF m
  <2>4. script'[p] = Ask("main", m) /\ page'[p] = t /\ t # "auth"
    BY <2>3 DEF CInv, CTypeOK, Tables
  <2>5. Began(p)
    BY <2>1, <2>2, <2>3, <2>4 DEF Began
  <2>6. Others(p)
    BY <2>3 DEF Others, CInv, CTypeOK
  <2> QED BY <2>5, <2>6 DEF Act
<1>5. ASSUME NEW m \in UserMsgs, Authenticate(p, m)
      PROVE  Act(p) /\ Others(p)
  <2>1. m \in Msgs /\ m.kind \in Plain
    BY <1>5, ClientAssumption DEF Authenticate, Plain
  <2>2. Began(p)
    BY <1>5, <2>1 DEF Authenticate, Begins, Began, CInv, CTypeOK
  <2>3. Others(p)
    BY <1>5 DEF Authenticate, Begins, Others, CInv, CTypeOK
  <2> QED BY <2>2, <2>3 DEF Act
<1>6. ASSUME NEW m \in UserMsgs, Edit(p, m)
      PROVE  Act(p) /\ Others(p)
  <2>1. m \in Msgs /\ m.kind \in Changed
    BY <1>6, ClientAssumption DEF Edit, Changed
  <2>2. Began(p)
    <3>1. page'[p] # "auth"
      BY <1>6 DEF Edit, TableOf
    <3>2. /\ UNCHANGED <<vars, main, page, user>> /\ script[p] = <<>>
          /\ script' = [script EXCEPT ![p] = Change(m)]
      BY <1>6 DEF Edit, Begins
    <3>3. script'[p] = Change(m)
      BY <3>2 DEF CInv, CTypeOK
    <3> QED BY <2>1, <3>1, <3>2, <3>3 DEF Began
  <2>3. Others(p)
    BY <1>6 DEF Edit, Begins, Others, CInv, CTypeOK
  <2> QED BY <2>2, <2>3 DEF Act
<1>7. ASSUME NEW m \in UserMsgs, Order(p, m)
      PROVE  FALSE
  BY <1>7 DEF Order, NoOrders
<1>8. CASE Quit(p) /\ second[p] = NoConn
  <2>1. Ended(p)
    BY <1>8 DEF Quit, Ended, CInv, CTypeOK
  <2>2. Others(p)
    BY <1>8 DEF Quit, Others, CInv, CTypeOK
  <2> QED BY <2>1, <2>2 DEF Act
<1> QED BY <1>1, <1>2, <1>3, <1>4, <1>5, <1>6, <1>7, <1>8 DEF UserStep, Talks

LEMMA ScriptActs ==
  ASSUME CInv, NEW p \in Clients, Talks(p), ScriptStep(p)
  PROVE  Act(p) /\ Others(p)
<1> DEFINE c == main[p]
<1>0. /\ CTypeOK /\ Scripts
      /\ \A m \in Msgs : Step("recv", "main", m).msg = m /\ Step("send", "main", m).msg = m
  BY DEF CInv, Step
<1>1. ASSUME script[p] # <<>>, Head(script[p]).op # "open"
      PROVE  /\ Head(script[p]).on = "main" /\ SocketOf(p, Head(script[p]).on) = c /\ c \in Conns
  BY <1>0, <1>1, NextTalk, NextOfScript DEF SocketOf
<1>2. CASE DoSend(p)
  <2>1. /\ script[p] # <<>> /\ Head(script[p]).op = "send"
        /\ script' = [script EXCEPT ![p] = Tail(script[p])]
        /\ UNCHANGED <<main, second, page, user>>
        /\ LET d == SocketOf(p, Head(script[p]).on) IN
           IF pc[d] = "closed" THEN UNCHANGED vars ELSE Send(d, Head(script[p]).msg)
    BY <1>2 DEF DoSend, Is, Advance
  <2>2. PICK m \in Msgs :
          \/ /\ m.kind \in Plain /\ script[p] = Ask("main", m)
             /\ m.kind \in Auth <=> page[p] = "auth"
          \/ m.kind \in Changed /\ script[p] = Change(m) /\ page[p] # "auth"
    BY <2>1, NextTalk
  <2>3. Head(script[p]).msg = m
    <3>1. Head(script[p]) = Step("send", "main", m)
      BY <2>2, ScriptParts
    <3> QED BY <3>1 DEF Step
  <2>4. (pc[c] = "closed" /\ UNCHANGED vars) \/ Send(c, m)
    BY <1>1, <2>1, <2>3
  <2>5. script'[p] = Tail(script[p])
    BY <1>0, <2>1 DEF CTypeOK
  <2>6. Sent(p, m)
    BY <2>1, <2>2, <2>4, <2>5, ScriptParts DEF Sent
  <2>7. Others(p)
    BY <1>0, <2>1 DEF Others, CTypeOK
  <2> QED BY <2>6, <2>7 DEF Act
<1>3. CASE DoOpen(p)
  BY <1>3, NextTalk DEF DoOpen, Is
<1>4. CASE DoClose(p)
  <2>1. /\ script[p] # <<>> /\ Head(script[p]).op = "close"
        /\ script' = [script EXCEPT ![p] = Tail(script[p])]
        /\ Close(SocketOf(p, Head(script[p]).on))
        /\ UNCHANGED <<page, user>>
    BY <1>4 DEF DoClose, Is, Advance
  <2>2. main' = [main EXCEPT ![p] = NoConn] /\ second' = second
    BY <1>1, <1>4, <2>1 DEF DoClose
  <2>3. Tail(script[p]) = <<>>
    <3>1. script[p] = <<Closes("main")>>
      BY <2>1, NextTalk
    <3> QED BY <3>1
  <2>4. Hung(p)
    BY <1>0, <1>1, <2>1, <2>2, <2>3 DEF Hung, CTypeOK
  <2>5. Others(p)
    BY <1>0, <2>1, <2>2 DEF Others, CTypeOK
  <2> QED BY <2>4, <2>5 DEF Act
<1>5. ASSUME Is(p, "recv")
      PROVE  \E m \in Msgs : /\ m.kind \in Plain /\ script[p] = Recvs(m)
                             /\ Head(script[p]).msg = m /\ Tail(script[p]) = <<>>
  <2>1. script[p] # <<>> /\ Head(script[p]).op = "recv"
    BY <1>5 DEF Is
  <2>2. PICK m \in Msgs : m.kind \in Plain /\ script[p] = Recvs(m)
    BY <2>1, NextTalk
  <2>3. Head(script[p]) = Step("recv", "main", m)
    BY <2>2, ScriptParts
  <2>4. Head(script[p]).msg = m
    BY <2>3 DEF Step
  <2> QED BY <2>2, <2>4, ScriptParts
<1>6. CASE RecvFails(p)
  <2>1. /\ Is(p, "recv") /\ script' = [script EXCEPT ![p] = Tail(script[p])]
        /\ UNCHANGED <<vars, main, second, user, page>>
        /\ LET d == SocketOf(p, Head(script[p]).on) IN pc[d] = "closed" /\ outbox[d] = <<>>
    BY <1>6 DEF RecvFails, Advance, Use
  <2>2. pc[c] = "closed" /\ outbox[c] = <<>>
    BY <1>1, <2>1 DEF Is
  <2>3. script'[p] = <<>>
    BY <1>0, <1>5, <2>1 DEF CTypeOK
  <2>4. Missed(p)
    BY <2>1, <2>2, <2>3 DEF Missed
  <2>5. Others(p)
    BY <1>0, <2>1 DEF Others, CTypeOK
  <2> QED BY <2>4, <2>5 DEF Act
<1>7. ASSUME NEW n, DoRecv(p, n)
      PROVE  Act(p) /\ Others(p)
  <2>1. /\ Is(p, "recv") /\ script' = [script EXCEPT ![p] = Tail(script[p])]
        /\ UNCHANGED <<main, second>>
    BY <1>7 DEF DoRecv, Advance
  <2>2. PICK m \in Msgs : /\ m.kind \in Plain /\ script[p] = Recvs(m)
                          /\ Head(script[p]).msg = m /\ Tail(script[p]) = <<>>
    BY <1>5, <2>1
  <2>3. SocketOf(p, Head(script[p]).on) = c
    BY <1>1, <2>1 DEF Is
  <2>4. Read(c, n) /\ Use(p, m, Head(outbox[c]).says, Head(outbox[c]).rows)
    BY <1>7, <2>2, <2>3 DEF DoRecv
  <2>5. /\ user' = IF m.kind = "LOGIN" /\ Head(outbox[c]).says = "true"
                   THEN [user EXCEPT ![p] = m.val] ELSE user
        /\ page' = IF m.kind = "LOGIN" /\ Head(outbox[c]).says = "true"
                   THEN [page EXCEPT ![p] = "Main"] ELSE page
    BY <2>4 DEF Use
  <2>6. n \in 1..Len(outbox[c])
    BY <2>4 DEF Read
  <2>7. Heard(p, m)
    BY <1>0, <2>1, <2>2, <2>4, <2>5, <2>6 DEF Heard, CTypeOK
  <2>8. Others(p)
    BY <1>0, <2>1, <2>5 DEF Others, CTypeOK
  <2> QED BY <2>7, <2>8 DEF Act
<1> QED BY <1>2, <1>3, <1>4, <1>6, <1>7 DEF ScriptStep

-----------------------------------------------------------------------------
(* How a step of the system looks from one client: it is an act of this    *)
(* client, or the client stays and the server works on its connection.     *)

Waits(p) ==
  /\ main'[p] = main[p] /\ script'[p] = script[p]
  /\ page'[p] = page[p] /\ user'[p] = user[p]
  /\ main[p] # NoConn => Effect(main[p])

LEMMA OpenMain ==
  ASSUME CInv, NEW p \in Clients, main[p] # NoConn
  PROVE  /\ main[p] \in Conns /\ sock[main[p]] = "open"
         /\ \A q \in Clients : main[q] = main[p] => q = p
<1>1. Owned /\ CTypeOK
  BY DEF CInv
<1>2. SocketOf(p, "main") = main[p]
  BY DEF SocketOf
<1>3. sock[main[p]] = "open"
  BY <1>1, <1>2 DEF Owned
<1>4. \A q \in Clients : main[q] = main[p] => q = p
  <2> SUFFICES ASSUME NEW q \in Clients, main[q] = main[p] PROVE q = p
    OBVIOUS
  <2>1. SocketOf(q, "main") = SocketOf(p, "main") /\ SocketOf(q, "main") # NoConn
    BY DEF SocketOf
  <2> QED BY <1>1, <2>1 DEF Owned
<1> QED BY <1>1, <1>3, <1>4 DEF CTypeOK

(* What a client does to its socket does not show on another one. *)
LEMMA ActElsewhere ==
  ASSUME CInv, NEW p \in Clients, Act(p), NEW q \in Clients, q # p, main[q] # NoConn
  PROVE  Still(main[q])
<1> DEFINE c == main[q]
<1>0. TypeOK /\ c \in Conns /\ sock[c] = "open" /\ main[p] # c
  BY OpenMain DEF CInv
<1> HIDE DEF c
<1>1. CASE UNCHANGED vars
  BY <1>1 DEF vars, thread, Still, Kept
<1>2. ASSUME NEW d \in Conns, Connect(d)
      PROVE  Still(c)
  BY <1>0, <1>2 DEF TypeOK, Connect, Still, Kept
<1>3. ASSUME NEW m \in Msgs, Send(main[p], m)
      PROVE  Still(c)
  BY <1>0, <1>3 DEF TypeOK, Send, thread, Still, Kept
<1>4. ASSUME NEW n \in Nat, Read(main[p], n)
      PROVE  Still(c)
  BY <1>0, <1>4 DEF TypeOK, Read, thread, Still, Kept
<1>5. ASSUME Close(main[p])
      PROVE  Still(c)
  BY <1>0, <1>5 DEF TypeOK, Close, Still, Kept
<1>6. \/ UNCHANGED vars \/ Close(main[p])
      \/ \E d \in Conns : Connect(d)
      \/ \E m \in Msgs : Send(main[p], m)
      \/ \E n \in Nat : Read(main[p], n)
  BY DEF Act, Started, Began, Ended, Missed, Hung, Sent, Heard
<1> QED BY <1>1, <1>2, <1>3, <1>4, <1>5, <1>6 DEF c

LEMMA SystemMoves ==
  ASSUME NoOrders, Records, CInv, Chain, Talking, [CNext]_allVars
  PROVE  /\ second' = second
         /\ \A p \in Clients : Act(p) \/ Waits(p)
<1>1. ASSUME NEW p \in Clients, UserStep(p) \/ ScriptStep(p)
      PROVE  second' = second /\ \A q \in Clients : Act(q) \/ Waits(q)
  <2>1. Act(p) /\ Others(p)
    BY <1>1, UserActs, ScriptActs DEF Talking
  <2>2. ASSUME NEW q \in Clients \ {p}
        PROVE  Waits(q)
    BY <2>1, ActElsewhere DEF Others, Waits, Effect
  <2> QED BY <2>1, <2>2 DEF Others
<1>2. CASE ServerStep /\ UNCHANGED clientVars
  <2>1. UNCHANGED <<main, second, script, page, user>>
    BY <1>2 DEF clientVars
  <2>2. ASSUME NEW p \in Clients, main[p] # NoConn
        PROVE  Effect(main[p])
    BY <1>2, <2>2, OpenMain, ServerEffect DEF CInv
  <2> QED BY <2>1, <2>2 DEF Waits
<1>3. CASE UNCHANGED allVars
  <2>1. UNCHANGED <<vars, main, second, script, page, user>>
    BY <1>3 DEF allVars, clientVars
  <2>2. \A c : Still(c)
    BY <2>1 DEF vars, thread, Still, Kept
  <2> QED BY <2>1, <2>2 DEF Waits, Effect
<1> QED BY <1>1, <1>2, <1>3 DEF CNext

-----------------------------------------------------------------------------
(* The scripts stay those of the pages. *)

LEMMA TalkingInit == CInit => Talking
BY DEF CInit, Talking, Talks

LEMMA TalkingNext ==
  ASSUME NoOrders, Records, CInv, Chain, Talking, [CNext]_allVars
  PROVE  Talking'
<1> SUFFICES ASSUME NEW p \in Clients
             PROVE  Talks(p)'
  BY DEF Talking
<1>0. Talks(p) /\ second' = second
  BY SystemMoves DEF Talking
<1>1. CASE Waits(p)
  BY <1>0, <1>1 DEF Waits, Talks
<1>2. CASE Started(p) \/ Missed(p) \/ Hung(p) \/ Ended(p) \/ \E m \in Msgs : Heard(p, m)
  BY <1>0, <1>2 DEF Talks, Started, Missed, Hung, Ended, Heard
<1>3. CASE Began(p)
  BY <1>0, <1>3 DEF Talks, Began
<1>4. ASSUME NEW m \in Msgs, Sent(p, m)
      PROVE  Talks(p)'
  <2>1. CASE script'[p] = Recvs(m) /\ m.kind \in Plain /\ (m.kind \in Auth <=> page[p] = "auth")
    BY <1>0, <1>4, <2>1 DEF Talks, Sent
  <2>2. CASE script'[p] = Ask("main", Refresh(m)) /\ page[p] # "auth"
    <3>1. TableOf(m.kind) \in Tables
      BY DEF TableOf, Tables
    <3>2. Refresh(m) \in Msgs /\ Refresh(m).kind \in Listings
      BY <3>1, GetType DEF Refresh
    <3>3. Refresh(m).kind \in Plain /\ Refresh(m).kind \notin Auth
      BY <3>2 DEF Plain, Listings, Auth
    <3> QED BY <1>0, <1>4, <2>2, <3>2, <3>3 DEF Talks, Sent
  <2> QED BY <1>4, <2>1, <2>2 DEF Sent
<1> QED BY <1>1, <1>2, <1>3, <1>4, SystemMoves DEF Act

-----------------------------------------------------------------------------
(* At most one reply is under way, to the request a handler waits for. *)

Wanted(p) == IF Is(p, "recv") THEN {Head(script[p]).msg.kind} ELSE {}

Conversing(p) ==
  main[p] # NoConn /\ script[p] # <<Closes("main")>> => Owes(main[p], Wanted(p))

Conversations == \A p \in Clients : Conversing(p)

LEMMA WantedKinds ==
  ASSUME NEW p \in Clients
  PROVE  /\ script[p] = <<>> => Wanted(p) = {}
         /\ \A m \in Msgs : /\ script[p] = Ask("main", m) => Wanted(p) = {}
                            /\ script[p] = Change(m) => Wanted(p) = {}
                            /\ script[p] = Recvs(m) => Wanted(p) = {m.kind}
         /\ Talks(p) => Wanted(p) \subseteq Plain
         /\ \A k, l \in Wanted(p) : k = l
<1>1. script[p] = <<>> => Wanted(p) = {}
  BY DEF Wanted, Is
<1>2. ASSUME NEW m \in Msgs
      PROVE  /\ script[p] = Ask("main", m) => Wanted(p) = {}
             /\ script[p] = Change(m) => Wanted(p) = {}
             /\ script[p] = Recvs(m) => Wanted(p) = {m.kind}
  <2>1. /\ Step("send", "main", m).op = "send" /\ Step("recv", "main", m).op = "recv"
        /\ Step("recv", "main", m).msg = m
    BY DEF Step
  <2> QED BY <2>1, ScriptParts DEF Wanted, Is
<1>3. Talks(p) => Wanted(p) \subseteq Plain
  <2> SUFFICES ASSUME Talks(p), Is(p, "recv") PROVE Head(script[p]).msg.kind \in Plain
    BY DEF Wanted
  <2>1. PICK m \in Msgs : m.kind \in Plain /\ script[p] = Recvs(m)
    BY NextTalk DEF Is
  <2>2. Head(script[p]) = Step("recv", "main", m)
    BY <2>1, ScriptParts
  <2> QED BY <2>1, <2>2 DEF Step
<1>4. \A k, l \in Wanted(p) : k = l
  BY DEF Wanted
<1> QED BY <1>1, <1>2, <1>3, <1>4

(* Sequences without elements, and with at most one. *)
LEMMA EmptySequence ==
  ASSUME NEW S, NEW s \in Seq(S), \A i \in DOMAIN s : FALSE
  PROVE  s = <<>>
<1>1. Len(s) \in Nat /\ DOMAIN s = 1..Len(s)
  OBVIOUS
<1>2. Len(s) = 0
  BY <1>1
<1> QED BY <1>2, EmptySeq

LEMMA OneElement ==
  ASSUME NEW S, NEW s \in Seq(S), Len(s) <= 1, NEW n \in 1..Len(s)
  PROVE  Len(s) = 1 /\ n = 1 /\ s # <<>>
<1>1. Len(s) \in Nat
  OBVIOUS
<1> QED BY <1>1

(* Nothing is owed: no reply is there. *)
LEMMA OwesSilence ==
  ASSUME TypeOK, NEW c \in Conns, Owes(c, {})
  PROVE  outbox[c] = <<>>
<1>1. outbox[c] \in Seq(Reply) /\ \A i \in DOMAIN outbox[c] : FALSE
  BY DEF Owes, TypeOK
<1> QED BY <1>1, EmptySequence

(* A connection on which nothing is under way owes nothing, and one reply   *)
(* more after a request has been sent.                                      *)
LEMMA OwesNothing ==
  ASSUME NEW c \in Conns, inbox[c] = <<>>, outbox[c] = <<>>, todo[c] = {}
  PROVE  Owes(c, {})
BY DEF Owes, Awaited

LEMMA OwesSent ==
  ASSUME TypeOK, NEW c \in Conns, Owes(c, {}), NEW m \in Msgs, Send(c, m)
  PROVE  /\ m.kind \in Answered => Owes(c, {m.kind})'
         /\ m.kind \notin Answered => Owes(c, {})'
<1>1. /\ inbox[c] \in Seq(Msgs) /\ inbox'[c] = Append(inbox[c], m)
      /\ outbox' = outbox /\ pc' = pc /\ todo' = todo
  BY DEF TypeOK, Send, thread
<1>2. /\ Awaited(c) = {} /\ outbox[c] = <<>>
      /\ \A i \in DOMAIN inbox[c] : inbox[c][i].kind \notin Answered
  <2>1. outbox[c] = <<>>
    BY OwesSilence
  <2> QED BY <2>1 DEF Owes
<1>3. Awaited(c)' = {} /\ outbox'[c] = <<>>
  BY <1>1, <1>2 DEF Awaited
<1>4. \A i \in DOMAIN inbox'[c] :
        \/ inbox'[c][i].kind \notin Answered
        \/ i = Len(inbox[c]) + 1 /\ inbox'[c][i] = m
  BY <1>1, <1>2
<1> QED BY <1>3, <1>4 DEF Owes

(* The reply is read. *)
LEMMA OwesRead ==
  ASSUME TypeOK, NEW c \in Conns, NEW k, Owes(c, {k}), NEW n \in Nat, Read(c, n)
  PROVE  Owes(c, {})'
<1>1. /\ outbox[c] \in Seq(Reply) /\ n \in 1..Len(outbox[c])
      /\ outbox'[c] = SubSeq(outbox[c], n + 1, Len(outbox[c]))
      /\ inbox' = inbox /\ pc' = pc /\ todo' = todo
  BY DEF TypeOK, Read, thread
<1>2. Len(outbox[c]) = 1 /\ n = 1 /\ outbox[c] # <<>>
  BY <1>1, OneElement DEF Owes
<1>3. outbox'[c] = <<>>
  BY <1>1, <1>2
<1>4. Awaited(c) = {} /\ \A i \in DOMAIN inbox[c] : inbox[c][i].kind \notin Answered
  BY <1>2 DEF Owes
<1>5. Awaited(c)' = {}
  BY <1>1, <1>4 DEF Awaited
<1> QED BY <1>1, <1>3, <1>4, <1>5 DEF Owes

LEMMA ConversationsInit == CInit => Conversations
BY DEF CInit, Conversations, Conversing

LEMMA ConversationsNext ==
  ASSUME NoOrders, Records, CInv, Chain, Talking, Conversations, [CNext]_allVars
  PROVE  Conversations'
<1> SUFFICES ASSUME NEW p \in Clients, NEW c, c = main'[p], c # NoConn,
                    script'[p] # <<Closes("main")>>, NEW K, K = Wanted(p)'
             PROVE  Owes(c, K)'
  BY DEF Conversations, Conversing, Owes, Awaited
<1>0. /\ TypeOK /\ Talks(p) /\ Talks(p)' /\ CInv' /\ Chain /\ Chain' /\ c \in Conns
      /\ main[p] = c => sock[c] = "open" /\ ConnChain(c)
  <2>1. TypeOK /\ Talks(p) /\ Talks(p)' /\ CInv'
    BY TalkingNext, SystemNext DEF CInv, Talking
  <2>2. Chain'
    BY ChainNext, Implements DEF CInv
  <2>3. c \in Conns
    BY <2>1 DEF CInv, CTypeOK
  <2> QED BY <2>1, <2>2, <2>3, OpenMain DEF Chain
<1>1. /\ script'[p] = <<>> => K = {}
      /\ \A m \in Msgs : /\ script'[p] = Ask("main", m) => K = {}
                         /\ script'[p] = Change(m) => K = {}
                         /\ script'[p] = Recvs(m) => K = {m.kind}
  <2>1. /\ (script[p] = <<>> => Wanted(p) = {})'
        /\ (\A m \in Msgs : /\ script[p] = Ask("main", m) => Wanted(p) = {}
                            /\ script[p] = Change(m) => Wanted(p) = {}
                            /\ script[p] = Recvs(m) => Wanted(p) = {m.kind})'
    BY WantedKinds, PTL
  <2> QED BY <2>1
<1>2. ASSUME main[p] = c, script[p] # <<Closes("main")>>
      PROVE  Owes(c, Wanted(p))
  BY <1>2 DEF Conversations, Conversing
<1>3. CASE Waits(p)
  <2>1. script[p] # <<Closes("main")>> /\ main[p] = c /\ Effect(c)
    BY <1>3 DEF Waits
  <2>2. K = Wanted(p)
    BY <1>3 DEF Waits, Wanted, Is
  <2>3. K \subseteq Plain /\ \A k, l \in K : k = l
    BY <1>0, <2>2, WantedKinds
  <2> QED BY <1>0, <1>2, <2>1, <2>2, <2>3, EffectOwes
<1>4. CASE Started(p)
  <2>1. Connect(c) /\ K = {}
    BY <1>1, <1>4 DEF Started
  <2>2. inbox[c] = <<>> /\ outbox[c] = <<>> /\ todo[c] = {}
    BY <1>0, <2>1 DEF Connect, Chain, ConnChain, CInv, Shape, ConnShape
  <2>3. UNCHANGED <<inbox, outbox, todo>>
    BY <2>1 DEF Connect
  <2> QED BY <1>0, <2>1, <2>2, <2>3 DEF Owes, Awaited
<1>5. CASE Began(p) \/ Missed(p)
  <2>1. K = {} /\ main[p] = c /\ UNCHANGED vars
    BY <1>1, <1>5 DEF Began, Missed
  <2>2. Owes(c, {})
    <3>1. CASE Began(p)
      BY <1>2, <2>1, <3>1, WantedKinds, ScriptParts DEF Began
    <3>2. CASE Missed(p)
      <4>1. inbox[c] = <<>> /\ outbox[c] = <<>> /\ todo[c] = {}
        BY <1>0, <2>1, <3>2 DEF Missed, ConnChain
      <4> QED BY <1>0, <4>1, OwesNothing
    <3> QED BY <1>5, <3>1, <3>2
  <2> QED BY <2>1, <2>2 DEF vars, thread, Owes, Awaited
<1>6. CASE Ended(p) \/ Hung(p)
  BY <1>6 DEF Ended, Hung
<1>7. ASSUME NEW m \in Msgs, Sent(p, m)
      PROVE  Owes(c, K)'
  <2>1. main[p] = c /\ Owes(c, {})
    <3>1. main[p] = c /\ (script[p] = Ask("main", m) \/ script[p] = Change(m))
      BY <1>7 DEF Sent
    <3>2. script[p] # <<Closes("main")>>
      <4>1. Closes("main").op # Step("send", "main", m).op
        BY DEF Closes, Step
      <4> QED BY <3>1, <4>1, ScriptParts
    <3> QED BY <1>2, <3>1, <3>2, WantedKinds
  <2>2. \/ m.kind \in Answered /\ K = {m.kind}
        \/ m.kind \notin Answered /\ K = {}
    <3>1. CASE m.kind \in Plain /\ script'[p] = Recvs(m)
      BY <1>1, <3>1 DEF Plain, Answered, Listings, Fetches
    <3>2. CASE m.kind \in Changed /\ script'[p] = Ask("main", Refresh(m))
      <4>1. Refresh(m) \in Msgs
        BY OrderRequests DEF Refresh, TableOf, Tables
      <4> QED BY <1>1, <3>2, <4>1 DEF Changed, Answered, Auth, Fetches, Inserts, Updates, Deletes
    <3> QED BY <1>7, <3>1, <3>2 DEF Sent
  <2>3. CASE Send(c, m)
    BY <1>0, <2>1, <2>2, <2>3, OwesSent
  <2>4. CASE pc[c] = "closed" /\ UNCHANGED vars
    <3>1. inbox[c] = <<>> /\ outbox[c] = <<>> /\ todo[c] = {}
      <4>1. outbox[c] = <<>>
        BY <1>0, <2>1, OwesSilence
      <4> QED BY <1>0, <2>1, <2>4, <4>1 DEF ConnChain
    <3> QED BY <2>4, <3>1 DEF vars, thread, Owes, Awaited
  <2> QED BY <1>7, <2>1, <2>3, <2>4 DEF Sent
<1>8. ASSUME NEW m \in Msgs, Heard(p, m)
      PROVE  Owes(c, K)'
  <2>1. /\ main[p] = c /\ script[p] = Recvs(m) /\ K = {}
        /\ \E n \in Nat : Read(c, n)
    BY <1>1, <1>8 DEF Heard
  <2>2. script[p] # <<Closes("main")>>
    <3>1. Closes("main").op # Step("recv", "main", m).op
      BY DEF Closes, Step
    <3> QED BY <2>1, <3>1, ScriptParts
  <2>3. Owes(c, {m.kind})
    BY <1>2, <2>1, <2>2, WantedKinds
  <2> QED BY <1>0, <2>1, <2>3, OwesRead
<1> QED BY <1>3, <1>4, <1>5, <1>6, <1>7, <1>8, SystemMoves DEF Act

-----------------------------------------------------------------------------
Conversation == CInv /\ Chain /\ Talking /\ Conversations

LEMMA ConversationHolds ==
  ASSUME NoOrders, Records
  PROVE  CSpec => []Conversation
<1>1. CInit => Conversation
  BY SystemInit, ChainInit, TalkingInit, ConversationsInit DEF Conversation, CInit
<1>2. Conversation /\ [CNext]_allVars => Conversation'
  <2> SUFFICES ASSUME Conversation, [CNext]_allVars PROVE Conversation'
    OBVIOUS
  <2>1. CInv /\ Chain /\ Talking /\ Conversations
    BY DEF Conversation
  <2>2. CInv' /\ Talking' /\ Conversations'
    BY <2>1, SystemNext, TalkingNext, ConversationsNext
  <2>3. Chain'
    BY <2>1, ChainNext, Implements DEF CInv
  <2> QED BY <2>2, <2>3 DEF Conversation
<1> QED BY <1>1, <1>2, PTL DEF CSpec

(***************************************************************************)
(* When nobody saves orders and add_session can write, the reply that      *)
(* login_user, register_user or a get_x function takes from recv is the    *)
(* reply to the request it sent, and the only one, however many requests   *)
(* the server receives at once, whichever statements fail, and wherever a  *)
(* client or the server ends.                                              *)
(***************************************************************************)
THEOREM RepliesAnswer ==
  ASSUME NoOrders, Records
  PROVE  CSpec => []RepliesMatch
<1>1. Conversation => RepliesMatch
  <2> SUFFICES ASSUME Conversation, NEW p \in Clients
               PROVE  /\ Is(p, "recv") =>
                           LET c == SocketOf(p, Head(script[p]).on) IN
                           \A i \in DOMAIN outbox[c] : outbox[c][i].to = Head(script[p]).msg.kind
                      /\ Idle(p) => outbox[main[p]] = <<>>
    BY DEF RepliesMatch
  <2>0. CInv /\ Talks(p) /\ Conversing(p)
    BY DEF Conversation, Talking, Conversations
  <2>1. ASSUME Is(p, "recv")
        PROVE  LET c == SocketOf(p, Head(script[p]).on) IN
               \A i \in DOMAIN outbox[c] : outbox[c][i].to = Head(script[p]).msg.kind
    <3>1. script[p] # <<>> /\ Head(script[p]).op = "recv" /\ Head(script[p]).on = "main"
      BY <2>0, <2>1, NextTalk DEF Is
    <3>2. main[p] # NoConn /\ script[p] # <<Closes("main")>>
      <4>1. Head(<<Closes("main")>>).op = "close"
        BY DEF Closes, Step
      <4> QED BY <2>0, <3>1, <4>1 DEF CInv, Scripts
    <3>3. Owes(main[p], {Head(script[p]).msg.kind})
      BY <2>0, <2>1, <3>2 DEF Conversing, Wanted
    <3> QED BY <3>1, <3>3 DEF SocketOf, Owes
  <2>2. ASSUME Idle(p)
        PROVE  outbox[main[p]] = <<>>
    <3>1. script[p] = <<>> /\ main[p] # NoConn /\ script[p] # <<Closes("main")>>
      BY <2>2 DEF Idle
    <3>2. Owes(main[p], {})
      BY <2>0, <3>1, WantedKinds DEF Conversing
    <3> QED BY <2>0, <3>1, <3>2, OpenMain, OwesSilence DEF CInv
  <2> QED BY <2>1, <2>2
<1> QED BY <1>1, ConversationHolds, PTL

(* A script that waits is no other script, and waits for one message. *)
LEMMA RecvsDiffer ==
  ASSUME NEW m \in Msgs, NEW l \in Msgs
  PROVE  /\ Recvs(m) # <<>> /\ Recvs(m) # <<Closes("main")>>
         /\ Recvs(m) # Ask("main", l) /\ Recvs(m) # Change(l)
         /\ Recvs(m) = Recvs(l) => m = l
         /\ Ask("main", l) # <<Closes("main")>> /\ Change(l) # <<Closes("main")>>
<1>1. /\ Step("recv", "main", m).op # Closes("main").op
      /\ Step("recv", "main", m).op # Step("send", "main", l).op
      /\ Step("send", "main", l).op # Closes("main").op
      /\ Step("recv", "main", m).msg = m /\ Step("recv", "main", l).msg = l
  BY DEF Closes, Step
<1> QED BY <1>1, ScriptParts

(* A client that waits for no reply has nothing but writes in flight. *)
LEMMA SilentOwes ==
  ASSUME Conversations, NEW p \in Clients, main[p] # NoConn, script[p] # <<Closes("main")>>
  PROVE  /\ Owes(main[p], Wanted(p))
         /\ \A m \in Msgs : script[p] = Ask("main", m) \/ script[p] = Change(m)
              => Owes(main[p], {})
         /\ script[p] = <<>> => Owes(main[p], {})
<1>1. Owes(main[p], Wanted(p))
  BY DEF Conversations, Conversing
<1> QED BY <1>1, WantedKinds

-----------------------------------------------------------------------------
(* A handler does not wait for nothing, when the requests the server would  *)
(* drop without a reply do not happen.                                      *)

(* No fetch and no login fails in the database: they would say nothing. *)
Healthy == QueryFaults \intersect (Fetches \union {"LOGIN"}) = {}

(* Users fill in the login page: a login without its fields is dropped. *)
Filled == \A m \in UserMsgs : m.kind = "LOGIN" => m.wf

(* On the login page nothing precedes a request in flight. *)
Leads(c) ==
  /\ \A i \in DOMAIN inbox[c] : inbox[c][i].kind \in Auth
  /\ "LOGIN" \in Awaited(c) => Scans("LOGIN", buf[c])

(* A request of kind k has its reply, or will have it. *)
Coming(c, k) ==
  \/ pc[c] = "closed" \/ outbox[c] # <<>>
  \/ \E i \in DOMAIN inbox[c] : inbox[c][i].kind = k
  \/ k \in Awaited(c) /\ ((pc[c] = "answer" /\ cur[c] = k) => Answers(k, res[c].branch))

(* A reply that was sent is there to be read. *)
LEMMA RepliesShow ==
  ASSUME TypeOK, NEW c \in Conns, sock[c] = "open", NEW r \in Reply, Replies(c, r)
  PROVE  outbox'[c] # <<>>
<1>1. outbox[c] \in Seq(Reply) /\ outbox'[c] = Append(outbox[c], r)
  BY DEF TypeOK, Replies
<1>2. Len(Append(outbox[c], r)) = Len(outbox[c]) + 1 /\ Len(outbox[c]) \in Nat
  BY <1>1
<1>3. Len(<<>>) = 0
  OBVIOUS
<1> QED BY <1>1, <1>2, <1>3

LEMMA EffectLeads ==
  ASSUME Filled, TypeOK, Shape, NEW c \in Conns, ConnChain(c),
         NEW K, Owes(c, K), Leads(c), Effect(c)
  PROVE  Leads(c)'
<1>0. /\ \A i \in DOMAIN inbox[c] : inbox[c][i].kind \in Auth
      /\ "LOGIN" \in Awaited(c) => Scans("LOGIN", buf[c])
  BY DEF Leads
<1>1. CASE Still(c) \/ Cut(c) \/ Accepted(c) \/ Begun(c) \/ Ran(c)
  <2>1. inbox'[c] \in {inbox[c], <<>>}
    BY <1>1 DEF Still, Cut, Accepted, Begun, Ran, Kept
  <2>2. \/ /\ todo'[c] = todo[c] /\ (pc[c] = "session" => pc'[c] = "session")
           /\ buf'[c] = buf[c]
        \/ todo'[c] = {}
    BY <1>1 DEF Still, Cut, Accepted, Begun, Ran
  <2>3. "LOGIN" \in Awaited(c)' => "LOGIN" \in Awaited(c) /\ buf'[c] = buf[c]
    BY <2>2 DEF Awaited
  <2> QED BY <1>0, <2>1, <2>3 DEF Leads, Scans
<1>2. CASE LoggedIn(c)
  BY <1>0, <1>2 DEF LoggedIn, Leads, Awaited
<1>3. ASSUME NEW n \in Nat, Received(c, n)
      PROVE  Leads(c)'
  <2>1. /\ inbox[c] \in Seq(Msgs) /\ n \in 1..Len(inbox[c])
        /\ inbox'[c] = SubSeq(inbox[c], n + 1, Len(inbox[c]))
        /\ buf'[c] = SubSeq(inbox[c], 1, n)
        /\ todo'[c] = Branches(SubSeq(inbox[c], 1, n))
    BY <1>3 DEF TypeOK, Received
  <2>2. /\ SubSeq(inbox[c], n + 1, Len(inbox[c])) \in Seq(Msgs)
        /\ Len(SubSeq(inbox[c], n + 1, Len(inbox[c]))) = Len(inbox[c]) - n
        /\ SubSeq(inbox[c], 1, n) \in Seq(Msgs) /\ Len(SubSeq(inbox[c], 1, n)) = n
        /\ \A i \in 1..n : SubSeq(inbox[c], 1, n)[i] = inbox[c][i]
    BY <2>1, SplitParts
  <2>3. \A i \in DOMAIN inbox[c] : \A j \in DOMAIN inbox[c] : i = j
    BY <1>0 DEF Owes, Answered
  <2>4. Len(inbox[c]) = 1
    <3>1. Len(inbox[c]) \in Nat /\ 1 \in DOMAIN inbox[c] /\ Len(inbox[c]) \in DOMAIN inbox[c]
      BY <2>1
    <3> QED BY <2>3, <3>1
  <2>5. DOMAIN inbox'[c] = {}
    BY <2>1, <2>2, <2>4
  <2>6. /\ DOMAIN buf'[c] = {1} /\ Head(buf'[c]) = inbox[c][1] /\ inbox[c][1] \in Msgs
        /\ buf'[c][1] = inbox[c][1]
    BY <2>1, <2>2, <2>4
  <2>7. "LOGIN" \in todo'[c] => inbox[c][1].kind = "LOGIN"
    BY <2>1, <2>6 DEF Branches, Keywords
  <2>8. inbox[c][1].kind = "LOGIN" => inbox[c][1].wf
    BY <2>6, ClientAssumption DEF Filled, Get, Fetches
  <2>9. "LOGIN" \in Awaited(c)' => Scans("LOGIN", buf[c])'
    BY <2>6, <2>7, <2>8 DEF Awaited, Scans
  <2> QED BY <2>5, <2>9 DEF Leads
<1>4. CASE Returned(c)
  <2>1. /\ inbox'[c] = inbox[c] /\ todo'[c] = todo[c] \ {cur[c]}
        /\ todo'[c] # {} => buf'[c] = buf[c]
        /\ pc[c] \in {"answer", "session"} /\ cur[c] \in todo[c]
    BY <1>4 DEF Returned, ConnChain, Running
  <2>2. pc[c] = "session" => cur[c] = "LOGIN"
    BY DEF Shape, ThreadShape
  <2>3. "LOGIN" \in Awaited(c)' => "LOGIN" \in Awaited(c) /\ buf'[c] = buf[c]
    BY <2>1, <2>2 DEF Awaited
  <2> QED BY <1>0, <2>1, <2>3 DEF Leads, Scans
<1> QED BY <1>1, <1>2, <1>3, <1>4 DEF Effect

(* The reply comes nearer with every step of the server. *)
LEMMA EffectComing ==
  ASSUME Healthy, TypeOK, Shape, NEW c \in Conns, ConnChain(c), sock[c] = "open",
         NEW k \in Plain, k = "LOGIN" => Leads(c), Coming(c, k), Effect(c)
  PROVE  Coming(c, k)'
<1>0. k \in Answered
  BY DEF Plain, Answered, Listings, Fetches
<1>1. CASE Cut(c)
  BY <1>1 DEF Cut, Coming
<1>2. CASE LoggedIn(c)
  <2>1. outbox'[c] # <<>>
    BY <1>2, RepliesShow DEF LoggedIn
  <2> QED BY <2>1 DEF Coming
<1>3. CASE outbox'[c] # <<>> \/ pc'[c] = "closed"
  BY <1>3 DEF Coming
<1>4. CASE Still(c) \/ Accepted(c)
  <2>1. /\ inbox'[c] = inbox[c] /\ outbox'[c] = outbox[c] /\ todo'[c] = todo[c]
        /\ \/ pc'[c] = pc[c] /\ cur'[c] = cur[c] /\ res'[c] = res[c]
           \/ pc[c] = "backlog" /\ pc'[c] = "recv"
    BY <1>4 DEF Still, Accepted, Kept
  <2> QED BY <2>1 DEF Coming, Awaited
<1>5. CASE Begun(c)
  <2>1. /\ inbox'[c] = inbox[c] /\ outbox'[c] = outbox[c] /\ todo'[c] = todo[c]
        /\ pc[c] = "dispatch" /\ pc'[c] \in {"query", "answer"}
        /\ pc'[c] = "answer" => /\ res'[c].branch = "malformed"
                                /\ cur'[c] \notin Fetches /\ ~Scans(cur'[c], buf[c])
    BY <1>5 DEF Begun, Kept
  <2>2. CASE k \in Awaited(c)
    <3>1. k \in Awaited(c)'
      BY <2>1, <2>2 DEF Awaited
    <3>2. pc'[c] = "answer" /\ cur'[c] = k => k = "REGISTER"
      BY <2>1, <2>2, <1>0 DEF Leads, Answered, Auth
    <3>3. Answers("REGISTER", res'[c].branch)
      BY DEF Answers
    <3> QED BY <3>1, <3>2, <3>3 DEF Coming
  <2> QED BY <2>1, <2>2 DEF Coming
<1>6. CASE Ran(c)
  <2>1. /\ inbox'[c] = inbox[c] /\ outbox'[c] = outbox[c] /\ todo'[c] = todo[c]
        /\ cur'[c] = cur[c] /\ pc[c] = "query" /\ pc'[c] = "answer"
        /\ cur[c] \in Answered \ QueryFaults => Answers(cur[c], res'[c].branch)
    BY <1>6 DEF Ran, Kept
  <2>2. k = "REGISTER" => Answers(k, res'[c].branch)
    BY DEF Answers
  <2>3. k # "REGISTER" => k \notin QueryFaults
    BY <1>0 DEF Healthy, Answered, Auth
  <2>4. CASE k \in Awaited(c)
    <3>1. k \in Awaited(c)'
      BY <2>1, <2>4 DEF Awaited
    <3>2. cur'[c] = k => Answers(k, res'[c].branch)
      BY <1>0, <2>1, <2>2, <2>3
    <3> QED BY <3>1, <3>2 DEF Coming
  <2> QED BY <2>1, <2>4 DEF Coming
<1>7. ASSUME NEW n \in Nat, Received(c, n)
      PROVE  Coming(c, k)'
  <2>1. /\ inbox[c] \in Seq(Msgs) /\ n \in 1..Len(inbox[c])
        /\ inbox'[c] = SubSeq(inbox[c], n + 1, Len(inbox[c]))
        /\ todo'[c] = Branches(SubSeq(inbox[c], 1, n))
        /\ pc[c] = "recv" /\ pc'[c] = "dispatch" /\ outbox'[c] = outbox[c]
    BY <1>7 DEF TypeOK, Received
  <2>2. /\ SubSeq(inbox[c], n + 1, Len(inbox[c])) \in Seq(Msgs)
        /\ Len(SubSeq(inbox[c], n + 1, Len(inbox[c]))) = Len(inbox[c]) - n
        /\ \A j \in 1..(Len(inbox[c]) - n) :
             SubSeq(inbox[c], n + 1, Len(inbox[c]))[j] = inbox[c][n + j]
        /\ SubSeq(inbox[c], 1, n) \in Seq(Msgs) /\ Len(SubSeq(inbox[c], 1, n)) = n
        /\ \A i \in 1..n : SubSeq(inbox[c], 1, n)[i] = inbox[c][i]
    BY <2>1, SplitParts
  <2>3. k \notin Awaited(c)
    BY <2>1 DEF ConnChain, Awaited
  <2>4. outbox[c] # <<>> \/ \E i \in 1..Len(inbox[c]) : inbox[c][i].kind = k
    BY <2>1, <2>3 DEF Coming
  <2>5. ASSUME NEW i \in 1..Len(inbox[c]), inbox[c][i].kind = k
        PROVE  Coming(c, k)'
    <3>1. CASE i <= n
      <4>1. i \in DOMAIN SubSeq(inbox[c], 1, n) /\ SubSeq(inbox[c], 1, n)[i].kind = k
        BY <2>1, <2>2, <2>5, <3>1
      <4>2. k \in todo'[c]
        BY <2>1, <4>1 DEF Branches, Keywords
      <4> QED BY <1>0, <2>1, <4>2 DEF Awaited, Coming
    <3>2. CASE i > n
      <4>1. i - n \in 1..(Len(inbox[c]) - n) /\ n + (i - n) = i
        BY <2>1, <3>2
      <4>2. i - n \in DOMAIN inbox'[c] /\ inbox'[c][i - n].kind = k
        BY <2>1, <2>2, <2>5, <4>1
      <4> QED BY <4>2 DEF Coming
    <3> QED BY <2>1, <3>1, <3>2
  <2> QED BY <2>1, <2>4, <2>5 DEF Coming
<1>8. CASE Returned(c)
  <2>1. /\ inbox'[c] = inbox[c] /\ todo'[c] = todo[c] \ {cur[c]}
        /\ pc[c] \in {"answer", "session"} /\ cur[c] \in todo[c]
        /\ pc'[c] = IF todo'[c] = {} THEN "recv" ELSE "dispatch"
        /\ \/ outbox'[c] = outbox[c] /\ (pc[c] = "answer" => ~Answers(cur[c], res[c].branch))
           \/ \E r \in Reply : Replies(c, r)
    BY <1>8 DEF Returned, ConnChain, Running
  <2>2. \A r \in Reply : Replies(c, r) => outbox'[c] # <<>>
    BY RepliesShow
  <2>3. pc[c] = "session" => cur[c] = "LOGIN"
    BY DEF Shape, ThreadShape
  <2>4. CASE outbox'[c] = outbox[c] /\ (pc[c] = "answer" => ~Answers(cur[c], res[c].branch))
    <3>1. CASE k \in Awaited(c) /\ ((pc[c] = "answer" /\ cur[c] = k) => Answers(k, res[c].branch))
      <4>1. cur[c] # k /\ k \in todo[c] /\ k \in Answered
        BY <2>1, <2>3, <2>4, <3>1 DEF Awaited
      <4>2. k \in todo'[c] /\ pc'[c] = "dispatch"
        BY <2>1, <4>1
      <4> QED BY <4>1, <4>2 DEF Awaited, Coming
    <3>2. CASE outbox[c] # <<>> \/ \E i \in DOMAIN inbox[c] : inbox[c][i].kind = k
      BY <2>1, <2>4, <3>2 DEF Coming
    <3> QED BY <2>1, <3>1, <3>2 DEF Coming
  <2> QED BY <1>3, <2>1, <2>2, <2>4
<1> QED BY <1>1, <1>2, <1>4, <1>5, <1>6, <1>7, <1>8 DEF Effect

Expects(p) ==
  main[p] # NoConn /\ script[p] # <<Closes("main")>> =>
    /\ page[p] = "auth" => Leads(main[p])
    /\ \A m \in Msgs : script[p] = Recvs(m) => Coming(main[p], m.kind)

Expected == \A p \in Clients : Expects(p)

LEMMA ExpectedInit == CInit => Expected
BY DEF CInit, Expected, Expects

LEMMA ExpectedNext ==
  ASSUME NoOrders, Records, Healthy, Filled, Conversation, Expected, [CNext]_allVars
  PROVE  Expected'
<1> SUFFICES ASSUME NEW p \in Clients, NEW c, c = main'[p], c # NoConn,
                    script'[p] # <<Closes("main")>>
             PROVE  /\ page'[p] = "auth" => Leads(c)'
                    /\ \A m \in Msgs : script'[p] = Recvs(m) => Coming(c, m.kind)'
  BY DEF Expected, Expects, Leads, Coming, Awaited, Scans
<1>0. /\ CInv /\ Chain /\ Talking /\ Conversations /\ TypeOK /\ Shape /\ Talks(p) /\ c \in Conns
      /\ main[p] = c => sock[c] = "open" /\ ConnChain(c)
  <2>1. CInv /\ Chain /\ Talking /\ Conversations
    BY DEF Conversation
  <2>2. c \in Conns
    BY <2>1, SystemNext DEF CInv, CTypeOK
  <2> QED BY <2>1, <2>2, OpenMain DEF CInv, Chain, Talking
<1>1. ASSUME main[p] = c, script[p] # <<Closes("main")>>
      PROVE  /\ page[p] = "auth" => Leads(c)
             /\ \A m \in Msgs : script[p] = Recvs(m) => Coming(c, m.kind)
             /\ Owes(c, Wanted(p))
             /\ \A m \in Msgs : script[p] = Ask("main", m) \/ script[p] = Change(m)
                  => Owes(c, {})
  BY <1>0, <1>1, SilentOwes DEF Expected, Expects
<1>2. CASE Waits(p)
  <2>1. /\ main[p] = c /\ script[p] # <<Closes("main")>> /\ script'[p] = script[p]
        /\ page'[p] = page[p] /\ Effect(c)
    BY <1>2 DEF Waits
  <2>2. page[p] = "auth" => Leads(c)'
    BY <1>0, <1>1, <2>1, EffectLeads
  <2>3. ASSUME NEW m \in Msgs, script[p] = Recvs(m)
        PROVE  Coming(c, m.kind)'
    <3>1. m.kind \in Plain /\ (m.kind \in Auth => page[p] = "auth")
      <4>1. \A l \in Msgs : script[p] # Ask("main", l) /\ script[p] # Change(l)
        BY <2>3, RecvsDiffer
      <4>2. script[p] # <<>> /\ script[p] # <<Closes("main")>>
        BY <2>3, RecvsDiffer
      <4>3. \A l \in Msgs : script[p] = Recvs(l) => l = m
        BY <2>3, RecvsDiffer
      <4> QED BY <1>0, <4>1, <4>2, <4>3 DEF Talks
    <3>2. m.kind = "LOGIN" => Leads(c)
      BY <1>1, <2>1, <3>1 DEF Auth
    <3> QED BY <1>0, <1>1, <2>1, <2>3, <3>1, <3>2, EffectComing
  <2> QED BY <2>1, <2>2, <2>3
<1>3. CASE Started(p)
  <2>1. Connect(c) /\ script'[p] = <<>>
    BY <1>3 DEF Started
  <2>2. inbox[c] = <<>> /\ todo[c] = {}
    BY <1>0, <2>1 DEF Connect, Chain, ConnChain, CInv, Shape, ConnShape
  <2>3. inbox'[c] = <<>> /\ todo'[c] = {}
    BY <2>1, <2>2 DEF Connect
  <2> QED BY <2>1, <2>3, RecvsDiffer DEF Leads, Awaited
<1>4. CASE Began(p) \/ Missed(p)
  <2>1. /\ main[p] = c /\ UNCHANGED vars /\ (page'[p] = "auth" <=> page[p] = "auth")
        /\ script'[p] = <<>> \/ \E m \in Msgs : script'[p] \in {Ask("main", m), Change(m)}
    BY <1>4 DEF Began, Missed
  <2>2. page[p] = "auth" => Leads(c)
    <3>1. CASE script[p] = <<>>
      BY <1>1, <2>1, <3>1
    <3>2. CASE Missed(p)
      <4>1. inbox[c] = <<>> /\ todo[c] = {}
        BY <1>0, <2>1, <3>2 DEF Missed, ConnChain
      <4> QED BY <4>1 DEF Leads, Awaited
    <3> QED BY <1>4, <3>1, <3>2 DEF Began
  <2> QED BY <2>1, <2>2, RecvsDiffer DEF vars, thread, Leads, Awaited, Scans
<1>5. CASE Ended(p) \/ Hung(p)
  BY <1>5 DEF Ended, Hung
<1>6. ASSUME NEW m \in Msgs, Sent(p, m)
      PROVE  /\ page'[p] = "auth" => Leads(c)'
             /\ \A l \in Msgs : script'[p] = Recvs(l) => Coming(c, l.kind)'
  <2>1. /\ main[p] = c /\ page'[p] = page[p]
        /\ (pc[c] = "closed" /\ UNCHANGED vars) \/ Send(c, m)
        /\ script[p] = Ask("main", m) \/ script[p] = Change(m)
        /\ page[p] = "auth" => m.kind \in Auth
        /\ script'[p] = Recvs(m) \/ script'[p] = Ask("main", Refresh(m))
    BY <1>6 DEF Sent
  <2>2. /\ page[p] = "auth" => Leads(c)
        /\ Owes(c, {})
    BY <1>1, <2>1, RecvsDiffer
  <2>3. \A l \in Msgs : script'[p] = Recvs(l) => l = m
    <3>1. Refresh(m) \in Msgs
      BY OrderRequests DEF Refresh, TableOf, Tables
    <3> QED BY <2>1, <3>1, RecvsDiffer
  <2>4. CASE pc[c] = "closed" /\ UNCHANGED vars
    BY <2>1, <2>2, <2>4 DEF vars, thread, Leads, Awaited, Scans, Coming
  <2>5. CASE Send(c, m)
    <3>1. /\ inbox[c] \in Seq(Msgs) /\ inbox'[c] = Append(inbox[c], m)
          /\ UNCHANGED <<pc, todo, buf>>
      BY <1>0, <2>5 DEF TypeOK, Send, thread
    <3>2. Len(inbox[c]) + 1 \in DOMAIN inbox'[c] /\ inbox'[c][Len(inbox[c]) + 1] = m
      BY <3>1
    <3>3. page[p] = "auth" => \A i \in DOMAIN inbox'[c] : inbox'[c][i].kind \in Auth
      BY <2>1, <2>2, <3>1 DEF Leads
    <3>4. Awaited(c)' = {}
      BY <2>2, <3>1 DEF Owes, Awaited
    <3>5. page[p] = "auth" => Leads(c)'
      BY <3>3, <3>4 DEF Leads
    <3>6. Coming(c, m.kind)'
      BY <3>2 DEF Coming
    <3> QED BY <2>1, <2>3, <3>5, <3>6
  <2> QED BY <2>1, <2>4, <2>5
<1>7. ASSUME NEW m \in Msgs, Heard(p, m)
      PROVE  /\ page'[p] = "auth" => Leads(c)'
             /\ \A l \in Msgs : script'[p] = Recvs(l) => Coming(c, l.kind)'
  <2>1. /\ main[p] = c /\ script[p] = Recvs(m) /\ script'[p] = <<>>
        /\ page'[p] = "auth" => page[p] = "auth"
        /\ \E n \in 1..Len(outbox[c]) : Read(c, n)
    BY <1>7 DEF Heard
  <2>2. page[p] = "auth" => Leads(c)
    BY <1>1, <2>1, RecvsDiffer
  <2>3. UNCHANGED <<inbox, pc, todo, buf>>
    BY <2>1 DEF Read, thread
  <2> QED BY <2>1, <2>2, <2>3, RecvsDiffer DEF Leads, Awaited, Scans
<1> QED BY <1>0, <1>2, <1>3, <1>4, <1>5, <1>6, <1>7, SystemMoves DEF Act

(***************************************************************************)
(* A handler of client.c that waits in recv has its reply coming or its    *)
(* connection closed: no request of login_user, register_user or a get_x   *)
(* function is lost between the client, handle_command's batches and the   *)
(* handlers, when nobody saves orders, add_session can write, the fetches  *)
(* and the login's SELECT succeed, and logins have their fields.           *)
(***************************************************************************)
THEOREM RequestsAreServed ==
  ASSUME NoOrders, Records, Healthy, Filled
  PROVE  CSpec => []ReplyComing
<1>1. Expected /\ Conversation /\ [CNext]_allVars => Expected'
  BY ExpectedNext
<1>2. Expected /\ Conversation => ReplyComing
  <2> SUFFICES ASSUME Expected, Conversation, NEW p \in Clients, Is(p, "recv"),
                      NEW c, c = SocketOf(p, Head(script[p]).on),
                      NEW k, k = Head(script[p]).msg.kind
               PROVE  \/ pc[c] = "closed" \/ outbox[c] # <<>>
                      \/ \E i \in DOMAIN inbox[c] : inbox[c][i].kind = k
                      \/ /\ k \in todo[c]
                         /\ (pc[c] = "answer" /\ cur[c] = k) => Answers(k, res[c].branch)
    BY DEF ReplyComing
  <2>0. CInv /\ Talks(p)
    BY DEF Conversation, Talking
  <2>1. script[p] # <<>> /\ Head(script[p]).op = "recv" /\ Head(script[p]).on = "main"
    BY <2>0, NextTalk DEF Is
  <2>2. PICK m \in Msgs : script[p] = Recvs(m)
    BY <2>0, <2>1, NextTalk
  <2>3. Head(script[p]) = Step("recv", "main", m) /\ script[p] # <<Closes("main")>>
    BY <2>2, ScriptParts, RecvsDiffer
  <2>4. k = m.kind /\ c = main[p]
    BY <2>1, <2>3 DEF Step, SocketOf
  <2>5. main[p] # NoConn
    BY <2>0, <2>1, NextOfScript, ClientAssumption, <2>4 DEF CInv, SocketOf
  <2>6. Coming(c, k)
    BY <2>2, <2>3, <2>4, <2>5 DEF Expected, Expects
  <2> QED BY <2>6 DEF Coming, Awaited
<1> QED BY <1>1, <1>2, ExpectedInit, ConversationHolds, PTL DEF CSpec

=============================================================================
