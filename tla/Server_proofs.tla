---------------------------- MODULE Server_proofs ----------------------------
(***************************************************************************)
(* Proofs about the server for any number of clients, requests, database   *)
(* connections and rows.  Shape is the strengthening that makes the        *)
(* invariants inductive; each action is treated in a step of its own.      *)
(***************************************************************************)
EXTENDS Server, SequenceTheorems, FunctionTheorems, FiniteSetTheorems, TLAPS

USE DEF Served, Running

-----------------------------------------------------------------------------
(* Facts about the operators of the model. *)

(* A statement that returns no rows has a well-typed result. *)
LEMMA OutcomeType ==
  ASSUME NEW b \in Branch
  PROVE  Outcome(b) \in Result
  BY DEF Outcome, Result, Rows, NoRows, Row

(* What a SELECT returns is a list of rows. *)
LEMMA SelectedType ==
  ASSUME TypeOK, NEW h \in Kinds
  PROVE  Selected(h) \in Rows
<1>1. TableOf(h) \in Tables
  BY DEF TableOf, Tables
<1>2. Shown(TableOf(h)) \in Rows
  BY <1>1 DEF TypeOK, Shown, Rows, Row
<1>3. Joined \in Rows
  BY DEF Joined, Rows, Row
<1> QED
  BY <1>2, <1>3 DEF Selected

(* The text of a reply begins in one of four ways. *)
LEMMA SaysType ==
  ASSUME NEW h \in Kinds, NEW b \in Branch
  PROVE  SaysOf(h, b) \in Says
  BY DEF SaysOf, Says

(* A handler's value comes from its request or ran on into the next one. *)
LEMMA FieldType ==
  ASSUME NEW h, NEW batch \in Seq(Msgs), batch # <<>>
  PROVE  /\ Field(h, batch) \in Row
         /\ Field(h, batch) \in Texts => Head(batch).val \in Texts
         /\ Head(batch).id \in Ids
         /\ Head(batch).kind \in Kinds
<1>1. Head(batch) \in Message
  BY HeadTailProperties, DataAssumption
<1> QED
  BY <1>1, DataAssumption DEF Field, Message, Row

(* Receiving splits the requests in flight. *)
LEMMA SplitType ==
  ASSUME NEW S, NEW s \in Seq(S), NEW n \in Nat \ {0}, n <= Len(s)
  PROVE  /\ SubSeq(s, 1, n) \in Seq(S) /\ SubSeq(s, 1, n) # <<>>
         /\ SubSeq(s, n + 1, Len(s)) \in Seq(S)
<1>1. Len(s) \in Nat /\ \A i \in 1..Len(s) : s[i] \in S
  OBVIOUS
<1>2. SubSeq(s, 1, n) \in Seq(S) /\ Len(SubSeq(s, 1, n)) = n
  BY <1>1, SubSeqProperties
<1>3. SubSeq(s, n + 1, Len(s)) \in Seq(S)
  BY <1>1, SubSeqProperties
<1> QED
  BY <1>2, <1>3

(* A buffer of requests triggers branches of the chain. *)
LEMMA BranchesType ==
  ASSUME NEW batch \in Seq(Msgs)
  PROVE  Branches(batch) \subseteq Kinds
<1>1. \A i \in DOMAIN batch : batch[i].kind \in Kinds
  BY DataAssumption DEF Message
<1>2. \A k \in Kinds : Keywords(k) \subseteq Kinds
  BY DEF Keywords, Kinds, Fetches
<1> QED
  BY <1>1, <1>2 DEF Branches

(* Writing a row keeps the tables well-typed. *)
LEMMA StoredType ==
  ASSUME TypeOK, NEW h \in Kinds, NEW i \in Ids, NEW v \in Row
  PROVE  Stored(h, i, v) \in [Tables -> [Ids -> Row]]
<1>1. TableOf(h) \in Tables
  BY DEF TableOf, Tables
<1> QED
  BY <1>1 DEF TypeOK, Stored

-----------------------------------------------------------------------------
(* Type correctness. *)

(* The initial state is well-typed. *)
LEMMA InitType == Init => TypeOK /\ Shape
<1> SUFFICES ASSUME Init PROVE TypeOK /\ Shape
  OBVIOUS
<1>1. Outcome("none") \in Result /\ Outcome("none").branch = "none"
  BY OutcomeType DEF Branch, Outcome
<1>2. TypeOK
  BY <1>1, DataAssumption DEF Init, TypeOK, PCs
<1>3. Shape
  BY <1>1, ConnAssumption DEF Init, Shape, ConnShape, ThreadShape
<1> QED
  BY <1>2, <1>3

(* The steps of clients keep the state well-typed. *)
LEMMA ClientStepType ==
  ASSUME TypeOK, NEW c \in Conns, ClientStep(c)
  PROVE  TypeOK'
<1>1. CASE Connect(c)
  BY <1>1 DEF Connect, TypeOK, PCs
<1>2. CASE Close(c)
  <2>1. sock' \in [Conns -> {"free", "open", "shut", "reset"}]
    BY <1>2 DEF Close, TypeOK
  <2>2. pc' \in [Conns -> PCs]
    BY <1>2 DEF Close, TypeOK, PCs
  <2>3. outbox' \in [Conns -> Seq(Reply)]
    BY <1>2 DEF Close, TypeOK
  <2> QED
    BY <1>2, <2>1, <2>2, <2>3 DEF Close, TypeOK
<1>3. ASSUME NEW m \in Msgs, Send(c, m)
      PROVE  TypeOK'
  BY <1>3 DEF Send, TypeOK, thread
<1>4. ASSUME NEW n \in 1..Len(outbox[c]), Read(c, n)
      PROVE  TypeOK'
  <2>1. SubSeq(outbox[c], n + 1, Len(outbox[c])) \in Seq(Reply)
    BY SplitType DEF TypeOK
  <2> QED
    BY <1>4, <2>1 DEF Read, TypeOK, thread
<1> QED
  BY <1>1, <1>2, <1>3, <1>4 DEF ClientStep

(* When the process ends everything it held is gone. *)
LEMMA ExitType ==
  ASSUME TypeOK, Exit
  PROVE  TypeOK'
<1>1. Outcome("none") \in Result
  BY OutcomeType DEF Branch
<1>2. {s.host : s \in sessions} \subseteq Addrs
  BY DEF TypeOK, Lines
<1>3. pc' \in [Conns -> PCs] /\ sock' \in [Conns -> {"free", "open", "shut", "reset"}]
  BY DEF Exit, PCs
<1>4. inbox' \in [Conns -> Seq(Msgs)] /\ buf' \in [Conns -> Seq(Msgs)]
  BY DEF Exit
<1>5. res' \in [Conns -> Result]
  BY <1>1 DEF Exit
<1> QED
  BY <1>2, <1>3, <1>4, <1>5 DEF Exit, TypeOK

(* A thread past its dispatch runs one of the handlers. *)
LEMMA RunsHandler ==
  ASSUME TypeOK, Shape, NEW c \in Conns, pc[c] \in Running
  PROVE  cur[c] \in Kinds
  BY DEF TypeOK, Shape, ThreadShape

(* Returning from a handler, and giving its connection back or leaking it. *)
LEMMA ReturnType ==
  ASSUME TypeOK, NEW c \in Conns, cur[c] \in Kinds, Return(c), Release(c)
  PROVE  /\ todo' \in [Conns -> SUBSET Kinds]
         /\ pc' \in [Conns -> PCs]
         /\ buf' \in [Conns -> Seq(Msgs)]
         /\ cur' \in [Conns -> Kinds \union {NoCmd}]
         /\ res' \in [Conns -> Result]
         /\ held' \in [Conns -> Handles \union {NoHandle}]
         /\ pg' \in [Handles -> {"free", "busy"} \union Kinds]
<1>1. Outcome("none") \in Result
  BY OutcomeType DEF Branch
<1>2. pg' \in [Handles -> {"free", "busy"} \union Kinds]
  BY DEF TypeOK, Release
<1>3. held' \in [Conns -> Handles \union {NoHandle}]
  BY DEF TypeOK, Release
<1>4. todo' \in [Conns -> SUBSET Kinds]
  BY DEF TypeOK, Return
<1>5. pc' \in [Conns -> PCs]
  BY DEF TypeOK, Return, PCs
<1>6. buf' \in [Conns -> Seq(Msgs)]
  BY DEF TypeOK, Return
<1>7. cur' \in [Conns -> Kinds \union {NoCmd}]
  BY DEF TypeOK, Return
<1>8. res' \in [Conns -> Result]
  BY <1>1 DEF TypeOK, Return
<1> QED
  BY <1>2, <1>3, <1>4, <1>5, <1>6, <1>7, <1>8

(* Sending a reply. *)
LEMMA DeliverType ==
  ASSUME TypeOK, NEW c \in Conns, NEW r \in Reply, Deliver(c, r)
  PROVE  /\ outbox' \in [Conns -> Seq(Reply)]
         /\ sock' \in [Conns -> {"free", "open", "shut", "reset"}]
<1>1. outbox' \in [Conns -> Seq(Reply)]
  BY DEF TypeOK, Deliver
<1>2. sock' = sock \/ sock' = [sock EXCEPT ![c] = "reset"]
  BY DEF Deliver
<1> QED
  BY <1>1, <1>2 DEF TypeOK

(* Executing a statement records its outcome. *)
LEMMA ExecutedType ==
  ASSUME TypeOK, NEW c \in Conns, NEW r \in Result, Executed(c, r),
         db' \in [Tables -> [Ids -> Row]]
  PROVE  TypeOK'
<1>1. res' \in [Conns -> Result] /\ pc' \in [Conns -> PCs]
  BY DEF Executed, TypeOK, PCs
<1> QED
  BY <1>1 DEF Executed, TypeOK

(* The statements keep the tables and the results well-typed. *)
LEMMA RunQueryType ==
  ASSUME TypeOK, Shape, NEW c \in Conns, RunQuery(c)
  PROVE  TypeOK'
<1>1. /\ buf[c] \in Seq(Msgs) /\ buf[c] # <<>>
      /\ cur[c] \in Kinds
      /\ db \in [Tables -> [Ids -> Row]]
  BY DEF RunQuery, QueryFails, Fetch, CheckLogin, Update, Delete, Insert,
         TypeOK, Shape, ThreadShape
<1>2. /\ Field(cur[c], buf[c]) \in Row
      /\ Head(buf[c]).id \in Ids
  BY <1>1, FieldType
<1>3. \A b \in Branch : Outcome(b) \in Result
  BY OutcomeType
<1>4. CASE QueryFails(c)
  BY <1>1, <1>3, <1>4, ExecutedType DEF QueryFails, Branch
<1>5. CASE Fetch(c)
  <2>1. [branch |-> "done", rows |-> Selected(cur[c])] \in Result
    BY <1>1, SelectedType DEF Result, Branch
  <2> QED
    BY <1>1, <1>5, <2>1, ExecutedType DEF Fetch
<1>6. CASE CheckLogin(c)
  <2>1. \E b \in Branch : Executed(c, Outcome(b))
    BY <1>6 DEF CheckLogin, Branch
  <2> QED
    BY <1>1, <1>3, <1>6, <2>1, ExecutedType DEF CheckLogin
<1>7. CASE Update(c)
  <2>1. db' \in [Tables -> [Ids -> Row]]
    BY <1>1, <1>2, <1>7, StoredType DEF Update
  <2> QED
    BY <1>3, <1>7, <2>1, ExecutedType DEF Update, Branch
<1>8. CASE Delete(c)
  <2>1. db' \in [Tables -> [Ids -> Row]]
    BY <1>1, <1>2, <1>8, StoredType DEF Delete, Row
  <2> QED
    BY <1>3, <1>8, <2>1, ExecutedType DEF Delete, Branch
<1>9. ASSUME NEW i \in Ids, Insert(c, i)
      PROVE  TypeOK'
  <2>1. db' \in [Tables -> [Ids -> Row]]
    BY <1>1, <1>2, <1>9, StoredType DEF Insert
  <2>2. BranchAfter(cur[c]) \in Branch
    BY DEF BranchAfter, Branch
  <2> QED
    BY <1>3, <1>9, <2>1, <2>2, ExecutedType DEF Insert
<1> QED
  BY <1>4, <1>5, <1>6, <1>7, <1>8, <1>9 DEF RunQuery

(* The steps of a connection's thread keep the state well-typed. *)
LEMMA ThreadStepType ==
  ASSUME TypeOK, Shape, NEW c \in Conns, ThreadStep(c)
  PROVE  TypeOK'
<1>1. NoRows \in Rows
  BY DEF NoRows, Rows, Row
<1>2. ASSUME NEW n \in 1..MaxBatch, Receive(c, n)
      PROVE  TypeOK'
  <2>1. inbox[c] \in Seq(Msgs) /\ n \in Nat \ {0} /\ n <= Len(inbox[c])
    BY <1>2 DEF Receive, TypeOK
  <2>2. /\ SubSeq(inbox[c], 1, n) \in Seq(Msgs)
        /\ SubSeq(inbox[c], n + 1, Len(inbox[c])) \in Seq(Msgs)
    BY <2>1, SplitType
  <2>3. Branches(SubSeq(inbox[c], 1, n)) \subseteq Kinds
    BY <2>2, BranchesType
  <2>4. inbox' \in [Conns -> Seq(Msgs)] /\ buf' \in [Conns -> Seq(Msgs)]
    BY <1>2, <2>2 DEF Receive, TypeOK
  <2>5. todo' \in [Conns -> SUBSET Kinds] /\ pc' \in [Conns -> PCs]
    BY <1>2, <2>3 DEF Receive, TypeOK, PCs
  <2> QED
    BY <1>2, <2>4, <2>5 DEF Receive, TypeOK
<1>3. CASE Disconnect(c)
  <2>1. /\ sock' \in [Conns -> {"free", "open", "shut", "reset"}]
        /\ pc' \in [Conns -> PCs]
    BY <1>3 DEF Disconnect, Ending, Dropped, TypeOK, PCs
  <2>2. inbox' \in [Conns -> Seq(Msgs)]
    BY <1>3 DEF Disconnect, Dropped, TypeOK
  <2>3. sessions' \subseteq Lines /\ orphans' \subseteq Addrs
    BY <1>3, ConnAssumption DEF Disconnect, TypeOK, Addrs
  <2> QED
    BY <1>3, <2>1, <2>2, <2>3 DEF Disconnect, TypeOK
<1>4. ASSUME NEW h \in Kinds, Misparse(c, h)
      PROVE  TypeOK'
  <2>1. Outcome("malformed") \in Result
    BY OutcomeType DEF Branch
  <2> QED
    BY <1>4, <2>1 DEF Misparse, TypeOK, PCs
<1>5. ASSUME NEW h \in Kinds, NEW x \in Handles, OpenDb(c, h, x)
      PROVE  TypeOK'
  BY <1>5 DEF OpenDb, TypeOK, PCs
<1>6. ASSUME NEW h \in Kinds, OpenDbFails(c, h)
      PROVE  TypeOK'
  BY <1>6, ExitType DEF OpenDbFails
<1>7. CASE RunQuery(c)
  BY <1>7, RunQueryType
<1>8. CASE Answer(c)
  <2>1. cur[c] \in Kinds /\ res[c] \in Result
    BY <1>8 DEF Answer, Shape, ThreadShape, TypeOK
  <2>2. [to |-> cur[c], says |-> SaysOf(cur[c], res[c].branch),
         rows |-> res[c].rows] \in Reply
    BY <2>1, SaysType DEF Reply, Result
  <2>3. /\ outbox' \in [Conns -> Seq(Reply)]
        /\ sock' \in [Conns -> {"free", "open", "shut", "reset"}]
    BY <1>8, <2>2, DeliverType DEF Answer, TypeOK
  <2> QED
    BY <1>8, <2>1, <2>3, ReturnType DEF Answer, TypeOK
<1>9. CASE AnswerLogin(c)
  <2>1. [to |-> "LOGIN", says |-> "true", rows |-> NoRows] \in Reply
    BY <1>1 DEF Reply, Says, Kinds, Auth
  <2>2. /\ outbox' \in [Conns -> Seq(Reply)]
        /\ sock' \in [Conns -> {"free", "open", "shut", "reset"}]
    BY <1>9, <2>1, DeliverType DEF AnswerLogin
  <2> QED
    BY <1>9, <2>2 DEF AnswerLogin, TypeOK, PCs
<1>10. ASSUME NEW a \in Addrs, AddSession(c, a)
       PROVE  TypeOK'
  <2>1. Head(buf[c]).val \in Texts
    BY <1>10 DEF AddSession, Shape, ThreadShape
  <2>2. sessions' \subseteq Lines /\ orphans' \subseteq Addrs
    BY <1>10, <2>1 DEF AddSession, TypeOK, Lines
  <2>3. cur[c] \in Kinds
    BY <1>10, RunsHandler DEF AddSession, Running
  <2> QED
    BY <1>10, <2>2, <2>3, ReturnType DEF AddSession, TypeOK
<1>11. CASE AddSessionFails(c)
  <2>1. [to |-> "LOGIN", says |-> "false", rows |-> NoRows] \in Reply
    BY <1>1 DEF Reply, Says, Kinds, Auth
  <2>2. /\ outbox' \in [Conns -> Seq(Reply)]
        /\ sock' \in [Conns -> {"free", "open", "shut", "reset"}]
    BY <1>11, <2>1, DeliverType DEF AddSessionFails
  <2>3. cur[c] \in Kinds
    BY <1>11, RunsHandler DEF AddSessionFails, Running
  <2> QED
    BY <1>11, <2>2, <2>3, ReturnType DEF AddSessionFails, TypeOK
<1>12. CASE Sigpipe(c)
  BY <1>12, ExitType DEF Sigpipe
<1> QED
  BY <1>2, <1>3, <1>4, <1>5, <1>6, <1>7, <1>8, <1>9, <1>10, <1>11, <1>12
  DEF ThreadStep

(* So do the accept loop, a restart, and a step that changes nothing. *)
LEMMA NextType ==
  ASSUME TypeOK, Shape, [Next]_vars
  PROVE  TypeOK'
<1>1. CASE Restart
  BY <1>1 DEF Restart, TypeOK, thread
<1>2. ASSUME NEW c \in Conns, ClientStep(c)
      PROVE  TypeOK'
  BY <1>2, ClientStepType
<1>3. ASSUME NEW c \in Conns, AcceptLoop(c)
      PROVE  TypeOK'
  <2>1. CASE Accept(c)
    BY <2>1 DEF Accept, TypeOK, PCs
  <2>2. CASE Refuse(c)
    <3>1. /\ sock' \in [Conns -> {"free", "open", "shut", "reset"}]
          /\ pc' \in [Conns -> PCs]
      BY <2>2 DEF Refuse, Dropped, TypeOK, PCs
    <3>2. inbox' \in [Conns -> Seq(Msgs)]
      BY <2>2 DEF Refuse, Dropped, TypeOK
    <3> QED
      BY <2>2, <3>1, <3>2 DEF Refuse, TypeOK
  <2> QED
    BY <1>3, <2>1, <2>2 DEF AcceptLoop
<1>4. ASSUME NEW c \in Conns, ThreadStep(c)
      PROVE  TypeOK'
  BY <1>4, ThreadStepType
<1>5. CASE UNCHANGED vars
  BY <1>5 DEF vars, thread, TypeOK
<1> QED
  BY <1>1, <1>2, <1>3, <1>4, <1>5 DEF Next

-----------------------------------------------------------------------------
(* The shape of a connection's state. *)

(* A thread outside its handlers has no login that matched. *)
LEMMA NoMatch ==
  ASSUME TypeOK, Shape, NEW c \in Conns, pc[c] \notin Running
  PROVE  cur[c] = NoCmd /\ held[c] = NoHandle /\ res[c].branch # "match"
<1>1. "LOGIN" # NoCmd
  BY ConnAssumption DEF Kinds, Auth
<1> QED
  BY <1>1 DEF Shape, ThreadShape

(* The steps of clients keep the shape. *)
LEMMA ClientStepShape ==
  ASSUME TypeOK, Shape, NEW c \in Conns, ClientStep(c)
  PROVE  Shape'
<1> SUFFICES ASSUME NEW d \in Conns
             PROVE  ConnShape(d)' /\ ThreadShape(d)'
  BY DEF Shape
<1>1. ConnShape(d) /\ ThreadShape(d)
  BY DEF Shape
<1>2. CASE Connect(c)
  BY <1>1, <1>2, NoMatch DEF Connect, TypeOK, ConnShape, ThreadShape
<1>3. CASE Close(c)
  <2>1. ConnShape(d)'
    BY <1>1, <1>3 DEF Close, TypeOK, ConnShape
  <2>2. ThreadShape(d)'
    BY <1>1, <1>3 DEF Close, TypeOK, ThreadShape
  <2> QED
    BY <2>1, <2>2
<1>4. ASSUME NEW m \in Msgs, Send(c, m)
      PROVE  ConnShape(d)' /\ ThreadShape(d)'
  BY <1>1, <1>4 DEF Send, thread, ConnShape, ThreadShape
<1>5. ASSUME NEW n \in 1..Len(outbox[c]), Read(c, n)
      PROVE  ConnShape(d)' /\ ThreadShape(d)'
  BY <1>1, <1>5 DEF Read, thread, ConnShape, ThreadShape
<1> QED
  BY <1>2, <1>3, <1>4, <1>5 DEF ClientStep

(* A process that ended leaves only connections without a thread. *)
LEMMA ExitShape ==
  ASSUME Exit
  PROVE  Shape'
<1> SUFFICES ASSUME NEW d \in Conns
             PROVE  ConnShape(d)' /\ ThreadShape(d)'
  BY DEF Shape
<1>1. ConnShape(d)'
  BY DEF Exit, ConnShape
<1>2. ThreadShape(d)'
  BY DEF Exit, ThreadShape, Outcome
<1> QED
  BY <1>1, <1>2

(* Sending a reply neither frees nor opens a connection. *)
LEMMA DeliverShape ==
  ASSUME TypeOK, NEW c \in Conns, NEW r, Deliver(c, r), NEW d \in Conns
  PROVE  /\ sock'[d] = "free" <=> sock[d] = "free"
         /\ sock'[d] = "open" <=> sock[d] = "open"
<1>1. sock' = sock \/ (sock[c] = "shut" /\ sock' = [sock EXCEPT ![c] = "reset"])
  BY DEF Deliver
<1> QED
  BY <1>1 DEF TypeOK

(* A handler that returns leaves its thread in recv or at the next branch. *)
LEMMA ReturnShape ==
  ASSUME TypeOK, Shape, NEW c \in Conns, pc[c] \in {"answer", "session"},
         Return(c), Release(c),
         \A d \in Conns : /\ sock'[d] = "free" <=> sock[d] = "free"
                          /\ sock'[d] = "open" <=> sock[d] = "open"
  PROVE  Shape'
<1> SUFFICES ASSUME NEW d \in Conns
             PROVE  ConnShape(d)' /\ ThreadShape(d)'
  BY DEF Shape
<1>1. ConnShape(d) /\ ThreadShape(d)
  BY DEF Shape
<1>2. CASE d # c
  BY <1>1, <1>2 DEF Return, Release, TypeOK, ConnShape, ThreadShape
<1>3. CASE d = c
  <2>1. /\ pc'[c] \in {"recv", "dispatch"} /\ cur'[c] = NoCmd
        /\ held'[c] = NoHandle /\ res'[c].branch = "none"
    BY DEF Return, Release, TypeOK, Outcome
  <2>2. pc'[c] = "dispatch" => buf'[c] = buf[c]
    BY DEF Return, TypeOK
  <2>3. buf[c] # <<>>
    BY DEF Shape, ThreadShape
  <2> QED
    BY <1>1, <1>3, <2>1, <2>2, <2>3 DEF ConnShape, ThreadShape
<1> QED
  BY <1>2, <1>3

(* Executing a statement keeps the shape, a login's match being earned. *)
LEMMA ExecutedShape ==
  ASSUME TypeOK, Shape, NEW c \in Conns, pc[c] = "query",
         NEW r \in Result, Executed(c, r),
         r.branch = "match" => cur[c] = "LOGIN" /\ Head(buf[c]).val \in Texts
  PROVE  Shape'
<1> SUFFICES ASSUME NEW d \in Conns
             PROVE  ConnShape(d)' /\ ThreadShape(d)'
  BY DEF Shape
<1>1. ConnShape(d) /\ ThreadShape(d)
  BY DEF Shape
<1>2. ConnShape(d)'
  BY <1>1 DEF Executed, TypeOK, ConnShape
<1>3. ThreadShape(d)'
  BY <1>1 DEF Executed, TypeOK, ThreadShape
<1> QED
  BY <1>2, <1>3

(* The statements keep the shape. *)
LEMMA RunQueryShape ==
  ASSUME TypeOK, Shape, NEW c \in Conns, RunQuery(c)
  PROVE  Shape'
<1>1. /\ buf[c] \in Seq(Msgs) /\ buf[c] # <<>>
      /\ cur[c] \in Kinds /\ pc[c] = "query"
  BY DEF RunQuery, QueryFails, Fetch, CheckLogin, Update, Delete, Insert,
         TypeOK, Shape, ThreadShape
<1>2. \A b \in Branch : Outcome(b) \in Result /\ Outcome(b).branch = b
  BY OutcomeType DEF Outcome
<1>3. CASE QueryFails(c)
  BY <1>1, <1>2, <1>3, ExecutedShape DEF QueryFails, Branch
<1>4. CASE Fetch(c)
  <2>1. [branch |-> "done", rows |-> Selected(cur[c])] \in Result
    BY <1>1, SelectedType DEF Result, Branch
  <2> QED
    BY <1>1, <1>4, <2>1, ExecutedShape DEF Fetch
<1>5. CASE CheckLogin(c)
  <2>1. CASE Executed(c, Outcome("match")) /\ Field("LOGIN", buf[c]) \in Texts
    <3>1. Head(buf[c]).val \in Texts
      BY <1>1, <2>1, FieldType
    <3> QED
      BY <1>1, <1>2, <1>5, <2>1, <3>1, ExecutedShape DEF CheckLogin, Branch
  <2>2. CASE Executed(c, Outcome("nomatch"))
    BY <1>1, <1>2, <2>2, ExecutedShape DEF Branch
  <2> QED
    BY <1>5, <2>1, <2>2 DEF CheckLogin
<1>6. CASE Update(c) \/ Delete(c)
  BY <1>1, <1>2, <1>6, ExecutedShape DEF Update, Delete, Branch
<1>7. ASSUME NEW i \in Ids, Insert(c, i)
      PROVE  Shape'
  <2>1. BranchAfter(cur[c]) \in Branch /\ BranchAfter(cur[c]) # "match"
    BY DEF BranchAfter, Branch
  <2> QED
    BY <1>1, <1>2, <1>7, <2>1, ExecutedShape DEF Insert
<1> QED
  BY <1>3, <1>4, <1>5, <1>6, <1>7 DEF RunQuery

(* The steps of a connection's thread keep the shape. *)
LEMMA ThreadStepShape ==
  ASSUME TypeOK, Shape, NEW c \in Conns, ThreadStep(c)
  PROVE  Shape'
<1>1. \A d \in Conns : ConnShape(d) /\ ThreadShape(d)
  BY DEF Shape
<1>2. \A b \in Branch : Outcome(b).branch = b
  BY DEF Outcome
<1>3. ASSUME NEW n \in 1..MaxBatch, Receive(c, n)
      PROVE  Shape'
  <2>1. inbox[c] \in Seq(Msgs) /\ n \in Nat \ {0} /\ n <= Len(inbox[c])
    BY <1>3 DEF Receive, TypeOK
  <2>2. SubSeq(inbox[c], 1, n) # <<>>
    BY <2>1, SplitType
  <2>3. ASSUME NEW d \in Conns PROVE ConnShape(d)' /\ ThreadShape(d)'
    <3>1. ConnShape(d)'
      BY <1>1, <1>3 DEF Receive, TypeOK, ConnShape
    <3>2. ThreadShape(d)'
      BY <1>1, <1>3, <2>2, NoMatch DEF Receive, TypeOK, ThreadShape
    <3> QED
      BY <3>1, <3>2
  <2> QED
    BY <2>3 DEF Shape
<1>4. CASE Disconnect(c)
  <2>1. ASSUME NEW d \in Conns PROVE ConnShape(d)' /\ ThreadShape(d)'
    <3>1. ConnShape(d)'
      BY <1>1, <1>4 DEF Disconnect, Ending, Dropped, TypeOK, ConnShape
    <3>2. ThreadShape(d)'
      BY <1>1, <1>4, NoMatch DEF Disconnect, Ending, Dropped, TypeOK, ThreadShape
    <3> QED
      BY <3>1, <3>2
  <2> QED
    BY <2>1 DEF Shape
<1>5. ASSUME NEW h \in Kinds, Misparse(c, h)
      PROVE  Shape'
  <2>1. h # NoCmd
    BY ConnAssumption
  <2>2. ASSUME NEW d \in Conns PROVE ConnShape(d)' /\ ThreadShape(d)'
    <3>1. ConnShape(d)'
      BY <1>1, <1>5 DEF Misparse, IsNext, TypeOK, ConnShape
    <3>2. ThreadShape(d)'
      BY <1>1, <1>2, <1>5, <2>1 DEF Misparse, IsNext, TypeOK, ThreadShape, Branch
    <3> QED
      BY <3>1, <3>2
  <2> QED
    BY <2>2 DEF Shape
<1>6. ASSUME NEW h \in Kinds, NEW x \in Handles, OpenDb(c, h, x)
      PROVE  Shape'
  <2>1. h # NoCmd
    BY ConnAssumption
  <2>2. ASSUME NEW d \in Conns PROVE ConnShape(d)' /\ ThreadShape(d)'
    <3>1. ConnShape(d)'
      BY <1>1, <1>6 DEF OpenDb, IsNext, TypeOK, ConnShape
    <3>2. ThreadShape(d)'
      BY <1>1, <1>6, <2>1, NoMatch DEF OpenDb, IsNext, TypeOK, ThreadShape
    <3> QED
      BY <3>1, <3>2
  <2> QED
    BY <2>2 DEF Shape
<1>7. ASSUME NEW h \in Kinds, OpenDbFails(c, h)
      PROVE  Shape'
  BY <1>7, ExitShape DEF OpenDbFails
<1>8. CASE RunQuery(c)
  BY <1>8, RunQueryShape
<1>9. CASE Answer(c)
  <2>1. \A d \in Conns : /\ sock'[d] = "free" <=> sock[d] = "free"
                         /\ sock'[d] = "open" <=> sock[d] = "open"
    BY <1>9, DeliverShape DEF Answer
  <2> QED
    BY <1>9, <2>1, ReturnShape DEF Answer
<1>10. CASE AnswerLogin(c)
  <2>1. ASSUME NEW d \in Conns PROVE ConnShape(d)' /\ ThreadShape(d)'
    <3>1. /\ sock'[d] = "free" <=> sock[d] = "free"
          /\ sock'[d] = "open" <=> sock[d] = "open"
      BY <1>10, DeliverShape DEF AnswerLogin
    <3>2. ConnShape(d)'
      BY <1>1, <1>10, <3>1 DEF AnswerLogin, TypeOK, ConnShape
    <3>3. ThreadShape(d)'
      BY <1>1, <1>10 DEF AnswerLogin, TypeOK, ThreadShape
    <3> QED
      BY <3>2, <3>3
  <2> QED
    BY <2>1 DEF Shape
<1>11. ASSUME NEW a \in Addrs, AddSession(c, a)
       PROVE  Shape'
  BY <1>11, ReturnShape DEF AddSession
<1>12. CASE AddSessionFails(c)
  <2>1. \A d \in Conns : /\ sock'[d] = "free" <=> sock[d] = "free"
                         /\ sock'[d] = "open" <=> sock[d] = "open"
    BY <1>12, DeliverShape DEF AddSessionFails
  <2> QED
    BY <1>12, <2>1, ReturnShape DEF AddSessionFails
<1>13. CASE Sigpipe(c)
  BY <1>13, ExitShape DEF Sigpipe
<1> QED
  BY <1>3, <1>4, <1>5, <1>6, <1>7, <1>8, <1>9, <1>10, <1>11, <1>12, <1>13
  DEF ThreadStep

(* So do the accept loop, a restart, and a step that changes nothing. *)
LEMMA NextShape ==
  ASSUME TypeOK, Shape, [Next]_vars
  PROVE  Shape'
<1>1. CASE Restart
  BY <1>1 DEF Restart, thread, Shape, ConnShape, ThreadShape
<1>2. ASSUME NEW c \in Conns, ClientStep(c)
      PROVE  Shape'
  BY <1>2, ClientStepShape
<1>3. ASSUME NEW c \in Conns, AcceptLoop(c), NEW d \in Conns
      PROVE  ConnShape(d)' /\ ThreadShape(d)'
  <2>1. ConnShape(d) /\ ThreadShape(d)
    BY DEF Shape
  <2>2. CASE Accept(c)
    <3>1. ConnShape(d)'
      BY <2>1, <2>2 DEF Accept, TypeOK, ConnShape
    <3>2. ThreadShape(d)'
      BY <2>1, <2>2 DEF Accept, TypeOK, ThreadShape
    <3> QED
      BY <3>1, <3>2
  <2>3. CASE Refuse(c)
    <3>1. ConnShape(d)'
      BY <2>1, <2>3 DEF Refuse, Dropped, TypeOK, ConnShape
    <3>2. ThreadShape(d)'
      BY <2>1, <2>3 DEF Refuse, Dropped, TypeOK, ThreadShape
    <3> QED
      BY <3>1, <3>2
  <2> QED
    BY <1>3, <2>2, <2>3 DEF AcceptLoop
<1>4. ASSUME NEW c \in Conns, ThreadStep(c)
      PROVE  Shape'
  BY <1>4, ThreadStepShape
<1>5. CASE UNCHANGED vars
  BY <1>5 DEF vars, thread, Shape, ConnShape, ThreadShape
<1> QED
  BY <1>1, <1>2, <1>3, <1>4, <1>5 DEF Next, Shape

(***************************************************************************)
(* The server's state is well-typed, and the parts of a connection's state *)
(* go together, in every reachable state (server.c, handle_command).       *)
(***************************************************************************)
THEOREM TypeInvariant == Spec => [](TypeOK /\ Shape)
<1>1. Init => TypeOK /\ Shape
  BY InitType
<1>2. TypeOK /\ Shape /\ [Next]_vars => (TypeOK /\ Shape)'
  BY NextType, NextShape
<1> QED
  BY <1>1, <1>2, PTL DEF Spec

(***************************************************************************)
(* A connection's slot, thread, buffer, database handle and result agree:  *)
(* only a running branch of handle_command holds a PGconn, and add_session *)
(* is only reached with the user of a login that matched.                  *)
(***************************************************************************)
THEOREM ThreadsInShape == Spec => []Shape
<1> QED
  BY TypeInvariant, PTL

-----------------------------------------------------------------------------
(* The ownership of PostgreSQL connections. *)

(* A handler that returns gives up its own connection and no other. *)
LEMMA ReleaseOwnership ==
  ASSUME TypeOK, HandleOwnership, NEW c \in Conns, cur[c] \in Kinds, Release(c)
  PROVE  HandleOwnership'
<1>1. held' = [held EXCEPT ![c] = NoHandle]
  BY DEF Release
<1>2. \A x \in Handles : x # held[c] => pg'[x] = pg[x]
  BY DEF Release
<1>3. ASSUME NEW x \in Handles, pg'[x] = "busy"
      PROVE  x # held[c] /\ pg[x] = "busy"
  BY <1>3 DEF Release, Kinds, Auth, Fetches, Inserts, Updates, Deletes
<1>4. NoHandle \notin Handles
  BY ConnAssumption
<1>5. ASSUME NEW d \in Conns, held'[d] # NoHandle
      PROVE  d # c /\ held'[d] = held[d] /\ held[d] \in Handles
  BY <1>1, <1>5 DEF TypeOK
<1>6. \A d \in Conns : held'[d] # NoHandle => pg'[held'[d]] = "busy"
  BY <1>2, <1>5 DEF HandleOwnership
<1>7. \A d, e \in Conns : held'[d] = held'[e] /\ held'[d] # NoHandle => d = e
  BY <1>5 DEF HandleOwnership
<1>8. \A x \in Handles : pg'[x] = "busy" => \E d \in Conns : held'[d] = x
  <2> SUFFICES ASSUME NEW x \in Handles, pg'[x] = "busy"
               PROVE  \E d \in Conns : held'[d] = x
    OBVIOUS
  <2>1. PICK d \in Conns : held[d] = x
    BY <1>3 DEF HandleOwnership
  <2>2. d # c
    BY <1>3, <2>1
  <2> QED
    BY <1>1, <2>1, <2>2 DEF TypeOK
<1> QED
  BY <1>6, <1>7, <1>8 DEF HandleOwnership

(* connect_to_db takes a connection that nobody holds. *)
LEMMA OpenOwnership ==
  ASSUME TypeOK, Shape, HandleOwnership,
         NEW c \in Conns, NEW h \in Kinds, NEW x \in Handles, OpenDb(c, h, x)
  PROVE  HandleOwnership'
<1>1. held[c] = NoHandle /\ x # NoHandle /\ pg[x] = "free"
  BY NoMatch, ConnAssumption DEF OpenDb, IsNext, FreeHandles
<1>2. held' = [held EXCEPT ![c] = x] /\ pg' = [pg EXCEPT ![x] = "busy"]
  BY DEF OpenDb
<1>3. \A d \in Conns : held[d] # x
  BY <1>1 DEF HandleOwnership
<1>4. \A d \in Conns : held'[d] # NoHandle => pg'[held'[d]] = "busy"
  BY <1>2 DEF HandleOwnership, TypeOK
<1>5. \A d, e \in Conns : held'[d] = held'[e] /\ held'[d] # NoHandle => d = e
  BY <1>2, <1>3 DEF HandleOwnership, TypeOK
<1>6. \A y \in Handles : pg'[y] = "busy" => \E d \in Conns : held'[d] = y
  <2> SUFFICES ASSUME NEW y \in Handles, pg'[y] = "busy"
               PROVE  \E d \in Conns : held'[d] = y
    OBVIOUS
  <2>1. CASE y = x
    BY <1>2, <2>1 DEF TypeOK
  <2>2. CASE y # x
    <3>1. PICK d \in Conns : held[d] = y
      BY <1>2, <2>2 DEF HandleOwnership, TypeOK
    <3>2. d # c
      BY <1>1, <3>1, ConnAssumption
    <3> QED
      BY <1>2, <3>1, <3>2 DEF TypeOK
  <2> QED
    BY <2>1, <2>2
<1> QED
  BY <1>4, <1>5, <1>6 DEF HandleOwnership

(* A step either leaves the connections alone or does one of three things. *)
LEMMA OwnershipSteps ==
  ASSUME TypeOK, Shape, [Next]_vars
  PROVE  \/ UNCHANGED <<held, pg>>
         \/ Exit
         \/ \E c \in Conns : cur[c] \in Kinds /\ Release(c)
         \/ \E c \in Conns, h \in Kinds, x \in Handles : OpenDb(c, h, x)
<1>1. CASE Restart \/ UNCHANGED vars
  BY <1>1 DEF Restart, vars, thread
<1>2. ASSUME NEW c \in Conns, ClientStep(c)
      PROVE  UNCHANGED <<held, pg>>
  BY <1>2 DEF ClientStep, Connect, Close, Send, Read, thread
<1>3. ASSUME NEW c \in Conns, AcceptLoop(c)
      PROVE  UNCHANGED <<held, pg>>
  BY <1>3 DEF AcceptLoop, Accept, Refuse
<1>4. ASSUME NEW c \in Conns, RunQuery(c)
      PROVE  UNCHANGED <<held, pg>>
  BY <1>4 DEF RunQuery, QueryFails, Fetch, CheckLogin, Update, Delete, Insert,
              Executed
<1>5. ASSUME NEW c \in Conns, ThreadStep(c), ~RunQuery(c)
      PROVE  \/ UNCHANGED <<held, pg>> \/ Exit \/ (cur[c] \in Kinds /\ Release(c))
             \/ \E h \in Kinds, x \in Handles : OpenDb(c, h, x)
  <2>1. pc[c] \in Running => cur[c] \in Kinds
    BY RunsHandler
  <2> QED
    BY <1>5, <2>1 DEF ThreadStep, Receive, Disconnect, Misparse, OpenDbFails, Answer,
                      AnswerLogin, AddSession, AddSessionFails, Sigpipe, Running
<1> QED
  BY <1>1, <1>2, <1>3, <1>4, <1>5 DEF Next

(***************************************************************************)
(* No two threads ever share a PostgreSQL connection, and one that is not  *)
(* free and not leaked belongs to a running handler: connect_to_db and     *)
(* PQfinish in every handler, for any number of threads and any            *)
(* max_connections.                                                        *)
(***************************************************************************)
THEOREM ConnectionsOwned == Spec => []HandleOwnership
<1>1. Init => HandleOwnership
  BY DEF Init, HandleOwnership
<1>2. TypeOK /\ Shape /\ HandleOwnership /\ [Next]_vars => HandleOwnership'
  <2> SUFFICES ASSUME TypeOK, Shape, HandleOwnership, [Next]_vars
               PROVE  HandleOwnership'
    OBVIOUS
  <2>1. CASE UNCHANGED <<held, pg>>
    BY <2>1 DEF HandleOwnership
  <2>2. CASE Exit
    BY <2>2 DEF Exit, HandleOwnership
  <2>3. ASSUME NEW c \in Conns, cur[c] \in Kinds, Release(c)
        PROVE  HandleOwnership'
    BY <2>3, ReleaseOwnership
  <2>4. ASSUME NEW c \in Conns, NEW h \in Kinds, NEW x \in Handles, OpenDb(c, h, x)
        PROVE  HandleOwnership'
    BY <2>4, OpenOwnership
  <2> QED
    BY <2>1, <2>2, <2>3, <2>4, OwnershipSteps
<1> QED
  BY <1>1, <1>2, TypeInvariant, PTL DEF Spec

-----------------------------------------------------------------------------
(* The lines of sessions.txt. *)

(* A step that ends no thread, adds no line and forgives no orphan. *)
LEMMA BackedFrame ==
  ASSUME SessionBacked, sessions' \subseteq sessions, orphans \subseteq orphans',
         \A c \in Conns : pc[c] \in Served => pc'[c] \in Served
  PROVE  SessionBacked'
  BY DEF SessionBacked, Threads

(* Every step but three is of that kind. *)
LEMMA BackedSteps ==
  ASSUME TypeOK, Shape, [Next]_vars
  PROVE  \/ /\ sessions' \subseteq sessions /\ orphans \subseteq orphans'
            /\ \A c \in Conns : pc[c] \in Served => pc'[c] \in Served
         \/ Exit
         \/ \E c \in Conns : Disconnect(c) \/ \E a \in Addrs : AddSession(c, a)
<1> DEFINE Keeps == /\ sessions' \subseteq sessions /\ orphans \subseteq orphans'
                    /\ \A c \in Conns : pc[c] \in Served => pc'[c] \in Served
<1>1. CASE Restart \/ UNCHANGED vars
  BY <1>1 DEF Restart, vars, thread
<1>2. ASSUME NEW c \in Conns, ClientStep(c)
      PROVE  Keeps
  BY <1>2 DEF ClientStep, Connect, Close, Send, Read, thread, TypeOK, Shape, ConnShape
<1>3. ASSUME NEW c \in Conns, AcceptLoop(c)
      PROVE  Keeps
  BY <1>3 DEF AcceptLoop, Accept, Refuse, Dropped, TypeOK
<1>4. ASSUME NEW c \in Conns, RunQuery(c)
      PROVE  Keeps
  BY <1>4 DEF RunQuery, QueryFails, Fetch, CheckLogin, Update, Delete, Insert,
              Executed, TypeOK
<1>5. ASSUME NEW c \in Conns, ThreadStep(c), ~RunQuery(c)
      PROVE  Keeps \/ Exit \/ Disconnect(c) \/ \E a \in Addrs : AddSession(c, a)
  <2>1. ASSUME NEW n \in 1..MaxBatch, Receive(c, n)
        PROVE  Keeps
    BY <2>1 DEF Receive, TypeOK
  <2>2. ASSUME NEW h \in Kinds, Misparse(c, h)
        PROVE  Keeps
    BY <2>2 DEF Misparse, TypeOK
  <2>3. ASSUME NEW h \in Kinds, NEW x \in Handles, OpenDb(c, h, x)
        PROVE  Keeps
    BY <2>3 DEF OpenDb, TypeOK
  <2>4. CASE Answer(c) \/ AddSessionFails(c)
    BY <2>4 DEF Answer, AddSessionFails, Return, TypeOK
  <2>5. CASE AnswerLogin(c)
    BY <2>5 DEF AnswerLogin, TypeOK
  <2> QED
    BY <1>5, <2>1, <2>2, <2>3, <2>4, <2>5 DEF ThreadStep, OpenDbFails, Sigpipe
<1> QED
  BY <1>1, <1>2, <1>3, <1>4, <1>5 DEF Next

(***************************************************************************)
(* A line of sessions.txt has a live thread of its host behind it, or the  *)
(* host is one whose removal a crash, a failed remove_session or the read  *)
(* of an uninitialised address has put in doubt.                           *)
(***************************************************************************)
THEOREM SessionsBacked == Spec => []SessionBacked
<1>1. Init => SessionBacked
  BY DEF Init, SessionBacked
<1>2. TypeOK /\ Shape /\ SessionBacked /\ [Next]_vars => SessionBacked'
  <2> SUFFICES ASSUME TypeOK, Shape, SessionBacked, [Next]_vars
               PROVE  SessionBacked'
    OBVIOUS
  <2>1. CASE Exit
    BY <2>1 DEF Exit, SessionBacked
  <2>2. ASSUME NEW c \in Conns, Disconnect(c)
        PROVE  SessionBacked'
    <3> SUFFICES ASSUME NEW s \in sessions', s.host \notin orphans'
                 PROVE  \E d \in Conns : pc'[d] \in Served /\ HostOf[d] = s.host
      BY DEF SessionBacked, Threads
    <3>1. s \in sessions /\ s.host \notin orphans /\ s.host # HostOf[c]
      BY <2>2 DEF Disconnect
    <3>2. PICK d \in Conns : pc[d] \in Served /\ HostOf[d] = s.host
      BY <3>1 DEF SessionBacked, Threads
    <3>3. d # c
      BY <3>1, <3>2
    <3> QED
      BY <2>2, <3>2, <3>3 DEF Disconnect, Dropped, TypeOK
  <2>3. ASSUME NEW c \in Conns, NEW a \in Addrs, AddSession(c, a)
        PROVE  SessionBacked'
    <3>1. pc'[c] \in Served
      BY <2>3 DEF AddSession, Return, TypeOK
    <3>2. \A d \in Conns : pc[d] \in Served => pc'[d] \in Served
      BY <2>3, <3>1 DEF AddSession, Return, TypeOK
    <3>3. orphans \subseteq orphans'
      BY <2>3 DEF AddSession
    <3>4. ASSUME NEW s \in sessions'
          PROVE  \/ s.host \in orphans'
                 \/ \E d \in Conns : pc'[d] \in Served /\ HostOf[d] = s.host
      <4>1. CASE s \in sessions
        BY <3>2, <3>3, <4>1 DEF SessionBacked, Threads
      <4>2. CASE s \notin sessions
        <5>1. s.host = a
          BY <2>3, <4>2 DEF AddSession
        <5>2. a = HostOf[c] \/ a \in orphans'
          BY <2>3 DEF AddSession
        <5> QED
          BY <3>1, <5>1, <5>2
      <4> QED
        BY <4>1, <4>2
    <3> QED
      BY <3>4 DEF SessionBacked, Threads
  <2> QED
    BY <2>1, <2>2, <2>3, BackedFrame, BackedSteps
<1> QED
  BY <1>1, <1>2, TypeInvariant, PTL DEF Spec

-----------------------------------------------------------------------------
(* PostgreSQL's connections suffice for the handlers that finish theirs. *)

(* A connection is lost by a handler that may return without PQfinish. *)
LostByLeakers == \A x \in Handles : pg[x] \in Kinds => pg[x] \in Leakers

(* A handler that logs in, registers or fetches gives its connection back. *)
LEMMA ReleaseLoses ==
  ASSUME TypeOK, LostByLeakers, NEW c \in Conns, cur[c] \in Kinds, Release(c)
  PROVE  LostByLeakers'
<1> SUFFICES ASSUME NEW x \in Handles, pg'[x] \in Kinds
             PROVE  pg'[x] \in Leakers
  BY DEF LostByLeakers
<1>1. CASE x # held[c]
  BY <1>1 DEF Release, LostByLeakers
<1>2. CASE x = held[c]
  <2>1. "free" \notin Kinds
    BY DEF Kinds, Auth, Fetches, Inserts, Updates, Deletes
  <2>2. ~Finishes(cur[c], res[c].branch) /\ pg'[x] = cur[c]
    BY <1>2, <2>1 DEF Release
  <2> QED
    BY <2>2 DEF Finishes, Leakers
<1> QED
  BY <1>1, <1>2

(* So no other handler ever loses one (PQfinish on every path). *)
LEMMA OnlyLeakersLose == Spec => []LostByLeakers
<1>1. "free" \notin Kinds /\ "busy" \notin Kinds
  BY DEF Kinds, Auth, Fetches, Inserts, Updates, Deletes
<1>2. Init => LostByLeakers
  BY <1>1 DEF Init, LostByLeakers
<1>3. TypeOK /\ Shape /\ LostByLeakers /\ [Next]_vars => LostByLeakers'
  <2> SUFFICES ASSUME TypeOK, Shape, LostByLeakers, [Next]_vars
               PROVE  LostByLeakers'
    OBVIOUS
  <2>1. CASE UNCHANGED <<held, pg>>
    BY <2>1 DEF LostByLeakers
  <2>2. CASE Exit
    BY <1>1, <2>2 DEF Exit, LostByLeakers
  <2>3. ASSUME NEW c \in Conns, cur[c] \in Kinds, Release(c)
        PROVE  LostByLeakers'
    BY <2>3, ReleaseLoses
  <2>4. ASSUME NEW c \in Conns, NEW h \in Kinds, NEW x \in Handles, OpenDb(c, h, x)
        PROVE  LostByLeakers'
    BY <1>1, <2>4 DEF OpenDb, LostByLeakers, TypeOK
  <2> QED
    BY <2>1, <2>2, <2>3, <2>4, OwnershipSteps
<1> QED
  BY <1>2, <1>3, TypeInvariant, PTL DEF Spec

(***************************************************************************)
(* With one PostgreSQL connection per client, connect_to_db finds one free *)
(* unless a create, update or delete handler has lost one, for any number  *)
(* of clients: if none is free and none is lost, each is held, by distinct *)
(* threads, and the thread that asks is one more.                          *)
(***************************************************************************)
THEOREM PoolLasts == Spec => []PoolSuffices
<1>1. TypeOK /\ Shape /\ HandleOwnership /\ LostByLeakers => PoolSuffices
  <2> SUFFICES ASSUME TypeOK, Shape, HandleOwnership, LostByLeakers,
                      Cardinality(Conns) <= Cardinality(Handles),
                      NEW c \in Conns, pc[c] = "dispatch", FreeHandles = {},
                      \A x \in Handles : pg[x] \notin Leakers
               PROVE  FALSE
    BY DEF PoolSuffices
  <2>1. \A x \in Handles : pg[x] = "busy"
    BY DEF TypeOK, LostByLeakers, FreeHandles
  <2>2. held[c] = NoHandle
    BY NoMatch
  <2>3. \A x \in Handles : \E d \in Conns \ {c} : held[d] = x
    BY <2>1, <2>2, ConnAssumption DEF HandleOwnership
  <2> DEFINE owner == [x \in Handles |-> CHOOSE d \in Conns \ {c} : held[d] = x]
  <2>4. \A x \in Handles : owner[x] \in Conns \ {c} /\ held[owner[x]] = x
    BY <2>3
  <2>5. owner \in Injection(Handles, Conns \ {c})
    BY <2>4, Fun_IsInj
  <2>6. /\ IsFiniteSet(Conns \ {c})
        /\ Cardinality(Conns \ {c}) = Cardinality(Conns) - 1
    BY FS_RemoveElement, ConnAssumption
  <2>7. Cardinality(Handles) <= Cardinality(Conns \ {c})
    BY <2>5, <2>6, FS_Injection
  <2>8. Cardinality(Conns) \in Nat /\ Cardinality(Handles) \in Nat
    BY FS_CardinalityType, ConnAssumption
  <2> QED
    BY <2>6, <2>7, <2>8
<1> QED
  BY <1>1, TypeInvariant, ConnectionsOwned, OnlyLeakersLose, PTL

-----------------------------------------------------------------------------
(* sessions.txt is kept as ActiveSessions promises. *)

(* A process that has ended has no threads. *)
DownIsIdle == ~up => \A c \in Conns : pc[c] \notin Served \union {"backlog"}

(* Threads are made by the accept loop only, and end with the process. *)
LEMMA IdleWhenDown == Spec => []DownIsIdle
<1>1. Init => DownIsIdle
  BY DEF Init, DownIsIdle
<1>2. TypeOK /\ Shape /\ DownIsIdle /\ [Next]_vars => DownIsIdle'
  <2> SUFFICES ASSUME TypeOK, Shape, DownIsIdle, [Next]_vars
               PROVE  DownIsIdle'
    OBVIOUS
  <2>1. CASE Restart \/ UNCHANGED vars
    BY <2>1 DEF Restart, vars, thread, DownIsIdle
  <2>2. ASSUME NEW c \in Conns, ClientStep(c)
        PROVE  DownIsIdle'
    BY <2>2 DEF ClientStep, Connect, Close, Send, Read, thread, DownIsIdle, TypeOK
  <2>3. ASSUME NEW c \in Conns, AcceptLoop(c)
        PROVE  DownIsIdle'
    BY <2>3 DEF AcceptLoop, Accept, Refuse, DownIsIdle, TypeOK
  <2>4. ASSUME NEW c \in Conns, ThreadStep(c)
        PROVE  DownIsIdle'
    <3>1. CASE Exit
      BY <3>1 DEF Exit, DownIsIdle
    <3>2. CASE ~Exit
      <4>1. pc[c] \in Served \/ UNCHANGED <<up, pc>>
        BY <2>4, <3>2 DEF ThreadStep, Receive, Disconnect, Ending, Misparse, OpenDb,
           OpenDbFails, IsNext, RunQuery, QueryFails, Fetch, CheckLogin, Update, Delete,
           Insert, Answer, AnswerLogin, AddSession, AddSessionFails, Sigpipe
      <4>2. UNCHANGED up
        BY <2>4, <3>2 DEF ThreadStep, Receive, Disconnect, Misparse, OpenDb,
           OpenDbFails, RunQuery, QueryFails, Fetch, CheckLogin, Update, Delete,
           Insert, Executed, Answer, AnswerLogin, AddSession, AddSessionFails, Sigpipe
      <4> QED
        BY <4>1, <4>2 DEF DownIsIdle
    <3> QED
      BY <3>1, <3>2
  <2> QED
    BY <2>1, <2>2, <2>3, <2>4 DEF Next
<1> QED
  BY <1>1, <1>2, TypeInvariant, PTL DEF Spec

(* What the steps of the server do to the process and to the file. *)
LEMMA SessionSteps ==
  ASSUME TypeOK, Shape, DownIsIdle, [Next]_vars
  PROVE  \/ UNCHANGED <<up, sessions>>
         \/ Exit \/ Restart
         \/ \E c \in Conns : up /\ (Disconnect(c) \/ \E a \in Addrs : AddSession(c, a))
<1>1. CASE UNCHANGED vars
  BY <1>1 DEF vars
<1>2. ASSUME NEW c \in Conns, ClientStep(c) \/ AcceptLoop(c)
      PROVE  UNCHANGED <<up, sessions>>
  BY <1>2 DEF ClientStep, Connect, Close, Send, Read, AcceptLoop, Accept, Refuse
<1>3. ASSUME NEW c \in Conns, RunQuery(c)
      PROVE  UNCHANGED <<up, sessions>>
  BY <1>3 DEF RunQuery, QueryFails, Fetch, CheckLogin, Update, Delete, Insert, Executed
<1>4. ASSUME NEW c \in Conns, ThreadStep(c), ~RunQuery(c)
      PROVE  \/ UNCHANGED <<up, sessions>> \/ Exit
             \/ up /\ (Disconnect(c) \/ \E a \in Addrs : AddSession(c, a))
  <2>1. Disconnect(c) \/ (\E a \in Addrs : AddSession(c, a)) => up
    BY DEF Disconnect, Ending, AddSession, DownIsIdle
  <2> QED
    BY <1>4, <2>1 DEF ThreadStep, Receive, Misparse, OpenDb, OpenDbFails, Answer,
                      AnswerLogin, AddSessionFails, Sigpipe
<1> QED
  BY <1>1, <1>2, <1>3, <1>4 DEF Next

(***************************************************************************)
(* The server implements ActiveSessions: however its threads interleave,   *)
(* fail and die, the end of a connection takes lines of its own machine    *)
(* only, and lines of others are lost only with the process and only all   *)
(* together (add_session, remove_session, exit).                           *)
(***************************************************************************)
THEOREM SessionsKept == Spec => KeepsSessions
<1>1. Init => Sessions!Init
  BY DEF Init, Sessions!Init
<1>2. TypeOK /\ Shape /\ DownIsIdle /\ [Next]_vars => [Sessions!Next]_Sessions!vars
  <2> SUFFICES ASSUME TypeOK, Shape, DownIsIdle, [Next]_vars
               PROVE  [Sessions!Next]_Sessions!vars
    OBVIOUS
  <2>1. CASE UNCHANGED <<up, sessions>>
    BY <2>1 DEF Sessions!vars
  <2>2. CASE Exit
    BY <2>2 DEF Exit, Sessions!Next, Sessions!Die
  <2>3. CASE Restart
    BY <2>3 DEF Restart, Sessions!Next, Sessions!Boot
  <2>4. ASSUME NEW c \in Conns, up, Disconnect(c)
        PROVE  Sessions!Next
    <3> DEFINE own == {s \in sessions : s.host = HostOf[c]}
    <3>1. PICK kept \in SUBSET own : /\ kept # {} => "remove" \in FileFaults
                                    /\ sessions' = (sessions \ own) \union kept
      <4>1. CASE sessions' = sessions \ own
        <5>1. sessions' = (sessions \ own) \union {}
          BY <4>1
        <5> QED
          BY <5>1
      <4>2. ASSUME "remove" \in FileFaults, NEW removed \in SUBSET own,
                   sessions' = sessions \ removed
            PROVE  \E kept \in SUBSET own : /\ kept # {} => "remove" \in FileFaults
                                            /\ sessions' = (sessions \ own) \union kept
        <5>1. sessions' = (sessions \ own) \union (own \ removed)
          BY <4>2
        <5> QED
          BY <4>2, <5>1
      <4> QED
        BY <2>4, <4>1, <4>2 DEF Disconnect
    <3>2. UNCHANGED up /\ HostOf[c] \in Addrs
      BY <2>4, ConnAssumption DEF Disconnect, Addrs
    <3>3. Sessions!End(HostOf[c])
      BY <2>4, <3>1, <3>2 DEF Sessions!End, Sessions!Own
    <3> QED
      BY <3>2, <3>3 DEF Sessions!Next
  <2>5. ASSUME NEW c \in Conns, up, NEW a \in Addrs, AddSession(c, a)
        PROVE  Sessions!Next
    <3> DEFINE l == [host |-> a, user |-> Head(buf[c]).val]
    <3>1. l \in Sessions!Lines
      BY <2>5 DEF AddSession, Shape, ThreadShape, Sessions!Lines
    <3>2. Sessions!Add(l)
      BY <2>5 DEF AddSession, Sessions!Add
    <3> QED
      BY <3>1, <3>2 DEF Sessions!Next
  <2> QED
    BY <2>1, <2>2, <2>3, <2>4, <2>5, SessionSteps
<1> QED
  BY <1>1, <1>2, TypeInvariant, IdleWhenDown, PTL DEF Spec, KeepsSessions, Sessions!Spec

=============================================================================
