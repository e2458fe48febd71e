---------------------------- MODULE Pages_proofs ----------------------------
(***************************************************************************)
(* Proofs about what the pages of the clients rely on: the server finds    *)
(* the fields of what they send, and a client that is logged in has its    *)
(* line in sessions.txt.                                                   *)
(***************************************************************************)
EXTENDS Replies_proofs

-----------------------------------------------------------------------------
(* The order of a connection's requests, however many a recv returns.      *)

(* Only fetches come behind another request. *)
WritesLead(s) == \A i \in DOMAIN s : s[i].kind \notin Fetches => i = 1

Front(c) == WritesLead(inbox[c]) /\ WritesLead(buf[c])

(* A request that is answered is the last one in flight. *)
InOrder(c) ==
  /\ \A i \in DOMAIN inbox[c] : inbox[c][i].kind \in Answered => i = Len(inbox[c])
  /\ Awaited(c) # {} => inbox[c] = <<>>
  /\ outbox[c] # <<>> => inbox[c] = <<>>

(* The next request of the client has fields. *)
Leading(p) ==
  \/ script[p] = <<>>
  \/ \E m \in Msgs : \/ m.kind \notin Fetches /\ script[p] = Ask("main", m)
                     \/ script[p] = Change(m)

Ordered(p) ==
  main[p] # NoConn /\ script[p] # <<Closes("main")>> =>
    /\ InOrder(main[p])
    /\ Leading(p) => inbox[main[p]] = <<>>

Orderly ==
  /\ \A p \in Clients : Ordered(p)
  /\ \A c \in Conns : Front(c)

LEMMA OrderlyInit == CInit => Orderly
BY DEF CInit, Init, Orderly, Ordered, Front, WritesLead

(* A batch is received: the request that is answered comes with it or stays last. *)
LEMMA ReceivedInOrder ==
  ASSUME TypeOK, NEW c \in Conns, NEW K, K \subseteq Plain, Owes(c, K), InOrder(c),
         NEW n \in Nat, Received(c, n)
  PROVE  InOrder(c)'
<1> DEFINE b == inbox[c]
<1>1. /\ b \in Seq(Msgs) /\ n \in 1..Len(b) /\ outbox'[c] = outbox[c]
      /\ inbox'[c] = SubSeq(b, n + 1, Len(b)) /\ todo'[c] = Branches(SubSeq(b, 1, n))
  BY DEF TypeOK, Received
<1>3. /\ \A i \in 1..Len(b) : b[i].kind \in Answered => i = Len(b) /\ b[i].kind \in Plain
      /\ outbox[c] # <<>> => b = <<>>
  BY <1>1 DEF InOrder, Owes
<1> HIDE DEF b
<1>2. /\ Len(inbox'[c]) = Len(b) - n /\ inbox'[c] \in Seq(Msgs)
      /\ \A j \in 1..(Len(b) - n) : inbox'[c][j] = b[n + j]
      /\ Len(SubSeq(b, 1, n)) = n
      /\ \A i \in 1..n : SubSeq(b, 1, n)[i] = b[i]
  BY <1>1, SplitParts
<1>4. ASSUME NEW h \in Awaited(c)'
      PROVE  \E i \in 1..n : b[i].kind \in Answered
  <2>1. h \in Branches(SubSeq(b, 1, n)) /\ h \in Answered
    BY <1>1 DEF Awaited
  <2>2. PICK i \in 1..n : h \in Keywords(b[i].kind)
    BY <1>1, <1>2, <2>1 DEF Branches
  <2>3. h = b[i].kind \/ b[i].kind \in Fetches
    BY <2>2 DEF Keywords, Fetches
  <2> QED BY <2>1, <2>3 DEF Answered
<1>5. \A j \in 1..(Len(b) - n) : inbox'[c][j].kind \in Answered => j = Len(b) - n
  <2>1. \A j \in 1..(Len(b) - n) : n + j \in 1..Len(b)
    BY <1>1
  <2> QED BY <1>1, <1>2, <1>3, <2>1
<1>6. Awaited(c)' # {} => Len(b) - n = 0
  <2>1. \A i \in 1..n : i \in 1..Len(b)
    BY <1>1
  <2> QED BY <1>1, <1>3, <1>4, <2>1
<1>7. Awaited(c)' # {} => inbox'[c] = <<>>
  BY <1>2, <1>6, EmptySeq
<1>8. outbox'[c] = <<>>
  BY <1>1, <1>3, EmptySeq
<1>9. DOMAIN inbox'[c] = 1..(Len(b) - n)
  BY <1>1, <1>2
<1> QED BY <1>2, <1>5, <1>7, <1>8, <1>9 DEF InOrder

(* The server answers a request when none is behind it. *)
LEMMA EffectInOrder ==
  ASSUME TypeOK, NEW c \in Conns, ConnChain(c), sock[c] = "open",
         NEW K, K \subseteq Plain, Owes(c, K), InOrder(c), Effect(c)
  PROVE  InOrder(c)'
<1>1. CASE Still(c) \/ Cut(c) \/ Accepted(c) \/ Begun(c) \/ Ran(c)
  <2>1. inbox'[c] \in {inbox[c], <<>>} /\ outbox'[c] = outbox[c]
    BY <1>1 DEF Still, Cut, Accepted, Begun, Ran, Kept
  <2>2. \/ todo'[c] = todo[c] /\ (pc[c] = "session" => pc'[c] = "session")
        \/ todo'[c] = {}
    BY <1>1 DEF Still, Cut, Accepted, Begun, Ran
  <2>3. Awaited(c)' \subseteq Awaited(c)
    BY <2>2 DEF Awaited
  <2> QED BY <2>1, <2>3 DEF InOrder
<1>2. CASE LoggedIn(c)
  <2>1. inbox'[c] = inbox[c] /\ todo'[c] = todo[c] /\ pc'[c] = "session"
    BY <1>2 DEF LoggedIn
  <2>2. "LOGIN" \in Awaited(c)
    BY <1>2 DEF LoggedIn, ConnChain, Awaited, Answered, Auth, Running
  <2>3. inbox[c] = <<>>
    BY <2>2 DEF InOrder
  <2> QED BY <2>1, <2>3 DEF InOrder
<1>3. ASSUME NEW n \in Nat, Received(c, n)
      PROVE  InOrder(c)'
  BY <1>3, ReceivedInOrder
<1>4. CASE Returned(c) /\ (pc[c] = "session" => cur[c] = "LOGIN")
  <2>1. inbox'[c] = inbox[c] /\ todo'[c] = todo[c] \ {cur[c]}
    BY <1>4 DEF Returned
  <2>2. Awaited(c)' \subseteq Awaited(c)
    BY <1>4, <2>1 DEF Awaited
  <2>3. outbox'[c] # outbox[c] => inbox[c] = <<>>
    <3>1. outbox'[c] # outbox[c] => cur[c] \in Awaited(c)
      BY <1>4 DEF Returned, ConnChain, Awaited, Answered, Running
    <3> QED BY <3>1 DEF InOrder
  <2> QED BY <2>1, <2>2, <2>3 DEF InOrder
<1> QED BY <1>1, <1>2, <1>3, <1>4 DEF Effect

(* Nothing comes to be in flight but by a send. *)
LEMMA EffectEmpty ==
  ASSUME TypeOK, NEW c \in Conns, inbox[c] = <<>>, Effect(c)
  PROVE  inbox'[c] = <<>>
<1>1. \A n \in Nat : ~Received(c, n)
  BY DEF Received
<1> QED BY <1>1 DEF Effect, Still, Cut, Accepted, Begun, Ran, LoggedIn, Returned, Kept

(* A request is sent when no earlier one waits for its reply. *)
LEMMA SentInOrder ==
  ASSUME TypeOK, NEW c \in Conns, Owes(c, {}), NEW m \in Msgs, Send(c, m)
  PROVE  InOrder(c)'
<1>1. /\ inbox[c] \in Seq(Msgs) /\ inbox'[c] = Append(inbox[c], m)
      /\ outbox' = outbox /\ pc' = pc /\ todo' = todo
  BY DEF TypeOK, Send, thread
<1>2. /\ Awaited(c) = {} /\ \A i \in DOMAIN inbox[c] : inbox[c][i].kind \notin Answered
      /\ outbox[c] = <<>>
  BY OwesSilence DEF Owes
<1>3. Awaited(c)' = {} /\ outbox'[c] = <<>>
  BY <1>1, <1>2 DEF Awaited
<1>4. \A i \in DOMAIN inbox'[c] : inbox'[c][i].kind \in Answered => i = Len(inbox'[c])
  BY <1>1, <1>2
<1> QED BY <1>3, <1>4 DEF InOrder

LEMMA SameOrder ==
  ASSUME NEW c \in Conns, InOrder(c), UNCHANGED vars
  PROVE  InOrder(c)'
BY DEF InOrder, Awaited, vars, thread

(* The scripts whose next request has fields. *)
LEMMA LeadingScripts ==
  ASSUME NEW p \in Clients, NEW m \in Msgs,
         script'[p] = Recvs(m) \/ script'[p] = Ask("main", Refresh(m))
  PROVE  ~Leading(p)'
<1>1. ASSUME NEW l \in Msgs
      PROVE  /\ Recvs(m) # <<>> /\ Recvs(m) # Ask("main", l) /\ Recvs(m) # Change(l)
  BY RecvsDiffer
<1>2. Refresh(m) \in Msgs /\ Refresh(m).kind \in Fetches
  <2>1. Refresh(m) \in Msgs
    BY OrderRequests DEF Refresh, TableOf, Tables
  <2>2. Refresh(m).kind = Listing(TableOf(m.kind)) /\ TableOf(m.kind) \in Tables
    BY DEF Refresh, Get, TableOf, Tables
  <2>3. \A t \in Tables : Listing(t) \in Fetches
    BY GetType
  <2> QED BY <2>1, <2>2, <2>3
<1>3. ASSUME NEW l \in Msgs
      PROVE  /\ Ask("main", Refresh(m)) = Ask("main", l) => Refresh(m) = l
             /\ Ask("main", Refresh(m)) # Change(l)
  <2>1. /\ Head(Ask("main", Refresh(m))) = Step("send", "main", Refresh(m))
        /\ Head(Ask("main", l)) = Step("send", "main", l)
        /\ Tail(Ask("main", Refresh(m))) = Recvs(Refresh(m))
        /\ Tail(Change(l)) = Ask("main", Refresh(l))
    BY <1>2, ScriptParts
  <2>2. /\ Step("send", "main", Refresh(m)).msg = Refresh(m)
        /\ Step("send", "main", l).msg = l
    BY DEF Step
  <2>3. Refresh(l) \in Msgs
    BY OrderRequests DEF Refresh, TableOf, Tables
  <2>4. Recvs(Refresh(m)) # Ask("main", Refresh(l))
    BY <1>2, <2>3, RecvsDiffer
  <2>5. ASSUME Ask("main", Refresh(m)) = Ask("main", l) PROVE Refresh(m) = l
    BY <2>1, <2>2, <2>5
  <2>6. ASSUME Ask("main", Refresh(m)) = Change(l) PROVE FALSE
    BY <2>1, <2>4, <2>6
  <2> QED BY <2>5, <2>6
<1>4. Ask("main", Refresh(m)) # <<>>
  BY <1>2, ScriptParts
<1>5. CASE script'[p] = Recvs(m)
  BY <1>1, <1>5 DEF Leading
<1>6. CASE script'[p] = Ask("main", Refresh(m))
  BY <1>2, <1>3, <1>4, <1>6 DEF Leading
<1> QED BY <1>5, <1>6

LEMMA OrderedNext ==
  ASSUME NoOrders, Records, Conversation, \A p \in Clients : Ordered(p), [CNext]_allVars
  PROVE  \A p \in Clients : Ordered(p)'
<1> SUFFICES ASSUME NEW p \in Clients, NEW c, c = main'[p], c # NoConn,
                    script'[p] # <<Closes("main")>>
             PROVE  InOrder(c)' /\ (Leading(p)' => inbox'[c] = <<>>)
  BY DEF Ordered, InOrder, Awaited
<1>0. /\ CInv /\ Chain /\ Talking /\ Conversations /\ TypeOK /\ Talks(p) /\ c \in Conns
      /\ main[p] = c => sock[c] = "open" /\ ConnChain(c)
  <2>1. CInv /\ Chain /\ Talking /\ Conversations
    BY DEF Conversation
  <2>2. c \in Conns
    BY <2>1, SystemNext DEF CInv, CTypeOK
  <2> QED BY <2>1, <2>2, OpenMain DEF CInv, Chain, Talking
<1>1. ASSUME main[p] = c, script[p] # <<Closes("main")>>
      PROVE  InOrder(c) /\ (Leading(p) => inbox[c] = <<>>)
  BY <1>1 DEF Ordered
<1>2. \A m \in Msgs : /\ Ask("main", m) # <<Closes("main")>> /\ Change(m) # <<Closes("main")>>
                      /\ Recvs(m) # <<Closes("main")>>
  BY RecvsDiffer
<1>3. CASE Waits(p)
  <2>1. main[p] = c /\ script[p] # <<Closes("main")>> /\ script'[p] = script[p] /\ Effect(c)
    BY <1>3 DEF Waits
  <2>2. InOrder(c) /\ Owes(c, Wanted(p)) /\ Wanted(p) \subseteq Plain
    BY <1>0, <1>1, <2>1, SilentOwes, WantedKinds
  <2>3. InOrder(c)'
    BY <1>0, <2>1, <2>2, EffectInOrder
  <2>4. Leading(p)' => inbox'[c] = <<>>
    <3>1. Leading(p)' => Leading(p)
      BY <2>1 DEF Leading
    <3> QED BY <1>0, <1>1, <2>1, <3>1, EffectEmpty
  <2> QED BY <2>3, <2>4
<1>4. CASE Started(p)
  <2>1. Connect(c)
    BY <1>4 DEF Started
  <2>2. inbox[c] = <<>> /\ outbox[c] = <<>> /\ todo[c] = {}
    BY <1>0, <2>1 DEF Connect, Chain, ConnChain, CInv, Shape, ConnShape
  <2>3. inbox'[c] = <<>> /\ outbox'[c] = <<>> /\ todo'[c] = {}
    BY <2>1, <2>2 DEF Connect
  <2> QED BY <2>3 DEF InOrder, Awaited
<1>5. CASE Began(p)
  <2>1. main[p] = c /\ script[p] = <<>> /\ UNCHANGED vars
    BY <1>5 DEF Began
  <2>2. InOrder(c) /\ inbox[c] = <<>>
    BY <1>1, <2>1 DEF Leading
  <2> QED BY <1>0, <2>1, <2>2, SameOrder DEF vars
<1>6. CASE Missed(p)
  <2>1. main[p] = c /\ pc[c] = "closed" /\ outbox[c] = <<>> /\ UNCHANGED vars
    BY <1>6 DEF Missed
  <2>2. inbox[c] = <<>> /\ todo[c] = {}
    BY <1>0, <2>1 DEF ConnChain
  <2>3. InOrder(c)
    BY <2>1, <2>2 DEF InOrder, Awaited
  <2> QED BY <1>0, <2>1, <2>2, <2>3, SameOrder DEF vars
<1>7. CASE Ended(p) \/ Hung(p)
  BY <1>7 DEF Ended, Hung
<1>8. ASSUME NEW m \in Msgs, Sent(p, m)
      PROVE  InOrder(c)' /\ (Leading(p)' => inbox'[c] = <<>>)
  <2>1. /\ main[p] = c
        /\ script[p] = Ask("main", m) \/ script[p] = Change(m)
        /\ script'[p] = Recvs(m) \/ script'[p] = Ask("main", Refresh(m))
        /\ (pc[c] = "closed" /\ UNCHANGED vars) \/ Send(c, m)
    BY <1>8 DEF Sent
  <2>2. InOrder(c) /\ Owes(c, {})
    BY <1>0, <1>1, <1>2, <2>1, SilentOwes
  <2>3. ~Leading(p)'
    BY <2>1, LeadingScripts
  <2>4. CASE UNCHANGED vars
    BY <1>0, <2>2, <2>3, <2>4, SameOrder
  <2>5. CASE Send(c, m)
    BY <1>0, <2>2, <2>3, <2>5, SentInOrder
  <2> QED BY <2>1, <2>4, <2>5
<1>9. ASSUME NEW m \in Msgs, Heard(p, m)
      PROVE  InOrder(c)' /\ (Leading(p)' => inbox'[c] = <<>>)
  <2>1. PICK n \in 1..Len(outbox[c]) : Read(c, n)
    BY <1>9 DEF Heard
  <2>2. main[p] = c /\ script[p] = Recvs(m)
    BY <1>9 DEF Heard
  <2>3. outbox[c] # <<>> /\ UNCHANGED <<inbox, pc, todo>>
    BY <1>0, <2>1 DEF Read, thread, TypeOK
  <2>4. inbox[c] = <<>>
    BY <1>1, <1>2, <2>2, <2>3 DEF InOrder
  <2> QED BY <2>3, <2>4 DEF InOrder
<1> QED BY <1>0, <1>3, <1>4, <1>5, <1>6, <1>7, <1>8, <1>9, SystemMoves DEF Act

(* What a step of the server receives and leaves is ordered as before. *)
LEMMA ServerFront ==
  ASSUME TypeOK, \A c \in Conns : Front(c), ServerStep
  PROVE  \A c \in Conns : Front(c)'
<1> USE DEF TypeOK, Front
<1>1. ASSUME \A c \in Conns : inbox'[c] \in {inbox[c], <<>>} /\ buf'[c] \in {buf[c], <<>>}
      PROVE  \A c \in Conns : Front(c)'
  <2>1. WritesLead(<<>>)
    BY DEF WritesLead
  <2> SUFFICES ASSUME NEW c \in Conns PROVE Front(c)'
    OBVIOUS
  <2>2. WritesLead(inbox'[c]) /\ WritesLead(buf'[c])
    <3>1. WritesLead(inbox[c]) /\ WritesLead(buf[c])
      OBVIOUS
    <3> QED BY <1>1, <2>1, <3>1
  <2> QED BY <2>2 DEF WritesLead
<1>2. ASSUME NEW c \in Conns, NEW n \in 1..MaxBatch, Receive(c, n)
      PROVE  \A d \in Conns : Front(d)'
  <2>1. /\ inbox[c] \in Seq(Msgs) /\ n \in 1..Len(inbox[c])
        /\ inbox'[c] = SubSeq(inbox[c], n + 1, Len(inbox[c]))
        /\ buf'[c] = SubSeq(inbox[c], 1, n)
        /\ \A d \in Conns \ {c} : inbox'[d] = inbox[d] /\ buf'[d] = buf[d]
    BY <1>2 DEF Receive
  <2>2. /\ inbox'[c] \in Seq(Msgs) /\ Len(inbox'[c]) = Len(inbox[c]) - n
        /\ \A j \in 1..(Len(inbox[c]) - n) : inbox'[c][j] = inbox[c][n + j]
        /\ buf'[c] \in Seq(Msgs) /\ Len(buf'[c]) = n
        /\ \A i \in 1..n : buf'[c][i] = inbox[c][i]
    BY <2>1, SplitParts
  <2>3. /\ DOMAIN inbox'[c] = 1..(Len(inbox[c]) - n) /\ DOMAIN buf'[c] = 1..n
        /\ DOMAIN inbox[c] = 1..Len(inbox[c])
    BY <2>1, <2>2
  <2>8. \A i \in 1..n : i \in 1..Len(inbox[c])
    BY <2>1
  <2>4. ASSUME NEW j \in DOMAIN inbox'[c] PROVE inbox'[c][j].kind \in Fetches
    <3>1. n + j \in DOMAIN inbox[c] /\ n + j # 1 /\ inbox'[c][j] = inbox[c][n + j]
      BY <2>1, <2>2, <2>3
    <3> QED BY <3>1 DEF WritesLead
  <2>5. ASSUME NEW i \in DOMAIN buf'[c] PROVE buf'[c][i].kind \notin Fetches => i = 1
    <3>1. i \in DOMAIN inbox[c] /\ buf'[c][i] = inbox[c][i]
      BY <2>2, <2>3, <2>8
    <3> QED BY <3>1 DEF WritesLead
  <2>6. Front(c)'
    BY <2>4, <2>5 DEF WritesLead
  <2>7. ASSUME NEW d \in Conns \ {c} PROVE Front(d)'
    BY <2>1 DEF WritesLead
  <2> QED BY <2>6, <2>7
<1>3. CASE Restart
  BY <1>1, <1>3 DEF Restart, thread
<1>4. ASSUME NEW c \in Conns, AcceptLoop(c)
      PROVE  \A d \in Conns : Front(d)'
  BY <1>1, <1>4 DEF AcceptLoop, Accept, Refuse, Dropped
<1>5. ASSUME NEW c \in Conns, ThreadStep(c), \A n \in 1..MaxBatch : ~Receive(c, n)
      PROVE  \A d \in Conns : Front(d)'
  <2>1. CASE Disconnect(c)
    BY <1>1, <2>1 DEF Disconnect, Dropped
  <2>2. ASSUME Exit PROVE \A d \in Conns : Front(d)'
    BY <1>1, <2>2 DEF Exit
  <2>3. ASSUME NEW h \in Kinds, Misparse(c, h)
        PROVE  \A d \in Conns : Front(d)'
    BY <1>1, <2>3 DEF Misparse
  <2>4. ASSUME NEW h \in Kinds, NEW x \in Handles, OpenDb(c, h, x)
        PROVE  \A d \in Conns : Front(d)'
    BY <1>1, <2>4 DEF OpenDb
  <2>5. ASSUME NEW h \in Kinds, OpenDbFails(c, h)
        PROVE  Exit
    BY <2>5 DEF OpenDbFails
  <2>6. CASE RunQuery(c)
    <3>1. UNCHANGED <<inbox, buf>>
      BY <2>6 DEF RunQuery, QueryFails, Fetch, CheckLogin, Insert, Update, Delete, Executed
    <3> QED BY <1>1, <3>1
  <2>7. CASE Answer(c) \/ AddSessionFails(c) \/ \E a \in Addrs : AddSession(c, a)
    BY <1>1, <2>7 DEF Answer, AddSessionFails, AddSession, Return
  <2>8. CASE AnswerLogin(c)
    BY <1>1, <2>8 DEF AnswerLogin
  <2>9. Sigpipe(c) => Exit
    BY DEF Sigpipe
  <2> QED BY <1>5, <2>1, <2>2, <2>3, <2>4, <2>5, <2>6, <2>7, <2>8, <2>9 DEF ThreadStep
<1> QED BY <1>2, <1>3, <1>4, <1>5 DEF ServerStep

(* A client sends a request with fields when nothing of it is in flight. *)
LEMMA ClientFront ==
  ASSUME Conversation, \A c \in Conns : Front(c),
         NEW p \in Clients, Ordered(p), Act(p)
  PROVE  \A c \in Conns : Front(c)'
<1> USE DEF Front
<1>0. CInv /\ TypeOK
  BY DEF Conversation, CInv
<1>1. ASSUME UNCHANGED <<inbox, buf>>
      PROVE  \A c \in Conns : Front(c)'
  BY <1>1 DEF WritesLead
<1>2. ASSUME NEW m \in Msgs, Sent(p, m), Send(main[p], m), NEW c \in Conns
      PROVE  Front(c)'
  <2>1. CASE c # main[p]
    <3>1. inbox'[c] = inbox[c] /\ buf'[c] = buf[c]
      BY <1>0, <1>2, <2>1 DEF TypeOK, Send, thread
    <3> QED BY <3>1 DEF WritesLead
  <2>2. CASE c = main[p]
    <3>1. /\ inbox[c] \in Seq(Msgs) /\ inbox'[c] = Append(inbox[c], m) /\ buf' = buf
      BY <1>0, <1>2, <2>2 DEF TypeOK, Send, thread
    <3>2. m.kind \in Fetches \/ inbox[c] = <<>>
      <4>1. m.kind \in Fetches \/ Leading(p)
        BY <1>2 DEF Sent, Leading
      <4>2. script[p] # <<Closes("main")>> /\ main[p] # NoConn
        <5>1. script[p] = Ask("main", m) \/ script[p] = Change(m)
          BY <1>2 DEF Sent
        <5>2. script[p] # <<Closes("main")>>
          BY <5>1, RecvsDiffer
        <5> QED BY <2>2, <5>2, ClientAssumption
      <4> QED BY <2>2, <4>1, <4>2 DEF Ordered
    <3>3. /\ Len(Append(inbox[c], m)) = Len(inbox[c]) + 1
          /\ \A i \in 1..Len(inbox[c]) : Append(inbox[c], m)[i] = inbox[c][i]
          /\ Append(inbox[c], m)[Len(inbox[c]) + 1] = m
          /\ DOMAIN Append(inbox[c], m) = 1..(Len(inbox[c]) + 1)
          /\ inbox[c] = <<>> => Len(inbox[c]) = 0
      BY <3>1
    <3>4. WritesLead(Append(inbox[c], m))
      BY <3>1, <3>2, <3>3 DEF WritesLead
    <3> QED BY <3>1, <3>4 DEF WritesLead
  <2> QED BY <2>1, <2>2
<1>3. CASE Started(p) \/ Began(p) \/ Ended(p) \/ Missed(p) \/ Hung(p)
  BY <1>1, <1>3 DEF Started, Connect, Began, Ended, Missed, Hung, Close, vars, thread
<1>4. ASSUME NEW m \in Msgs, Heard(p, m)
      PROVE  \A c \in Conns : Front(c)'
  BY <1>1, <1>4 DEF Heard, Read, thread
<1>5. ASSUME NEW m \in Msgs, Sent(p, m)
      PROVE  \A c \in Conns : Front(c)'
  <2>1. CASE UNCHANGED vars
    BY <1>1, <2>1 DEF vars, thread
  <2>2. CASE Send(main[p], m)
    BY <1>2, <1>5, <2>2
  <2> QED BY <1>5, <2>1, <2>2 DEF Sent
<1> QED BY <1>3, <1>4, <1>5 DEF Act

LEMMA OrderlyNext ==
  ASSUME NoOrders, Records, Conversation, Orderly, [CNext]_allVars
  PROVE  Orderly'
<1>0. /\ CInv /\ TypeOK /\ Talking /\ \A p \in Clients : Ordered(p)
      /\ \A c \in Conns : Front(c)
  BY DEF Conversation, CInv, Orderly
<1>1. \A p \in Clients : Ordered(p)'
  BY <1>0, OrderedNext
<1>2. ASSUME NEW p \in Clients, UserStep(p) \/ ScriptStep(p)
      PROVE  \A c \in Conns : Front(c)'
  <2>1. Act(p)
    BY <1>0, <1>2, UserActs, ScriptActs DEF Talking
  <2> QED BY <1>0, <2>1, ClientFront
<1>3. ASSUME ServerStep
      PROVE  \A c \in Conns : Front(c)'
  BY <1>0, <1>3, ServerFront
<1>4. ASSUME UNCHANGED allVars
      PROVE  \A c \in Conns : Front(c)'
  BY <1>0, <1>4 DEF allVars, vars, thread, Front, WritesLead
<1>5. \A c \in Conns : Front(c)'
  BY <1>2, <1>3, <1>4 DEF CNext
<1> QED BY <1>1, <1>5 DEF Orderly

(***************************************************************************)
(* When nobody saves orders and add_session can write, a request with      *)
(* fields is the first one in the buffer that receives it, however many    *)
(* requests a recv returns: what clients send is never dropped as the      *)
(* second of its kind, or because sscanf looks for its fields at the start *)
(* of the buffer (handle_command).  Whichever statements fail, and         *)
(* wherever clients and the server end.                                    *)
(***************************************************************************)
THEOREM WritesComeFirst ==
  ASSUME NoOrders, Records
  PROVE  CSpec => []WritesFirst
<1>1. CInit => Orderly
  BY OrderlyInit
<1>2. Orderly /\ Conversation /\ [CNext]_allVars => Orderly'
  BY OrderlyNext
<1>3. Orderly => WritesFirst
  BY DEF Orderly, Front, WritesLead, WritesFirst
<1> QED BY <1>1, <1>2, <1>3, ConversationHolds, PTL DEF CSpec

-----------------------------------------------------------------------------
(* The line of a client that is logged in.  Every end of a connection       *)
(* removes the lines of its machine, so a machine has at most one.          *)

OneEach == \A c, d \in Conns : HostOf[c] = HostOf[d] => c = d

(* The line of user u is in the file, or about to be written. *)
Listed(c, u) ==
  /\ \A i \in DOMAIN inbox[c] : inbox[c][i].kind # "LOGIN"
  /\ "LOGIN" \in todo[c] => pc[c] = "session"
  /\ pc[c] = "session" => Head(buf[c]).val = u
  /\ pc[c] \notin {"session", "closed"} => [host |-> HostOf[c], user |-> u] \in sessions

(* Every login under way is that of user u; once it has succeeded, u's line *)
(* is at most one step away.                                                *)
Carries(c, u) ==
  /\ \A i \in DOMAIN inbox[c] : inbox[c][i].kind = "LOGIN" => inbox[c][i].val = u
  /\ "LOGIN" \in Awaited(c) =>
       \A i \in DOMAIN buf[c] : buf[c][i].kind = "LOGIN" => buf[c][i].val = u
  /\ outbox[c] # <<>> /\ Head(outbox[c]).says = "true" => Listed(c, u)

(* The lines of the machine of connection c stay, while c is alive. *)
LinesKept(c) ==
  \A s \in sessions : s.host = HostOf[c] => s \in sessions' \/ pc'[c] = "closed"

LEMMA KeepsLines ==
  ASSUME OneEach, TypeOK, NEW c \in Conns, sock[c] = "open", [Next]_vars
  PROVE  LinesKept(c)
<1>1. CASE sessions' = sessions
  BY <1>1 DEF LinesKept
<1>2. CASE Exit
  BY <1>2 DEF Exit, LinesKept
<1>3. ASSUME NEW d \in Conns, Disconnect(d)
      PROVE  LinesKept(c)
  <2>1. HostOf[d] # HostOf[c]
    BY <1>3 DEF Disconnect, Ending, OneEach
  <2>2. \A s \in sessions : s.host # HostOf[d] => s \in sessions'
    BY <1>3 DEF Disconnect
  <2> QED BY <2>1, <2>2 DEF LinesKept
<1>4. ASSUME NEW d \in Conns, NEW a \in Addrs, AddSession(d, a)
      PROVE  LinesKept(c)
  BY <1>4 DEF AddSession, LinesKept
<1>5. \/ sessions' = sessions \/ Exit
      \/ \E d \in Conns : Disconnect(d) \/ \E a \in Addrs : AddSession(d, a)
  <2>1. ASSUME NEW d \in Conns, ClientStep(d)
        PROVE  sessions' = sessions
    BY <2>1 DEF ClientStep, Connect, Close, Send, Read
  <2>2. ASSUME NEW d \in Conns, AcceptLoop(d)
        PROVE  sessions' = sessions
    BY <2>2 DEF AcceptLoop, Accept, Refuse
  <2>3. ASSUME NEW d \in Conns, ThreadStep(d)
        PROVE  \/ sessions' = sessions \/ Exit
               \/ Disconnect(d) \/ \E a \in Addrs : AddSession(d, a)
    <3>1. RunQuery(d) => sessions' = sessions
      BY DEF RunQuery, QueryFails, Fetch, CheckLogin, Insert, Update, Delete, Executed
    <3>2. /\ \A n \in 1..MaxBatch : Receive(d, n) => sessions' = sessions
          /\ \A h \in Kinds : /\ Misparse(d, h) => sessions' = sessions
                              /\ OpenDbFails(d, h) => Exit
                              /\ \A x \in Handles : OpenDb(d, h, x) => sessions' = sessions
      BY DEF Receive, Misparse, OpenDbFails, OpenDb
    <3>3. /\ Answer(d) \/ AnswerLogin(d) \/ AddSessionFails(d) => sessions' = sessions
          /\ Sigpipe(d) => Exit
      BY DEF Answer, AnswerLogin, AddSessionFails, Sigpipe
    <3> QED BY <2>3, <3>1, <3>2, <3>3 DEF ThreadStep
  <2>4. Restart => sessions' = sessions
    BY DEF Restart
  <2>5. UNCHANGED vars => sessions' = sessions
    BY DEF vars
  <2> QED BY <2>1, <2>2, <2>3, <2>4, <2>5 DEF Next
<1> QED BY <1>1, <1>2, <1>3, <1>4, <1>5

(* Only the login command triggers the login branch. *)
LEMMA NoLoginBranch ==
  ASSUME NEW b, \A i \in DOMAIN b : b[i].kind # "LOGIN"
  PROVE  "LOGIN" \notin Branches(b)
BY DEF Branches, Keywords

LEMMA EffectListed ==
  ASSUME TypeOK, NEW c \in Conns, ConnChain(c), sock[c] = "open", LinesKept(c),
         NEW u, Listed(c, u), Effect(c)
  PROVE  Listed(c, u)'
<1> DEFINE line == [host |-> HostOf[c], user |-> u]
<1>0. /\ \A i \in DOMAIN inbox[c] : inbox[c][i].kind # "LOGIN"
      /\ "LOGIN" \in todo[c] => pc[c] = "session"
      /\ pc[c] = "session" => Head(buf[c]).val = u
      /\ pc[c] \notin {"session", "closed"} => line \in sessions
  BY DEF Listed
<1>1. line \in sessions => line \in sessions' \/ pc'[c] = "closed"
  BY DEF LinesKept
<1> SUFFICES /\ \A i \in DOMAIN inbox'[c] : inbox'[c][i].kind # "LOGIN"
             /\ "LOGIN" \in todo'[c] => pc'[c] = "session"
             /\ pc'[c] = "session" => Head(buf'[c]).val = u
             /\ pc'[c] \notin {"session", "closed"} => line \in sessions'
  BY DEF Listed
<1>2. Added(c) /\ pc[c] = "session" => line \in sessions'
  BY <1>0 DEF Added
<1> HIDE DEF line
<1>3. CASE Still(c) \/ Accepted(c) \/ Begun(c) \/ Ran(c)
  <2>1. /\ inbox'[c] = inbox[c] /\ todo'[c] = todo[c] /\ buf'[c] = buf[c]
        /\ pc'[c] = pc[c] \/ (pc[c] \notin {"session", "closed"} /\ pc'[c] # "session")
    BY <1>3 DEF Still, Accepted, Begun, Ran, Kept
  <2> QED BY <1>0, <1>1, <2>1
<1>4. CASE Cut(c)
  BY <1>4 DEF Cut
<1>5. CASE LoggedIn(c)
  BY <1>0, <1>5 DEF LoggedIn, ConnChain, Running
<1>6. ASSUME NEW n \in Nat, Received(c, n)
      PROVE  /\ \A i \in DOMAIN inbox'[c] : inbox'[c][i].kind # "LOGIN"
             /\ "LOGIN" \notin todo'[c]
  <2>1. /\ inbox[c] \in Seq(Msgs) /\ n \in 1..Len(inbox[c])
        /\ inbox'[c] = SubSeq(inbox[c], n + 1, Len(inbox[c]))
        /\ todo'[c] = Branches(SubSeq(inbox[c], 1, n))
    BY <1>6 DEF TypeOK, Received
  <2>2. /\ Len(inbox'[c]) = Len(inbox[c]) - n
        /\ \A j \in 1..(Len(inbox[c]) - n) : inbox'[c][j] = inbox[c][n + j]
        /\ inbox'[c] \in Seq(Msgs)
        /\ SubSeq(inbox[c], 1, n) \in Seq(Msgs) /\ Len(SubSeq(inbox[c], 1, n)) = n
        /\ \A i \in 1..n : SubSeq(inbox[c], 1, n)[i] = inbox[c][i]
    BY <2>1, SplitParts
  <2>3. /\ DOMAIN inbox[c] = 1..Len(inbox[c])
        /\ DOMAIN inbox'[c] = 1..(Len(inbox[c]) - n)
        /\ DOMAIN SubSeq(inbox[c], 1, n) = 1..n
        /\ \A i \in 1..n : i \in 1..Len(inbox[c])
        /\ \A j \in 1..(Len(inbox[c]) - n) : n + j \in 1..Len(inbox[c])
    BY <2>1, <2>2
  <2>4. \A i \in DOMAIN SubSeq(inbox[c], 1, n) : SubSeq(inbox[c], 1, n)[i].kind # "LOGIN"
    BY <1>0, <2>2, <2>3
  <2>5. "LOGIN" \notin todo'[c]
    BY <2>1, <2>4, NoLoginBranch
  <2> QED BY <1>0, <2>2, <2>3, <2>5
<1>7. ASSUME NEW n \in Nat, Received(c, n)
      PROVE  pc[c] = "recv" /\ pc'[c] = "dispatch"
  BY <1>7 DEF Received
<1>8. CASE Returned(c) /\ (pc[c] = "session" => cur[c] = "LOGIN" /\ Added(c))
  <2>1. /\ pc[c] \in {"answer", "session"} /\ inbox'[c] = inbox[c]
        /\ todo'[c] = todo[c] \ {cur[c]} /\ pc'[c] \in {"recv", "dispatch"}
    BY <1>8 DEF Returned
  <2> QED BY <1>0, <1>1, <1>2, <1>8, <2>1
<1> QED BY <1>0, <1>1, <1>3, <1>4, <1>5, <1>6, <1>7, <1>8 DEF Effect

(* The login under way stays that of u, up to the line of its session. *)
LEMMA EffectCarries ==
  ASSUME TypeOK, Shape, NEW c \in Conns, ConnChain(c), sock[c] = "open", LinesKept(c),
         Owes(c, {"LOGIN"}), NEW u, Carries(c, u), Effect(c)
  PROVE  Carries(c, u)'
<1>0. /\ \A i \in DOMAIN inbox[c] : inbox[c][i].kind = "LOGIN" => inbox[c][i].val = u
      /\ "LOGIN" \in Awaited(c) =>
           \A i \in DOMAIN buf[c] : buf[c][i].kind = "LOGIN" => buf[c][i].val = u
      /\ inbox[c] \in Seq(Msgs) /\ outbox[c] \in Seq(Reply)
  BY DEF Carries, TypeOK
<1>1. outbox'[c] = outbox[c] =>
        (outbox'[c] # <<>> /\ Head(outbox'[c]).says = "true" => Listed(c, u)')
  BY EffectListed DEF Carries
<1>2. ASSUME NEW r \in Reply, Replies(c, r), r.to = cur[c], pc[c] = "answer",
             cur[c] \in Answered
      PROVE  /\ cur[c] = "LOGIN" /\ "LOGIN" \in Awaited(c) /\ outbox'[c] = <<r>>
             /\ \A i \in DOMAIN inbox[c] : inbox[c][i].kind # "LOGIN"
  <2>1. cur[c] \in Awaited(c)
    BY <1>2 DEF ConnChain, Running, Awaited
  <2>2. /\ cur[c] = "LOGIN" /\ outbox[c] = <<>>
        /\ \A i \in DOMAIN inbox[c] : inbox[c][i].kind \notin Answered
    BY <2>1 DEF Owes
  <2> QED BY <1>2, <2>1, <2>2 DEF Replies
<1>3. CASE Still(c) \/ Cut(c) \/ Accepted(c) \/ Begun(c) \/ Ran(c)
  <2>1. inbox'[c] \in {inbox[c], <<>>} /\ outbox'[c] = outbox[c]
    BY <1>3 DEF Still, Cut, Accepted, Begun, Ran, Kept
  <2>2. \/ /\ todo'[c] = todo[c] /\ (pc[c] = "session" => pc'[c] = "session")
           /\ buf'[c] = buf[c]
        \/ todo'[c] = {}
    BY <1>3 DEF Still, Cut, Accepted, Begun, Ran
  <2>3. "LOGIN" \in Awaited(c)' => "LOGIN" \in Awaited(c) /\ buf'[c] = buf[c]
    BY <2>2 DEF Awaited
  <2> QED BY <1>0, <1>1, <2>1, <2>3 DEF Carries
<1>4. CASE LoggedIn(c)
  <2>1. /\ pc[c] = "answer" /\ pc'[c] = "session" /\ inbox'[c] = inbox[c]
        /\ buf'[c] = buf[c] /\ cur[c] = "LOGIN" /\ res[c].branch = "match"
    BY <1>4 DEF LoggedIn
  <2>2. PICK r \in Reply : r.to = "LOGIN" /\ Replies(c, r)
    BY <1>4 DEF LoggedIn
  <2>3. /\ "LOGIN" \in Awaited(c)
        /\ \A i \in DOMAIN inbox[c] : inbox[c][i].kind # "LOGIN"
    BY <1>2, <2>1, <2>2 DEF Answered, Auth
  <2>4. Head(buf[c]).kind = "LOGIN" /\ 1 \in DOMAIN buf[c] /\ Head(buf[c]) = buf[c][1]
    <3>1. Head(buf[c]).kind = "LOGIN" /\ buf[c] # <<>> /\ buf[c] \in Seq(Msgs)
      BY <2>1 DEF ConnChain, Running, Shape, ThreadShape, TypeOK
    <3> QED BY <3>1
  <2>5. Head(buf[c]).val = u
    BY <1>0, <2>3, <2>4
  <2>6. Listed(c, u)'
    BY <2>1, <2>3, <2>5 DEF Listed
  <2>7. "LOGIN" \notin Awaited(c)'
    BY <2>1 DEF Awaited
  <2> QED BY <1>0, <2>1, <2>6, <2>7 DEF Carries
<1>5. ASSUME NEW n \in Nat, Received(c, n)
      PROVE  Carries(c, u)'
  <2>1. /\ inbox[c] \in Seq(Msgs) /\ n \in 1..Len(inbox[c]) /\ outbox'[c] = outbox[c]
        /\ inbox'[c] = SubSeq(inbox[c], n + 1, Len(inbox[c]))
        /\ buf'[c] = SubSeq(inbox[c], 1, n)
    BY <1>5 DEF TypeOK, Received
  <2>2. /\ SubSeq(inbox[c], n + 1, Len(inbox[c])) \in Seq(Msgs)
        /\ Len(SubSeq(inbox[c], n + 1, Len(inbox[c]))) = Len(inbox[c]) - n
        /\ \A j \in 1..(Len(inbox[c]) - n) :
             SubSeq(inbox[c], n + 1, Len(inbox[c]))[j] = inbox[c][n + j]
        /\ SubSeq(inbox[c], 1, n) \in Seq(Msgs) /\ Len(SubSeq(inbox[c], 1, n)) = n
        /\ \A i \in 1..n : SubSeq(inbox[c], 1, n)[i] = inbox[c][i]
    BY <2>1, SplitParts
  <2>3. /\ \A i \in 1..n : i \in DOMAIN inbox[c]
        /\ \A j \in 1..(Len(inbox[c]) - n) : n + j \in DOMAIN inbox[c]
    BY <2>1
  <2>4. \A i \in DOMAIN inbox'[c] : inbox'[c][i].kind = "LOGIN" => inbox'[c][i].val = u
    <3>1. DOMAIN inbox'[c] = 1..(Len(inbox[c]) - n)
      BY <2>1, <2>2
    <3> QED BY <1>0, <2>1, <2>2, <2>3, <3>1
  <2>5. \A i \in DOMAIN buf'[c] : buf'[c][i].kind = "LOGIN" => buf'[c][i].val = u
    <3>1. DOMAIN buf'[c] = 1..n
      BY <2>1, <2>2
    <3> QED BY <1>0, <2>1, <2>2, <2>3, <3>1
  <2> QED BY <1>1, <2>1, <2>4, <2>5 DEF Carries
<1>6. CASE Returned(c)
  <2>1. /\ pc[c] \in {"answer", "session"} /\ inbox'[c] = inbox[c]
        /\ todo'[c] = todo[c] \ {cur[c]}
        /\ todo'[c] # {} => buf'[c] = buf[c]
    BY <1>6 DEF Returned
  <2>2. "LOGIN" \in Awaited(c)' => "LOGIN" \in Awaited(c) /\ buf'[c] = buf[c]
    <3>1. pc[c] = "session" => cur[c] = "LOGIN"
      BY DEF Shape, ThreadShape
    <3> QED BY <2>1, <3>1 DEF Awaited
  <2>3. outbox'[c] = outbox[c] \/ (outbox'[c] # <<>> /\ Head(outbox'[c]).says = "false")
    <3>1. ASSUME NEW r \in Reply, r.to = cur[c], cur[c] \in Auth \union Fetches,
                 cur[c] = "LOGIN" => r.says = "false", Replies(c, r), pc[c] = "answer"
          PROVE  outbox'[c] # <<>> /\ Head(outbox'[c]).says = "false"
      <4>1. cur[c] = "LOGIN" /\ outbox'[c] = <<r>>
        BY <1>2, <3>1 DEF Answered
      <4> QED BY <3>1, <4>1
    <3> QED BY <1>6, <3>1 DEF Returned
  <2>4. outbox'[c] # <<>> /\ Head(outbox'[c]).says = "true" => Listed(c, u)'
    BY <1>1, <2>3
  <2> QED BY <1>0, <2>1, <2>2, <2>4 DEF Carries
<1> QED BY <1>3, <1>4, <1>5, <1>6 DEF Effect

(* A client that is logged in has left the login page and has its line; one *)
(* that waits for the reply to a login is about to.                         *)
Login(p) ==
  main[p] # NoConn =>
    /\ HostAt[p] = HostOf[main[p]]
    /\ user[p] # Nobody => page[p] # "auth" /\ Listed(main[p], user[p])
    /\ \A m \in Msgs : m.kind = "LOGIN" /\ script[p] = Recvs(m) => Carries(main[p], m.val)

Logins == \A p \in Clients : Login(p)

LEMMA LoginsInit == CInit => Logins
BY DEF CInit, Logins, Login

(* The requests in flight, the thread and the lines stay. *)
LEMMA SameListed ==
  ASSUME NEW c \in Conns, NEW u, Listed(c, u), LinesKept(c),
         \A i \in DOMAIN inbox'[c] : inbox'[c][i].kind # "LOGIN",
         pc'[c] = pc[c], todo'[c] = todo[c], buf'[c] = buf[c]
  PROVE  Listed(c, u)'
<1> DEFINE line == [host |-> HostOf[c], user |-> u]
<1>1. line \in sessions => line \in sessions' \/ pc'[c] = "closed"
  BY DEF LinesKept
<1>2. /\ "LOGIN" \in todo[c] => pc[c] = "session"
      /\ pc[c] = "session" => Head(buf[c]).val = u
      /\ pc[c] \notin {"session", "closed"} => line \in sessions
  BY DEF Listed
<1> HIDE DEF line
<1>3. /\ "LOGIN" \in todo'[c] => pc'[c] = "session"
      /\ pc'[c] = "session" => Head(buf'[c]).val = u
      /\ pc'[c] \notin {"session", "closed"} => line \in sessions'
  BY <1>1, <1>2
<1> QED BY <1>3 DEF Listed, line

(* A login is sent when no other one is under way. *)
LEMMA SentCarries ==
  ASSUME TypeOK, NEW c \in Conns, Owes(c, {}), NEW m \in Msgs,
         \/ Send(c, m)
         \/ ConnChain(c) /\ pc[c] = "closed" /\ UNCHANGED vars
  PROVE  Carries(c, m.val)'
<1>1. /\ Awaited(c) = {} /\ outbox[c] = <<>> /\ inbox[c] \in Seq(Msgs)
      /\ \A i \in DOMAIN inbox[c] : inbox[c][i].kind # "LOGIN"
  BY OwesSilence DEF Owes, Answered, Auth, TypeOK
<1>2. outbox' = outbox /\ todo' = todo /\ pc' = pc
  BY DEF Send, vars, thread
<1>3. "LOGIN" \notin Awaited(c)' /\ outbox'[c] = <<>>
  BY <1>1, <1>2 DEF Awaited
<1>4. \A i \in DOMAIN inbox'[c] : inbox'[c][i].kind = "LOGIN" => inbox'[c][i].val = m.val
  <2>1. CASE Send(c, m)
    <3>1. inbox'[c] = Append(inbox[c], m)
      BY <2>1 DEF Send, TypeOK
    <3> QED BY <1>1, <3>1
  <2>2. CASE UNCHANGED vars
    BY <1>1, <2>2 DEF vars
  <2> QED BY <2>1, <2>2
<1> QED BY <1>3, <1>4 DEF Carries

LEMMA LoginsNext ==
  ASSUME NoOrders, Records, OneEach, Conversation, Logins, [CNext]_allVars
  PROVE  Logins'
<1> SUFFICES ASSUME NEW p \in Clients, NEW c, c = main'[p], c # NoConn, NEW u, u = user'[p]
             PROVE  /\ HostAt[p] = HostOf[c]
                    /\ u # Nobody => page'[p] # "auth" /\ Listed(c, u)'
                    /\ \A m \in Msgs : m.kind = "LOGIN" /\ script'[p] = Recvs(m)
                         => Carries(c, m.val)'
  BY DEF Logins, Login, Listed, Carries, Awaited
<1>0. /\ CInv /\ Chain /\ Talking /\ Conversations /\ TypeOK /\ Shape /\ CTypeOK /\ c \in Conns
      /\ main[p] = c => sock[c] = "open" /\ ConnChain(c) /\ LinesKept(c)
  <2>1. CInv /\ Chain /\ Talking /\ Conversations
    BY DEF Conversation
  <2>2. c \in Conns /\ [Next]_vars
    BY <2>1, SystemNext, Implements DEF CInv, CTypeOK
  <2> QED BY <2>1, <2>2, OpenMain, KeepsLines DEF CInv, Chain
<1>1. ASSUME main[p] = c
      PROVE  /\ HostAt[p] = HostOf[c]
             /\ user[p] # Nobody => page[p] # "auth" /\ Listed(c, user[p])
             /\ \A m \in Msgs : m.kind = "LOGIN" /\ script[p] = Recvs(m) => Carries(c, m.val)
  BY <1>1 DEF Logins, Login
<1>2. \A m \in Msgs : /\ Recvs(m) # <<>> /\ Recvs(m) # <<Closes("main")>>
                      /\ \A l \in Msgs : Recvs(m) # Ask("main", l) /\ Recvs(m) # Change(l)
                      /\ \A l \in Msgs : Recvs(m) = Recvs(l) => m = l
  BY RecvsDiffer
<1>3. CASE Waits(p)
  <2>1. /\ main[p] = c /\ script'[p] = script[p] /\ page'[p] = page[p] /\ user'[p] = user[p]
        /\ Effect(c)
    BY <1>3 DEF Waits
  <2>2. u # Nobody => Listed(c, u)'
    BY <1>0, <1>1, <2>1, EffectListed
  <2>3. ASSUME NEW m \in Msgs, m.kind = "LOGIN", script[p] = Recvs(m)
        PROVE  Carries(c, m.val)'
    <3>1. Owes(c, {"LOGIN"})
      BY <1>0, <1>2, <2>1, <2>3, SilentOwes, WantedKinds
    <3> QED BY <1>0, <1>1, <2>1, <2>3, <3>1, EffectCarries
  <2> QED BY <1>1, <2>1, <2>2, <2>3
<1>4. CASE Started(p)
  BY <1>0, <1>2, <1>4 DEF Started
<1>5. CASE Began(p) \/ Ended(p) \/ Missed(p)
  <2>1. /\ main[p] = c /\ user'[p] = user[p] /\ (page'[p] = "auth" <=> page[p] = "auth")
        /\ UNCHANGED <<inbox, pc, todo, buf>>
    BY <1>5 DEF Began, Ended, Missed, vars, thread
  <2>2. \A m \in Msgs : script'[p] # Recvs(m)
    BY <1>2, <1>5 DEF Began, Ended, Missed
  <2>3. u # Nobody => Listed(c, u)'
    <3> SUFFICES ASSUME u # Nobody PROVE Listed(c, u)'
      OBVIOUS
    <3>1. Listed(c, u)
      BY <1>1, <2>1
    <3> QED BY <1>0, <2>1, <3>1, SameListed DEF Listed
  <2> QED BY <1>1, <2>1, <2>2, <2>3
<1>6. CASE Hung(p)
  BY <1>6 DEF Hung
<1>7. ASSUME NEW m \in Msgs, Sent(p, m)
      PROVE  /\ HostAt[p] = HostOf[c]
             /\ u # Nobody => page'[p] # "auth" /\ Listed(c, u)'
             /\ \A l \in Msgs : l.kind = "LOGIN" /\ script'[p] = Recvs(l) => Carries(c, l.val)'
  <2>1. /\ main[p] = c /\ user'[p] = user[p] /\ page'[p] = page[p]
        /\ (pc[c] = "closed" /\ UNCHANGED vars) \/ Send(c, m)
        /\ script[p] = Ask("main", m) \/ script[p] = Change(m)
        /\ m.kind \in Auth => page[p] = "auth"
        /\ script'[p] = Recvs(m) \/ script'[p] = Ask("main", Refresh(m))
    BY <1>7 DEF Sent, Changed, Auth, Inserts, Updates, Deletes
  <2>2. Refresh(m) \in Msgs
    BY OrderRequests DEF Refresh, TableOf, Tables
  <2>3. ASSUME NEW l \in Msgs, l.kind = "LOGIN", script'[p] = Recvs(l)
        PROVE  Carries(c, l.val)'
    <3>1. l = m
      BY <1>2, <2>1, <2>2, <2>3
    <3>2. Owes(c, {})
      <4>1. script[p] # <<Closes("main")>>
        <5>1. Closes("main").op # Step("send", "main", m).op
          BY DEF Closes, Step
        <5> QED BY <2>1, <5>1, ScriptParts
      <4> QED BY <1>0, <2>1, <4>1, SilentOwes
    <3> QED BY <1>0, <2>1, <3>1, <3>2, SentCarries
  <2>4. ASSUME u # Nobody
        PROVE  page[p] # "auth" /\ Listed(c, u)'
    <3>1. page[p] # "auth" /\ Listed(c, u)
      BY <1>1, <2>1, <2>4
    <3>2. m.kind # "LOGIN"
      BY <2>1, <3>1 DEF Auth
    <3>3. \A i \in DOMAIN inbox'[c] : inbox'[c][i].kind # "LOGIN"
      <4>1. CASE Send(c, m)
        <5>1. inbox[c] \in Seq(Msgs) /\ inbox'[c] = Append(inbox[c], m)
          BY <1>0, <4>1 DEF TypeOK, Send
        <5>2. \A i \in DOMAIN inbox[c] : inbox[c][i].kind # "LOGIN"
          BY <3>1 DEF Listed
        <5> QED BY <3>2, <5>1, <5>2
      <4>2. CASE UNCHANGED vars
        BY <3>1, <4>2 DEF Listed, vars
      <4> QED BY <2>1, <4>1, <4>2
    <3>4. UNCHANGED <<pc, todo, buf>>
      BY <2>1 DEF Send, vars, thread
    <3> QED BY <1>0, <2>1, <3>1, <3>3, <3>4, SameListed
  <2> QED BY <1>1, <2>1, <2>3, <2>4
<1>8. ASSUME NEW m \in Msgs, Heard(p, m)
      PROVE  /\ HostAt[p] = HostOf[c]
             /\ u # Nobody => page'[p] # "auth" /\ Listed(c, u)'
             /\ \A l \in Msgs : l.kind = "LOGIN" /\ script'[p] = Recvs(l) => Carries(c, l.val)'
  <2>1. /\ main[p] = c /\ script[p] = Recvs(m) /\ script'[p] = <<>>
        /\ IF m.kind = "LOGIN" /\ Head(outbox[c]).says = "true"
           THEN user'[p] = m.val /\ page'[p] = "Main"
           ELSE user'[p] = user[p] /\ page'[p] = page[p]
    BY <1>8 DEF Heard
  <2>2. PICK n \in 1..Len(outbox[c]) : Read(c, n)
    BY <1>8, <2>1 DEF Heard
  <2>3. outbox[c] # <<>> /\ UNCHANGED <<inbox, pc, todo, buf>>
    BY <1>0, <2>2 DEF Read, thread, TypeOK
  <2>4. ASSUME Listed(c, u)
        PROVE  Listed(c, u)'
    BY <1>0, <2>1, <2>3, <2>4, SameListed DEF Listed
  <2>5. m.kind = "LOGIN" /\ Head(outbox[c]).says = "true" => Listed(c, m.val)
    BY <1>1, <2>1, <2>3 DEF Carries
  <2>6. CASE m.kind = "LOGIN" /\ Head(outbox[c]).says = "true"
    BY <1>1, <1>2, <2>1, <2>4, <2>5, <2>6
  <2>7. CASE ~(m.kind = "LOGIN" /\ Head(outbox[c]).says = "true")
    BY <1>1, <1>2, <2>1, <2>4, <2>7
  <2> QED BY <2>6, <2>7
<1> QED BY <1>0, <1>3, <1>4, <1>5, <1>6, <1>7, <1>8, SystemMoves DEF Act

(***************************************************************************)
(* A client that on_login_button_clicked took past the login page has its  *)
(* line in sessions.txt once handle_login is back in recv, for as long as  *)
(* its connection lives: when a machine has at most one connection, nobody *)
(* saves orders and add_session can write its file.                        *)
(***************************************************************************)
THEOREM LoggedInAreListed ==
  ASSUME NoOrders, Records, OneEach
  PROVE  CSpec => []LoggedInListed
<1>1. Logins /\ Conversation /\ [CNext]_allVars => Logins'
  BY LoginsNext
<1>2. Logins => LoggedInListed
  <2> SUFFICES ASSUME Logins, NEW p \in Clients,
                      user[p] # Nobody, main[p] # NoConn, pc[main[p]] = "recv"
               PROVE  [host |-> HostAt[p], user |-> user[p]] \in sessions
    BY DEF LoggedInListed
  <2>1. HostAt[p] = HostOf[main[p]] /\ Listed(main[p], user[p])
    BY DEF Logins, Login
  <2> QED BY <2>1 DEF Listed
<1> QED BY <1>1, <1>2, LoginsInit, ConversationHolds, PTL DEF CSpec

=============================================================================
