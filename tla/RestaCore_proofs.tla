-------------------------- MODULE RestaCore_proofs --------------------------
(***************************************************************************)
(* Proofs about the whole system, for any clients, connections, requests   *)
(* and rows: the clients are clients of Server, so what is proved of the   *)
(* server holds of the system, and no client loses a socket.               *)
(***************************************************************************)
EXTENDS RestaCore, Server_proofs

-----------------------------------------------------------------------------
(* The steps of scripts. *)

Steps == [op : {"send", "recv", "open", "close"}, on : {"main", "second"}, msg : Msgs]

Uses(s, i) == s[i].on = "second" /\ s[i].op # "open"
ClosesSecond(s, i) == s[i].on = "second" /\ s[i].op = "close"

(* A script opens the second socket at most once, and only when it is       *)
(* closed, uses it between its opening and its closing, and closes it; it   *)
(* closes the main socket at its very end.                                  *)
Planned(s, opened) ==
  /\ opened => \E i \in 1..Len(s) : ClosesSecond(s, i)
  /\ \A i \in 1..Len(s) :
       /\ s[i].op = "open" =>
            /\ ~opened /\ s[i].on = "second"
            /\ \A j \in 1..Len(s) : s[j].op = "open" => j = i
            /\ \E j \in (i + 1)..Len(s) : ClosesSecond(s, j)
       /\ Uses(s, i) => opened \/ \E j \in 1..(i - 1) : s[j].op = "open"
       /\ s[i].op = "close" =>
            \A j \in (i + 1)..Len(s) : s[i].on = "second" /\ s[j].on = "main"

(* What is left of a script after its first step. *)
LEMMA TailSteps ==
  ASSUME NEW s \in Seq(Steps), s # <<>>
  PROVE  /\ Tail(s) \in Seq(Steps) /\ Head(s) = s[1] /\ Head(s) \in Steps
         /\ Len(s) \in Nat /\ Len(s) >= 1 /\ Len(Tail(s)) = Len(s) - 1
         /\ \A i \in 1..(Len(s) - 1) : Tail(s)[i] = s[i + 1]
OBVIOUS

LEMMA PlannedRest ==
  ASSUME NEW s \in Seq(Steps), s # <<>>, NEW opened \in BOOLEAN, Planned(s, opened)
  PROVE  /\ Head(s).op \in {"send", "recv"} => Planned(Tail(s), opened)
         /\ Head(s).op = "open" => ~opened /\ Planned(Tail(s), TRUE)
         /\ Head(s).op = "close" /\ Head(s).on = "second" => Planned(Tail(s), FALSE)
         /\ Head(s).op = "close" /\ Head(s).on = "main" => Tail(s) = <<>> /\ ~opened
         /\ Uses(s, 1) => opened
<1> DEFINE t == Tail(s)
<1>1. /\ t \in Seq(Steps) /\ Head(s) = s[1] /\ Head(s) \in Steps
      /\ Len(s) \in Nat /\ Len(s) >= 1 /\ Len(t) = Len(s) - 1
      /\ \A i \in 1..Len(t) : t[i] = s[i + 1]
  BY TailSteps
<1> HIDE DEF t
<1>2. ASSUME NEW i \in 1..Len(t)
      PROVE  i + 1 \in 1..Len(s)
  BY <1>1
<1>3. ASSUME NEW i \in 1..Len(s), i # 1
      PROVE  i - 1 \in 1..Len(t) /\ t[i - 1] = s[i]
  <2>1. i - 1 \in 1..Len(t) /\ (i - 1) + 1 = i
    BY <1>1, <1>3
  <2> QED BY <1>1, <2>1
<1>4. ASSUME NEW next \in BOOLEAN,
             \/ s[1].op \in {"send", "recv"} /\ next = opened
             \/ s[1].op = "open" /\ next
             \/ ClosesSecond(s, 1) /\ ~next
      PROVE  Planned(t, next)
  <2>0. 1 \in 1..Len(s)
    BY <1>1
  <2>1. ASSUME next
        PROVE  \E i \in 1..Len(t) : ClosesSecond(t, i)
    <3>1. PICK i \in 1..Len(s) : ClosesSecond(s, i) /\ i # 1
      <4>1. CASE s[1].op \in {"send", "recv"} /\ opened
        <5>1. ~ClosesSecond(s, 1)
          BY <4>1 DEF ClosesSecond
        <5>2. \E i \in 1..Len(s) : ClosesSecond(s, i)
          BY <4>1 DEF Planned
        <5> QED BY <5>1, <5>2
      <4>2. CASE s[1].op = "open"
        <5>1. PICK j \in (1 + 1)..Len(s) : ClosesSecond(s, j)
          BY <2>0, <4>2 DEF Planned
        <5>2. j \in 1..Len(s) /\ j # 1
          BY <1>1
        <5> QED BY <5>1, <5>2
      <4> QED BY <1>4, <2>1, <4>1, <4>2
    <3> QED BY <1>3, <3>1 DEF ClosesSecond
  <2>2. ASSUME NEW i \in 1..Len(t), t[i].op = "open"
        PROVE  /\ ~next /\ t[i].on = "second"
               /\ \A j \in 1..Len(t) : t[j].op = "open" => j = i
               /\ \E j \in (i + 1)..Len(t) : ClosesSecond(t, j)
    <3>1. i + 1 \in 1..Len(s) /\ s[i + 1].op = "open" /\ i + 1 # 1
      BY <1>1, <1>2, <2>2
    <3>2. /\ ~opened /\ s[i + 1].on = "second"
          /\ \A j \in 1..Len(s) : s[j].op = "open" => j = i + 1
          /\ \E j \in (i + 2)..Len(s) : ClosesSecond(s, j)
      BY <3>1 DEF Planned
    <3>3. ~next /\ t[i].on = "second"
      BY <1>1, <1>4, <2>0, <3>1, <3>2
    <3>4. ASSUME NEW j \in 1..Len(t), t[j].op = "open"
          PROVE  j = i
      <4>1. j + 1 \in 1..Len(s) /\ s[j + 1].op = "open"
        BY <1>1, <1>2, <3>4
      <4>2. j + 1 = i + 1
        BY <3>2, <4>1
      <4> QED BY <4>2
    <3>5. PICK j \in (i + 2)..Len(s) : ClosesSecond(s, j)
      BY <3>2
    <3>6. j \in 1..Len(s) /\ j # 1 /\ j - 1 \in (i + 1)..Len(t)
      BY <1>1, <3>5
    <3>7. ClosesSecond(t, j - 1)
      BY <1>3, <3>5, <3>6 DEF ClosesSecond
    <3> QED BY <3>3, <3>4, <3>6, <3>7
  <2>3. ASSUME NEW i \in 1..Len(t), Uses(t, i)
        PROVE  next \/ \E j \in 1..(i - 1) : t[j].op = "open"
    <3>1. i + 1 \in 1..Len(s) /\ Uses(s, i + 1) /\ (i + 1) - 1 = i /\ i + 1 \in 2..Len(s)
      BY <1>1, <1>2, <2>3 DEF Uses
    <3>2. opened \/ \E j \in 1..i : s[j].op = "open"
      BY <3>1 DEF Planned
    <3>3. ~ClosesSecond(s, 1)
      BY <2>0, <3>1 DEF Planned, ClosesSecond, Uses
    <3>4. CASE opened
      <4>1. s[1].op # "open"
        BY <2>0, <3>4 DEF Planned
      <4> QED BY <1>4, <3>3, <3>4, <4>1
    <3>5. ASSUME NEW j \in 1..i, s[j].op = "open"
          PROVE  next \/ \E k \in 1..(i - 1) : t[k].op = "open"
      <4>1. CASE j = 1
        BY <1>4, <3>5, <4>1 DEF ClosesSecond
      <4>2. CASE j # 1
        <5>1. j \in 1..Len(s) /\ j - 1 \in 1..(i - 1)
          BY <1>1, <4>2
        <5> QED BY <1>3, <3>5, <4>2, <5>1
      <4> QED BY <4>1, <4>2
    <3> QED BY <3>2, <3>4, <3>5
  <2>4. ASSUME NEW i \in 1..Len(t), t[i].op = "close", NEW j \in (i + 1)..Len(t)
        PROVE  t[i].on = "second" /\ t[j].on = "main"
    <3>0. j \in 1..Len(t) /\ j + 1 \in ((i + 1) + 1)..Len(s)
      BY <1>1
    <3>1. /\ i + 1 \in 1..Len(s) /\ s[i + 1].op = "close"
          /\ j \in 1..Len(t) /\ j + 1 \in ((i + 1) + 1)..Len(s)
      BY <1>1, <1>2, <2>4, <3>0
    <3>2. s[i + 1].on = "second" /\ s[j + 1].on = "main"
      BY <3>1 DEF Planned
    <3> QED BY <1>1, <3>1, <3>2
  <2> QED BY <2>1, <2>2, <2>3, <2>4 DEF Planned
<1>5. ASSUME s[1].op = "open"
      PROVE  ~opened
  BY <1>1, <1>5 DEF Planned
<1>6. ASSUME s[1].op = "close", s[1].on = "main"
      PROVE  t = <<>> /\ ~opened
  <2>1. 1 \in 1..Len(s) /\ \A j \in 2..Len(s) : FALSE
    BY <1>1, <1>6 DEF Planned
  <2>2. Len(s) = 1
    BY <1>1, <2>1
  <2>3. ~opened
    BY <1>6, <2>2 DEF Planned, ClosesSecond
  <2> QED BY <1>1, <2>2, <2>3
<1>7. ASSUME Uses(s, 1)
      PROVE  opened
  BY <1>1, <1>7 DEF Planned
<1>8. /\ Head(s).op \in {"send", "recv"} => Planned(t, opened)
      /\ Head(s).op = "open" => ~opened /\ Planned(t, TRUE)
      /\ Head(s).op = "close" /\ Head(s).on = "second" => Planned(t, FALSE)
  BY <1>1, <1>4, <1>5 DEF ClosesSecond
<1> QED BY <1>1, <1>6, <1>7, <1>8 DEF t

(* Every message the client sends by itself is a request it may send. *)
LEMMA GetType ==
  /\ \A k \in Fetches : Get(k) \in Msgs /\ Get(k).kind = k
  /\ \A t \in Tables : Listing(t) \in Listings
  /\ Listings \subseteq Fetches
<1>1. \A k \in Fetches : Get(k) \in Msgs /\ Get(k).kind = k
  <2>1. \A k \in Fetches : Get(k) \in Msgs
    BY ClientAssumption
  <2>2. \A k \in Fetches : Get(k).kind = k
    BY DEF Get
  <2> QED BY <2>1, <2>2
<1>2. ASSUME NEW t \in Tables
      PROVE  Listing(t) \in Listings
  <2>1. \E k \in Listings : TableOf(k) = t
    BY DEF Tables, Listings, TableOf
  <2> QED BY <2>1 DEF Listing
<1> QED BY <1>1, <1>2 DEF Listings, Fetches

-----------------------------------------------------------------------------
(* The scripts of the handlers are planned. *)

LEMMA NothingPlanned == <<>> \in Seq(Steps) /\ Planned(<<>>, FALSE)
<1>1. <<>> \in Seq(Steps)
  OBVIOUS
<1>2. Planned(<<>>, FALSE)
  BY DEF Planned
<1> QED BY <1>1, <1>2

LEMMA StepType ==
  ASSUME NEW op \in {"send", "recv", "open", "close"}, NEW on \in {"main", "second"}, NEW m \in Msgs
  PROVE  Step(op, on, m) \in Steps
BY DEF Step, Steps

(* The requests of the scripts. *)
LEMMA OrderRequests ==
  /\ Get("GET_ORDERS") \in Msgs
  /\ Get("GET_CUSTOMERS_COMBOBOX") \in Msgs
  /\ Get("GET_PRODUCTS_COMBOBOX") \in Msgs
  /\ \A t \in Tables : Get(Listing(t)) \in Msgs
BY GetType DEF Fetches

LEMMA AskPlanned ==
  ASSUME NEW m \in Msgs
  PROVE  Ask("main", m) \in Seq(Steps) /\ Planned(Ask("main", m), FALSE)
<1> DEFINE a == Step("send", "main", m)
           b == Step("recv", "main", m)
<1>1. a \in Steps /\ b \in Steps
  BY StepType
<1>2. a.op = "send" /\ a.on = "main" /\ b.op = "recv" /\ b.on = "main"
  BY DEF Step
<1>3. Ask("main", m) = <<a, b>>
  BY DEF Ask
<1> HIDE DEF a, b
<1>4. <<a, b>> \in Seq(Steps)
  BY <1>1
<1>5. Planned(<<a, b>>, FALSE)
  BY <1>2 DEF Planned, Uses, ClosesSecond
<1> QED BY <1>3, <1>4, <1>5

LEMMA ChangePlanned ==
  ASSUME NEW m \in Msgs
  PROVE  Change(m) \in Seq(Steps) /\ Planned(Change(m), FALSE)
<1> DEFINE g == Get(Listing(TableOf(m.kind)))
           a == Step("send", "main", m)
           b == Step("send", "main", g)
           c == Step("recv", "main", g)
<1>1. TableOf(m.kind) \in Tables
  BY DEF TableOf, Tables
<1>2. g \in Msgs
  BY <1>1, OrderRequests
<1>3. a \in Steps /\ b \in Steps /\ c \in Steps
  BY <1>2, StepType
<1>4. /\ a.op = "send" /\ a.on = "main" /\ b.op = "send" /\ b.on = "main"
      /\ c.op = "recv" /\ c.on = "main"
  BY DEF Step
<1>5. Change(m) = <<a>> \o <<b, c>>
  BY DEF Change, Ask
<1> HIDE DEF a, b, c
<1> DEFINE s == <<a>> \o <<b, c>>
<1>6. s \in Seq(Steps) /\ Len(s) = 3
  BY <1>3
<1>7. s[1] = a /\ s[2] = b /\ s[3] = c
  BY <1>3
<1> HIDE DEF s
<1>8. Planned(s, FALSE)
  BY <1>4, <1>6, <1>7 DEF Planned, Uses, ClosesSecond
<1> QED BY <1>5, <1>6, <1>8 DEF s

LEMMA FillPlanned == FillBoxes \in Seq(Steps) /\ Planned(FillBoxes, FALSE)
<1> DEFINE g == Get("GET_CUSTOMERS_COMBOBOX")
           h == Get("GET_PRODUCTS_COMBOBOX")
           a == Step("send", "main", g)
           b == Step("recv", "main", g)
           c == Opens
           d == Step("send", "second", h)
           e == Step("recv", "second", h)
           f == Closes("second")
<1>1. /\ a \in Steps /\ b \in Steps /\ c \in Steps
      /\ d \in Steps /\ e \in Steps /\ f \in Steps
  BY OrderRequests, StepType DEF Opens, Closes
<1>2. /\ a.op = "send" /\ a.on = "main" /\ b.op = "recv" /\ b.on = "main"
      /\ c.op = "open" /\ c.on = "second" /\ d.op = "send" /\ d.on = "second"
      /\ e.op = "recv" /\ e.on = "second" /\ f.op = "close" /\ f.on = "second"
  BY DEF Step, Opens, Closes
<1>3. FillBoxes = <<a, b>> \o <<c>> \o <<d, e>> \o <<f>>
  BY DEF FillBoxes, Ask
<1> HIDE DEF a, b, c, d, e, f
<1> DEFINE s == <<a, b>> \o <<c>> \o <<d, e>> \o <<f>>
<1>4. s \in Seq(Steps) /\ Len(s) = 6
  BY <1>1
<1>5. s[1] = a /\ s[2] = b /\ s[3] = c /\ s[4] = d /\ s[5] = e /\ s[6] = f
  BY <1>1
<1> HIDE DEF s
<1>6. Planned(s, FALSE)
  BY <1>2, <1>4, <1>5 DEF Planned, Uses, ClosesSecond
<1> QED BY <1>3, <1>4, <1>6 DEF s

LEMMA SavePlanned ==
  ASSUME NEW m \in Msgs
  PROVE  SaveOrder(m) \in Seq(Steps) /\ Planned(SaveOrder(m), FALSE)
<1> DEFINE g == Get("GET_ORDERS")
           a == Step("send", "main", m)
           b == Opens
           c == Step("send", "second", g)
           d == Step("recv", "second", g)
           e == Closes("second")
<1>1. a \in Steps /\ b \in Steps /\ c \in Steps /\ d \in Steps /\ e \in Steps
  BY OrderRequests, StepType DEF Opens, Closes
<1>2. /\ a.op = "send" /\ a.on = "main" /\ b.op = "open" /\ b.on = "second"
      /\ c.op = "send" /\ c.on = "second" /\ d.op = "recv" /\ d.on = "second"
      /\ e.op = "close" /\ e.on = "second"
  BY DEF Step, Opens, Closes
<1>3. SaveOrder(m) = <<a, b>> \o <<c, d>> \o <<e>>
  BY DEF SaveOrder, Ask
<1> HIDE DEF a, b, c, d, e
<1> DEFINE s == <<a, b>> \o <<c, d>> \o <<e>>
<1>4. s \in Seq(Steps) /\ Len(s) = 5
  BY <1>1
<1>5. s[1] = a /\ s[2] = b /\ s[3] = c /\ s[4] = d /\ s[5] = e
  BY <1>1
<1> HIDE DEF s
<1>6. Planned(s, FALSE)
  BY <1>2, <1>4, <1>5 DEF Planned, Uses, ClosesSecond
<1> QED BY <1>3, <1>4, <1>6 DEF s

LEMMA QuitPlanned ==
  /\ <<Closes("main")>> \in Seq(Steps) /\ Planned(<<Closes("main")>>, FALSE)
  /\ <<Closes("second"), Closes("main")>> \in Seq(Steps)
  /\ Planned(<<Closes("second"), Closes("main")>>, TRUE)
<1> DEFINE a == Closes("main")
           b == Closes("second")
<1>1. a \in Steps /\ b \in Steps
  BY OrderRequests, StepType DEF Closes
<1>2. a.op = "close" /\ a.on = "main" /\ b.op = "close" /\ b.on = "second"
  BY DEF Step, Closes
<1> HIDE DEF a, b
<1>3. <<a>> \in Seq(Steps) /\ <<b, a>> \in Seq(Steps)
  BY <1>1
<1>4. Planned(<<a>>, FALSE)
  BY <1>2 DEF Planned, Uses, ClosesSecond
<1>5. Planned(<<b, a>>, TRUE)
  BY <1>2 DEF Planned, Uses, ClosesSecond
<1> QED BY <1>3, <1>4, <1>5 DEF a, b

-----------------------------------------------------------------------------
(* Every running handler is planned, and runs in a started client. *)
Scripts ==
  \A p \in Clients :
    /\ script[p] # <<>> => main[p] # NoConn
    /\ Planned(script[p], second[p] # NoConn)

(* The open sockets and the variables that hold them correspond. *)
Owned ==
  /\ \A p \in Clients, on \in {"main", "second"} :
       SocketOf(p, on) # NoConn => sock[SocketOf(p, on)] = "open"
  /\ \A c \in Conns : sock[c] = "open" =>
       \E p \in Clients, on \in {"main", "second"} : SocketOf(p, on) = c
  /\ \A p, q \in Clients, on, to \in {"main", "second"} :
       SocketOf(p, on) = SocketOf(q, to) /\ SocketOf(p, on) # NoConn => p = q /\ on = to

CInv == TypeOK /\ Shape /\ CTypeOK /\ Scripts /\ Owned

(* A script that is empty leaves no second socket behind. *)
LEMMA NoneBehind ==
  ASSUME CTypeOK, Scripts, NEW p \in Clients, script[p] = <<>>
  PROVE  second[p] = NoConn
<1>1. Planned(<<>>, second[p] # NoConn)
  BY DEF Scripts
<1>2. Len(<<>>) = 0 /\ 1..0 = {}
  OBVIOUS
<1> QED BY <1>1, <1>2 DEF Planned

LEMMA OwnedSockets == CInv => SocketsOwned
<1> SUFFICES ASSUME CInv PROVE SocketsOwned
  OBVIOUS
<1>1. \A p \in Clients : Idle(p) => second[p] = NoConn
  BY NoneBehind DEF CInv, Idle
<1>2. Owned
  BY DEF CInv
<1> QED BY <1>1, <1>2 DEF Owned, SocketsOwned

(* The next step of a handler, and the socket it is about. *)
LEMMA NextOfScript ==
  ASSUME CTypeOK, Scripts, NEW p \in Clients, script[p] # <<>>
  PROVE  /\ script[p] \in Seq(Steps) /\ Head(script[p]) \in Steps
         /\ Tail(script[p]) \in Seq(Steps)
         /\ main[p] \in Conns
         /\ Head(script[p]).op # "open" => SocketOf(p, Head(script[p]).on) \in Conns
<1>1. script[p] \in Seq(Steps)
  BY DEF CTypeOK, Steps
<1>2. Head(script[p]) = script[p][1] /\ Head(script[p]) \in Steps /\ Tail(script[p]) \in Seq(Steps)
  BY <1>1, TailSteps
<1>3. main[p] \in Conns
  BY DEF Scripts, CTypeOK
<1>4. Uses(script[p], 1) => second[p] # NoConn
  <2>1. (second[p] # NoConn) \in BOOLEAN /\ Planned(script[p], second[p] # NoConn)
    BY DEF Scripts
  <2> QED BY <1>1, <2>1, PlannedRest
<1>5. Head(script[p]).on \in {"main", "second"}
  BY <1>2 DEF Steps
<1>6. second[p] \in Conns \union {NoConn}
  BY DEF CTypeOK
<1> QED BY <1>1, <1>2, <1>3, <1>4, <1>5, <1>6 DEF Uses, SocketOf

-----------------------------------------------------------------------------
(* The clients of the system are clients of the server. *)

LEMMA UserImplements ==
  ASSUME CInv, NEW p \in Clients, UserStep(p)
  PROVE  [Next]_vars
<1>1. CASE Start(p)
  <2>1. \E c \in Conns : Connect(c)
    BY <1>1 DEF Start
  <2> QED BY <2>1 DEF Next, ClientStep
<1>2. CASE Back(p)
  BY <1>2 DEF Back
<1>3. CASE AddOrder(p)
  BY <1>3 DEF AddOrder
<1>4. CASE \E t \in Tables : OpenPage(p, t)
  BY <1>4 DEF OpenPage
<1>5. CASE \E m \in UserMsgs : Authenticate(p, m) \/ Edit(p, m) \/ Order(p, m)
  BY <1>5 DEF Authenticate, Edit, Order
<1>6. CASE Quit(p)
  BY <1>6 DEF Quit
<1> QED BY <1>1, <1>2, <1>3, <1>4, <1>5, <1>6 DEF UserStep

LEMMA ScriptImplements ==
  ASSUME CInv, NEW p \in Clients, ScriptStep(p)
  PROVE  [Next]_vars
<1>0. CTypeOK /\ Scripts
  BY DEF CInv
<1>1. CASE DoSend(p)
  <2>1. script[p] # <<>> /\ Head(script[p]).op = "send"
    BY <1>1 DEF DoSend, Is
  <2>2. Head(script[p]) \in Steps /\ SocketOf(p, Head(script[p]).on) \in Conns
    BY <1>0, <2>1, NextOfScript
  <2>3. Head(script[p]).msg \in Msgs
    BY <2>2 DEF Steps
  <2>4. UNCHANGED vars \/ \E c \in Conns, m \in Msgs : Send(c, m)
    BY <1>1, <2>2, <2>3 DEF DoSend
  <2> QED BY <2>4 DEF Next, ClientStep
<1>2. CASE DoOpen(p)
  <2>1. \E c \in Conns : Connect(c)
    BY <1>2 DEF DoOpen
  <2> QED BY <2>1 DEF Next, ClientStep
<1>3. CASE DoClose(p)
  <2>1. script[p] # <<>> /\ Head(script[p]).op = "close"
    BY <1>3 DEF DoClose, Is
  <2>2. SocketOf(p, Head(script[p]).on) \in Conns
    BY <1>0, <2>1, NextOfScript
  <2>3. \E c \in Conns : Close(c)
    BY <1>3, <2>2 DEF DoClose
  <2> QED BY <2>3 DEF Next, ClientStep
<1>4. CASE RecvFails(p)
  BY <1>4 DEF RecvFails
<1>5. ASSUME NEW n, DoRecv(p, n)
      PROVE  [Next]_vars
  <2>1. script[p] # <<>> /\ Head(script[p]).op = "recv"
    BY <1>5 DEF DoRecv, Is
  <2>2. SocketOf(p, Head(script[p]).on) \in Conns
    BY <1>0, <2>1, NextOfScript
  <2>3. PICK c \in Conns : Read(c, n)
    BY <1>5, <2>2 DEF DoRecv
  <2>4. n \in 1..Len(outbox[c])
    BY <2>3 DEF Read
  <2> QED BY <2>3, <2>4 DEF Next, ClientStep
<1> QED BY <1>1, <1>2, <1>3, <1>4, <1>5 DEF ScriptStep

LEMMA Implements ==
  ASSUME CInv, [CNext]_allVars
  PROVE  [Next]_vars
<1>1. CASE \E p \in Clients : UserStep(p) \/ ScriptStep(p)
  BY <1>1, UserImplements, ScriptImplements
<1>2. CASE ServerStep
  BY <1>2 DEF ServerStep, Next
<1>3. CASE UNCHANGED allVars
  BY <1>3 DEF allVars
<1> QED BY <1>1, <1>2, <1>3 DEF CNext

-----------------------------------------------------------------------------
(* The server neither opens nor closes the clients' ends of connections. *)
SameOpen == \A c \in Conns : sock'[c] = "open" <=> sock[c] = "open"

LEMMA DroppedOpen ==
  ASSUME TypeOK, NEW c \in Conns, Dropped(c)
  PROVE  SameOpen
BY DEF TypeOK, Dropped, SameOpen

LEMMA ExitOpen ==
  ASSUME TypeOK, Exit
  PROVE  SameOpen
BY DEF TypeOK, Exit, SameOpen

LEMMA DeliverOpen ==
  ASSUME TypeOK, NEW c \in Conns, NEW r, Deliver(c, r)
  PROVE  SameOpen
BY DEF TypeOK, Deliver, SameOpen

LEMMA ServerOpen ==
  ASSUME TypeOK, ServerStep
  PROVE  SameOpen
<1>1. CASE Restart
  BY <1>1 DEF Restart, SameOpen
<1>2. ASSUME NEW c \in Conns, AcceptLoop(c)
      PROVE  SameOpen
  <2>1. CASE Accept(c)
    BY <2>1 DEF Accept, SameOpen
  <2>2. CASE Refuse(c)
    BY <2>2, DroppedOpen DEF Refuse
  <2> QED BY <1>2, <2>1, <2>2 DEF AcceptLoop
<1>3. ASSUME NEW c \in Conns, ThreadStep(c)
      PROVE  SameOpen
  <2>1. CASE \E n \in 1..MaxBatch : Receive(c, n)
    BY <2>1 DEF Receive, SameOpen
  <2>2. CASE Disconnect(c)
    BY <2>2, DroppedOpen DEF Disconnect
  <2>3. ASSUME NEW h \in Kinds, Misparse(c, h)
        PROVE  SameOpen
    BY <2>3 DEF Misparse, SameOpen
  <2>4. ASSUME NEW h \in Kinds, OpenDbFails(c, h)
        PROVE  SameOpen
    BY <2>4, ExitOpen DEF OpenDbFails
  <2>5. ASSUME NEW h \in Kinds, NEW x \in Handles, OpenDb(c, h, x)
        PROVE  SameOpen
    BY <2>5 DEF OpenDb, SameOpen
  <2>6. CASE RunQuery(c)
    <3>1. \E r : Executed(c, r)
      BY <2>6 DEF RunQuery, QueryFails, Fetch, CheckLogin, Insert, Update, Delete
    <3> QED BY <3>1 DEF Executed, SameOpen
  <2>7. CASE Answer(c)
    <3>1. UNCHANGED sock \/ \E r : Deliver(c, r)
      BY <2>7 DEF Answer
    <3>2. CASE UNCHANGED sock
      BY <3>2 DEF SameOpen
    <3> QED BY <3>1, <3>2, DeliverOpen
  <2>8. CASE AnswerLogin(c)
    BY <2>8, DeliverOpen DEF AnswerLogin
  <2>9. CASE \E a \in Addrs : AddSession(c, a)
    BY <2>9 DEF AddSession, SameOpen
  <2>10. CASE AddSessionFails(c)
    BY <2>10, DeliverOpen DEF AddSessionFails
  <2>11. CASE Sigpipe(c)
    BY <2>11, ExitOpen DEF Sigpipe
  <2> QED BY <1>3, <2>1, <2>2, <2>3, <2>4, <2>5, <2>6, <2>7, <2>8, <2>9, <2>10, <2>11
       DEF ThreadStep
<1> QED BY <1>1, <1>2, <1>3 DEF ServerStep

-----------------------------------------------------------------------------
(* What the steps of a client do to its script and its sockets. *)

(* The sockets are untouched. *)
LEMMA OwnedFrame ==
  ASSUME CTypeOK, Owned, SameOpen, UNCHANGED <<main, second>>
  PROVE  Owned'
<1>1. \A p \in Clients, on \in {"main", "second"} :
        /\ SocketOf(p, on)' = SocketOf(p, on)
        /\ SocketOf(p, on) # NoConn => SocketOf(p, on) \in Conns
  BY DEF SocketOf, CTypeOK
<1>2. \A p \in Clients, on \in {"main", "second"} :
        SocketOf(p, on) # NoConn => sock'[SocketOf(p, on)] = "open"
  BY <1>1 DEF Owned, SameOpen
<1> QED BY <1>1, <1>2 DEF Owned, SameOpen

(* A handler begins. *)
LEMMA BeginsScript ==
  ASSUME CTypeOK, Scripts, NEW p \in Clients,
         NEW s \in Seq(Steps), Planned(s, FALSE), Begins(p, s), UNCHANGED <<main, second>>
  PROVE  script' \in [Clients -> Seq(Steps)] /\ Scripts'
<1>1. /\ script[p] = <<>> /\ main[p] # NoConn
      /\ script' = [script EXCEPT ![p] = s]
      /\ script \in [Clients -> Seq(Steps)]
  BY DEF Begins, CTypeOK, Steps
<1>2. second[p] = NoConn
  BY <1>1, NoneBehind
<1>3. ASSUME NEW q \in Clients
      PROVE  /\ script'[q] # <<>> => main'[q] # NoConn
             /\ Planned(script'[q], second'[q] # NoConn)
  <2>1. CASE q = p
    <3>1. script'[q] = s /\ (second'[q] # NoConn) = FALSE
      BY <1>1, <1>2, <2>1
    <3> QED BY <1>1, <2>1, <3>1
  <2>2. CASE q # p
    <3>1. script'[q] = script[q]
      BY <1>1, <2>2
    <3> QED BY <3>1 DEF Scripts
  <2> QED BY <2>1, <2>2
<1>4. Scripts'
  BY <1>3 DEF Scripts
<1> QED BY <1>1, <1>4

(* A handler takes a step; the second socket is open or not as the rest of *)
(* the script expects.                                                     *)
LEMMA AdvanceScript ==
  ASSUME CTypeOK, Scripts, NEW p \in Clients, script[p] # <<>>, Advance(p),
         \A q \in Clients \ {p} : main'[q] = main[q] /\ second'[q] = second[q],
         Planned(Tail(script[p]), second'[p] # NoConn),
         Tail(script[p]) = <<>> \/ main'[p] = main[p]
  PROVE  script' \in [Clients -> Seq(Steps)] /\ Scripts'
<1>1. /\ script' = [script EXCEPT ![p] = Tail(script[p])]
      /\ script \in [Clients -> Seq(Steps)]
  BY DEF Advance, CTypeOK, Steps
<1>2. Tail(script[p]) \in Seq(Steps) /\ main[p] # NoConn
  BY NextOfScript DEF Scripts
<1>3. ASSUME NEW q \in Clients
      PROVE  /\ script'[q] # <<>> => main'[q] # NoConn
             /\ Planned(script'[q], second'[q] # NoConn)
  <2>1. CASE q = p
    <3>1. script'[q] = Tail(script[p])
      BY <1>1, <2>1
    <3> QED BY <1>2, <2>1, <3>1
  <2>2. CASE q # p
    <3>1. script'[q] = script[q] /\ main'[q] = main[q] /\ second'[q] = second[q]
      BY <1>1, <2>2
    <3> QED BY <3>1 DEF Scripts
  <2> QED BY <2>1, <2>2
<1>4. Scripts'
  BY <1>3 DEF Scripts
<1> QED BY <1>1, <1>2, <1>4

-----------------------------------------------------------------------------
(* What a client keeps of a reply is of its type. *)
LEMMA UseType ==
  ASSUME CTypeOK, NEW p \in Clients, NEW m \in Msgs, NEW says, NEW rows \in Rows,
         Use(p, m, says, rows)
  PROVE  /\ user' \in [Clients -> Texts \union {Nobody}]
         /\ page' \in [Clients -> Tables \union {"auth", "Main"}]
         /\ list' \in [Clients -> [Ids -> Row]]
         /\ boxes' \in [Clients -> [customer : SUBSET Ids, product : SUBSET Ids]]
<1>1. m.kind = "LOGIN" => m.val \in Texts
  <2>1. m \in UserMsgs \/ \E k \in Fetches : m = Get(k)
    BY ClientAssumption
  <2>2. \A k \in Fetches : Get(k).kind # "LOGIN"
    BY GetType DEF Fetches
  <2> QED BY <2>1, <2>2, ClientAssumption
<1>2. user' \in [Clients -> Texts \union {Nobody}]
  <2>1. CASE m.kind = "LOGIN" /\ says = "true"
    BY <1>1, <2>1 DEF Use, CTypeOK
  <2>2. CASE ~(m.kind = "LOGIN" /\ says = "true")
    BY <2>2 DEF Use, CTypeOK
  <2> QED BY <2>1, <2>2
<1>3. page' \in [Clients -> Tables \union {"auth", "Main"}]
  BY DEF Use, CTypeOK
<1> DEFINE shown == IF says = "true" THEN rows ELSE NoRows
<1>4. shown \in [Ids -> Row] /\ IdsIn(shown) \subseteq Ids
  BY DEF Rows, NoRows, Row, IdsIn
<1>5. list' = IF m.kind \in Listings THEN [list EXCEPT ![p] = shown] ELSE list
  BY DEF Use
<1>6. \/ boxes' = [boxes EXCEPT ![p].customer = IdsIn(shown)]
      \/ boxes' = [boxes EXCEPT ![p].product = IdsIn(shown)]
      \/ boxes' = boxes
  BY DEF Use
<1> HIDE DEF shown
<1>7. list' \in [Clients -> [Ids -> Row]]
  BY <1>4, <1>5 DEF CTypeOK
<1>8. boxes' \in [Clients -> [customer : SUBSET Ids, product : SUBSET Ids]]
  <2> DEFINE Box == [customer : SUBSET Ids, product : SUBSET Ids]
  <2>1. boxes \in [Clients -> Box] /\ boxes[p] \in Box
    BY DEF CTypeOK
  <2>2. IdsIn(shown) \in SUBSET Ids
    BY <1>4
  <2>3. /\ [boxes[p] EXCEPT !.customer = IdsIn(shown)] \in Box
        /\ [boxes[p] EXCEPT !.product = IdsIn(shown)] \in Box
    BY <2>1, <2>2
  <2>4. \/ boxes' = boxes
        \/ boxes' = [boxes EXCEPT ![p] = [boxes[p] EXCEPT !.customer = IdsIn(shown)]]
        \/ boxes' = [boxes EXCEPT ![p] = [boxes[p] EXCEPT !.product = IdsIn(shown)]]
    BY <1>6, <2>1
  <2> HIDE DEF Box
  <2>5. boxes' \in [Clients -> Box]
    BY <2>1, <2>3, <2>4
  <2> QED BY <2>5 DEF Box
<1> QED BY <1>2, <1>3, <1>7, <1>8

-----------------------------------------------------------------------------
(* Connecting and closing. *)

LEMMA ConnectOwned ==
  ASSUME TypeOK, CTypeOK, Owned, NEW p \in Clients, NEW on \in {"main", "second"}, NEW c \in Conns,
         Connect(c), SocketOf(p, on) = NoConn,
         SocketOf(p, on)' = c,
         \A q \in Clients, to \in {"main", "second"} :
           q # p \/ to # on => SocketOf(q, to)' = SocketOf(q, to)
  PROVE  Owned'
<1>1. sock[c] # "open" /\ sock'[c] = "open" /\ \A d \in Conns \ {c} : sock'[d] = sock[d]
  BY DEF Connect, TypeOK
<1>2. c # NoConn
  BY ClientAssumption
<1>3. \A q \in Clients, to \in {"main", "second"} : SocketOf(q, to) # c
  BY <1>1, <1>2 DEF Owned
<1>4. \A q \in Clients, to \in {"main", "second"} : SocketOf(q, to) \in Conns \union {NoConn}
  BY DEF SocketOf, CTypeOK
<1>5. ASSUME NEW q \in Clients, NEW to \in {"main", "second"}, SocketOf(q, to)' # NoConn
      PROVE  sock'[SocketOf(q, to)'] = "open"
  <2>1. CASE q = p /\ to = on
    BY <1>1, <2>1
  <2>2. CASE q # p \/ to # on
    BY <1>1, <1>3, <1>4, <1>5, <2>2 DEF Owned
  <2> QED BY <2>1, <2>2
<1>6. ASSUME NEW d \in Conns, sock'[d] = "open"
      PROVE  \E q \in Clients, to \in {"main", "second"} : SocketOf(q, to)' = d
  <2>1. CASE d = c
    BY <2>1
  <2>2. CASE d # c
    <3>1. PICK q \in Clients, to \in {"main", "second"} : SocketOf(q, to) = d
      BY <1>1, <1>6, <2>2 DEF Owned
    <3>2. q # p \/ to # on
      BY <3>1, ClientAssumption
    <3> QED BY <3>1, <3>2
  <2> QED BY <2>1, <2>2
<1>7. ASSUME NEW q \in Clients, NEW r \in Clients,
             NEW to \in {"main", "second"}, NEW ro \in {"main", "second"},
             SocketOf(q, to)' = SocketOf(r, ro)', SocketOf(q, to)' # NoConn
      PROVE  q = r /\ to = ro
  <2>1. CASE (q = p /\ to = on) \/ (r = p /\ ro = on)
    BY <1>3, <1>7, <2>1
  <2>2. CASE ~((q = p /\ to = on) \/ (r = p /\ ro = on))
    BY <1>7, <2>2 DEF Owned
  <2> QED BY <2>1, <2>2
<1> QED BY <1>5, <1>6, <1>7 DEF Owned

LEMMA CloseOwned ==
  ASSUME TypeOK, CTypeOK, Owned, NEW p \in Clients, NEW on \in {"main", "second"},
         SocketOf(p, on) \in Conns, Close(SocketOf(p, on)),
         SocketOf(p, on)' = NoConn,
         \A q \in Clients, to \in {"main", "second"} :
           q # p \/ to # on => SocketOf(q, to)' = SocketOf(q, to)
  PROVE  Owned'
<1> DEFINE c == SocketOf(p, on)
<1>1. c \in Conns /\ c # NoConn
  BY ClientAssumption
<1>2. sock'[c] # "open" /\ \A d \in Conns \ {c} : sock'[d] = sock[d]
  BY DEF Close, TypeOK
<1>3. \A q \in Clients, to \in {"main", "second"} :
        q # p \/ to # on => SocketOf(q, to) # c
  BY <1>1 DEF Owned
<1>4. \A q \in Clients, to \in {"main", "second"} : SocketOf(q, to) \in Conns \union {NoConn}
  BY DEF SocketOf, CTypeOK
<1> HIDE DEF c
<1>5. ASSUME NEW q \in Clients, NEW to \in {"main", "second"}, SocketOf(q, to)' # NoConn
      PROVE  sock'[SocketOf(q, to)'] = "open"
  <2>1. q # p \/ to # on
    BY <1>5
  <2>2. SocketOf(q, to)' = SocketOf(q, to) /\ SocketOf(q, to) \in Conns \ {c}
    BY <1>3, <1>4, <1>5, <2>1
  <2>3. sock[SocketOf(q, to)] = "open"
    BY <1>5, <2>2 DEF Owned
  <2> QED BY <1>2, <2>2, <2>3
<1>6. ASSUME NEW d \in Conns, sock'[d] = "open"
      PROVE  \E q \in Clients, to \in {"main", "second"} : SocketOf(q, to)' = d
  <2>1. d # c /\ sock[d] = "open"
    BY <1>2, <1>6
  <2>2. PICK q \in Clients, to \in {"main", "second"} : SocketOf(q, to) = d
    BY <2>1 DEF Owned
  <2>3. q # p \/ to # on
    BY <2>1, <2>2 DEF c
  <2> QED BY <2>2, <2>3
<1>7. ASSUME NEW q \in Clients, NEW r \in Clients,
             NEW to \in {"main", "second"}, NEW ro \in {"main", "second"},
             SocketOf(q, to)' = SocketOf(r, ro)', SocketOf(q, to)' # NoConn
      PROVE  q = r /\ to = ro
  <2>1. (q # p \/ to # on) /\ (r # p \/ ro # on)
    BY <1>7
  <2>2. SocketOf(q, to)' = SocketOf(q, to) /\ SocketOf(r, ro)' = SocketOf(r, ro)
    BY <2>1
  <2>3. SocketOf(q, to) = SocketOf(r, ro) /\ SocketOf(q, to) # NoConn
    BY <1>7, <2>2
  <2>4. \A a, b \in Clients, on1, on2 \in {"main", "second"} :
          SocketOf(a, on1) = SocketOf(b, on2) /\ SocketOf(a, on1) # NoConn => a = b /\ on1 = on2
    BY DEF Owned
  <2> QED BY <2>3, <2>4
<1> QED BY <1>5, <1>6, <1>7 DEF Owned

-----------------------------------------------------------------------------
(* The steps of the users. *)

ClientsInv == CTypeOK /\ Scripts /\ Owned

(* A handler begins whose script is planned. *)
LEMMA BeginsStep ==
  ASSUME CInv, NEW p \in Clients, NEW s \in Seq(Steps), Planned(s, FALSE), Begins(p, s),
         page' \in [Clients -> Tables \union {"auth", "Main"}],
         UNCHANGED <<sock, main, second, user, list, boxes>>
  PROVE  ClientsInv'
<1>1. script' \in [Clients -> Seq(Steps)] /\ Scripts'
  BY BeginsScript DEF CInv
<1>2. CTypeOK'
  BY <1>1 DEF CInv, CTypeOK, Steps
<1>3. Owned'
  BY OwnedFrame DEF CInv, SameOpen
<1> QED BY <1>1, <1>2, <1>3 DEF ClientsInv

LEMMA StartStep ==
  ASSUME CInv, NEW p \in Clients, Start(p)
  PROVE  ClientsInv'
<1>1. PICK c \in Conns : Connect(c) /\ main' = [main EXCEPT ![p] = c]
  BY DEF Start
<1>2. /\ main[p] = NoConn /\ script[p] = <<>>
      /\ page' = [page EXCEPT ![p] = "auth"] /\ user' = [user EXCEPT ![p] = Nobody]
      /\ list' = [list EXCEPT ![p] = NoRows]
      /\ boxes' = [boxes EXCEPT ![p] = [customer |-> {}, product |-> {}]]
      /\ UNCHANGED <<second, script>>
  BY DEF Start
<1>3. CTypeOK
  BY DEF CInv
<1>4. CTypeOK'
  <2>1. NoRows \in [Ids -> Row]
    BY DEF NoRows, Row
  <2>2. [customer |-> {}, product |-> {}] \in [customer : SUBSET Ids, product : SUBSET Ids]
    OBVIOUS
  <2>3. main' \in [Clients -> Conns \union {NoConn}] /\ user' \in [Clients -> Texts \union {Nobody}]
    BY <1>1, <1>2, <1>3 DEF CTypeOK
  <2>4. page' \in [Clients -> Tables \union {"auth", "Main"}]
    BY <1>2, <1>3 DEF CTypeOK
  <2>5. /\ list' \in [Clients -> [Ids -> Row]]
        /\ boxes' \in [Clients -> [customer : SUBSET Ids, product : SUBSET Ids]]
    BY <1>2, <1>3, <2>1, <2>2 DEF CTypeOK
  <2> QED BY <1>2, <1>3, <2>3, <2>4, <2>5 DEF CTypeOK
<1>5. Scripts'
  BY <1>1, <1>2, <1>3 DEF CInv, Scripts, CTypeOK
<1>6. Owned'
  <2>1. SocketOf(p, "main") = NoConn /\ SocketOf(p, "main")' = c
    BY <1>1, <1>2, <1>3 DEF SocketOf, CTypeOK
  <2>2. \A q \in Clients, to \in {"main", "second"} :
          q # p \/ to # "main" => SocketOf(q, to)' = SocketOf(q, to)
    BY <1>1, <1>2, <1>3 DEF SocketOf, CTypeOK
  <2> QED BY <1>1, <1>3, <2>1, <2>2, ConnectOwned DEF CInv
<1> QED BY <1>4, <1>5, <1>6 DEF ClientsInv

LEMMA UserInv ==
  ASSUME CInv, NEW p \in Clients, UserStep(p)
  PROVE  ClientsInv'
<1>1. CASE Start(p)
  BY <1>1, StartStep
<1>2. CASE Back(p)
  <2>1. /\ Begins(p, <<>>) /\ page' = [page EXCEPT ![p] = "Main"]
        /\ UNCHANGED <<sock, main, second, user, list, boxes>>
    BY <1>2 DEF Back, vars
  <2>2. page' \in [Clients -> Tables \union {"auth", "Main"}]
    BY <2>1 DEF CInv, CTypeOK
  <2> QED BY <2>1, <2>2, NothingPlanned, BeginsStep
<1>3. CASE AddOrder(p)
  <2>1. /\ Begins(p, FillBoxes) /\ UNCHANGED <<sock, main, second, page, user, list, boxes>>
    BY <1>3 DEF AddOrder, vars
  <2>2. page' \in [Clients -> Tables \union {"auth", "Main"}]
    BY <2>1 DEF CInv, CTypeOK
  <2> QED BY <2>1, <2>2, FillPlanned, BeginsStep
<1>4. ASSUME NEW t \in Tables, OpenPage(p, t)
      PROVE  ClientsInv'
  <2>1. /\ Begins(p, Ask("main", Get(Listing(t)))) /\ page' = [page EXCEPT ![p] = t]
        /\ UNCHANGED <<sock, main, second, user, list, boxes>>
    BY <1>4 DEF OpenPage, vars
  <2>2. page' \in [Clients -> Tables \union {"auth", "Main"}]
    BY <2>1 DEF CInv, CTypeOK
  <2>3. Get(Listing(t)) \in Msgs
    BY OrderRequests
  <2> QED BY <2>1, <2>2, <2>3, AskPlanned, BeginsStep
<1>5. ASSUME NEW m \in UserMsgs, Authenticate(p, m) \/ Edit(p, m) \/ Order(p, m)
      PROVE  ClientsInv'
  <2>1. /\ UNCHANGED <<sock, main, second, page, user, list, boxes>>
        /\ Begins(p, Ask("main", m)) \/ Begins(p, Change(m)) \/ Begins(p, SaveOrder(m))
    BY <1>5 DEF Authenticate, Edit, Order, vars
  <2>2. page' \in [Clients -> Tables \union {"auth", "Main"}]
    BY <2>1 DEF CInv, CTypeOK
  <2>3. m \in Msgs
    BY ClientAssumption
  <2>4. CASE Begins(p, Ask("main", m))
    BY <2>1, <2>2, <2>3, <2>4, AskPlanned, BeginsStep
  <2>5. CASE Begins(p, Change(m))
    BY <2>1, <2>2, <2>3, <2>5, ChangePlanned, BeginsStep
  <2>6. CASE Begins(p, SaveOrder(m))
    BY <2>1, <2>2, <2>3, <2>6, SavePlanned, BeginsStep
  <2> QED BY <2>1, <2>4, <2>5, <2>6
<1>6. CASE Quit(p)
  <2> DEFINE s == IF second[p] = NoConn THEN <<Closes("main")>>
                  ELSE <<Closes("second"), Closes("main")>>
  <2>1. /\ main[p] # NoConn /\ script' = [script EXCEPT ![p] = s]
        /\ UNCHANGED <<sock, main, second, page, user, list, boxes>>
    BY <1>6 DEF Quit, vars
  <2>2. s \in Seq(Steps) /\ Planned(s, second[p] # NoConn)
    <3>1. CASE second[p] = NoConn
      <4>1. (second[p] # NoConn) = FALSE
        BY <3>1
      <4> QED BY <3>1, <4>1, QuitPlanned
    <3>2. CASE second[p] # NoConn
      <4>1. (second[p] # NoConn) = TRUE
        BY <3>2
      <4> QED BY <3>2, <4>1, QuitPlanned
    <3> QED BY <3>1, <3>2
  <2> HIDE DEF s
  <2>3. script \in [Clients -> Seq(Steps)] /\ CTypeOK /\ Scripts /\ Owned
    BY DEF CInv, CTypeOK, Steps
  <2>4. script' \in [Clients -> Seq(Steps)]
    BY <2>1, <2>2, <2>3
  <2>5. CTypeOK'
    BY <2>1, <2>3, <2>4 DEF CTypeOK, Steps
  <2>6. Scripts'
    <3> SUFFICES ASSUME NEW q \in Clients
                 PROVE  /\ script'[q] # <<>> => main'[q] # NoConn
                        /\ Planned(script'[q], second'[q] # NoConn)
      BY DEF Scripts
    <3>1. CASE q = p
      <4>1. script'[q] = s /\ main'[q] = main[p] /\ second'[q] = second[p]
        BY <2>1, <2>3, <3>1
      <4> QED BY <2>1, <2>2, <4>1
    <3>2. CASE q # p
      <4>1. script'[q] = script[q] /\ main'[q] = main[q] /\ second'[q] = second[q]
        BY <2>1, <2>3, <3>2
      <4> QED BY <2>3, <4>1 DEF Scripts
    <3> QED BY <3>1, <3>2
  <2>7. Owned'
    BY <2>1, <2>3, OwnedFrame DEF SameOpen
  <2> QED BY <2>5, <2>6, <2>7 DEF ClientsInv
<1> QED BY <1>1, <1>2, <1>3, <1>4, <1>5, <1>6 DEF UserStep

-----------------------------------------------------------------------------
(* The steps of a running handler. *)

(* A send or a recv leaves the sockets as they are. *)
LEMMA TalkStep ==
  ASSUME CInv, NEW p \in Clients, Is(p, "send") \/ Is(p, "recv"), Advance(p),
         user' \in [Clients -> Texts \union {Nobody}],
         page' \in [Clients -> Tables \union {"auth", "Main"}],
         list' \in [Clients -> [Ids -> Row]],
         boxes' \in [Clients -> [customer : SUBSET Ids, product : SUBSET Ids]],
         UNCHANGED <<sock, main, second>>
  PROVE  ClientsInv'
<1>1. CTypeOK /\ Scripts /\ Owned
  BY DEF CInv
<1>2. script[p] # <<>> /\ Head(script[p]).op \in {"send", "recv"}
  BY DEF Is
<1>3. Planned(Tail(script[p]), second[p] # NoConn)
  <2>1. /\ script[p] \in Seq(Steps) /\ (second[p] # NoConn) \in BOOLEAN
        /\ Planned(script[p], second[p] # NoConn)
    BY <1>1, <1>2, NextOfScript DEF Scripts
  <2> QED BY <1>2, <2>1, PlannedRest
<1>4. script' \in [Clients -> Seq(Steps)] /\ Scripts'
  <2>1. main' = main /\ second' = second /\ (second'[p] # NoConn) = (second[p] # NoConn)
    OBVIOUS
  <2> QED BY <1>1, <1>2, <1>3, <2>1, AdvanceScript
<1>5. CTypeOK'
  BY <1>1, <1>4 DEF CTypeOK, Steps
<1>6. Owned'
  BY <1>1, OwnedFrame DEF SameOpen
<1> QED BY <1>4, <1>5, <1>6 DEF ClientsInv

LEMMA SendStep ==
  ASSUME CInv, NEW p \in Clients, DoSend(p)
  PROVE  ClientsInv'
<1>1. /\ Is(p, "send") /\ Advance(p)
      /\ UNCHANGED <<sock, main, second, page, user, list, boxes>>
  BY DEF DoSend, Send, vars
<1>2. CTypeOK
  BY DEF CInv
<1>3. /\ user' \in [Clients -> Texts \union {Nobody}]
      /\ page' \in [Clients -> Tables \union {"auth", "Main"}]
      /\ list' \in [Clients -> [Ids -> Row]]
      /\ boxes' \in [Clients -> [customer : SUBSET Ids, product : SUBSET Ids]]
  BY <1>1, <1>2 DEF CTypeOK
<1> QED BY <1>1, <1>3, TalkStep

LEMMA RecvStep ==
  ASSUME CInv, NEW p \in Clients, NEW n, DoRecv(p, n) \/ RecvFails(p)
  PROVE  ClientsInv'
<1>1. CTypeOK /\ Scripts /\ TypeOK
  BY DEF CInv
<1>2. Is(p, "recv") /\ Advance(p) /\ UNCHANGED <<main, second>>
  BY DEF DoRecv, RecvFails
<1> DEFINE m == Head(script[p]).msg
           c == SocketOf(p, Head(script[p]).on)
<1>3. m \in Msgs /\ c \in Conns
  <2>1. script[p] # <<>> /\ Head(script[p]).op = "recv"
    BY <1>2 DEF Is
  <2>2. Head(script[p]) \in Steps /\ c \in Conns
    BY <1>1, <2>1, NextOfScript
  <2> QED BY <2>2 DEF Steps
<1>4. \E says : \E rows \in Rows : Use(p, m, says, rows)
  <2>1. CASE RecvFails(p)
    <3>1. NoRows \in Rows
      BY DEF NoRows, Rows, Row
    <3>2. Use(p, m, "false", NoRows)
      BY <2>1 DEF RecvFails
    <3> QED BY <3>1, <3>2
  <2>2. CASE DoRecv(p, n)
    <3>1. Read(c, n) /\ Use(p, m, Head(outbox[c]).says, Head(outbox[c]).rows)
      BY <2>2 DEF DoRecv
    <3>2. outbox[c] \in Seq(Reply) /\ outbox[c] # <<>>
      <4>1. outbox[c] \in Seq(Reply) /\ n \in 1..Len(outbox[c])
        BY <1>1, <1>3, <3>1 DEF TypeOK, Read
      <4>2. outbox[c] # <<>>
        BY <4>1
      <4> QED BY <4>1, <4>2
    <3>3. Head(outbox[c]) \in Reply
      BY <3>2
    <3>4. Head(outbox[c]).rows \in Rows
      BY <3>3 DEF Reply
    <3> QED BY <3>1, <3>4
  <2> QED BY <2>1, <2>2
<1>5. UNCHANGED sock
  BY DEF DoRecv, RecvFails, Read, vars
<1> HIDE DEF m, c
<1>6. /\ user' \in [Clients -> Texts \union {Nobody}]
      /\ page' \in [Clients -> Tables \union {"auth", "Main"}]
      /\ list' \in [Clients -> [Ids -> Row]]
      /\ boxes' \in [Clients -> [customer : SUBSET Ids, product : SUBSET Ids]]
  BY <1>1, <1>3, <1>4, UseType
<1> QED BY <1>2, <1>5, <1>6, TalkStep

LEMMA OpenStep ==
  ASSUME CInv, NEW p \in Clients, DoOpen(p)
  PROVE  ClientsInv'
<1>1. PICK c \in Conns : Connect(c) /\ second' = [second EXCEPT ![p] = c]
  BY DEF DoOpen
<1>2. /\ script[p] # <<>> /\ Head(script[p]).op = "open" /\ Advance(p)
      /\ UNCHANGED <<main, page, user, list, boxes>>
  BY DEF DoOpen, Is
<1>3. CTypeOK /\ Scripts /\ Owned /\ TypeOK /\ c # NoConn
  BY ClientAssumption DEF CInv
<1>4. second[p] = NoConn /\ Planned(Tail(script[p]), TRUE)
  <2>1. /\ script[p] \in Seq(Steps) /\ (second[p] # NoConn) \in BOOLEAN
        /\ Planned(script[p], second[p] # NoConn)
    BY <1>2, <1>3, NextOfScript DEF Scripts
  <2>2. ~(second[p] # NoConn) /\ Planned(Tail(script[p]), TRUE)
    BY <1>2, <2>1, PlannedRest
  <2> QED BY <2>2
<1>5. second \in [Clients -> Conns \union {NoConn}]
  BY <1>3 DEF CTypeOK
<1>6. script' \in [Clients -> Seq(Steps)] /\ Scripts'
  <2>1. /\ (second'[p] # NoConn) = TRUE
        /\ \A q \in Clients \ {p} : main'[q] = main[q] /\ second'[q] = second[q]
    BY <1>1, <1>2, <1>3, <1>5
  <2>2. Planned(Tail(script[p]), second'[p] # NoConn)
    BY <1>4, <2>1
  <2> QED BY <1>2, <1>3, <2>1, <2>2, AdvanceScript
<1>7. CTypeOK'
  BY <1>1, <1>2, <1>3, <1>5, <1>6 DEF CTypeOK, Steps
<1>8. Owned'
  <2>1. SocketOf(p, "second") = NoConn /\ SocketOf(p, "second")' = c
    BY <1>1, <1>4, <1>5 DEF SocketOf
  <2>2. \A q \in Clients, to \in {"main", "second"} :
          q # p \/ to # "second" => SocketOf(q, to)' = SocketOf(q, to)
    BY <1>1, <1>2, <1>5 DEF SocketOf
  <2> QED BY <1>1, <1>3, <2>1, <2>2, ConnectOwned
<1> QED BY <1>6, <1>7, <1>8 DEF ClientsInv

LEMMA CloseStep ==
  ASSUME CInv, NEW p \in Clients, DoClose(p)
  PROVE  ClientsInv'
<1>0. PICK on : on = Head(script[p]).on
  OBVIOUS
<1>1. /\ script[p] # <<>> /\ Head(script[p]).op = "close" /\ Advance(p)
      /\ Close(SocketOf(p, on))
      /\ IF on = "main" THEN main' = [main EXCEPT ![p] = NoConn] /\ UNCHANGED second
         ELSE second' = [second EXCEPT ![p] = NoConn] /\ UNCHANGED main
      /\ UNCHANGED <<page, user, list, boxes>>
  BY <1>0 DEF DoClose, Is
<1>2. CTypeOK /\ Scripts /\ Owned /\ TypeOK
  BY DEF CInv
<1>3. on \in {"main", "second"} /\ SocketOf(p, on) \in Conns
  BY <1>0, <1>1, <1>2, NextOfScript DEF Steps
<1>4. /\ on = "main" => Tail(script[p]) = <<>> /\ second[p] = NoConn
      /\ on = "second" => Planned(Tail(script[p]), FALSE)
  <2>1. /\ script[p] \in Seq(Steps) /\ (second[p] # NoConn) \in BOOLEAN
        /\ Planned(script[p], second[p] # NoConn)
    BY <1>1, <1>2, NextOfScript DEF Scripts
  <2> QED BY <1>0, <1>1, <2>1, PlannedRest
<1>5. /\ second \in [Clients -> Conns \union {NoConn}]
      /\ main \in [Clients -> Conns \union {NoConn}]
  BY <1>2 DEF CTypeOK
<1>6. script' \in [Clients -> Seq(Steps)] /\ Scripts'
  <2>1. \A q \in Clients \ {p} : main'[q] = main[q] /\ second'[q] = second[q]
    BY <1>1, <1>3, <1>5
  <2>2. CASE on = "main"
    <3>1. (second'[p] # NoConn) = FALSE /\ Tail(script[p]) = <<>>
      BY <1>1, <1>4, <2>2
    <3>2. Planned(Tail(script[p]), second'[p] # NoConn)
      BY <3>1, NothingPlanned
    <3> QED BY <1>1, <1>2, <2>1, <3>1, <3>2, AdvanceScript
  <2>3. CASE on = "second"
    <3>1. (second'[p] # NoConn) = FALSE /\ main' = main
      BY <1>1, <1>5, <2>3
    <3>2. Planned(Tail(script[p]), second'[p] # NoConn)
      BY <1>4, <2>3, <3>1
    <3> QED BY <1>1, <1>2, <2>1, <3>1, <3>2, AdvanceScript
  <2> QED BY <1>3, <2>2, <2>3
<1>7. CTypeOK'
  <2>1. /\ main' \in [Clients -> Conns \union {NoConn}]
        /\ second' \in [Clients -> Conns \union {NoConn}]
    BY <1>1, <1>3, <1>5
  <2> QED BY <1>1, <1>2, <1>6, <2>1 DEF CTypeOK, Steps
<1>8. Owned'
  <2>1. /\ SocketOf(p, on)' = NoConn
        /\ \A q \in Clients, to \in {"main", "second"} :
             q # p \/ to # on => SocketOf(q, to)' = SocketOf(q, to)
    BY <1>1, <1>3, <1>5 DEF SocketOf
  <2> QED BY <1>1, <1>2, <1>3, <2>1, CloseOwned
<1> QED BY <1>6, <1>7, <1>8 DEF ClientsInv

-----------------------------------------------------------------------------
LEMMA SystemNext ==
  ASSUME CInv, [CNext]_allVars
  PROVE  CInv'
<1>1. TypeOK' /\ Shape'
  BY Implements, NextType, NextShape DEF CInv
<1>2. ASSUME NEW p \in Clients, UserStep(p)
      PROVE  ClientsInv'
  BY <1>2, UserInv
<1>3. ASSUME NEW p \in Clients, ScriptStep(p)
      PROVE  ClientsInv'
  BY <1>3, SendStep, RecvStep, OpenStep, CloseStep DEF ScriptStep
<1>4. ASSUME (ServerStep /\ UNCHANGED clientVars) \/ UNCHANGED allVars
      PROVE  ClientsInv'
  <2>1. UNCHANGED <<main, second, script, page, user, list, boxes>> /\ SameOpen
    <3>1. CASE ServerStep /\ UNCHANGED clientVars
      BY <3>1, ServerOpen DEF CInv, clientVars
    <3>2. CASE UNCHANGED allVars
      BY <3>2 DEF allVars, vars, clientVars, SameOpen
    <3> QED BY <1>4, <3>1, <3>2
  <2>2. CTypeOK'
    BY <2>1 DEF CInv, CTypeOK
  <2>3. Scripts'
    BY <2>1 DEF CInv, Scripts
  <2>4. Owned'
    BY <2>1, OwnedFrame DEF CInv
  <2> QED BY <2>2, <2>3, <2>4 DEF ClientsInv
<1>5. ClientsInv'
  BY <1>2, <1>3, <1>4 DEF CNext
<1> QED BY <1>1, <1>5 DEF CInv, ClientsInv

LEMMA SystemInit == CInit => CInv
<1> SUFFICES ASSUME CInit PROVE CInv
  OBVIOUS
<1>1. TypeOK /\ Shape
  BY InitType DEF CInit
<1>2. CTypeOK
  <2>1. NoRows \in [Ids -> Row]
    BY DEF NoRows, Row
  <2>2. <<>> \in Seq(Steps)
    BY NothingPlanned
  <2>3. [customer |-> {}, product |-> {}] \in [customer : SUBSET Ids, product : SUBSET Ids]
    OBVIOUS
  <2> QED BY <2>1, <2>2, <2>3 DEF CInit, CTypeOK, Steps
<1>3. Scripts
  <2> SUFFICES ASSUME NEW p \in Clients
               PROVE  Planned(script[p], second[p] # NoConn) /\ script[p] = <<>>
    BY DEF Scripts
  <2>1. script[p] = <<>> /\ (second[p] # NoConn) = FALSE
    BY DEF CInit
  <2> QED BY <2>1, NothingPlanned
<1>4. Owned
  BY ClientAssumption DEF CInit, Init, Owned, SocketOf
<1> QED BY <1>1, <1>2, <1>3, <1>4 DEF CInv

LEMMA SystemInvariant == CSpec => []CInv
<1>1. CInv /\ [CNext]_allVars => CInv'
  BY SystemNext
<1> QED BY <1>1, SystemInit, PTL DEF CSpec

-----------------------------------------------------------------------------
(* The variables of the clients stay within their types. *)
THEOREM SystemTypes == CSpec => []CTypeOK
<1>1. CInv => CTypeOK
  BY DEF CInv
<1> QED BY <1>1, SystemInvariant, PTL

(* No handler of client.c loses a descriptor or closes one that another     *)
(* variable still holds, wherever the client is interrupted.                *)
THEOREM SocketsKept == CSpec => []SocketsOwned
<1> QED BY OwnedSockets, SystemInvariant, PTL

(* Every step of the system is a step of the server and its clients, so     *)
(* whatever holds of Server for any clients holds of the GTK clients.       *)
THEOREM SystemIsServer == CSpec => Spec
<1>1. CInit => Init
  BY DEF CInit
<1>2. CInv /\ [CNext]_allVars => [Next]_vars
  BY Implements
<1> QED BY <1>1, <1>2, SystemInvariant, PTL DEF CSpec, Spec

(* In the whole system no two handlers share a database connection, every   *)
(* line of sessions.txt has a thread or a recorded fault behind it, the     *)
(* pool lasts until a handler leaks, and lines come and go as promised.     *)
THEOREM SystemKeepsServer ==
  CSpec => [](HandleOwnership /\ SessionBacked /\ PoolSuffices) /\ KeepsSessions
<1> QED BY SystemIsServer, ConnectionsOwned, SessionsBacked, PoolLasts, SessionsKept, PTL
=============================================================================
