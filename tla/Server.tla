------------------------------- MODULE Server -------------------------------
(***************************************************************************)
(* The server process: the accept loop of server.c, one detached thread    *)
(* per connection running handle_command, the PostgreSQL connection every  *)
(* handler opens for itself, the tables the handlers read and write, and   *)
(* the sessions.txt file shared by all threads.                            *)
(*                                                                         *)
(* The client side is the environment: it connects, sends requests, reads  *)
(* replies and closes.  Module RestaCore restricts it to what the GTK      *)
(* program does; here it may do anything.                                  *)
(***************************************************************************)
EXTENDS Protocol, FiniteSets

CONSTANTS
  Conns,          \* connection slots (a TCP connection and its thread)
  Hosts,          \* IP addresses of client machines
  HostOf,         \* the host each connection comes from
  StrayHost,      \* an address read from an uninitialised sockaddr_in
  Texts,          \* text payloads: a user's credentials, a product, a customer
  Refs,           \* order payloads: the customer, product and user ids
  Garbled,        \* a text that ran on into the next request
  NoRow, Gone,    \* an id never used yet, an id whose row was deleted
  Msgs,           \* the requests clients may send
  Handles,        \* connections PostgreSQL grants (max_connections)
  NoHandle, NoCmd,
  MaxId,          \* bound: rows ever inserted in a table
  MaxBatch,       \* bound: requests one recv may return
  MaxQueue,       \* bound: requests in flight on a connection
  QueryFaults,    \* commands whose statement may fail in the database
  ConnectMayFail, \* may PQconnectdb fail although a connection is left?
  AcceptMayFail,  \* may malloc or pthread_create fail in the accept loop?
  FileFaults,     \* the session operations that may not do their work
  InitDb          \* the tables when the server is first started

Ids == 1..MaxId

Row == Texts \union Refs \union {Garbled, NoRow, Gone}

Message == [kind : Kinds, id : Ids, val : Texts \union Refs, wf : BOOLEAN]

ASSUME ConnAssumption ==
  /\ HostOf \in [Conns -> Hosts]
  /\ IsFiniteSet(Conns) /\ IsFiniteSet(Handles) /\ NoHandle \notin Handles
  /\ NoCmd \notin Kinds

ASSUME DataAssumption ==
  /\ MaxId \in Nat /\ MaxBatch \in Nat \ {0} /\ MaxQueue \in Nat
  /\ Refs \subseteq [customer : Ids, product : Ids, user : Ids]
  /\ Texts \intersect {Garbled, NoRow, Gone} = {}
  /\ Refs \intersect {Garbled, NoRow, Gone} = {}
  /\ Msgs \subseteq Message
  /\ InitDb \in [Tables -> [Ids -> Row]]

ASSUME FaultAssumption ==
  /\ QueryFaults \subseteq Kinds
  /\ ConnectMayFail \in BOOLEAN /\ AcceptMayFail \in BOOLEAN
  /\ FileFaults \subseteq {"add", "remove"}

VARIABLES
  up,        \* is the server process running?
  sock,      \* the client's end: "free", "open", "shut" (closed), "reset" (RST)
  inbox,     \* requests sent and not received yet
  outbox,    \* replies sent and not read yet
  pc,        \* where the connection's thread is
  buf,       \* the requests the last recv returned
  todo,      \* the branches of the strstr chain still to run on buf
  cur,       \* the branch that is running
  held,      \* its PostgreSQL connection
  res,       \* what its statement returned
  pg,        \* PostgreSQL's connections: "free", "busy", or the handler that lost it
  db,        \* the tables
  sessions,  \* the lines of sessions.txt, without repetitions
  orphans    \* history: hosts whose line no disconnect is sure to remove

thread == <<pc, buf, todo, cur, held, res>>
vars == <<up, sock, inbox, outbox, thread, pg, db, sessions, orphans>>

-----------------------------------------------------------------------------
(* The address space of sessions.txt. *)
Addrs == Hosts \union {StrayHost}
Lines == [host : Addrs, user : Texts]

(* The result of a statement, and the rows it returned. *)
Rows == [Ids -> Row]
NoRows == [i \in Ids |-> NoRow]
Branch == {"none", "malformed", "failed", "done", "match", "nomatch"}
Result == [branch : Branch, rows : Rows]
Outcome(b) == [branch |-> b, rows |-> NoRows]

(* A reply: the handler it comes from, how its text begins, the rows after. *)
Says == {"true", "false", "register_success", "register_failed"}
Reply == [to : Kinds, says : Says, rows : Rows]

Absent == {NoRow, Gone}
Served == {"recv", "dispatch", "query", "answer", "session"}
PCs == Served \union {"none", "backlog", "closed"}
Threads == {c \in Conns : pc[c] \in Served}
FreeHandles == {x \in Handles : pg[x] = "free"}

-----------------------------------------------------------------------------
(* What a statement finds and leaves in the tables. *)

(* SELECT: the rows that exist. *)
Shown(t) == [i \in Ids |-> IF db[t][i] \in Absent THEN NoRow ELSE db[t][i]]

(* The JOIN of fetch_orders drops an order one of whose rows is missing. *)
Joined ==
  [i \in Ids |->
     LET o == db["Order"][i] IN
     IF o \in Refs /\ db["Customer"][o.customer] \notin Absent
                   /\ db["Product"][o.product] \notin Absent
                   /\ db["User"][o.user] \notin Absent
     THEN o ELSE NoRow]

Selected(h) == IF h = "GET_ORDERS" THEN Joined ELSE Shown(TableOf(h))

(* The value a handler reads from its buffer. *)
Field(h, batch) ==
  IF h \in TextLast /\ Len(batch) > 1 THEN Garbled ELSE Head(batch).val

(* The ids an INSERT may be given: the next one of the serial column. *)
NextIds(t) ==
  {i \in Ids : db[t][i] = NoRow /\ \A j \in 1..(i - 1) : db[t][j] # NoRow}

Stored(h, i, v) == [db EXCEPT ![TableOf(h)][i] = v]

-----------------------------------------------------------------------------
Init ==
  /\ up = TRUE
  /\ sock = [c \in Conns |-> "free"]
  /\ inbox = [c \in Conns |-> <<>>]
  /\ outbox = [c \in Conns |-> <<>>]
  /\ pc = [c \in Conns |-> "none"]
  /\ buf = [c \in Conns |-> <<>>]
  /\ todo = [c \in Conns |-> {}]
  /\ cur = [c \in Conns |-> NoCmd]
  /\ held = [c \in Conns |-> NoHandle]
  /\ res = [c \in Conns |-> Outcome("none")]
  /\ pg = [x \in Handles |-> "free"]
  /\ db = InitDb
  /\ sessions = {}
  /\ orphans = {}

-----------------------------------------------------------------------------
(* The clients. *)

(* socket() and connect(): the kernel completes the handshake. *)
Connect(c) ==
  /\ up /\ sock[c] = "free"
  /\ sock' = [sock EXCEPT ![c] = "open"]
  /\ pc' = [pc EXCEPT ![c] = "backlog"]
  /\ UNCHANGED <<up, inbox, outbox, buf, todo, cur, held, res, pg, db, sessions, orphans>>

Send(c, m) ==
  /\ sock[c] = "open" /\ pc[c] # "closed"
  /\ Len(inbox[c]) + Len(outbox[c]) < MaxQueue
  /\ inbox' = [inbox EXCEPT ![c] = Append(@, m)]
  /\ UNCHANGED <<up, sock, outbox, thread, pg, db, sessions, orphans>>

(* One recv of the client returns the text of n whole replies. *)
Read(c, n) ==
  /\ sock[c] = "open" /\ n \in 1..Len(outbox[c])
  /\ outbox' = [outbox EXCEPT ![c] = SubSeq(@, n + 1, Len(@))]
  /\ UNCHANGED <<up, sock, inbox, thread, pg, db, sessions, orphans>>

(***************************************************************************)
(* close(), or the client process ends.  Replies left unread make the      *)
(* kernel answer with a reset.  A connection the server no longer has is   *)
(* simply gone.                                                            *)
(***************************************************************************)
Close(c) ==
  /\ sock[c] = "open"
  /\ IF pc[c] = "closed"
     THEN sock' = [sock EXCEPT ![c] = "free"] /\ pc' = [pc EXCEPT ![c] = "none"]
     ELSE /\ sock' = [sock EXCEPT ![c] = IF outbox[c] = <<>> THEN "shut" ELSE "reset"]
          /\ UNCHANGED pc
  /\ outbox' = [outbox EXCEPT ![c] = <<>>]
  /\ UNCHANGED <<up, inbox, buf, todo, cur, held, res, pg, db, sessions, orphans>>

-----------------------------------------------------------------------------
(* The end of a connection, of a handler and of the process. *)

(* Mutant: the thread ends without closing its socket. *)
DroppedNotClosed(c) ==
  /\ pc' = [pc EXCEPT ![c] = IF sock[c] = "open" THEN "closed" ELSE "none"]
  /\ inbox' = [inbox EXCEPT ![c] = <<>>]
  /\ UNCHANGED sock

(* The server's end of connection c is closed and its thread is gone. *)
Dropped(c) ==
  /\ pc' = [pc EXCEPT ![c] = IF sock[c] = "open" THEN "closed" ELSE "none"]
  /\ sock' = [sock EXCEPT ![c] = IF @ = "open" THEN "open" ELSE "free"]
  /\ inbox' = [inbox EXCEPT ![c] = <<>>]

(* Thread c has learned that its client is gone and ends the connection. *)
Ending(c) == pc[c] = "recv" /\ inbox[c] = <<>> /\ sock[c] \in {"shut", "reset"}

(***************************************************************************)
(* exit(1) or a fatal signal: every thread stops where it is.  One that    *)
(* has removed sessions.txt and not renamed its copy yet loses every line. *)
(***************************************************************************)
Exit ==
  /\ up' = FALSE
  /\ pc' = [c \in Conns |-> IF sock[c] = "open" THEN "closed" ELSE "none"]
  /\ sock' = [c \in Conns |-> IF sock[c] = "open" THEN "open" ELSE "free"]
  /\ inbox' = [c \in Conns |-> <<>>]
  /\ buf' = [c \in Conns |-> <<>>]
  /\ todo' = [c \in Conns |-> {}]
  /\ cur' = [c \in Conns |-> NoCmd]
  /\ held' = [c \in Conns |-> NoHandle]
  /\ res' = [c \in Conns |-> Outcome("none")]
  /\ pg' = [x \in Handles |-> "free"]
  /\ \/ sessions' = sessions
     \/ (\E c \in Conns : Ending(c)) /\ sessions' = {}
  /\ orphans' = orphans \union {s.host : s \in sessions}
  /\ UNCHANGED <<outbox, db>>

(* Mutant: a chain of else ifs, which runs one branch per buffer. *)
ReturnAtOnce(c) ==
  /\ todo' = [todo EXCEPT ![c] = {}]
  /\ pc' = [pc EXCEPT ![c] = "recv"]
  /\ buf' = [buf EXCEPT ![c] = <<>>]
  /\ cur' = [cur EXCEPT ![c] = NoCmd]
  /\ res' = [res EXCEPT ![c] = Outcome("none")]

(* The running branch returns; the chain goes on, or back to recv. *)
Return(c) ==
  LET rest == todo[c] \ {cur[c]} IN
  /\ todo' = [todo EXCEPT ![c] = rest]
  /\ pc' = [pc EXCEPT ![c] = IF rest = {} THEN "recv" ELSE "dispatch"]
  /\ buf' = [buf EXCEPT ![c] = IF rest = {} THEN <<>> ELSE @]
  /\ cur' = [cur EXCEPT ![c] = NoCmd]
  /\ res' = [res EXCEPT ![c] = Outcome("none")]

(* Returning forgets the handle; only PQfinish gives it back. *)
Release(c) ==
  /\ held' = [held EXCEPT ![c] = NoHandle]
  /\ pg' = [x \in Handles |->
              IF x # held[c] THEN pg[x]
              ELSE IF Finishes(cur[c], res[c].branch) THEN "free" ELSE cur[c]]

(***************************************************************************)
(* send(): what reaches a client that has closed draws a reset, sooner or  *)
(* later, and what is sent on a reset connection is lost (see Sigpipe).    *)
(***************************************************************************)
Deliver(c, r) ==
  /\ outbox' = [outbox EXCEPT ![c] = IF sock[c] = "open" THEN Append(@, r) ELSE @]
  /\ sock' \in {sock} \union
               (IF sock[c] = "shut" THEN {[sock EXCEPT ![c] = "reset"]} ELSE {})

-----------------------------------------------------------------------------
(* The accept loop. *)

Accept(c) ==
  /\ up /\ pc[c] = "backlog"
  /\ pc' = [pc EXCEPT ![c] = "recv"]
  /\ UNCHANGED <<up, sock, inbox, outbox, buf, todo, cur, held, res, pg, db, sessions, orphans>>

(* malloc or pthread_create fails: the socket is closed. *)
Refuse(c) ==
  /\ AcceptMayFail /\ up /\ pc[c] = "backlog"
  /\ Dropped(c)
  /\ UNCHANGED <<up, outbox, buf, todo, cur, held, res, pg, db, sessions, orphans>>

-----------------------------------------------------------------------------
(* A connection's thread. *)

(* recv returns the bytes that have arrived: one request or several. *)
Receive(c, n) ==
  /\ pc[c] = "recv" /\ n \in 1..MaxBatch /\ n <= Len(inbox[c])
  /\ buf' = [buf EXCEPT ![c] = SubSeq(inbox[c], 1, n)]
  /\ inbox' = [inbox EXCEPT ![c] = SubSeq(@, n + 1, Len(@))]
  /\ todo' = [todo EXCEPT ![c] = Branches(SubSeq(inbox[c], 1, n))]
  /\ pc' = [pc EXCEPT ![c] = "dispatch"]
  /\ UNCHANGED <<up, sock, outbox, cur, held, res, pg, db, sessions, orphans>>

(* Mutant: remove_session only when recv returns 0, not when it fails. *)
DisconnectForgets(c) ==
  /\ Ending(c)
  /\ Dropped(c)
  /\ sessions' = IF sock[c] = "shut" THEN {s \in sessions : s.host # HostOf[c]} ELSE sessions
  /\ UNCHANGED <<up, outbox, buf, todo, cur, held, res, pg, db, orphans>>

(* Mutant: the loop ends when recv returns 0 and goes on when it fails. *)
DisconnectRetries(c) ==
  /\ Ending(c)
  /\ IF sock[c] = "reset" THEN UNCHANGED vars
     ELSE /\ Dropped(c)
          /\ sessions' = {s \in sessions : s.host # HostOf[c]}
          /\ UNCHANGED <<up, outbox, buf, todo, cur, held, res, pg, db, orphans>>

(* Mutant: remove_session copies the lines it should drop, and no other. *)
DisconnectKeepsOwn(c) ==
  /\ Ending(c)
  /\ Dropped(c)
  /\ sessions' = {s \in sessions : s.host = HostOf[c]}
  /\ UNCHANGED <<up, outbox, buf, todo, cur, held, res, pg, db, orphans>>

(* Mutant: remove_session leaves an empty file. *)
DisconnectClears(c) ==
  /\ Ending(c)
  /\ Dropped(c)
  /\ sessions' = {}
  /\ UNCHANGED <<up, outbox, buf, todo, cur, held, res, pg, db, orphans>>

(***************************************************************************)
(* recv returns 0 or -1: remove every line of the host, then close.  Lines *)
(* are kept when the files cannot be opened, and when the second strtok of *)
(* a line returns NULL because load_env, called by any thread's logger,    *)
(* has overwritten the place strtok remembers.                             *)
(***************************************************************************)
Disconnect(c) ==
  /\ Ending(c)
  /\ Dropped(c)
  /\ LET own == {s \in sessions : s.host = HostOf[c]} IN
     \/ /\ sessions' = sessions \ own
        /\ orphans' = orphans \ {HostOf[c]}
     \/ /\ "remove" \in FileFaults
        /\ \E removed \in SUBSET own : sessions' = sessions \ removed
        /\ orphans' = orphans \union {HostOf[c]}
  /\ UNCHANGED <<up, outbox, buf, todo, cur, held, res, pg, db>>

(* The next branch of the chain whose keyword occurs in the buffer. *)
IsNext(c, h) ==
  pc[c] = "dispatch" /\ h \in todo[c] /\ \A g \in todo[c] : Position[h] <= Position[g]

(* sscanf does not find the handler's fields at the start of the buffer. *)
Misparse(c, h) ==
  /\ IsNext(c, h) /\ h \notin Fetches /\ ~Scans(h, buf[c])
  /\ pc' = [pc EXCEPT ![c] = "answer"]
  /\ cur' = [cur EXCEPT ![c] = h]
  /\ res' = [res EXCEPT ![c] = Outcome("malformed")]
  /\ UNCHANGED <<up, sock, inbox, outbox, buf, todo, held, pg, db, sessions, orphans>>

(* Mutant: connect_to_db returns a connection it keeps in a static variable. *)
OpenDbShared(c, h, x) ==
  /\ IsNext(c, h) /\ (h \in Fetches \/ Scans(h, buf[c]))
  /\ pg[x] \in {"free", "busy"}
  /\ pg' = [pg EXCEPT ![x] = "busy"]
  /\ held' = [held EXCEPT ![c] = x]
  /\ cur' = [cur EXCEPT ![c] = h]
  /\ pc' = [pc EXCEPT ![c] = "query"]
  /\ UNCHANGED <<up, sock, inbox, outbox, buf, todo, res, db, sessions, orphans>>

(* connect_to_db succeeds. *)
OpenDb(c, h, x) ==
  /\ IsNext(c, h) /\ (h \in Fetches \/ Scans(h, buf[c]))
  /\ x \in FreeHandles
  /\ pg' = [pg EXCEPT ![x] = "busy"]
  /\ held' = [held EXCEPT ![c] = x]
  /\ cur' = [cur EXCEPT ![c] = h]
  /\ pc' = [pc EXCEPT ![c] = "query"]
  /\ UNCHANGED <<up, sock, inbox, outbox, buf, todo, res, db, sessions, orphans>>

(* connect_to_db fails: disconnect_db ends the process. *)
OpenDbFails(c, h) ==
  /\ IsNext(c, h) /\ (h \in Fetches \/ Scans(h, buf[c]))
  /\ FreeHandles = {} \/ ConnectMayFail
  /\ Exit

(* The statement's outcome for thread c. *)
Executed(c, r) ==
  /\ res' = [res EXCEPT ![c] = r]
  /\ pc' = [pc EXCEPT ![c] = "answer"]
  /\ UNCHANGED <<up, sock, inbox, outbox, buf, todo, cur, held, pg, sessions, orphans>>

QueryFails(c) ==
  /\ pc[c] = "query"
  /\ \/ cur[c] \in QueryFaults
     \/ cur[c] \in Inserts /\ NextIds(TableOf(cur[c])) = {}  \* the bound MaxId
  /\ Executed(c, Outcome("failed"))
  /\ UNCHANGED db

Fetch(c) ==
  /\ pc[c] = "query" /\ cur[c] \in Fetches
  /\ Executed(c, [branch |-> "done", rows |-> Selected(cur[c])])
  /\ UNCHANGED db

CheckLogin(c) ==
  /\ pc[c] = "query" /\ cur[c] = "LOGIN"
  /\ IF \E i \in Ids : db["User"][i] = Field("LOGIN", buf[c])
                       /\ Field("LOGIN", buf[c]) \in Texts
     THEN Executed(c, Outcome("match")) ELSE Executed(c, Outcome("nomatch"))
  /\ UNCHANGED db

Insert(c, i) ==
  /\ pc[c] = "query" /\ cur[c] \in Inserts
  /\ i \in NextIds(TableOf(cur[c]))
  /\ db' = Stored(cur[c], i, Field(cur[c], buf[c]))
  /\ Executed(c, Outcome(BranchAfter(cur[c])))

(* UPDATE and DELETE of an id without a row succeed and change nothing. *)
Update(c) ==
  /\ pc[c] = "query" /\ cur[c] \in Updates
  /\ LET i == Head(buf[c]).id IN
     db' = IF db[TableOf(cur[c])][i] \in Absent THEN db
           ELSE Stored(cur[c], i, Field(cur[c], buf[c]))
  /\ Executed(c, Outcome("done"))

Delete(c) ==
  /\ pc[c] = "query" /\ cur[c] \in Deletes
  /\ LET i == Head(buf[c]).id IN
     db' = IF db[TableOf(cur[c])][i] \in Absent THEN db ELSE Stored(cur[c], i, Gone)
  /\ Executed(c, Outcome("done"))

(* Mutant: every handler acknowledges its statement. *)
AnswersAll(h, b) == h = "REGISTER" \/ b \in {"match", "nomatch", "done"}

(* Mutant: a login with the wrong password is only logged. *)
AnswersMatches(h, b) ==
  \/ h = "REGISTER"
  \/ h = "LOGIN" /\ b = "match"
  \/ h \in Fetches /\ b = "done"

Answers(h, b) ==
  \/ h = "REGISTER"
  \/ h = "LOGIN" /\ b \in {"match", "nomatch"}
  \/ h \in Fetches /\ b = "done"

(* Mutant: a failed registration is answered by its reason alone. *)
SaysReason(h, b) ==
  CASE h = "REGISTER" -> IF b = "done" THEN "register_success" ELSE "invalid_format"
    [] h # "REGISTER" /\ b = "nomatch" -> "false"
    [] OTHER -> "true"

(* How the text of the reply begins. *)
SaysOf(h, b) ==
  CASE h = "REGISTER" -> IF b = "done" THEN "register_success" ELSE "register_failed"
    [] h # "REGISTER" /\ b = "nomatch" -> "false"
    [] OTHER -> "true"

(* The handler sends its reply, if it has one, and returns. *)
Answer(c) ==
  /\ pc[c] = "answer" /\ res[c].branch # "match"
  /\ IF Answers(cur[c], res[c].branch)
     THEN Deliver(c, [to |-> cur[c], says |-> SaysOf(cur[c], res[c].branch),
                      rows |-> res[c].rows])
     ELSE UNCHANGED <<sock, outbox>>
  /\ Return(c) /\ Release(c)
  /\ UNCHANGED <<up, inbox, db, sessions, orphans>>

(* handle_login sends the user's record before it records the session. *)
AnswerLogin(c) ==
  /\ pc[c] = "answer" /\ res[c].branch = "match"
  /\ Deliver(c, [to |-> "LOGIN", says |-> "true", rows |-> NoRows])
  /\ pc' = [pc EXCEPT ![c] = "session"]
  /\ UNCHANGED <<up, inbox, buf, todo, cur, held, res, pg, db, sessions, orphans>>

(***************************************************************************)
(* add_session.  On a reset connection getpeername fails and the address   *)
(* written to the file is whatever the uninitialised sockaddr_in holds.    *)
(***************************************************************************)
AddSession(c, a) ==
  /\ pc[c] = "session" /\ a \in Addrs
  /\ a = HostOf[c] \/ sock[c] = "reset"
  /\ sessions' = sessions \union {[host |-> a, user |-> Head(buf[c]).val]}
  /\ orphans' = IF a = HostOf[c] THEN orphans ELSE orphans \union {a}
  /\ Return(c) /\ Release(c)
  /\ UNCHANGED <<up, sock, inbox, outbox, db>>

(* add_session cannot open its file: a second reply, "false". *)
AddSessionFails(c) ==
  /\ pc[c] = "session" /\ "add" \in FileFaults
  /\ Deliver(c, [to |-> "LOGIN", says |-> "false", rows |-> NoRows])
  /\ Return(c) /\ Release(c)
  /\ UNCHANGED <<up, inbox, db, sessions, orphans>>

(***************************************************************************)
(* send() on a reset connection.  The first one may fail with ECONNRESET,  *)
(* which the handlers do not look at: Deliver.  After an orderly close, or *)
(* on the second send, it raises SIGPIPE, which nobody handles.            *)
(***************************************************************************)
Sigpipe(c) ==
  /\ sock[c] = "reset"
  /\ \/ pc[c] = "answer" /\ Answers(cur[c], res[c].branch)
     \/ pc[c] = "session" /\ "add" \in FileFaults
  /\ Exit

(* The operator starts the server again; sessions.txt is as it was left. *)
Restart ==
  /\ ~up
  /\ up' = TRUE
  /\ UNCHANGED <<sock, inbox, outbox, thread, pg, db, sessions, orphans>>

-----------------------------------------------------------------------------
ClientStep(c) ==
  \/ Connect(c) \/ Close(c)
  \/ \E m \in Msgs : Send(c, m)
  \/ \E n \in 1..Len(outbox[c]) : Read(c, n)

RunQuery(c) ==
  \/ QueryFails(c) \/ Fetch(c) \/ CheckLogin(c) \/ Update(c) \/ Delete(c)
  \/ \E i \in Ids : Insert(c, i)

ThreadStep(c) ==
  \/ \E n \in 1..MaxBatch : Receive(c, n)
  \/ Disconnect(c)
  \/ \E h \in Kinds : Misparse(c, h) \/ OpenDbFails(c, h)
                      \/ \E x \in Handles : OpenDb(c, h, x)
  \/ RunQuery(c)
  \/ Answer(c) \/ AnswerLogin(c)
  \/ \E a \in Addrs : AddSession(c, a)
  \/ AddSessionFails(c) \/ Sigpipe(c)

AcceptLoop(c) == Accept(c) \/ Refuse(c)

ServerStep == Restart \/ \E c \in Conns : AcceptLoop(c) \/ ThreadStep(c)

Next == Restart \/ \E c \in Conns : ClientStep(c) \/ AcceptLoop(c) \/ ThreadStep(c)

Spec == Init /\ [][Next]_vars

(* The kernel schedules the accept loop and every thread. *)
FairSpec == Spec /\ \A c \in Conns : WF_vars(AcceptLoop(c)) /\ WF_vars(ThreadStep(c))

-----------------------------------------------------------------------------
(* What the server promises. *)

(* Every variable stays within its type. *)
TypeOK ==
  /\ up \in BOOLEAN
  /\ sock \in [Conns -> {"free", "open", "shut", "reset"}]
  /\ inbox \in [Conns -> Seq(Msgs)]
  /\ outbox \in [Conns -> Seq(Reply)]
  /\ pc \in [Conns -> PCs]
  /\ buf \in [Conns -> Seq(Msgs)]
  /\ todo \in [Conns -> SUBSET Kinds]
  /\ cur \in [Conns -> Kinds \union {NoCmd}]
  /\ held \in [Conns -> Handles \union {NoHandle}]
  /\ res \in [Conns -> Result]
  /\ pg \in [Handles -> {"free", "busy"} \union Kinds]
  /\ db \in [Tables -> [Ids -> Row]]
  /\ sessions \subseteq Lines
  /\ orphans \subseteq Addrs

(***************************************************************************)
(* How the parts of a connection's state go together: a slot is free when  *)
(* it has no thread, a thread past recv has a non-empty buffer, only the   *)
(* thread of a running handler holds a PostgreSQL connection, and a        *)
(* session is about to be added for a login whose credentials matched.     *)
(***************************************************************************)
Running == {"query", "answer", "session"}

ConnShape(c) ==
  /\ sock[c] = "free" <=> pc[c] = "none"
  /\ pc[c] = "closed" => sock[c] = "open"

ThreadShape(c) ==
  /\ pc[c] \in Running \union {"dispatch"} => buf[c] # <<>>
  /\ pc[c] \in Running <=> cur[c] # NoCmd
  /\ pc[c] \notin Running => held[c] = NoHandle
  /\ pc[c] = "session" => res[c].branch = "match"
  /\ res[c].branch = "match" => cur[c] = "LOGIN" /\ Head(buf[c]).val \in Texts

Shape == \A c \in Conns : ConnShape(c) /\ ThreadShape(c)

(***************************************************************************)
(* No two threads share a PostgreSQL connection, a running handler's       *)
(* connection has not been finished or lost, and every connection that is  *)
(* neither free nor leaked belongs to a handler that is running: a handler *)
(* finishes or leaks its own connection only (connect_to_db, PQfinish).    *)
(***************************************************************************)
HandleOwnership ==
  /\ \A c \in Conns : held[c] # NoHandle => pg[held[c]] = "busy"
  /\ \A c, d \in Conns : held[c] = held[d] /\ held[c] # NoHandle => c = d
  /\ \A x \in Handles : pg[x] = "busy" => \E c \in Conns : held[c] = x

(***************************************************************************)
(* A line of sessions.txt belongs to a host with a live thread, whose end  *)
(* will remove it, unless one of exactly three things happened: the        *)
(* process died with the line in the file, remove_session did not do its   *)
(* work (its files, or strtok's place in a line), or handle_login read the *)
(* address of a connection that had been reset (add_session,               *)
(* remove_session and their callers).                                      *)
(***************************************************************************)
SessionBacked ==
  \A s \in sessions : s.host \in orphans \/ \E c \in Threads : HostOf[c] = s.host

(***************************************************************************)
(* What happens to sessions.txt while threads add and remove lines, fail   *)
(* and die is what ActiveSessions promises: a connection's end takes away  *)
(* lines of its own machine only, and lines of several machines are lost   *)
(* only together, with the process (add_session, remove_session).          *)
(***************************************************************************)
Sessions == INSTANCE ActiveSessions
              WITH Users <- Texts, running <- up, lines <- sessions,
                   MayKeep <- "remove" \in FileFaults

KeepsSessions == Sessions!Spec

(***************************************************************************)
(* As long as PostgreSQL grants one connection per client, a thread about  *)
(* to run a handler finds one free, unless a create, update or delete      *)
(* handler has lost one: login, registration and the fetches reach         *)
(* PQfinish on every path, so however they fail and interleave they never  *)
(* exhaust the pool, which would end the server (connect_to_db).           *)
(***************************************************************************)
Leakers == Kinds \ (Auth \union Fetches)

PoolSuffices ==
  Cardinality(Conns) <= Cardinality(Handles) =>
    \/ \A c \in Conns : pc[c] = "dispatch" => FreeHandles # {}
    \/ \E x \in Handles : pg[x] \in Leakers

(* The server has no connection c any more. *)
Lost(c) == pc[c] \in {"none", "closed"}

(* The handler that serves c ends in this step. *)
Returning(c) == cur[c] # NoCmd /\ cur'[c] # cur[c]

(***************************************************************************)
(* Every branch of the chain whose keyword a received buffer contains is   *)
(* run once, those of a second request and of a request whose keyword      *)
(* contains another's included: until the connection is lost, a branch     *)
(* leaves todo when it returns and not otherwise, the chain does not stop  *)
(* half-way, and the thread does not go back to recv before it is done     *)
(* (handle_command's chain of ifs).  Two requests of one kind in a buffer  *)
(* are one branch.                                                         *)
(***************************************************************************)
BatchServed ==
  /\ [][\A c \in Conns : pc[c] # "recv" =>
          \/ Lost(c)'
          \/ /\ todo'[c] = IF Returning(c) THEN todo[c] \ {cur[c]} ELSE todo[c]
             /\ pc'[c] = "recv" => todo'[c] = {}]_vars
  /\ \A c \in Conns : todo[c] # {} ~> Lost(c) \/ (pc[c] = "recv" /\ todo[c] = {})

(***************************************************************************)
(* A connection whose client has gone, in an orderly way or by a reset, is *)
(* eventually reaped by its thread or by the accept loop, however many     *)
(* requests it left behind (handle_command's recv <= 0 branch).            *)
(***************************************************************************)
ClosedIsReaped ==
  \A c \in Conns : sock[c] \in {"shut", "reset"} ~> sock[c] = "free"
=============================================================================
