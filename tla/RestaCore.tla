----------------------------- MODULE RestaCore ------------------------------
(***************************************************************************)
(* The whole system: GTK client processes driving the server of module     *)
(* Server.  A client is single-threaded: a signal handler of client.c runs *)
(* as a script of sends and blocking recvs on the main socket and, for     *)
(* orders, on a second one opened for a single request.  Each step of a    *)
(* script is one of the client actions of Server, so the system is the     *)
(* server with a restricted environment.                                   *)
(***************************************************************************)
EXTENDS Server

CONSTANTS
  Clients,      \* client processes (a client that ended may be started again)
  HostAt,       \* the machine each client runs on
  Admins,       \* the users whose role is "admin"
  UserMsgs,     \* the requests users fill in: the handlers they may use
  Pages,        \* bound: the pages users open
  MayQuit,      \* may a client end, at any point of a handler?
  NoConn, Nobody

(* A request without fields. *)
Get(k) == [kind |-> k, id |-> 1, val |-> CHOOSE t \in Texts : TRUE, wf |-> TRUE]

ASSUME ClientAssumption ==
  /\ HostAt \in [Clients -> Hosts]
  /\ Admins \subseteq Texts /\ Nobody \notin Texts
  /\ Msgs = UserMsgs \union {Get(k) : k \in Fetches}
  /\ \A m \in UserMsgs : m.kind = "LOGIN" => m.val \in Texts
  /\ Pages \subseteq Tables /\ MayQuit \in BOOLEAN
  /\ NoConn \notin Conns

VARIABLES
  main, second,  \* the global sockets sock and sock2 of each client
  script,        \* what is left of the running signal handler
  page,          \* the page the client shows
  user,          \* current_user
  list,          \* the rows in the list store of the page
  boxes          \* customer_ids and product_ids of the order popup

clientVars == <<main, second, script, page, user, list, boxes>>
allVars == <<vars, clientVars>>

-----------------------------------------------------------------------------
Listings == {"GET_PRODUCTS", "GET_CUSTOMERS", "GET_ORDERS", "GET_USERS"}

(* The request that refreshes the page of a table. *)
Listing(t) == CHOOSE k \in Listings : TableOf(k) = t

(* Mutant: the place in a box, counted from 0, taken for the id. *)
IdsFromZero(rows) == {i - 1 : i \in {j \in Ids : rows[j] # NoRow}}

IdsIn(rows) == {i \in Ids : rows[i] # NoRow}

(* The steps of a script: on is the variable that holds the socket. *)
Step(op, on, m) == [op |-> op, on |-> on, msg |-> m]

Opens == Step("open", "second", Get("GET_ORDERS"))
Closes(on) == Step("close", on, Get("GET_ORDERS"))

Ask(on, m) == <<Step("send", on, m), Step("recv", on, m)>>

(* Mutant: the handler does not wait for the refreshed table. *)
ChangeUnread(m) ==
  <<Step("send", "main", m), Step("send", "main", Get(Listing(TableOf(m.kind))))>>

(* add_x, update_x or delete_x, then get_x: the table is refreshed. *)
Change(m) == <<Step("send", "main", m)>> \o Ask("main", Get(Listing(TableOf(m.kind))))

(* on_add_order_btn_clicked fills the two boxes of the popup. *)
FillBoxes ==
  Ask("main", Get("GET_CUSTOMERS_COMBOBOX"))
    \o <<Opens>> \o Ask("second", Get("GET_PRODUCTS_COMBOBOX")) \o <<Closes("second")>>

(* Mutant: the second socket is left open. *)
SaveOrderLeaks(m) ==
  <<Step("send", "main", m), Opens>> \o Ask("second", Get("GET_ORDERS"))

(* on_save_order_btn_clicked refreshes over a connection of its own. *)
SaveOrder(m) ==
  <<Step("send", "main", m), Opens>> \o Ask("second", Get("GET_ORDERS")) \o <<Closes("second")>>

SocketOf(p, on) == IF on = "main" THEN main[p] ELSE second[p]

-----------------------------------------------------------------------------
Begins(p, s) == script[p] = <<>> /\ main[p] # NoConn /\ script' = [script EXCEPT ![p] = s]

CInit ==
  /\ Init
  /\ main = [p \in Clients |-> NoConn]
  /\ second = [p \in Clients |-> NoConn]
  /\ script = [p \in Clients |-> <<>>]
  /\ page = [p \in Clients |-> "auth"]
  /\ user = [p \in Clients |-> Nobody]
  /\ list = [p \in Clients |-> NoRows]
  /\ boxes = [p \in Clients |-> [customer |-> {}, product |-> {}]]

(* A client process starts: connect_to_server, then the welcome page. *)
Start(p) ==
  /\ main[p] = NoConn /\ script[p] = <<>>
  /\ \E c \in Conns : /\ HostOf[c] = HostAt[p]
                      /\ Connect(c)
                      /\ main' = [main EXCEPT ![p] = c]
  /\ page' = [page EXCEPT ![p] = "auth"]
  /\ user' = [user EXCEPT ![p] = Nobody]
  /\ list' = [list EXCEPT ![p] = NoRows]
  /\ boxes' = [boxes EXCEPT ![p] = [customer |-> {}, product |-> {}]]
  /\ UNCHANGED <<second, script>>

(* on_register_button_clicked, on_login_button_clicked. *)
Authenticate(p, m) ==
  /\ page[p] = "auth" /\ m \in UserMsgs /\ m.kind \in Auth
  /\ Begins(p, Ask("main", m))
  /\ UNCHANGED <<vars, main, second, page, user, list, boxes>>

(* on_products_btn_clicked and its like; users_btn is for admins. *)
OpenPage(p, t) ==
  /\ page[p] = "Main" /\ t \in Pages
  /\ t = "User" => user[p] \in Admins
  /\ Begins(p, Ask("main", Get(Listing(t))))
  /\ page' = [page EXCEPT ![p] = t]
  /\ UNCHANGED <<vars, main, second, user, list, boxes>>

(* The back buttons. *)
Back(p) ==
  /\ page[p] \in Tables /\ Begins(p, <<>>)
  /\ page' = [page EXCEPT ![p] = "Main"]
  /\ UNCHANGED <<vars, main, second, user, list, boxes>>

(* The save, update and delete buttons; a row is chosen in the list. *)
Edit(p, m) ==
  /\ m \in UserMsgs /\ m.kind \in (Inserts \union Updates \union Deletes) \ {"REGISTER", "CREATE_ORDER"}
  /\ page[p] = TableOf(m.kind)
  /\ m.kind \in Inserts \/ m.id \in IdsIn(list[p])
  /\ Begins(p, Change(m))
  /\ UNCHANGED <<vars, main, second, page, user, list, boxes>>

AddOrder(p) ==
  /\ page[p] = "Order" /\ \E m \in UserMsgs : m.kind = "CREATE_ORDER"
  /\ Begins(p, FillBoxes)
  /\ UNCHANGED <<vars, main, second, page, user, list, boxes>>

(* A customer and a product are chosen in the boxes. *)
Order(p, m) ==
  /\ m \in UserMsgs /\ m.kind = "CREATE_ORDER" /\ page[p] = "Order"
  /\ m.val.customer \in boxes[p].customer /\ m.val.product \in boxes[p].product
  /\ Begins(p, SaveOrder(m))
  /\ UNCHANGED <<vars, main, second, page, user, list, boxes>>

-----------------------------------------------------------------------------
(* The steps of a running handler. *)

Is(p, op) == script[p] # <<>> /\ Head(script[p]).op = op
Advance(p) == script' = [script EXCEPT ![p] = Tail(@)]

(* A send to a connection the server has closed is lost. *)
DoSend(p) ==
  /\ Is(p, "send")
  /\ LET c == SocketOf(p, Head(script[p]).on) IN
     IF pc[c] = "closed" THEN UNCHANGED vars ELSE Send(c, Head(script[p]).msg)
  /\ Advance(p)
  /\ UNCHANGED <<main, second, page, user, list, boxes>>

DoOpen(p) ==
  /\ Is(p, "open")
  /\ \E c \in Conns : /\ HostOf[c] = HostAt[p]
                      /\ Connect(c)
                      /\ second' = [second EXCEPT ![p] = c]
  /\ Advance(p)
  /\ UNCHANGED <<main, page, user, list, boxes>>

DoClose(p) ==
  /\ Is(p, "close")
  /\ Close(SocketOf(p, Head(script[p]).on))
  /\ IF Head(script[p]).on = "main"
     THEN main' = [main EXCEPT ![p] = NoConn] /\ UNCHANGED second
     ELSE second' = [second EXCEPT ![p] = NoConn] /\ UNCHANGED main
  /\ Advance(p)
  /\ UNCHANGED <<page, user, list, boxes>>

(***************************************************************************)
(* What the caller does with the text a recv returned, whose beginning is  *)
(* compared with "true": login_user and the get_x functions.  The text of  *)
(* a failure, or of another reply, lists no rows.                          *)
(***************************************************************************)
Use(p, m, says, rows) ==
  LET ok == says = "true"
      shown == IF ok THEN rows ELSE NoRows
  IN
  /\ user' = IF m.kind = "LOGIN" /\ ok THEN [user EXCEPT ![p] = m.val] ELSE user
  /\ page' = IF m.kind = "LOGIN" /\ ok THEN [page EXCEPT ![p] = "Main"] ELSE page
  /\ list' = IF m.kind \in Listings THEN [list EXCEPT ![p] = shown] ELSE list
  /\ boxes' = CASE m.kind = "GET_CUSTOMERS_COMBOBOX" ->
                     [boxes EXCEPT ![p].customer = IdsIn(shown)]
                [] m.kind = "GET_PRODUCTS_COMBOBOX" ->
                     [boxes EXCEPT ![p].product = IdsIn(shown)]
                [] OTHER -> boxes

(* recv returns n replies that have arrived; the first one decides. *)
DoRecv(p, n) ==
  /\ Is(p, "recv")
  /\ LET step == Head(script[p])
         c == SocketOf(p, step.on)
     IN /\ Read(c, n)
        /\ Use(p, step.msg, Head(outbox[c]).says, Head(outbox[c]).rows)
  /\ Advance(p)
  /\ UNCHANGED <<main, second>>

(* Mutant: a recv that fails is tried again. *)
RecvRetries(p) ==
  /\ Is(p, "recv")
  /\ LET c == SocketOf(p, Head(script[p]).on) IN pc[c] = "closed" /\ outbox[c] = <<>>
  /\ UNCHANGED allVars

(* recv fails: the handler logs it and goes on with the text "2". *)
RecvFails(p) ==
  /\ Is(p, "recv")
  /\ LET step == Head(script[p])
         c == SocketOf(p, step.on)
     IN /\ pc[c] = "closed" /\ outbox[c] = <<>>
        /\ Use(p, step.msg, "false", NoRows)
  /\ Advance(p)
  /\ UNCHANGED <<vars, main, second>>

(***************************************************************************)
(* The process ends and its sockets are closed: the user quits, it is      *)
(* killed in the middle of a handler, or SIGPIPE ends it when it sends on  *)
(* a connection the server has closed.                                     *)
(***************************************************************************)
Quit(p) ==
  /\ main[p] # NoConn /\ ~Is(p, "close")
  /\ MayQuit \/ (Is(p, "send") /\ pc[SocketOf(p, Head(script[p]).on)] = "closed")
  /\ script' = [script EXCEPT ![p] =
                  IF second[p] = NoConn THEN <<Closes("main")>>
                  ELSE <<Closes("second"), Closes("main")>>]
  /\ UNCHANGED <<vars, main, second, page, user, list, boxes>>

-----------------------------------------------------------------------------
UserStep(p) ==
  \/ Start(p) \/ Back(p) \/ AddOrder(p)
  \/ \E t \in Tables : OpenPage(p, t)
  \/ \E m \in UserMsgs : Authenticate(p, m) \/ Edit(p, m) \/ Order(p, m)
  \/ Quit(p)

ScriptStep(p) ==
  \/ DoSend(p) \/ DoOpen(p) \/ DoClose(p) \/ RecvFails(p)
  \/ \E c \in Conns : \E n \in 1..Len(outbox[c]) : DoRecv(p, n)

CNext ==
  \/ \E p \in Clients : UserStep(p) \/ ScriptStep(p)
  \/ ServerStep /\ UNCHANGED clientVars

CSpec == CInit /\ [][CNext]_allVars

(* The GTK main loop never stops running a handler half-way. *)
CFairSpec ==
  /\ CSpec
  /\ \A c \in Conns : WF_allVars(AcceptLoop(c) /\ UNCHANGED clientVars)
                      /\ WF_allVars(ThreadStep(c) /\ UNCHANGED clientVars)
  /\ \A p \in Clients : WF_allVars(ScriptStep(p))

-----------------------------------------------------------------------------
(* What the system promises. *)

(* The client variables stay within their types. *)
CTypeOK ==
  /\ main \in [Clients -> Conns \union {NoConn}]
  /\ second \in [Clients -> Conns \union {NoConn}]
  /\ script \in [Clients -> Seq([op : {"send", "recv", "open", "close"},
                                  on : {"main", "second"}, msg : Msgs])]
  /\ page \in [Clients -> Tables \union {"auth", "Main"}]
  /\ user \in [Clients -> Texts \union {Nobody}]
  /\ list \in [Clients -> [Ids -> Row]]
  /\ boxes \in [Clients -> [customer : SUBSET Ids, product : SUBSET Ids]]

Idle(p) == main[p] # NoConn /\ script[p] = <<>>

(* The client's writes that the server has not executed yet. *)
Writes == Kinds \ (Fetches \union {"LOGIN"})
Unexecuted(c) ==
  \/ \E i \in DOMAIN inbox[c] : inbox[c][i].kind \in Writes
  \/ pc[c] \in {"dispatch", "query"} /\ (todo[c] \intersect Writes) # {}

(***************************************************************************)
(* "Refreshing table content": when the handler of a save, update or       *)
(* delete button has refreshed its list, the server has executed the       *)
(* client's write, so the list was read after it.                          *)
(***************************************************************************)
RefreshSeesWrite ==
  \A p \in Clients : Idle(p) /\ pc[main[p]] # "closed" => ~Unexecuted(main[p])

(***************************************************************************)
(* A request with fields is the first one in the buffer that receives it:  *)
(* its handler, whose sscanf starts at the beginning of the buffer, finds  *)
(* the fields, and no other request of its kind is behind it.  The server  *)
(* drops what comes second (handle_command), nothing separates requests    *)
(* (send_to_server), and a write is not answered; still the next one is    *)
(* never sent while one is in flight, as the refresh in between is waited  *)
(* for.                                                                    *)
(***************************************************************************)
WritesFirst ==
  \A c \in Conns : \A i \in DOMAIN buf[c] : buf[c][i].kind \notin Fetches => i = 1

(***************************************************************************)
(* The reply a get_x, login_user or register_user reads is the reply to    *)
(* the request it sent, and the only one: nothing is left on the socket    *)
(* when a handler returns.                                                 *)
(***************************************************************************)
RepliesMatch ==
  \A p \in Clients :
    /\ Is(p, "recv") =>
         LET c == SocketOf(p, Head(script[p]).on) IN
         \A i \in DOMAIN outbox[c] : outbox[c][i].to = Head(script[p]).msg.kind
    /\ Idle(p) => outbox[main[p]] = <<>>

(***************************************************************************)
(* A handler that waits in recv does not wait for nothing: its connection  *)
(* is closed, a reply is there, its request has not been received yet, or  *)
(* the branch of its request is still to run or about to send the reply.   *)
(***************************************************************************)
ReplyComing ==
  \A p \in Clients : Is(p, "recv") =>
    LET c == SocketOf(p, Head(script[p]).on)
        k == Head(script[p]).msg.kind
    IN \/ pc[c] = "closed" \/ outbox[c] # <<>>
       \/ \E i \in DOMAIN inbox[c] : inbox[c][i].kind = k
       \/ /\ k \in todo[c]
          /\ (pc[c] = "answer" /\ cur[c] = k) => Answers(k, res[c].branch)

(***************************************************************************)
(* A client that is logged in and whose connection is alive has its line   *)
(* in sessions.txt once handle_login has returned.                         *)
(***************************************************************************)
LoggedInListed ==
  \A p \in Clients :
    user[p] # Nobody /\ main[p] # NoConn /\ pc[main[p]] = "recv" =>
      [host |-> HostAt[p], user |-> user[p]] \in sessions

(***************************************************************************)
(* The sockets a client has open are those its globals sock and sock2      *)
(* hold, each its own, and sock2 is closed when a handler returns: no path *)
(* through an order handler loses a descriptor, and none closes a socket   *)
(* another handler still uses (connect_to_server, disconnect_from_server). *)
(***************************************************************************)
SocketsOwned ==
  /\ \A p \in Clients, on \in {"main", "second"} :
       SocketOf(p, on) # NoConn => sock[SocketOf(p, on)] = "open"
  /\ \A c \in Conns : sock[c] = "open" =>
       \E p \in Clients, on \in {"main", "second"} : SocketOf(p, on) = c
  /\ \A p, q \in Clients, on, to \in {"main", "second"} :
       SocketOf(p, on) = SocketOf(q, to) /\ SocketOf(p, on) # NoConn => p = q /\ on = to
  /\ \A p \in Clients : Idle(p) => second[p] = NoConn

(* A signal handler of the client returns: the window does not hang. *)
HandlerReturns == \A p \in Clients : script[p] # <<>> ~> script[p] = <<>>
=============================================================================
