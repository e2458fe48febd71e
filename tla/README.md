# RestaCore in TLA+

RestaCore is a restaurant management system in C: a GTK client per workplace, a
multi-threaded TCP server, and a PostgreSQL database. This directory holds TLA+
models of the server, of its session file and configuration, of the client's
windows and of clients driving the server, TLC configurations that check them on
small instances, and TLAPS proofs of their main properties for every instance.

Paths below are relative to the repository (`src/server.c` and so on).

## The system

| Component | State it keeps | Operations |
|---|---|---|
| Accept loop (`server.c`) | the listening socket | accept, create a detached thread, close on failure |
| Connection thread (`handle_command`, `server_functions.c`) | socket, receive buffer, position in the keyword chain | recv, the chain of `strstr` tests, the end of a connection |
| Database handlers (`server_functions.c`) | a PostgreSQL connection per call, the tables | parse, connect, one statement, status check, reply, `PQfinish` or not |
| Active sessions (`utils.c`) | `sessions.txt`, a mutex | `add_session`, `remove_session`, two listings |
| Client network functions (`client_functions.c`) | sockets, one static reply buffer per request | connect, send, recv, close; a function per command |
| GTK client (`client.c`) | `sock`, `sock2`, `current_user`, the page, the list store, the order boxes | a signal handler per button, run one at a time |
| Configuration and logger (`dotenv.c`, `init_config`, `logger.c`) | the environment, a log file | load `.env` on every log line |

How they interact. A client sends a command as text, with no terminator and no
length, and for a fetch, a login or a registration waits in one blocking `recv`;
writes have no reply. A server thread treats whatever one `recv` returned as a
unit and runs every handler whose keyword occurs in it, in the order of the
source. Handlers share nothing but the database, PostgreSQL's connection limit,
`sessions.txt` and the process: `disconnect_db` ends it with `exit(1)`, SIGPIPE
kills it. A client that saves an order writes on `sock` and reads on a second
connection, so two server threads work for one handler.

What is hard to test, and what correct means:

- *connection threads*: every received command runs once and the thread returns
  to `recv`; a client that goes away is reaped; a reply goes with its request.
  Hard: coalesced requests, keywords that contain one another, resets.
- *handlers*: a PostgreSQL connection has one owner and, where the handler
  promises it, is finished on every path; the reported outcome is what happened.
  Hard: error paths, the connection limit, the end of the process in mid-handler.
- *sessions*: a line stands for a live login; rewriting the file loses no other
  machine's line and hides none from a reader that has it open. Hard: lines are keyed by address,
  connections of one host come and go independently, crashes leave lines behind or
  end a rewrite half-way, clients read without the mutex.
- *configuration*: a load of `.env` leaves what the file says. Hard: every log line
  of every thread loads it again, through one static pointer of `strtok`, and sets in
  one environment what it was given, at once or much later.
- *windows*: one page is in sight, the users page only an admin's. Hard: a hundred
  hides and shows by name, popups that outlive their page, windows closed by the
  window manager.
- *client*: no write is dropped, a refreshed list shows the write before it, a
  handler returns, no socket is lost. Hard: one `recv` of the server may return a
  write and the refresh behind it, nothing orders requests on two connections, the
  client's `recv` has no timeout.

`PROJECT.json` lists every component and hazard with the lines where it bites.

## Modules

`Protocol.tla` - the commands, the keyword chain and what differs from handler to
handler: table, fields, `PQfinish`, status check. No state.

`Server.tla` - the server process. Its environment, the clients, may connect,
send any request of `Msgs`, read and close at any time.

| Model | Code |
|---|---|
| `sock[c]` | the client's end: `open`, `shut` (closed), `reset` (RST seen by the server), `free` |
| `inbox[c]`, `outbox[c]` | bytes in flight, as whole requests and replies |
| `pc[c]` | the thread: `backlog` (not accepted), `recv`, `dispatch` (between two `if`s), `query` (connected to the database), `answer` (after the statement), `session` (after the login reply), `closed` (server's end gone) |
| `buf`, `todo`, `cur` | the receive buffer, the branches still to run, the running handler |
| `held`, `pg` | the handler's `PGconn`; PostgreSQL's view: free, busy, or leaked by a handler that returned |
| `res` | the branch the handler takes after its statement, and the rows |
| `db` | the tables: id to payload, an id never used, or a deleted row |
| `sessions` | the lines of `sessions.txt`, as a set |
| `orphans` | history: hosts whose line no disconnect is sure to remove |

Actions follow the thread: `Accept`/`Refuse`, `Receive`, `Misparse` or
`OpenDb`/`OpenDbFails`, one of `QueryFails`, `Fetch`, `CheckLogin`, `Insert`,
`Update`, `Delete`, then `Answer` or `AnswerLogin` and
`AddSession`/`AddSessionFails`, and `Disconnect`. `Exit` is what `exit(1)` and
SIGPIPE do to every thread at once; `Restart` starts the process again on the
database and the file as they were left. The steps are as coarse as the shared
state allows: other threads, clients and faults may act between receiving,
connecting, executing, replying and recording the session.

`RestaCore.tla` - the system: clients as the GTK program drives them. A signal
handler is a *script* of sends, blocking recvs, opens and closes on `main`
(`sock`) or `second` (`sock2`); `Ask`, `Change`, `FillBoxes` and `SaveOrder` are
the scripts of `client_functions.c` and `client.c`. Each script step is one of the
client actions of `Server`, so the composition is the server with a restricted
environment.

`ActiveSessions.tla` - abstract: the set of lines that `sessions.txt` promises its
readers, a machine and a user each. A login adds its line, the end of a connection
takes away lines of its own machine only, and only the end of the process may lose
everybody's. `Server` (sessions as one step each) and `SessionFile` (one step per
file operation) both implement it, by property `KeepsSessions` of each.

`Config.tla` - `logger`'s call of `init_config` in every thread.

| Model | Code |
|---|---|
| `pc[t]`, `at[t]` | where the thread is, and its line of the file |
| `place` | the thread whose second call of `strtok` will find the text of its first, if any |
| `taken[t]` | the local `value`, or the text `getenv` has returned |
| `env`, `bufferSize` | the environment; the global `MAX_BUFFER` |
| `slips[t]` | history: the lines t split over another thread's call of `strtok` |
| `clean[t]` | history: t loads `.env`, and nobody, t included, has set the token of such a line since |

Actions: `Log`; for each line `ReadKey` and `ReadValue`, the two calls of `strtok`, and
`SetValue`, the `setenv`; then `ReadSize`, the `getenv`, and `Configure`, the assignment.
Other threads may act between any two of them: a thread may sit on a wrong token
while others load the whole file, and set it afterwards.

`SessionFile.tla` extends it with `utils.c`: the threads also run `add_session` and
`remove_session`, and client processes run `list_sessions_client`.

| Model | Code |
|---|---|
| `mutex` | `sessions_mutex` |
| `present`, `file` | the name `sessions.txt` and the lines under it |
| `kept[t]` | what t has written to `temp.txt` |
| `open`, `view[r]`, `shown[r]` | a reader that has the file open, the lines of the file it opened, those it has read |
| `current` | the readers whose file still has the name; the others keep an unlinked file |
| `null` | the readers whose `fopen` has failed |
| `whole[r]` | history: the logins listed ever since r called `fopen` |

Actions: `AddLocks`, `AddAppends`/`AddFails`; `RemoveLocks`, `RemoveOpens`/`RemoveFails`,
`CopyLine`, `FindLine` and `DropLine` (the two calls of `strtok` on a line of the
machine), `Unlink`, `Rename`; `Unlock`; `Die` and `Boot`; `OpenList` or
`OpenListFails` (there is no file, as between `Unlink` and `Rename`), `ReadLine`,
`CloseList`. A second call of `strtok` may return anything once another thread has
called it, nothing included, and then `remove_session` keeps a line it should drop:
this is the fault `"remove"` of `Server`.

`Navigation.tla` - abstract: which page the user sees and where it leads.

`Windows.tla` - the windows of `client.c` by name: `shown`, `destroyed`, the role of
`current_user`, whether `users_btn` is visible, which notices have a working OK
button, whether an order's boxes are filled in. One action per kind of handler:
those that hide one page and show another, those that show or hide a popup,
`CloseWindow` for the window manager. It implements `Navigation`.

`MCServer.tla`, `MCRestaCore.tla`, `MCSessionFile.tla` - instances for TLC: the hosts
of connections, the initial tables, the message sets, `.env`. `Server_proofs.tla`,
`SessionFile_proofs.tla`, `Windows_proofs.tla`, `RestaCore_proofs.tla`,
`Replies_proofs.tla`, `Pages_proofs.tla` - the proofs.

A definition introduced by "Mutant:" is a deliberately wrong variant of the one
after it. No specification uses it; it is there to confirm that a property fails
when the code has that bug.

### Abstractions

- A request is its keyword, an id and one payload; `wf` says whether its fields
  parse. All columns of a row are one payload, so partial updates are not told
  apart. A reply is its handler, its first word, and its rows.
- TCP keeps order and loses nothing while both ends live. Replies and requests
  are not split in the middle; they may be joined (`Receive` with n > 1, `Read`
  with n > 1). A closed client draws a reset sooner or later: at once when it left
  replies unread, or when a reply reaches it. A send on a connection that was reset
  fails with ECONNRESET, which no handler looks at, and the reply is lost (`Deliver`),
  or it raises SIGPIPE, which ends the process (`Sigpipe`).
- In `Server`, `add_session` and `remove_session` are atomic: one mutex guards them.
  Their failures are in the model: files that do not open; a line kept because the
  `strtok` of another thread's logger intervened; an exit that loses every line
  while a disconnecting thread replaces the file. `SessionFile` has the steps.
- One call of `setenv` or of `getenv` is one step, and so is one call of `strtok`; what
  the library does inside two such calls at once is undefined and left out. A reader sees lines appended to the file it has
  open and keeps that file when the name goes; `add_session` writes a line at once.
- In `Windows` the server's answers are free. GTK is external: no window of the
  layouts is modal or has a `delete-event` handler, so a window that is closed is
  destroyed, a destroyed window shown again is empty, and a popup outlives its
  page. `RestaCore` lets users edit only from the page whose popup it is.
- `connect_to_db` and the statement are separate steps; `PQfinish` happens with the
  reply.
- A client's machine is its address; clients behind one address share a `host`.

## Runs

Passing runs:

| Run | Question | Instance |
|---|---|---|
| `server_core` | `TypeOK`, `Shape`, `HandleOwnership`, `SessionBacked`, `PoolSuffices`, `KeepsSessions` | 2 connections of one host, 2 PostgreSQL connections; login, malformed registration, leaking insert; the database is out of reach, a login's statement fails, session files fail, accept fails, crash, restart |
| `server_live` | `BatchServed`, `ClosedIsReaped` | 1 connection, batches of 2; login, two writes, a request for two fetches; accept and session files fail, crash, restart |
| `resta_one` | `WritesFirst`, `RepliesMatch`, `ReplyComing`, `HandlerReturns` | 1 client, every page and button but orders, batches of 2, accept may fail, the server may end |
| `resta_two` | `LoggedInListed` | 2 clients on 2 machines, each may end at any point; 1 PostgreSQL connection, so an insert soon ends the server, which restarts |
| `resta_orders` | `CTypeOK`, `SocketsOwned` | 1 client with its two sockets, orders, ends at any point |
| `session_file` | `TypeOK`, `RemovedWhole`, `ListingWhole`, `KeepsSessions`, `LoadRestores`, `MutexReleased` | 2 threads, 1 reader, 2 machines, 2 lines, 1 line of `.env`; files may not open, the process may end and start anywhere |
| `windows` | `TypeOK`, `UsersForAdmins`, `NeverUnseen`, `Navigates` | every window; 3 popups at a time, 2 windows closed by the window manager |

What they show. PostgreSQL connections are never shared, and only leaked by the
handlers that omit `PQfinish`; the handlers that log in, register and fetch never
exhaust a pool as large as the number of clients, even when statements fail. Every
line of `sessions.txt` has a live thread or a recorded fault behind it; no rewrite
of it loses another machine's line, except that an end of the process between
`remove` and `rename` loses all of them. A rewrite keeps a line of its own machine only
if another `strtok` came between the two calls on that very line. A client that lists
the file without the mutex and could open it misses no login. A load of `.env` that
was interrupted may leave any text in the environment and in `MAX_BUFFER`, and so may
one that was not, when the wrong token of another is set during it; a load free of
both puts all settings right. The client shows one page that answers the user for as
long as it runs, whatever is closed. Every branch of a received buffer is run, once,
before the next `recv`, and dead connections are reaped. Without orders, and whatever
one `recv` joins, a request with fields is the first one in the buffer, so none is
dropped for coming second; each reply answers its request; and when no fetch fails in the database, no handler waits for a
reply that nobody will send, and every handler of the client returns. With one address
per client and no order handlers, a live login stays listed; no order handler loses a
socket, wherever it is interrupted.

Runs that find a violation, each a finding in `PROJECT.json`:

| Run | The program says | The model shows |
|---|---|---|
| `refresh_early` (`RefreshSeesWrite`) | "Refreshing table content" | one `recv` returns a write and the refresh behind it, the chain of keywords runs the fetch first, and the list lacks the change |
| `combobox` (`RepliesMatch`) | the reply lists customers for the box | `GET_CUSTOMERS` occurs in `GET_CUSTOMERS_COMBOBOX`: two replies, later ones out of step |
| `order_unlists` (`LoggedInListed`) | the file lists active sessions | closing `sock2` removes the line of the same host's login |
| `fetch_hangs` (`HandlerReturns`) | "Get products failed." | a failed fetch sends nothing and the client waits for ever |
| `list_null` (`ListingComplete`) | an array of all N active sessions | between `remove` and `rename` there is no file: the client gets NULL while a login is listed |

Behaviours that are in the models and have no run of their own:

- Every handler logs "Failed to connect to the database" and returns when it gets no
  connection, and `handle_register` even answers `register_failed|db_connection_error`,
  but `connect_to_db` ends the server first (`OpenDbFails`): during an outage, or once
  the handlers without `PQfinish` have exhausted the pool. A reply to a client that has
  gone raises SIGPIPE, which ends it too (`Sigpipe`).
- `add_customer` and `add_user` report "Insert failed" for a row that was inserted, since
  `RETURNING` yields `PGRES_TUPLES_OK` (`BranchAfter`); the outcome is only logged.
- The refresh after an order travels on a second connection and may overtake it,
  whatever the `usleep` before it.
- An exit between `remove` and `rename` empties the list of sessions (`Die`).

Two behaviours are in `Windows` as the code has them. Saving an order with no
customer chosen ends the client (`SaveCrashes`): `strlen` at `src/client.c:1113` takes
the NULL that the lines after it report as "No customer selected!". A notice shown
by a registration has no working OK button until a login has failed (`connected`):
only `on_login_button_clicked` connects it.

### Bounds

`MaxBatch` is the number of requests one `recv` may return, `MaxQueue` the requests
and replies in flight on a connection, `MaxId` the rows ever inserted in a table,
`Pages` the pages users open. Two connections suffice for interference between
threads, since threads interact pairwise through the pool, the tables and the
file. Batches of two show every effect of coalescing: the first request is
parsed, the others are not. An insert beyond `MaxId` fails like a statement the
database rejects. A send beyond `MaxQueue` waits; a client that waits for a reply
has at most three requests and replies outstanding except in `resta_orders`, where
doubled replies may pile up and the user then ends the client. `server_core` uses
symmetry: its connections come from one host, and its one temporal property,
`KeepsSessions`, is a safety property that names neither connections nor handles.
Batches matter in `resta_one`, where `MaxBatch` is 2: a client has a write and the
refresh behind it in flight, never more. `resta_orders` and `resta_two` have 1,
to keep their state spaces small: what they ask is about sockets and lines.

`MaxLines` bounds the lines `add_session` leaves in the file: two make every case of a
rewrite, its own lines and others', before and behind each other. Two threads
suffice for `strtok` and the environment: a thread is only told apart from the others. `.env` has one line,
the one `init_config` copies; the proofs cover any number. `MaxPopups` and `MaxClosed`
bound the popups on the screen and the windows closed. Without the second the state
space is still finite, but every set of destroyed windows would be explored.

### Fairness

`FairSpec` has weak fairness of each thread and of the accept loop: the kernel
schedules runnable threads, and a thread blocked in `recv` is not enabled. Nothing
forces clients to send, read or close, nor the operator to restart. `CFairSpec`
adds weak fairness of a client's script steps: GTK runs a handler to its end. User
actions have no fairness. `FairSpec` of `SessionFile` has weak fairness of each thread
once it has begun a job; the mutex may go to any thread that asks for it, and nothing
claims that a particular one gets it. Deadlock is checked in every run but
`fetch_hangs`, where the blocked client is the finding, and `windows`, where the
client may end.

## Proofs

`Server_proofs.tla` proves, for any sets of connections, hosts, requests, rows and
database connections satisfying the `ASSUME`s of `Server`:

- `TypeInvariant`: `Spec => [](TypeOK /\ Shape)`. `TypeOK` alone is not inductive: an
  answer is well-typed only if its thread runs a handler, the first request exists
  only if the buffer is not empty, a session's user is a user's name only if the
  login matched. `Shape` says so, and is preserved together with it.
- `ConnectionsOwned`: `Spec => []HandleOwnership`. A step leaves the connections alone,
  ends the process, returns from a handler, or opens a connection
  (`OwnershipSteps`). Returning touches the own connection only; opening takes a
  free one, and a thread in the chain holds none (`Shape`).
- `SessionsBacked`: `Spec => []SessionBacked`. Only `Exit`, `Disconnect` and
  `AddSession` can remove a backing thread or add a line (`BackedSteps`); each
  records the host or keeps a thread.

- `PoolLasts`: `Spec => []PoolSuffices`. A connection PostgreSQL does not hold free is
  held by one thread (`HandleOwnership`) or was lost by a handler, so by one of
  `Leakers` (`LostByLeakers`, an invariant: the others reach `PQfinish` on every path).
  With no loss, the threads that hold connections are fewer than the clients by the
  one about to run a handler, and cardinalities leave it one.
- `SessionsKept`: `Spec => KeepsSessions`, each step mapped to a step of
  `ActiveSessions` or a stutter; it needs the type of the lines only.

Lemmas on the operators (`SelectedType`, `FieldType`, `SplitType`, `BranchesType`,
`StoredType`...) are cited by name in the step lemmas, one per group of actions.

`SessionFile_proofs.tla` proves, for any threads, readers, machines, files and any
`.env` in which a key occurs once, `FileTypes`, `RemovesWhole`, `ListsWhole`,
`LoadsRestore` and `FileKeepsSessions`, from one invariant:

- `Exclusive`: the thread in the middle of a session job is the one with the mutex,
  and a process that is down has no thread. Hence nobody appends during a copy.
- `Arguments`, `Copies`: how far a job is; the lines copied so far are the other
  machines' lines so far, and some that `strtok` made stay. At `Unlink` the copy
  therefore takes the place of the file in `Listed`, and a step of `ActiveSessions`
  (`End`) is complete there: `Rename` is a stutter, and `Die` before it loses all.
- `Undisturbed`: a thread with a sound token has the value of its line; a `clean` load
  has set every key above its line, and keeps the text it read, since no thread sets
  anything but a sound token without ending it (`StaysUndisturbed`).
- `RemovedWhole` itself, with `slips` naming the lines that may stay (`StaysRemoved`).
- `Views`: a reader whose file is current sees the file, and the logins listed
  throughout are in what it has open, also once the file is replaced.

`Windows_proofs.tla` proves `WindowTypes`, `UsersOfAdmins`, `PageInSight` and
`WindowsNavigate` for any `MaxPopups` and `MaxClosed`. The invariant says that exactly one
page is shown and it was not destroyed (`OnePage`), that the role is known exactly
behind the login (`Entered`), and that `users_btn` agrees with it (`ButtonAgrees`): the
button is why nobody else reaches the users page, and that nobody logs in twice is
why its popups cannot outlive the admin.

`RestaCore_proofs.tla` proves of the whole system, for any clients:

- `SystemTypes` and `SocketsKept`: `CTypeOK` and `SocketsOwned`. The strengthening
  says what is left of every script, wherever it was interrupted (`Planned`): the
  second socket is opened at most once and only when it is closed, it is closed
  after it was opened, and the main one is closed last. `SocketsOwned` alone is not
  inductive: without the script nothing says that an open second socket will be
  closed when the handler returns.
- `SystemIsServer`: `CSpec => Spec`, since every step of a client is one of `Server`'s
  client actions or leaves the server alone. `SystemKeepsServer` then carries
  `HandleOwnership`, `SessionBacked`, `PoolSuffices` and `KeepsSessions` over.

`Replies_proofs.tla` and `Pages_proofs.tla` prove what a client may count on when it
reads, for any clients, connections, rows and faults within the hypotheses below:

- `RepliesAnswer`: `CSpec => []RepliesMatch`. A reply can be wrong only if two are
  under way on one connection, so the invariant counts what is *owed* (`Owes`): a
  request in flight that will be answered, a branch left in `todo`, or the reply in
  `outbox` - one of the three, once, and of the kind the client waits for. It rests
  on how far each thread is in its chain (`Chain`: e.g. a thread in `recv` has nothing
  to do, a running handler is one of its branches) and on what the script of a page
  has left (`Talking`). What a step of the server does to one connection is one of
  a few effects (`Effect`, `ServerEffect`), and each invariant is carried over those
  and not over every action.
- `RequestsAreServed`: `CSpec => []ReplyComing`. This is the other half: something *is*
  owed. While a client waits, its reply is there, its request is in flight, or its
  branch is left to run and has not taken a path without a reply (`Coming`). On the
  login page nothing else is in flight, so `handle_login` reads the fields of the
  request it was sent (`Leads`); a request that is parsed and whose statement
  succeeds is answered (`RunQueryRan`).
- `WritesComeFirst`: `CSpec => []WritesFirst`. `WritesFirst` alone is not inductive: a
  write must also not be behind a request that is still in `inbox` (`Front`). `Ordered`
  says why: when the next request of a script has fields (`Leading`) nothing is in
  flight, because a request that is answered is the last one sent and its reply means
  that the server has received it (`InOrder`).
- `LoggedInAreListed`: `CSpec => []LoggedInListed`. `Carries` follows the user's name
  from the login request through the batch to the successful reply, whose thread is
  then about to add the line; `Listed` keeps it there: the only step that removes a
  line of the machine is the end of that very connection (`KeepsLines`).

Their hypotheses are named there. TLC finds the property violated when one is dropped:

| Hypothesis | Meaning | Without it |
|---|---|---|
| `NoOrders` | users do not save orders | `combobox` violates `RepliesMatch`, `order_unlists` the listing; the second reply to a combobox request lets a write be sent while a request is in flight (`WritesFirst`) |
| `Records` | `add_session` can open its file | `handle_login` replies twice: replies are out of step, a write may be sent behind a fetch, and a user told `true` is not listed |
| `OneEach` | connections in use at the same time have different addresses | the end of one unlists the other (`LoggedInAreListed` only) |
| `Healthy` | no fetch and no login fails in the database | `fetch_hangs`; a login likewise (`RequestsAreServed` only) |
| `Filled` | the fields of a login parse | `handle_login` returns without a reply (`RequestsAreServed` only) |

`RequestsAreServed` has `NoOrders` and `Records` from the invariant it builds on; TLC
finds no violation of `ReplyComing` in the configuration of `resta_orders`, with orders
and two sockets, nor with a session file that may fail to open, so there they may be
stronger than needed. `resta_one` and `resta_two` satisfy the hypotheses of what they
check. Everything else is left free: the number of clients, crashes and restarts,
refused connections, lost PostgreSQL connections, inserts, updates, deletes and
registrations that fail.

Only model-checked: liveness (`BatchServed`, `ClosedIsReaped`, `HandlerReturns`,
`MutexReleased`), which is beyond the prover, as is everything that needs fairness or
ENABLED; `ReplyComing` is the part of `HandlerReturns` that is a safety property.
No proof needs induction over data, and no module a proof uses declares a recursive
operator.

## Not modelled

Replies cut off at the size of their buffer and the fixed arrays of ids in the order
popup: both are about lengths in bytes and tens of rows, which the models abstract.
The contents of widgets: labels, columns, entries, and the rendering of the list of
sessions (`strtok` of the NULL that `list_sessions_client` returns when there is no
file). The columns that every visit of a page appends again to its tree view, and
`localtime`'s static buffer in `logger`, which affect only what is displayed or
logged. Socket set-up failures and a missing `.env`, which end a process before it
does anything. `fetch_order_details` and `get_order_details`, which nothing calls, and
`list_sessions`, which only prints. Layouts, the build, and the prototype under `old/`,
which nothing builds.

## Plan

1. `Protocol`, `Server`, `RestaCore`, their runs, the server's invariants proved - done.
2. `ActiveSessions`, `SessionFile`, `Config`, and both refinements of the first, proved - done.
3. `Windows` and `Navigation`, proved - done.
4. `RestaCore` implements `Server`, `PoolSuffices`, `SocketsOwned`, proved - done.
5. `RepliesMatch`, `ReplyComing`, `WritesFirst` and `LoggedInListed`, proved - done.
6. Next: `ReplyComing` for clients that save orders on two sockets, from an invariant in
   which every `recv` of a script follows its `send`.
