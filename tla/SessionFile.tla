---------------------------- MODULE SessionFile -----------------------------
(***************************************************************************)
(* add_session, remove_session and list_sessions_client, one file          *)
(* operation at a time.  The threads of the server take turns by a mutex;  *)
(* remove_session copies sessions.txt to temp.txt without the lines of one *)
(* machine, removes it and renames the copy, and splits lines by strtok,   *)
(* as load_env does in threads that do not hold the mutex.  The process    *)
(* may end between any two steps.  Clients list the file from processes of *)
(* their own, without the mutex.                                           *)
(***************************************************************************)
EXTENDS Config, FiniteSets

CONSTANTS
  Readers,      \* client processes that show the active sessions
  Addrs, Users,
  MaxLines,     \* bound: lines add_session may leave in the file
  OpenMayFail   \* may fopen fail in add_session, or for temp.txt?

Lines == [host : Addrs, user : Users]

ASSUME FileAssumption ==
  /\ MaxLines \in Nat /\ OpenMayFail \in BOOLEAN
  /\ NoOne \notin Lines \union Addrs
  /\ Users \subseteq Words   \* a name in a line may be what strtok comes upon

VARIABLES
  up,       \* is the server process running?
  mutex,    \* the thread that holds sessions_mutex
  present,  \* does sessions.txt exist?
  file,     \* the lines of sessions.txt
  arg,      \* the line a thread is to add, or the machine whose lines it is to remove
  kept,     \* what it has written to temp.txt
  open,     \* the readers that have sessions.txt open
  current,  \* those whose file is still the one under that name
  view,     \* the lines of the file each of them has open
  shown,    \* the lines it has read
  null,     \* the readers whose fopen has failed
  whole     \* history: lines listed ever since it called fopen

fileVars == <<mutex, present, file, arg, kept>>
readerVars == <<open, current, view, shown, null, whole>>
vars == <<configVars, up, fileVars, readerVars>>

(* What the steps of a session job leave alone, but for those that split. *)
settings == <<place, taken, env, bufferSize, slips, clean>>

-----------------------------------------------------------------------------
LinesOf(s) == {s[i] : i \in DOMAIN s}

(* The lines of the file on which the thread that copies it was interrupted. *)
Slipped(t) == {file[i] : i \in slips[t]}

Renaming == \E t \in Threads : pc[t] = "rename"

(* The logins sessions.txt lists; its copy holds them while it is replaced. *)
Listed ==
  IF present THEN LinesOf(file)
  ELSE IF Renaming THEN LinesOf(kept[CHOOSE t \in Threads : pc[t] = "rename"])
  ELSE {}

(* Readers see what is appended to the file they have open. *)
AppendLine(l) ==
  /\ present' = TRUE
  /\ file' = Append(file, l)
  /\ view' = [r \in Readers |-> IF r \in current THEN Append(view[r], l) ELSE view[r]]
  /\ UNCHANGED current

(* Mutant: the file is emptied and written again in place. *)
EmptyFile ==
  /\ present' = FALSE
  /\ file' = <<>>
  /\ view' = [r \in Readers |-> IF r \in current THEN <<>> ELSE view[r]]
  /\ UNCHANGED current

(* remove(): the name goes, those who have the file open keep it. *)
UnlinkFile ==
  /\ present' = FALSE
  /\ file' = <<>>
  /\ current' = {}
  /\ UNCHANGED view

(* What readers have been able to see all along. *)
Remember == whole' = [r \in Readers |-> whole[r] \intersect Listed']

-----------------------------------------------------------------------------
Init ==
  /\ ConfigInit
  /\ up = TRUE
  /\ mutex = NoOne
  /\ present = FALSE /\ file = <<>>
  /\ arg = [t \in Threads |-> NoOne]
  /\ kept = [t \in Threads |-> <<>>]
  /\ open = {} /\ current = {}
  /\ view = [r \in Readers |-> <<>>]
  /\ shown = [r \in Readers |-> <<>>]
  /\ null = {}
  /\ whole = [r \in Readers |-> {}]

(* pthread_mutex_lock, at the start of a job on argument a. *)
Locks(t, where, a) ==
  /\ up /\ mutex = NoOne
  /\ mutex' = t
  /\ arg' = [arg EXCEPT ![t] = a]
  /\ Begins(t, where)
  /\ UNCHANGED <<settings, at, up, present, file, kept, readerVars>>

(* The file is done with, and the argument is not used again. *)
Leaves(t) == Goes(t, "unlock") /\ arg' = [arg EXCEPT ![t] = NoOne]

Unlock(t) ==
  /\ pc[t] = "unlock"
  /\ mutex' = NoOne
  /\ Ends(t)
  /\ UNCHANGED <<place, taken, env, bufferSize, up, present, file, arg, kept, readerVars>>

-----------------------------------------------------------------------------
(* add_session *)

(* Mutant: add_session does not take the mutex. *)
AddUnlocked(t, l) ==
  /\ up /\ arg' = [arg EXCEPT ![t] = l]
  /\ Begins(t, "add")
  /\ UNCHANGED <<settings, at, up, mutex, present, file, kept, readerVars>>

AddLocks(t, l) == Locks(t, "add", l)

(* fopen "a+", fprintf, fclose: the line is written as one. *)
AddAppends(t) ==
  /\ pc[t] = "add"
  /\ Len(file) < MaxLines
  /\ AppendLine(arg[t])
  /\ Leaves(t)
  /\ UNCHANGED <<settings, at, up, mutex, kept, open, shown, null>>
  /\ Remember

AddFails(t) ==
  /\ pc[t] = "add"
  /\ OpenMayFail \/ Len(file) = MaxLines
  /\ Leaves(t)
  /\ UNCHANGED <<settings, at, up, mutex, present, file, kept, readerVars>>

-----------------------------------------------------------------------------
(* remove_session *)

RemoveLocks(t, h) == Locks(t, "open", h)

(* Mutant: a file that cannot be opened ends the function at once. *)
RemoveReturns(t) ==
  /\ pc[t] = "open"
  /\ Ends(t)
  /\ UNCHANGED <<place, taken, env, bufferSize, up, fileVars, readerVars>>

(* There is no sessions.txt, or temp.txt cannot be opened. *)
RemoveFails(t) ==
  /\ pc[t] = "open"
  /\ ~present \/ OpenMayFail
  /\ Leaves(t)
  /\ UNCHANGED <<settings, at, up, mutex, present, file, kept, readerVars>>

RemoveOpens(t) ==
  /\ pc[t] = "open" /\ present
  /\ Goes(t, "copy")
  /\ UNCHANGED <<settings, at, up, fileVars, readerVars>>

Keeps(t) == kept' = [kept EXCEPT ![t] = Append(@, file[at[t]])]

(* strtok(line_copy, " ") differs from the address: fprintf(temp, line). *)
CopyLine(t) ==
  /\ pc[t] = "copy" /\ at[t] <= Len(file)
  /\ file[at[t]].host # arg[t]
  /\ SplitsOnce
  /\ Keeps(t) /\ NextLine(t)
  /\ UNCHANGED <<pc, taken, env, bufferSize, clean, up, mutex, present, file, arg, readerVars>>

FindLine(t) ==
  /\ pc[t] = "copy" /\ at[t] <= Len(file)
  /\ file[at[t]].host = arg[t]
  /\ Splits(t)
  /\ Goes(t, "token")
  /\ UNCHANGED <<at, taken, env, bufferSize, clean, up, fileVars, readerVars>>

(* Mutant: only the first line of the machine is dropped. *)
DropFirst(t) ==
  /\ pc[t] = "token"
  /\ SplitsOn(t)
  /\ Goes(t, "copy") /\ NextLine(t)
  /\ IF \E i \in 1..(at[t] - 1) : file[i].host = arg[t] THEN Keeps(t) ELSE UNCHANGED kept
  /\ UNCHANGED <<taken, env, bufferSize, clean, up, mutex, present, file, arg, readerVars>>

(* strtok(NULL, " ") is NULL: the line is kept, although it is the machine's. *)
DropLine(t) ==
  /\ pc[t] = "token"
  /\ \E name \in NextToken(t, file[at[t]].user) :
       IF name = Null THEN Keeps(t) ELSE UNCHANGED kept
  /\ SplitsOn(t)
  /\ Goes(t, "copy") /\ NextLine(t)
  /\ UNCHANGED <<taken, env, bufferSize, clean, up, mutex, present, file, arg, readerVars>>

(* remove("sessions.txt") *)
Unlink(t) ==
  /\ pc[t] = "copy" /\ at[t] > Len(file)
  /\ UnlinkFile
  /\ Goes(t, "rename")
  /\ UNCHANGED <<settings, at, up, mutex, arg, kept, open, shown, null>>
  /\ Remember

(* rename("temp.txt", "sessions.txt") *)
Rename(t) ==
  /\ pc[t] = "rename"
  /\ present' = TRUE /\ file' = kept[t]
  /\ kept' = [kept EXCEPT ![t] = <<>>]
  /\ Leaves(t)
  /\ UNCHANGED <<settings, at, up, mutex, readerVars>>

-----------------------------------------------------------------------------
(* The end of the process: exit in any thread, or a signal. *)
Die ==
  /\ up /\ up' = FALSE
  /\ pc' = Idle /\ at' = FirstLine
  /\ taken' = NoToken /\ slips' = NoSlip /\ clean' = NoLoad
  /\ place' = NoOne
  /\ env' = Wanted /\ bufferSize' = Wanted[BufferKey]
  /\ mutex' = NoOne
  /\ arg' = [t \in Threads |-> NoOne]
  /\ kept' = [t \in Threads |-> <<>>]
  /\ UNCHANGED <<present, file, open, current, view, shown, null>>
  /\ Remember

Boot ==
  /\ ~up /\ up' = TRUE
  /\ UNCHANGED <<configVars, fileVars, readerVars>>

-----------------------------------------------------------------------------
(* list_sessions_client, in a client process. *)

OpenList(r) ==
  /\ r \notin open \union null /\ present
  /\ open' = open \union {r} /\ current' = current \union {r}
  /\ view' = [view EXCEPT ![r] = file]
  /\ whole' = [whole EXCEPT ![r] = Listed]
  /\ UNCHANGED <<configVars, up, fileVars, shown, null>>

(* There is no sessions.txt: the function returns NULL. *)
OpenListFails(r) ==
  /\ r \notin open \union null /\ ~present
  /\ null' = null \union {r}
  /\ whole' = [whole EXCEPT ![r] = Listed]
  /\ UNCHANGED <<configVars, up, fileVars, open, current, view, shown>>

ReadLine(r) ==
  /\ r \in open /\ Len(shown[r]) < Len(view[r])
  /\ shown' = [shown EXCEPT ![r] = Append(@, view[r][Len(@) + 1])]
  /\ UNCHANGED <<configVars, up, fileVars, open, current, view, null, whole>>

(* The list is complete, or there is none; the window shows it. *)
CloseList(r) ==
  /\ r \in open \union null /\ Len(shown[r]) >= Len(view[r])
  /\ open' = open \ {r} /\ current' = current \ {r} /\ null' = null \ {r}
  /\ view' = [view EXCEPT ![r] = <<>>]
  /\ shown' = [shown EXCEPT ![r] = <<>>]
  /\ whole' = [whole EXCEPT ![r] = {}]
  /\ UNCHANGED <<configVars, up, fileVars>>

-----------------------------------------------------------------------------
AddStep(t) ==
  \/ \E l \in Lines : AddLocks(t, l)
  \/ AddAppends(t) \/ AddFails(t)

RemoveStep(t) ==
  \/ \E h \in Addrs : RemoveLocks(t, h)
  \/ RemoveFails(t) \/ RemoveOpens(t)
  \/ CopyLine(t) \/ FindLine(t) \/ DropLine(t)
  \/ Unlink(t) \/ Rename(t)

LogStep(t) == up /\ ConfigStep(t) /\ UNCHANGED <<up, fileVars, readerVars>>

ListStep(r) == OpenList(r) \/ OpenListFails(r) \/ ReadLine(r) \/ CloseList(r)

Next ==
  \/ \E t \in Threads : AddStep(t) \/ RemoveStep(t) \/ Unlock(t) \/ LogStep(t)
  \/ Die \/ Boot
  \/ \E r \in Readers : ListStep(r)

Spec == Init /\ [][Next]_vars

(* The kernel schedules every thread; nothing makes a thread start a job. *)
Works(t) == pc[t] # "idle" /\ (AddStep(t) \/ RemoveStep(t) \/ Unlock(t) \/ LogStep(t))

FairSpec == Spec /\ \A t \in Threads : WF_vars(Works(t))

-----------------------------------------------------------------------------
(* Every variable stays within its type. *)
TypeOK ==
  /\ ConfigTypeOK
  /\ pc \in [Threads -> {"idle", "key", "value", "set", "size",
                         "add", "open", "copy", "token", "rename", "unlock"}]
  /\ up \in BOOLEAN
  /\ mutex \in Threads \union {NoOne}
  /\ present \in BOOLEAN /\ file \in Seq(Lines)
  /\ arg \in [Threads -> Lines \union Addrs \union {NoOne}]
  /\ kept \in [Threads -> Seq(Lines)]
  /\ open \subseteq Readers /\ current \subseteq open /\ null \subseteq Readers \ open
  /\ view \in [Readers -> Seq(Lines)]
  /\ shown \in [Readers -> Seq(Lines)]
  /\ whole \in [Readers -> SUBSET Lines]

(***************************************************************************)
(* What the threads do to the file, however their steps interleave and     *)
(* wherever the process ends, is what ActiveSessions promises: the lines   *)
(* of other machines survive every remove_session, and only an end of the  *)
(* process between remove and rename loses lines, all of them together     *)
(* (the mutex, temp.txt, remove and rename).                               *)
(***************************************************************************)
Sessions == INSTANCE ActiveSessions
              WITH running <- up, lines <- Listed, MayKeep <- TRUE

KeepsSessions == Sessions!Spec

(***************************************************************************)
(* A line of the machine stays in the copy only if another thread's strtok *)
(* came between the two calls of remove_session's on that very line: all   *)
(* its other lines are dropped, wherever else threads split or lines stand *)
(* (two lines of one machine, lines next to each other).                   *)
(***************************************************************************)
RemovedWhole ==
  \A t \in Threads : pc[t] \in {"copy", "token"} =>
    \A l \in LinesOf(kept[t]) : l.host = arg[t] => l \in Slipped(t)

(***************************************************************************)
(* A load of .env none of whose lines was split over another thread's call *)
(* of strtok, and during which no thread set what it was given for such a  *)
(* line, leaves .env in the environment and in MAX_BUFFER, whatever        *)
(* earlier loads have left there and however many other loads, sound ones, *)
(* and copies of sessions.txt overlap it (load_env's setenv overwrites,    *)
(* init_config copies).                                                    *)
(***************************************************************************)
LoadRestores ==
  [][\A t \in Threads :
       Configure(t) /\ clean[t] => env' = Wanted /\ bufferSize' = Wanted[BufferKey]]_vars

(***************************************************************************)
(* A client that could open the file and reads it to its end shows every   *)
(* login listed ever since, never a part of them, although the server      *)
(* rewrites the file meanwhile and the client does not take the mutex      *)
(* (list_sessions_client).                                                 *)
(***************************************************************************)
ListingWhole ==
  \A r \in open : Len(shown[r]) >= Len(view[r]) => whole[r] \subseteq LinesOf(shown[r])

(***************************************************************************)
(* "Returns a char array in the format: IP1 USERNAME1 ... IPN USERNAMEN    *)
(* where N is the number of active sessions": a client that gets no array  *)
(* called while nobody was listed (list_sessions_client).                  *)
(***************************************************************************)
ListingComplete == \A r \in null : whole[r] = {}

(***************************************************************************)
(* The mutex, once taken, is free again: it is released on every path      *)
(* through add_session and remove_session, those that cannot open a file   *)
(* included.                                                               *)
(***************************************************************************)
MutexReleased == mutex # NoOne ~> mutex = NoOne
=============================================================================
