------------------------- MODULE SessionFile_proofs -------------------------
(***************************************************************************)
(* Proofs about SessionFile for any number of threads, readers, lines and  *)
(* lines of .env.                                                          *)
(***************************************************************************)
EXTENDS SessionFile, SequenceTheorems, TLAPS

(* The invariant: the conjuncts under the names the proofs use. *)

Critical == {"add", "open", "copy", "token", "rename", "unlock"}
Removing == {"open", "copy", "token", "rename"}

(* The mutex is held by the one thread that works on the file. *)
Exclusive ==
  /\ \A t \in Threads : pc[t] \in Critical <=> mutex = t
  /\ ~up => \A t \in Threads : pc[t] = "idle"

(* What a thread works on, and what it has when it starts. *)
Arguments ==
  \A t \in Threads :
    /\ pc[t] = "add" => arg[t] \in Lines
    /\ pc[t] \in Removing => arg[t] \in Addrs
    /\ pc[t] \in {"idle", "add", "open"} => at[t] = 1
    /\ pc[t] \notin {"copy", "token", "rename"} => kept[t] = <<>>
    /\ pc[t] \in {"value", "set"} => at[t] <= Len(EnvFile)
    /\ pc[t] = "size" => at[t] > Len(EnvFile) /\ taken[t] \in Tokens
    /\ pc[t] \in {"idle", "key", "value", "size", "add", "open"} => slips[t] = {}

(* How far the copy of a file is. *)
Copied(t) ==
  /\ present /\ at[t] <= Len(file) + 1
  /\ LinesOf(kept[t]) \subseteq LinesOf(file)
  /\ \A i \in 1..(at[t] - 1) : file[i].host # arg[t] => file[i] \in LinesOf(kept[t])

Copies ==
  /\ ~present => file = <<>>
  /\ \A t \in Threads :
       /\ pc[t] \in {"copy", "token"} => Copied(t)
       /\ pc[t] = "token" => at[t] <= Len(file) /\ file[at[t]].host = arg[t]
       /\ pc[t] = "rename" => ~present

(* What a thread was given by an undisturbed strtok, and what a load of    *)
(* .env has done none of whose settings a disturbed one has overwritten.   *)
Undisturbed ==
  \A t \in Threads :
    /\ pc[t] = "set" /\ slips[t] = {} => taken[t] = EnvFile[at[t]].value
    /\ clean[t] /\ pc[t] \in {"key", "value", "set", "size"} =>
         \A i \in DOMAIN EnvFile : i < at[t] => env[EnvFile[i].key] = EnvFile[i].value
    /\ clean[t] /\ pc[t] = "size" => taken[t] = Wanted[BufferKey]

(* What readers have open and have read. *)
Views ==
  /\ current # {} => present
  /\ \A r \in open :
       /\ r \in current => view[r] = file
       /\ whole[r] \subseteq LinesOf(view[r])
       /\ Len(shown[r]) <= Len(view[r])
       /\ \A i \in 1..Len(shown[r]) : shown[r][i] = view[r][i]
  /\ \A r \in Readers \ open : shown[r] = <<>>

IInv ==
  TypeOK /\ Exclusive /\ Arguments /\ Copies /\ Undisturbed /\ RemovedWhole /\ Views

-----------------------------------------------------------------------------
(* Facts about the operators of the model. *)

(* .env has a value for every key. *)
LEMMA WantedType ==
  /\ \A i \in DOMAIN EnvFile : EnvFile[i].key \in Keys /\ EnvFile[i].value \in Values
  /\ Wanted \in [Keys -> Values]
  /\ \A i \in DOMAIN EnvFile : Wanted[EnvFile[i].key] = EnvFile[i].value
<1>1. \A i \in DOMAIN EnvFile : EnvFile[i].key \in Keys /\ EnvFile[i].value \in Values
  <2>1. \A i \in 1..Len(EnvFile) : EnvFile[i] \in [key : Keys, value : Values]
    BY EnvAssumption, ElementOfSeq
  <2>2. DOMAIN EnvFile = 1..Len(EnvFile)
    BY EnvAssumption
  <2> QED
    BY <2>1, <2>2
<1>2. ASSUME NEW k \in Keys
      PROVE  /\ Wanted[k] \in Values
             /\ \A i \in DOMAIN EnvFile : EnvFile[i].key = k => Wanted[k] = EnvFile[i].value
  <2> DEFINE j == CHOOSE j \in DOMAIN EnvFile : EnvFile[j].key = k
  <2>1. j \in DOMAIN EnvFile /\ EnvFile[j].key = k
    BY EnvAssumption
  <2>2. Wanted[k] = EnvFile[j].value
    BY DEF Wanted
  <2> QED
    BY <2>1, <2>2, <1>1, EnvAssumption
<1>3. Wanted \in [Keys -> Values]
  BY <1>2 DEF Wanted
<1> QED
  BY <1>1, <1>2, <1>3

(* A line more. *)
LEMMA AppendLines ==
  ASSUME NEW S, NEW s \in Seq(S), NEW x \in S
  PROVE  /\ Append(s, x) \in Seq(S) /\ Len(Append(s, x)) = Len(s) + 1
         /\ LinesOf(Append(s, x)) = LinesOf(s) \union {x}
         /\ \A i \in 1..Len(s) : Append(s, x)[i] = s[i]
<1>1. /\ Append(s, x) \in Seq(S) /\ Len(Append(s, x)) = Len(s) + 1
      /\ \A i \in 1..Len(s) : Append(s, x)[i] = s[i]
      /\ Append(s, x)[Len(s) + 1] = x
  BY AppendProperties
<1>2. DOMAIN Append(s, x) = 1..(Len(s) + 1) /\ DOMAIN s = 1..Len(s) /\ Len(s) \in Nat
  BY <1>1
<1> QED
  BY <1>1, <1>2 DEF LinesOf

-----------------------------------------------------------------------------
(* Type correctness. *)

USE DEF Goes, NextLine, Begins, Ends, Splits, SplitsOnce, SplitsOn, Leaves, settings,
        configVars, fileVars, readerVars

(* The initial state is well-typed. *)
LEMMA InitType == Init => TypeOK
<1> SUFFICES ASSUME Init PROVE TypeOK
  OBVIOUS
<1>1. ConfigTypeOK
  BY WantedType, EnvAssumption DEF Init, ConfigInit, ConfigTypeOK, FirstLine,
       NoToken, NoSlip, NoLoad, Tokens
<1>2. /\ pc \in [Threads -> {"idle"}] /\ mutex = NoOne
      /\ arg \in [Threads -> {NoOne}] /\ kept \in [Threads -> {<<>>}]
      /\ view \in [Readers -> {<<>>}] /\ shown \in [Readers -> {<<>>}]
      /\ whole \in [Readers -> {{}}]
  BY DEF Init, ConfigInit, Idle
<1>3. <<>> \in Seq(Lines) /\ {} \in SUBSET Lines
  OBVIOUS
<1> QED
  BY <1>1, <1>2, <1>3 DEF Init, TypeOK

(* The configuration stays well-typed. *)
LEMMA ConfigType ==
  ASSUME TypeOK, Arguments, NEW t \in Threads, LogStep(t)
  PROVE  TypeOK'
<1> USE DEF LogStep, TypeOK, ConfigTypeOK
<1>1. CASE Log(t)
  BY <1>1 DEF Log
<1>2. CASE ReadKey(t)
  BY <1>2 DEF ReadKey
<1>3. CASE ReadValue(t)
  <2>1. PICK value \in NextToken(t, EnvFile[at[t]].value) : taken' = [taken EXCEPT ![t] = value]
    BY <1>3 DEF ReadValue
  <2>2. at[t] \in DOMAIN EnvFile
    BY <1>3, EnvAssumption DEF ReadValue, Arguments
  <2>3. value = Null \/ value \in Tokens
    BY <2>2, WantedType DEF NextToken, Tokens
  <2>4. taken' \in [Threads -> Tokens \union {Null}]
    BY <2>1, <2>3
  <2>5. slips' \in [Threads -> SUBSET Nat]
    BY <1>3 DEF ReadValue
  <2> QED
    BY <1>3, <2>4, <2>5 DEF ReadValue
<1>5. CASE SetValue(t)
  <2>1. clean' \in [Threads -> BOOLEAN]
    BY <1>5 DEF SetValue, NoLoad
  <2>2. env' \in [Keys -> Tokens]
    BY <1>5 DEF SetValue
  <2> QED
    BY <1>5, <2>1, <2>2 DEF SetValue
<1>6. CASE ReadSize(t)
  BY <1>6, EnvAssumption DEF ReadSize
<1>4. CASE Configure(t)
  BY <1>4 DEF Configure, Arguments
<1> QED
  BY <1>1, <1>2, <1>3, <1>4, <1>5, <1>6 DEF ConfigStep

(* add_session and remove_session keep the state well-typed. *)
LEMMA FileType ==
  ASSUME TypeOK, Arguments, Copies,
         NEW t \in Threads, AddStep(t) \/ RemoveStep(t) \/ Unlock(t)
  PROVE  TypeOK'
<1> USE DEF TypeOK, ConfigTypeOK
<1>1. ASSUME NEW l \in Lines, AddLocks(t, l)
      PROVE  TypeOK'
  BY <1>1 DEF AddLocks, Locks
<1>2. CASE AddAppends(t)
  <2>1. arg[t] \in Lines
    BY <1>2 DEF AddAppends, Arguments
  <2>2. file' \in Seq(Lines)
    BY <1>2, <2>1, AppendLines DEF AddAppends, AppendLine
  <2>3. view' \in [Readers -> Seq(Lines)]
    BY <1>2, <2>1, AppendLines DEF AddAppends, AppendLine
  <2>4. whole' \in [Readers -> SUBSET Lines]
    BY <1>2 DEF AddAppends, Remember
  <2> QED
    BY <1>2, <2>2, <2>3, <2>4 DEF AddAppends, AppendLine
<1>3. CASE AddFails(t) \/ RemoveFails(t) \/ RemoveOpens(t)
  BY <1>3 DEF AddFails, RemoveFails, RemoveOpens
<1>4. ASSUME NEW h \in Addrs, RemoveLocks(t, h)
      PROVE  TypeOK'
  BY <1>4 DEF RemoveLocks, Locks
<1>5. CASE FindLine(t)
  BY <1>5 DEF FindLine
<1>6. ASSUME at[t] <= Len(file), Keeps(t)
      PROVE  kept' \in [Threads -> Seq(Lines)]
  <2>1. file[at[t]] \in Lines
    BY <1>6, ElementOfSeq
  <2>2. Append(kept[t], file[at[t]]) \in Seq(Lines)
    BY <2>1, AppendLines
  <2> QED
    BY <1>6, <2>2 DEF Keeps
<1>7. CASE CopyLine(t)
  BY <1>7, <1>6 DEF CopyLine
<1>8. CASE DropLine(t)
  BY <1>8, <1>6 DEF DropLine, Copies
<1>9. CASE Unlink(t)
  <2>1. whole' \in [Readers -> SUBSET Lines]
    BY <1>9 DEF Unlink, Remember
  <2>2. file' \in Seq(Lines)
    BY <1>9 DEF Unlink, UnlinkFile
  <2> QED
    BY <1>9, <2>1, <2>2 DEF Unlink, UnlinkFile
<1>10. CASE Rename(t)
  BY <1>10 DEF Rename
<1>11. CASE Unlock(t)
  BY <1>11 DEF Unlock
<1> QED
  BY <1>1, <1>2, <1>3, <1>4, <1>5, <1>7, <1>8, <1>9, <1>10, <1>11 DEF AddStep, RemoveStep

(* What is listed are lines. *)
LEMMA ListedType == TypeOK => Listed \subseteq Lines
<1> SUFFICES ASSUME TypeOK PROVE Listed \subseteq Lines
  OBVIOUS
<1>1. ASSUME NEW s \in Seq(Lines) PROVE LinesOf(s) \subseteq Lines
  BY <1>1, ElementOfSeq DEF LinesOf
<1>2. Renaming => (CHOOSE t \in Threads : pc[t] = "rename") \in Threads
  BY DEF Renaming
<1>3. LinesOf(file) \subseteq Lines /\ \A t \in Threads : LinesOf(kept[t]) \subseteq Lines
  BY <1>1 DEF TypeOK
<1> QED
  BY <1>2, <1>3 DEF Listed

(* Readers keep the state well-typed. *)
LEMMA ListType ==
  ASSUME TypeOK, NEW r \in Readers, ListStep(r)
  PROVE  TypeOK'
<1> USE DEF TypeOK, ConfigTypeOK
<1>1. CASE OpenList(r)
  <2>1. Listed = LinesOf(file) /\ LinesOf(file) \subseteq Lines
    BY <1>1 DEF OpenList, Listed, LinesOf
  <2> QED
    BY <1>1, <2>1 DEF OpenList
<1>2. CASE ReadLine(r)
  <2>1. view[r][Len(shown[r]) + 1] \in Lines
    BY <1>2, ElementOfSeq DEF ReadLine
  <2>2. Append(shown[r], view[r][Len(shown[r]) + 1]) \in Seq(Lines)
    BY <2>1, AppendLines
  <2> QED
    BY <1>2, <2>2 DEF ReadLine
<1>3. CASE CloseList(r)
  BY <1>3 DEF CloseList
<1>4. CASE OpenListFails(r)
  <2>1. Listed \subseteq Lines
    BY ListedType
  <2> QED
    BY <1>4, <2>1 DEF OpenListFails
<1> QED
  BY <1>1, <1>2, <1>3, <1>4 DEF ListStep

(* Every step keeps the state well-typed. *)
LEMMA NextType ==
  ASSUME TypeOK, Arguments, Copies, [Next]_vars
  PROVE  TypeOK'
<1>1. CASE Die
  <2>1. ConfigTypeOK'
    BY <1>1, WantedType, EnvAssumption DEF Die, ConfigTypeOK, FirstLine,
       NoToken, NoSlip, NoLoad, Tokens
  <2>2. /\ pc' \in [Threads -> {"idle"}] /\ mutex' = NoOne
        /\ arg' \in [Threads -> {NoOne}] /\ kept' \in [Threads -> {<<>>}]
    BY <1>1 DEF Die, Idle
  <2>3. whole' \in [Readers -> SUBSET Lines]
    BY <1>1 DEF Die, Remember, TypeOK
  <2>4. <<>> \in Seq(Lines)
    OBVIOUS
  <2> QED
    BY <1>1, <2>1, <2>2, <2>3, <2>4 DEF Die, TypeOK
<1>2. CASE Boot \/ UNCHANGED vars
  BY <1>2 DEF Boot, TypeOK, ConfigTypeOK, vars
<1> QED
  BY <1>1, <1>2, ConfigType, FileType, ListType DEF Next

-----------------------------------------------------------------------------
(* The mutex, and what a thread works on. *)

(* One thread at a time works on the file, and none when the process is down. *)
LEMMA StaysExclusive ==
  ASSUME TypeOK, Exclusive, [Next]_vars
  PROVE  Exclusive'
<1> USE EnvAssumption DEF TypeOK, Exclusive, Critical
<1>1. ASSUME NEW t \in Threads, AddStep(t)
      PROVE  Exclusive'
  BY <1>1 DEF AddStep, AddLocks, Locks, AddAppends, AddFails
<1>2. ASSUME NEW t \in Threads, RemoveStep(t)
      PROVE  Exclusive'
  <2>1. CASE (\E h \in Addrs : RemoveLocks(t, h)) \/ RemoveFails(t) \/ RemoveOpens(t)
    BY <1>2, <2>1 DEF RemoveLocks, Locks, RemoveFails, RemoveOpens
  <2>2. CASE CopyLine(t) \/ FindLine(t) \/ DropLine(t)
    BY <1>2, <2>2 DEF CopyLine, FindLine, DropLine
  <2>3. CASE Unlink(t) \/ Rename(t)
    BY <1>2, <2>3 DEF Unlink, Rename
  <2> QED
    BY <1>2, <2>1, <2>2, <2>3 DEF RemoveStep
<1>3. ASSUME NEW t \in Threads, Unlock(t)
      PROVE  Exclusive'
  BY <1>3 DEF Unlock
<1>4. ASSUME NEW t \in Threads, LogStep(t)
      PROVE  Exclusive'
  BY <1>4 DEF LogStep, ConfigStep, Log, ReadKey, ReadValue, SetValue, ReadSize, Configure
<1>5. CASE Die
  BY <1>5 DEF Die, Idle
<1>6. CASE Boot \/ (\E r \in Readers : ListStep(r)) \/ UNCHANGED vars
  BY <1>6 DEF Boot, ListStep, OpenList, OpenListFails, ReadLine, CloseList, vars
<1> QED
  BY <1>1, <1>2, <1>3, <1>4, <1>5, <1>6 DEF Next

(* A job is on a line or a machine, and starts with an empty copy. *)
LEMMA StayArguments ==
  ASSUME TypeOK, Arguments, [Next]_vars
  PROVE  Arguments'
<1> USE DEF TypeOK, ConfigTypeOK, Arguments, Removing
<1>1. ASSUME NEW t \in Threads, AddStep(t)
      PROVE  Arguments'
  <2>1. CASE \E l \in Lines : AddLocks(t, l)
    BY <2>1 DEF AddLocks, Locks
  <2>2. CASE AddAppends(t)
    BY <2>2 DEF AddAppends
  <2>3. CASE AddFails(t)
    BY <2>3 DEF AddFails
  <2> QED
    BY <1>1, <2>1, <2>2, <2>3 DEF AddStep
<1>2. ASSUME NEW t \in Threads, RemoveStep(t)
      PROVE  Arguments'
  <2>1. CASE (\E h \in Addrs : RemoveLocks(t, h)) \/ RemoveFails(t) \/ RemoveOpens(t)
    BY <1>2, <2>1 DEF RemoveLocks, Locks, RemoveFails, RemoveOpens
  <2>2. CASE CopyLine(t) \/ FindLine(t) \/ DropLine(t)
    BY <1>2, <2>2 DEF CopyLine, FindLine, DropLine, Keeps
  <2>3. CASE Unlink(t) \/ Rename(t)
    BY <1>2, <2>3 DEF Unlink, Rename
  <2> QED
    BY <1>2, <2>1, <2>2, <2>3 DEF RemoveStep
<1>3. ASSUME NEW t \in Threads, Unlock(t)
      PROVE  Arguments'
  BY <1>3 DEF Unlock
<1>4. ASSUME NEW t \in Threads, LogStep(t)
      PROVE  Arguments'
  <2>1. UNCHANGED <<arg, kept>>
    BY <1>4 DEF LogStep
  <2>2. CASE Log(t) \/ ReadKey(t)
    BY <2>1, <2>2, EnvAssumption DEF Log, ReadKey
  <2>3. CASE ReadValue(t)
    BY <2>1, <2>3 DEF ReadValue
  <2>4. CASE SetValue(t)
    BY <2>1, <2>4 DEF SetValue
  <2>5. CASE ReadSize(t)
    BY <2>1, <2>5, EnvAssumption DEF ReadSize
  <2>6. CASE Configure(t)
    BY <2>1, <2>6 DEF Configure
  <2> QED
    BY <1>4, <2>2, <2>3, <2>4, <2>5, <2>6 DEF LogStep, ConfigStep
<1>5. CASE Die
  BY <1>5 DEF Die, Idle, FirstLine, NoSlip
<1>6. CASE Boot \/ (\E r \in Readers : ListStep(r)) \/ UNCHANGED vars
  BY <1>6 DEF Boot, ListStep, OpenList, OpenListFails, ReadLine, CloseList, vars
<1> QED
  BY <1>1, <1>2, <1>3, <1>4, <1>5, <1>6 DEF Next

(* A copy follows its file, which nobody else changes meanwhile. *)
LEMMA StayCopies ==
  ASSUME TypeOK, Exclusive, Arguments, Copies, [Next]_vars
  PROVE  Copies'
<1> USE DEF TypeOK, ConfigTypeOK, Copies, Copied
<1>1. ASSUME NEW t \in Threads, pc[t] \in Critical, NEW u \in Threads, u # t
      PROVE  pc[u] \notin Critical
  BY <1>1 DEF Exclusive
<1>2. ASSUME NEW t \in Threads, AddStep(t)
      PROVE  Copies'
  <2>1. CASE (\E l \in Lines : AddLocks(t, l)) \/ AddFails(t)
    BY <1>2, <2>1 DEF AddLocks, Locks, AddFails
  <2>2. CASE AddAppends(t)
    BY <1>1, <2>2 DEF AddAppends, AppendLine, Critical
  <2> QED
    BY <1>2, <2>1, <2>2 DEF AddStep
<1>3. ASSUME NEW t \in Threads, RemoveStep(t)
      PROVE  Copies'
  <2>1. CASE (\E h \in Addrs : RemoveLocks(t, h)) \/ RemoveFails(t)
    BY <1>3, <2>1 DEF RemoveLocks, Locks, RemoveFails
  <2>2. CASE RemoveOpens(t)
    <3>1. kept[t] = <<>> /\ at[t] = 1
      BY <2>2 DEF RemoveOpens, Arguments
    <3>2. LinesOf(kept[t]) = {}
      BY <3>1 DEF LinesOf
    <3>3. Copied(t)'
      BY <2>2, <3>1, <3>2 DEF RemoveOpens
    <3> QED
      BY <2>2, <3>3 DEF RemoveOpens
  <2>3. ASSUME at[t] <= Len(file), Keeps(t)
        PROVE  /\ kept'[t] = Append(kept[t], file[at[t]])
               /\ LinesOf(kept'[t]) = LinesOf(kept[t]) \union {file[at[t]]}
               /\ file[at[t]] \in LinesOf(file)
               /\ \A u \in Threads \ {t} : kept'[u] = kept[u]
    <3>1. file[at[t]] \in Lines /\ at[t] \in DOMAIN file
      BY <2>3, ElementOfSeq
    <3>2. kept[t] \in Seq(Lines)
      OBVIOUS
    <3>3. LinesOf(Append(kept[t], file[at[t]])) = LinesOf(kept[t]) \union {file[at[t]]}
      BY <3>1, <3>2, AppendLines
    <3>4. file[at[t]] \in LinesOf(file)
      BY <3>1 DEF LinesOf
    <3> QED
      BY <2>3, <3>3, <3>4 DEF Keeps
  <2>4. CASE CopyLine(t)
    <3>1. Copied(t)'
      BY <2>3, <2>4 DEF CopyLine
    <3> QED
      BY <1>1, <2>3, <2>4, <3>1 DEF CopyLine, Critical
  <2>5. CASE FindLine(t)
    BY <1>3, <2>5 DEF FindLine
  <2>6. CASE DropLine(t)
    <3>1. pc[t] = "token" /\ at[t] <= Len(file) /\ file[at[t]].host = arg[t]
      BY <2>6 DEF DropLine
    <3>2. kept' = kept \/ Keeps(t)
      BY <2>6 DEF DropLine
    <3>3. LinesOf(kept[t]) \subseteq LinesOf(kept'[t]) /\ LinesOf(kept'[t]) \subseteq LinesOf(file)
      BY <2>3, <3>1, <3>2
    <3>4. Copied(t)'
      BY <2>6, <3>1, <3>3 DEF DropLine
    <3> QED
      BY <1>1, <2>6, <3>4 DEF DropLine, Critical
  <2>7. CASE Unlink(t)
    BY <1>1, <2>7 DEF Unlink, UnlinkFile, Critical
  <2>8. CASE Rename(t)
    BY <1>1, <2>8 DEF Rename, Critical
  <2> QED
    BY <1>3, <2>1, <2>2, <2>4, <2>5, <2>6, <2>7, <2>8 DEF RemoveStep
<1>4. ASSUME NEW t \in Threads, Unlock(t)
      PROVE  Copies'
  BY <1>4 DEF Unlock
<1>5. ASSUME NEW t \in Threads, LogStep(t)
      PROVE  Copies'
  BY <1>5 DEF LogStep, ConfigStep, Log, ReadKey, ReadValue, SetValue, ReadSize, Configure
<1>6. CASE Die
  BY <1>6 DEF Die, Idle
<1>7. CASE Boot \/ (\E r \in Readers : ListStep(r)) \/ UNCHANGED vars
  BY <1>7 DEF Boot, ListStep, OpenList, OpenListFails, ReadLine, CloseList, vars
<1> QED
  BY <1>2, <1>3, <1>4, <1>5, <1>6, <1>7 DEF Next

-----------------------------------------------------------------------------
(* strtok's static pointer, and the readers. *)

(* Only a token that another thread's strtok disturbed spoils a load. *)
LEMMA StaysUndisturbed ==
  ASSUME TypeOK, Arguments, Undisturbed, [Next]_vars
  PROVE  Undisturbed'
<1> USE DEF TypeOK, ConfigTypeOK, Undisturbed
<1>1. ASSUME NEW t \in Threads, UNCHANGED <<env, taken>>,
             \A u \in Threads \ {t} :
               pc'[u] = pc[u] /\ at'[u] = at[u] /\ slips'[u] = slips[u] /\ clean'[u] = clean[u],
             pc'[t] \notin {"key", "value", "set", "size"}
      PROVE  Undisturbed'
  BY <1>1
<1>2. ASSUME NEW t \in Threads, AddStep(t)
      PROVE  Undisturbed'
  BY <1>1, <1>2 DEF AddStep, AddLocks, Locks, AddAppends, AddFails
<1>3. ASSUME NEW t \in Threads, RemoveStep(t)
      PROVE  Undisturbed'
  <2>1. CASE (\E h \in Addrs : RemoveLocks(t, h)) \/ RemoveFails(t) \/ RemoveOpens(t)
    BY <1>1, <2>1 DEF RemoveLocks, Locks, RemoveFails, RemoveOpens
  <2>2. CASE CopyLine(t) \/ FindLine(t) \/ DropLine(t)
    BY <1>1, <2>2 DEF CopyLine, FindLine, DropLine
  <2>3. CASE Unlink(t) \/ Rename(t)
    BY <1>1, <2>3 DEF Unlink, Rename
  <2> QED
    BY <1>3, <2>1, <2>2, <2>3 DEF RemoveStep
<1>4. ASSUME NEW t \in Threads, Unlock(t)
      PROVE  Undisturbed'
  BY <1>1, <1>4 DEF Unlock
<1>5. ASSUME NEW t \in Threads, LogStep(t)
      PROVE  Undisturbed'
  <2>1. CASE Log(t)
    BY <2>1, EnvAssumption DEF Log, Arguments
  <2>2. CASE ReadKey(t)
    BY <2>2 DEF ReadKey
  <2>3. CASE ReadValue(t)
    <3>1. slips'[t] = {} => taken'[t] = EnvFile[at[t]].value
      BY <2>3 DEF ReadValue, NextToken
    <3> QED
      BY <2>3, <3>1 DEF ReadValue
  <2>4. CASE SetValue(t)
    <3>1. at[t] \in DOMAIN EnvFile /\ pc[t] = "set"
      BY <2>4, EnvAssumption DEF SetValue, Arguments
    <3>2. EnvFile[at[t]].key \in Keys /\ EnvFile[at[t]].value # Null
      BY <3>1, WantedType, TokenAssumption DEF Tokens
    <3>3. CASE slips[t] = {}
      <4>1. env' = [env EXCEPT ![EnvFile[at[t]].key] = EnvFile[at[t]].value]
        BY <2>4, <3>1, <3>2, <3>3 DEF SetValue
      <4>2. ASSUME NEW i \in DOMAIN EnvFile,
                   i = at[t] \/ env[EnvFile[i].key] = EnvFile[i].value
            PROVE  env'[EnvFile[i].key] = EnvFile[i].value
        BY <3>1, <4>1, <4>2, WantedType, EnvAssumption
      <4>3. DOMAIN EnvFile \subseteq Nat
        BY EnvAssumption
      <4>4. clean' = clean /\ pc' = [pc EXCEPT ![t] = "key"] /\ at' = [at EXCEPT ![t] = @ + 1]
            /\ taken' = [taken EXCEPT ![t] = Null] /\ slips' = [slips EXCEPT ![t] = {}]
        BY <2>4, <3>3 DEF SetValue
      <4>5. ASSUME NEW u \in Threads, clean'[u], pc'[u] \in {"key", "value", "set", "size"},
                   NEW i \in DOMAIN EnvFile, i < at'[u]
            PROVE  env'[EnvFile[i].key] = EnvFile[i].value
        <5>1. i = at[t] \/ i < at[u]
          BY <4>3, <4>4, <4>5
        <5>2. clean[u] /\ pc[u] \in {"key", "value", "set", "size"}
          BY <3>1, <4>4, <4>5
        <5> QED
          BY <4>2, <5>1, <5>2
      <4>6. ASSUME NEW u \in Threads
            PROVE  /\ pc'[u] = "set" /\ slips'[u] = {} => taken'[u] = EnvFile[at'[u]].value
                   /\ clean'[u] /\ pc'[u] = "size" => taken'[u] = Wanted[BufferKey]
        BY <4>4
      <4> QED
        BY <4>5, <4>6
    <3>4. CASE slips[t] # {}
      <4>1. clean' = NoLoad
        BY <2>4, <3>4 DEF SetValue
      <4> QED
        BY <2>4, <4>1 DEF SetValue, NoLoad
    <3> QED
      BY <3>3, <3>4
  <2>5. CASE ReadSize(t)
    <3>1. ASSUME clean[t] PROVE env[BufferKey] = Wanted[BufferKey]
      <4>1. PICK i \in DOMAIN EnvFile : EnvFile[i].key = BufferKey
        BY EnvAssumption
      <4>2. i < at[t]
        BY <2>5, EnvAssumption DEF ReadSize
      <4> QED
        BY <2>5, <3>1, <4>1, <4>2, WantedType DEF ReadSize
    <3> QED
      BY <2>5, <3>1 DEF ReadSize
  <2>6. CASE Configure(t)
    BY <2>6 DEF Configure
  <2> QED
    BY <1>5, <2>1, <2>2, <2>3, <2>4, <2>5, <2>6 DEF LogStep, ConfigStep
<1>6. CASE Die
  BY <1>6 DEF Die, Idle, NoLoad
<1>7. CASE Boot \/ (\E r \in Readers : ListStep(r)) \/ UNCHANGED vars
  BY <1>7 DEF Boot, ListStep, OpenList, OpenListFails, ReadLine, CloseList, vars
<1> QED
  BY <1>2, <1>3, <1>4, <1>5, <1>6, <1>7 DEF Next

(* A line of the machine stays in a copy only where strtok was disturbed. *)
LEMMA StaysRemoved ==
  ASSUME TypeOK, Exclusive, Arguments, Copies, RemovedWhole, [Next]_vars
  PROVE  RemovedWhole'
<1> USE DEF TypeOK, ConfigTypeOK, RemovedWhole, Slipped
<1>1. ASSUME NEW t \in Threads, UNCHANGED file,
             \A u \in Threads \ {t} :
               /\ pc'[u] = pc[u] /\ arg'[u] = arg[u]
               /\ kept'[u] = kept[u] /\ slips'[u] = slips[u],
             pc'[t] \in {"copy", "token"} =>
               \A l \in LinesOf(kept'[t]) : l.host = arg'[t] => \E i \in slips'[t] : l = file[i]
      PROVE  RemovedWhole'
  <2> SUFFICES ASSUME NEW u \in Threads, pc'[u] \in {"copy", "token"},
                      NEW l \in LinesOf(kept'[u]), l.host = arg'[u]
               PROVE  \E i \in slips'[u] : l = file[i]
    BY <1>1
  <2>1. CASE u = t
    BY <1>1, <2>1
  <2>2. CASE u # t
    <3>1. /\ pc[u] \in {"copy", "token"} /\ kept'[u] = kept[u]
          /\ arg'[u] = arg[u] /\ slips'[u] = slips[u]
      BY <1>1, <2>2
    <3>2. l \in LinesOf(kept[u]) /\ l.host = arg[u]
      BY <3>1
    <3>3. l \in Slipped(u)
      BY <3>1, <3>2
    <3> QED
      BY <3>1, <3>3
  <2> QED
    BY <2>1, <2>2
<1>2. ASSUME NEW t \in Threads, pc[t] \in Critical, NEW u \in Threads, u # t
      PROVE  pc[u] \notin {"copy", "token"}
  BY <1>2 DEF Exclusive, Critical
<1>3. ASSUME NEW t \in Threads, AddStep(t)
      PROVE  RemovedWhole'
  <2>1. CASE (\E l \in Lines : AddLocks(t, l)) \/ AddFails(t)
    BY <1>1, <2>1 DEF AddLocks, Locks, AddFails
  <2>2. CASE AddAppends(t)
    BY <1>2, <2>2 DEF AddAppends, Critical
  <2> QED
    BY <1>3, <2>1, <2>2 DEF AddStep
<1>4. ASSUME NEW t \in Threads, RemoveStep(t)
      PROVE  RemovedWhole'
  <2>1. CASE (\E h \in Addrs : RemoveLocks(t, h)) \/ RemoveFails(t)
    BY <1>1, <2>1 DEF RemoveLocks, Locks, RemoveFails
  <2>2. CASE RemoveOpens(t)
    <3>1. kept'[t] = <<>>
      BY <2>2 DEF RemoveOpens, Arguments
    <3>2. LinesOf(kept'[t]) = {}
      BY <3>1 DEF LinesOf
    <3> QED
      BY <1>1, <2>2, <3>2 DEF RemoveOpens
  <2>3. ASSUME at[t] <= Len(file), Keeps(t)
        PROVE  /\ LinesOf(kept'[t]) = LinesOf(kept[t]) \union {file[at[t]]}
               /\ \A u \in Threads \ {t} : kept'[u] = kept[u]
    <3>1. file[at[t]] \in Lines
      BY <2>3, ElementOfSeq
    <3>2. LinesOf(Append(kept[t], file[at[t]])) = LinesOf(kept[t]) \union {file[at[t]]}
      BY <3>1, AppendLines
    <3> QED
      BY <2>3, <3>2 DEF Keeps
  <2>4. CASE CopyLine(t)
    <3>1. pc[t] = "copy" /\ at[t] <= Len(file) /\ file[at[t]].host # arg[t] /\ Keeps(t)
      BY <2>4 DEF CopyLine
    <3>2. UNCHANGED <<pc, arg, slips, file>>
      BY <2>4 DEF CopyLine
    <3>3. \A l \in LinesOf(kept[t]) : l.host = arg[t] => l \in Slipped(t)
      BY <3>1
    <3>4. \A l \in LinesOf(kept'[t]) : l.host = arg[t] => l \in Slipped(t)
      BY <2>3, <3>1, <3>3
    <3>5. \A l \in LinesOf(kept'[t]) : l.host = arg'[t] => \E i \in slips'[t] : l = file[i]
      BY <3>2, <3>4
    <3>6. \A u \in Threads \ {t} : kept'[u] = kept[u]
      BY <2>3, <3>1
    <3> QED
      BY <1>1, <3>2, <3>5, <3>6
  <2>5. CASE FindLine(t)
    BY <1>1, <2>5 DEF FindLine
  <2>6. CASE DropLine(t)
    <3>1. at[t] <= Len(file) /\ pc[t] = "token"
      BY <2>6 DEF DropLine, Copies
    <3>2. file[at[t]] \in Lines
      BY <3>1, ElementOfSeq
    <3>3. file[at[t]].user # Null
      BY <3>2, TokenAssumption, FileAssumption DEF Lines, Tokens
    <3>4. place = t => kept' = kept
      BY <2>6, <3>3 DEF DropLine, NextToken
    <3>5. slips[t] \subseteq slips'[t] /\ (place # t => at[t] \in slips'[t])
      BY <2>6 DEF DropLine
    <3>6. kept' = kept \/ Keeps(t)
      BY <2>6 DEF DropLine
    <3>7. \A l \in LinesOf(kept[t]) : l.host = arg[t] => \E i \in slips'[t] : l = file[i]
      BY <3>1, <3>5
    <3>8. \A l \in LinesOf(kept'[t]) : l.host = arg[t] => \E i \in slips'[t] : l = file[i]
      BY <2>3, <3>1, <3>4, <3>5, <3>6, <3>7
    <3>9. \A u \in Threads \ {t} : kept'[u] = kept[u]
      BY <2>3, <3>1, <3>6
    <3> QED
      BY <1>1, <2>6, <3>8, <3>9 DEF DropLine
  <2>7. CASE Unlink(t) \/ Rename(t)
    BY <1>2, <2>7 DEF Unlink, Rename, Critical
  <2> QED
    BY <1>4, <2>1, <2>2, <2>4, <2>5, <2>6, <2>7 DEF RemoveStep
<1>5. ASSUME NEW t \in Threads, Unlock(t)
      PROVE  RemovedWhole'
  BY <1>1, <1>5 DEF Unlock
<1>6. ASSUME NEW t \in Threads, LogStep(t)
      PROVE  RemovedWhole'
  <2>1. pc'[t] \notin {"copy", "token"}
    BY <1>6 DEF LogStep, ConfigStep, Log, ReadKey, ReadValue, SetValue, ReadSize, Configure
  <2> QED
    BY <1>1, <1>6, <2>1
    DEF LogStep, ConfigStep, Log, ReadKey, ReadValue, SetValue, ReadSize, Configure
<1>7. CASE Die
  BY <1>7 DEF Die, Idle
<1>8. CASE Boot \/ (\E r \in Readers : ListStep(r)) \/ UNCHANGED vars
  <2>1. UNCHANGED <<pc, arg, kept, slips, file>>
    BY <1>8 DEF Boot, ListStep, OpenList, OpenListFails, ReadLine, CloseList, vars
  <2>2. \A t \in Threads : LinesOf(kept[t])' = LinesOf(kept[t])
    BY <2>1 DEF LinesOf
  <2> QED
    BY <2>1, <2>2
<1> QED
  BY <1>3, <1>4, <1>5, <1>6, <1>7, <1>8 DEF Next

(* A reader has read a part of what it has open, which lists all it has to. *)
LEMMA StayViews ==
  ASSUME TypeOK, Exclusive, Arguments, Copies, Views, [Next]_vars
  PROVE  Views'
<1> USE DEF TypeOK, Views
<1>1. ASSUME NEW t \in Threads, AddStep(t)
      PROVE  Views'
  <2>1. CASE (\E l \in Lines : AddLocks(t, l)) \/ AddFails(t)
    BY <1>1, <2>1 DEF AddLocks, Locks, AddFails
  <2>2. CASE AddAppends(t)
    <3>1. arg[t] \in Lines
      BY <2>2 DEF AddAppends, Arguments
    <3>2. ASSUME NEW r \in open
          PROVE  /\ LinesOf(view[r]) \subseteq LinesOf(view'[r])
                 /\ Len(view[r]) \in Nat /\ Len(view'[r]) \in Nat
                 /\ Len(view[r]) <= Len(view'[r])
                 /\ \A i \in 1..Len(view[r]) : view'[r][i] = view[r][i]
      BY <2>2, <3>1, AppendLines DEF AddAppends, AppendLine
    <3>3. ASSUME NEW r \in open
          PROVE  whole'[r] \subseteq whole[r]
      BY <2>2 DEF AddAppends, Remember
    <3>4. \A r \in current : view'[r] = file'
      BY <2>2 DEF AddAppends, AppendLine
    <3>5. ASSUME NEW r \in open
          PROVE  /\ whole'[r] \subseteq LinesOf(view'[r])
                 /\ Len(shown[r]) <= Len(view'[r])
                 /\ \A i \in 1..Len(shown[r]) : shown[r][i] = view'[r][i]
      <4>1. Len(shown[r]) \in Nat /\ Len(shown[r]) <= Len(view[r])
        OBVIOUS
      <4>2. \A i \in 1..Len(shown[r]) : i \in 1..Len(view[r]) /\ shown[r][i] = view[r][i]
        BY <4>1, <3>2
      <4>3. \A i \in 1..Len(shown[r]) : shown[r][i] = view'[r][i]
        BY <4>2, <3>2
      <4>4. Len(view[r]) \in Nat /\ Len(view'[r]) \in Nat /\ Len(view[r]) <= Len(view'[r])
        BY <3>2
      <4>5. whole'[r] \subseteq LinesOf(view'[r])
        BY <3>2, <3>3
      <4> QED
        BY <4>1, <4>3, <4>4, <4>5
    <3> QED
      BY <2>2, <3>4, <3>5 DEF AddAppends, AppendLine
  <2> QED
    BY <1>1, <2>1, <2>2 DEF AddStep
<1>2. ASSUME NEW t \in Threads, RemoveStep(t)
      PROVE  Views'
  <2>1. ASSUME NEW h \in Addrs, RemoveLocks(t, h)
        PROVE  Views'
    BY <2>1 DEF RemoveLocks, Locks
  <2>5. CASE RemoveFails(t) \/ RemoveOpens(t)
    BY <2>5 DEF RemoveFails, RemoveOpens
  <2>2. CASE CopyLine(t) \/ FindLine(t) \/ DropLine(t)
    <3>1. UNCHANGED <<present, file, readerVars>>
      BY <2>2 DEF CopyLine, FindLine, DropLine
    <3> QED
      BY <3>1
  <2>3. CASE Unlink(t)
    BY <2>3 DEF Unlink, UnlinkFile, Remember
  <2>4. CASE Rename(t)
    BY <2>4 DEF Rename, Copies
  <2> QED
    BY <1>2, <2>1, <2>2, <2>3, <2>4, <2>5 DEF RemoveStep
<1>3. ASSUME NEW t \in Threads, Unlock(t) \/ LogStep(t)
      PROVE  Views'
  BY <1>3 DEF Unlock, LogStep
<1>4. CASE Die
  BY <1>4 DEF Die, Remember
<1>5. CASE Boot \/ UNCHANGED vars
  BY <1>5 DEF Boot, vars
<1>6. ASSUME NEW r \in Readers, OpenList(r)
      PROVE  Views'
  <2>1. Listed = LinesOf(file)
    BY <1>6 DEF OpenList, Listed
  <2> QED
    BY <1>6, <2>1 DEF OpenList
<1>7. ASSUME NEW r \in Readers, ReadLine(r)
      PROVE  Views'
  BY <1>7 DEF ReadLine
<1>8. ASSUME NEW r \in Readers, CloseList(r)
      PROVE  Views'
  BY <1>8 DEF CloseList
<1>9. ASSUME NEW r \in Readers, OpenListFails(r)
      PROVE  Views'
  BY <1>9 DEF OpenListFails
<1> QED
  BY <1>1, <1>2, <1>3, <1>4, <1>5, <1>6, <1>7, <1>8, <1>9 DEF Next, ListStep

-----------------------------------------------------------------------------
(* The theorems. *)

(* The invariant holds of every behaviour. *)
LEMMA Invariant == Spec => []IInv
<1>1. Init => IInv
  <2> SUFFICES ASSUME Init PROVE IInv
    OBVIOUS
  <2>1. pc = Idle /\ at = FirstLine /\ slips = NoSlip /\ clean = NoLoad
    BY DEF Init, ConfigInit
  <2>2. Exclusive /\ Arguments /\ Copies /\ Undisturbed /\ RemovedWhole
    BY <2>1, EnvAssumption DEF Init, Idle, FirstLine, NoSlip, NoLoad, Critical, Removing,
         Exclusive, Arguments, Copies, Undisturbed, RemovedWhole
  <2>3. Views
    BY DEF Init, Views
  <2> QED
    BY <2>2, <2>3, InitType DEF IInv
<1>2. IInv /\ [Next]_vars => IInv'
  BY NextType, StaysExclusive, StayArguments, StayCopies, StaysUndisturbed,
     StaysRemoved, StayViews DEF IInv
<1> QED
  BY <1>1, <1>2, PTL DEF Spec

(***************************************************************************)
(* Every variable keeps its type, the settings taken from an interrupted   *)
(* load of .env and the lines of interrupted copies included.              *)
(***************************************************************************)
THEOREM FileTypes == Spec => []TypeOK
<1>1. IInv => TypeOK
  BY DEF IInv
<1> QED
  BY <1>1, Invariant, PTL

(***************************************************************************)
(* remove_session drops every line of its machine on which no other        *)
(* thread's strtok came between its own two calls, however often it was    *)
(* disturbed elsewhere.                                                    *)
(***************************************************************************)
THEOREM RemovesWhole == Spec => []RemovedWhole
<1>1. IInv => RemovedWhole
  BY DEF IInv
<1> QED
  BY <1>1, Invariant, PTL

(***************************************************************************)
(* A client that could open sessions.txt and reads it to its end, without  *)
(* the mutex, shows every login listed ever since it called fopen, however *)
(* often the file is appended to or replaced meanwhile.  The fopen itself  *)
(* may fail while logins are listed (ListingComplete, a run of its own).   *)
(***************************************************************************)
THEOREM ListsWhole == Spec => []ListingWhole
<1>1. IInv => ListingWhole
  <2> SUFFICES ASSUME IInv, NEW r \in open, Len(shown[r]) >= Len(view[r]), NEW l \in whole[r]
               PROVE  l \in LinesOf(shown[r])
    BY DEF ListingWhole
  <2>1. r \in Readers /\ shown[r] \in Seq(Lines) /\ view[r] \in Seq(Lines)
    BY DEF IInv, TypeOK
  <2>2. PICK i \in 1..Len(view[r]) : l = view[r][i]
    BY <2>1 DEF IInv, Views, LinesOf
  <2>3. i \in 1..Len(shown[r]) /\ shown[r][i] = l
    BY <2>1, <2>2 DEF IInv, Views
  <2> QED
    BY <2>1, <2>3 DEF LinesOf
<1> QED
  BY <1>1, Invariant, PTL

(***************************************************************************)
(* A load of .env leaves what the file says in the environment and in      *)
(* MAX_BUFFER, whatever was there before, if none of its own lines was     *)
(* split over another thread's strtok and no thread has put the token of   *)
(* such a line in the environment since it began (load_env, init_config).  *)
(***************************************************************************)
THEOREM LoadsRestore == Spec => LoadRestores
<1>1. IInv /\ [Next]_vars =>
        [\A t \in Threads :
           Configure(t) /\ clean[t] => env' = Wanted /\ bufferSize' = Wanted[BufferKey]]_vars
  <2> SUFFICES ASSUME IInv, NEW t \in Threads, Configure(t), clean[t]
               PROVE  env' = Wanted /\ bufferSize' = Wanted[BufferKey]
    OBVIOUS
  <2>1. \A i \in DOMAIN EnvFile : i < at[t]
    BY EnvAssumption DEF Configure, IInv, TypeOK, ConfigTypeOK, Arguments
  <2>2. \A i \in DOMAIN EnvFile : env[EnvFile[i].key] = Wanted[EnvFile[i].key]
    BY <2>1, WantedType DEF Configure, IInv, Undisturbed
  <2>3. \A k \in Keys : env[k] = Wanted[k]
    BY <2>2, EnvAssumption
  <2>4. env = Wanted
    BY <2>3, WantedType DEF IInv, TypeOK, ConfigTypeOK
  <2>5. taken[t] = Wanted[BufferKey]
    BY DEF Configure, IInv, Undisturbed
  <2> QED
    BY <2>4, <2>5 DEF Configure
<1> QED
  BY <1>1, Invariant, PTL DEF Spec, LoadRestores

(* Only the end of an add, the removal and the process change what is listed. *)
LEMMA ListedSteps ==
  ASSUME IInv, [Next]_vars
  PROVE  \/ UNCHANGED <<up, Listed>>
         \/ Die \/ Boot
         \/ \E t \in Threads : AddAppends(t) \/ Unlink(t)
<1> SUFFICES ASSUME ~Die, ~Boot, \A t \in Threads : ~AddAppends(t) /\ ~Unlink(t)
             PROVE  UNCHANGED <<up, Listed>>
  OBVIOUS
<1> USE DEF IInv, TypeOK
<1>1. CASE UNCHANGED <<up, present, file, kept, pc>>
  BY <1>1 DEF Listed, Renaming, LinesOf
<1>2. ASSUME NEW t \in Threads, UNCHANGED <<up, present, file>>,
             pc[t] # "rename", pc'[t] # "rename",
             \A u \in Threads \ {t} : pc'[u] = pc[u] /\ kept'[u] = kept[u]
      PROVE  UNCHANGED <<up, Listed>>
  <2> DEFINE replacing == CHOOSE u \in Threads : pc[u] = "rename"
  <2>1. \A u \in Threads : pc'[u] = "rename" <=> pc[u] = "rename"
    BY <1>2
  <2>2. replacing' = replacing
    BY <2>1
  <2>3. Renaming' <=> Renaming
    BY <2>1 DEF Renaming
  <2>4. Renaming => replacing \in Threads \ {t}
    BY <1>2 DEF Renaming
  <2>5. ASSUME Renaming PROVE LinesOf(kept[replacing])' = LinesOf(kept[replacing])
    <3> HIDE DEF replacing
    <3>1. kept'[replacing'] = kept[replacing]
      BY <1>2, <2>2, <2>4, <2>5
    <3> QED
      BY <3>1 DEF LinesOf
  <2>6. CASE present
    BY <1>2, <2>6 DEF Listed, LinesOf
  <2>7. CASE ~present /\ Renaming
    BY <1>2, <2>3, <2>5, <2>7 DEF Listed
  <2>8. CASE ~present /\ ~Renaming
    BY <1>2, <2>3, <2>8 DEF Listed
  <2> QED
    BY <2>6, <2>7, <2>8
<1>3. ASSUME NEW t \in Threads, Rename(t)
      PROVE  UNCHANGED <<up, Listed>>
  <2>1. \A u \in Threads : pc[u] = "rename" => u = t
    BY <1>3, EnvAssumption DEF Rename, Exclusive, Critical
  <2>2. ~present /\ Renaming /\ (CHOOSE u \in Threads : pc[u] = "rename") = t
    BY <1>3, <2>1 DEF Rename, Copies, Renaming
  <2> QED
    BY <1>3, <2>2 DEF Rename, Listed, LinesOf
<1>4. ASSUME NEW t \in Threads, AddStep(t) \/ RemoveStep(t), ~Rename(t)
      PROVE  UNCHANGED <<up, Listed>>
  BY <1>2, <1>4 DEF AddStep, RemoveStep, AddLocks, RemoveLocks, Locks, AddFails,
       RemoveFails, RemoveOpens, CopyLine, FindLine, DropLine, Keeps
<1>5. ASSUME NEW t \in Threads, Unlock(t)
      PROVE  UNCHANGED <<up, Listed>>
  BY <1>2, <1>5 DEF Unlock
<1>6. ASSUME NEW t \in Threads, LogStep(t)
      PROVE  UNCHANGED <<up, Listed>>
  BY <1>2, <1>6 DEF LogStep, ConfigStep, Log, ReadKey, ReadValue, SetValue, ReadSize, Configure
<1>7. ASSUME NEW r \in Readers, ListStep(r)
      PROVE  UNCHANGED <<up, Listed>>
  BY <1>1, <1>7 DEF ListStep, OpenList, OpenListFails, ReadLine, CloseList
<1> QED
  BY <1>1, <1>3, <1>4, <1>5, <1>6, <1>7 DEF Next, vars

(***************************************************************************)
(* SessionFile implements ActiveSessions: however the file operations of   *)
(* the threads interleave and wherever the process ends, remove_session    *)
(* loses no line of another machine, and lines of others are lost only     *)
(* when the process ends between remove and rename, all of them together.  *)
(***************************************************************************)
THEOREM FileKeepsSessions == Spec => KeepsSessions
<1>1. Init => Sessions!Init
  BY DEF Init, Sessions!Init, Listed, ConfigInit, Idle, Renaming
<1>2. IInv /\ [Next]_vars => [Sessions!Next]_Sessions!vars
  <2> SUFFICES ASSUME IInv, [Next]_vars
               PROVE  [Sessions!Next]_Sessions!vars
    OBVIOUS
  <2>1. CASE UNCHANGED <<up, Listed>>
    BY <2>1 DEF Sessions!vars
  <2>2. CASE Die
    <3>1. ~Renaming'
      BY <2>2 DEF Die, Renaming, Idle
    <3>2. Listed' = Listed \/ Listed' = {}
      BY <2>2, <3>1 DEF Die, Listed, LinesOf
    <3> QED
      BY <2>2, <3>2 DEF Die, Sessions!Die, Sessions!Next
  <2>3. CASE Boot
    <3>1. Listed' = Listed
      BY <2>3 DEF Boot, Listed, LinesOf, Renaming
    <3> QED
      BY <2>3, <3>1 DEF Boot, Sessions!Boot, Sessions!Next
  <2>4. ASSUME NEW t \in Threads, AddAppends(t)
        PROVE  Sessions!Next
    <3>1. arg[t] \in Lines /\ up
      BY <2>4 DEF AddAppends, IInv, Arguments, Exclusive, TypeOK
    <3>2. Listed = LinesOf(file)
      BY <2>4, EnvAssumption
      DEF AddAppends, IInv, TypeOK, Exclusive, Critical, Copies, Listed, Renaming, LinesOf
    <3>3. Listed' = LinesOf(file) \union {arg[t]}
      <4>1. LinesOf(Append(file, arg[t])) = LinesOf(file) \union {arg[t]}
        BY <3>1, AppendLines DEF IInv, TypeOK
      <4> QED
        BY <2>4, <4>1 DEF AddAppends, AppendLine, Listed, LinesOf
    <3> QED
      BY <2>4, <3>1, <3>2, <3>3 DEF AddAppends, Sessions!Add, Sessions!Next, Sessions!Lines, Lines
  <2>5. ASSUME NEW t \in Threads, Unlink(t)
        PROVE  Sessions!Next
    <3>1. arg[t] \in Addrs /\ up /\ Copied(t)
      BY <2>5 DEF Unlink, IInv, Arguments, Removing, Exclusive, Copies, TypeOK
    <3>2. Listed = LinesOf(file)
      BY <3>1 DEF Listed, Copied
    <3>3. \A u \in Threads : pc'[u] = "rename" <=> u = t
      BY <2>5, EnvAssumption DEF Unlink, IInv, TypeOK, Exclusive, Critical
    <3>4. Listed' = LinesOf(kept[t])
      BY <2>5, <3>3 DEF Unlink, UnlinkFile, Listed, Renaming, LinesOf
    <3>5. ASSUME NEW l \in LinesOf(file), l.host # arg[t] PROVE l \in LinesOf(kept[t])
      <4>1. PICK i \in DOMAIN file : l = file[i]
        BY <3>5 DEF LinesOf
      <4>2. i \in 1..Len(file) /\ Len(file) \in Nat
        BY DEF IInv, TypeOK
      <4>3. i \in 1..(at[t] - 1)
        BY <2>5, <4>2 DEF Unlink, IInv, TypeOK, ConfigTypeOK
      <4> QED
        BY <3>1, <3>5, <4>1, <4>3 DEF Copied
    <3> DEFINE own == {l \in Listed : l.host = arg[t]}
               left == {l \in LinesOf(kept[t]) : l.host = arg[t]}
    <3>6. left \in SUBSET own /\ Listed' = (Listed \ own) \union left
      BY <3>1, <3>2, <3>4, <3>5 DEF Copied
    <3>7. Sessions!End(arg[t])
      BY <2>5, <3>1, <3>6 DEF Unlink, Sessions!End, Sessions!Own
    <3> QED
      BY <3>1, <3>7 DEF Sessions!Next
  <2> QED
    BY <2>1, <2>2, <2>3, <2>4, <2>5, ListedSteps
<1> QED
  BY <1>1, <1>2, Invariant, PTL DEF Spec, KeepsSessions, Sessions!Spec
=============================================================================
