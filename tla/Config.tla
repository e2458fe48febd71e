------------------------------- MODULE Config -------------------------------
(***************************************************************************)
(* How the server's threads read their configuration.  logger calls        *)
(* init_config, so every thread loads .env again with every line it logs:  *)
(* it splits each line by two calls of strtok, sets the environment, and   *)
(* copies MAX_BUFFER, the size of every receive buffer, to a global.       *)
(* strtok keeps its place in one static pointer for the whole process and  *)
(* no lock is held, so a thread's second call may be given text that       *)
(* belongs to another thread; and what it was given it may put in the      *)
(* environment much later, after other threads have loaded the whole file. *)
(***************************************************************************)
EXTENDS Naturals, Sequences

CONSTANTS
  Threads,   \* the threads of the server, the accept loop's included
  Keys,      \* the keys of .env
  EnvFile,   \* the lines of .env, each a key and a value
  BufferKey, \* the key MAX_BUFFER
  Words,     \* other text strtok may come upon: names in session lines, fragments
  Null,      \* strtok finds no token
  NoOne

Values == {EnvFile[i].value : i \in DOMAIN EnvFile}

Tokens == Values \union Words

ASSUME EnvAssumption ==
  /\ EnvFile \in Seq([key : Keys, value : Values])
  /\ \A k \in Keys : \E i \in DOMAIN EnvFile : EnvFile[i].key = k
  /\ \A i, j \in DOMAIN EnvFile : EnvFile[i].key = EnvFile[j].key => i = j
  /\ BufferKey \in Keys
  /\ NoOne \notin Threads

ASSUME TokenAssumption ==
  Null \notin Tokens

VARIABLES
  pc,        \* where each thread is
  at,        \* the line of the file it reads, .env or sessions.txt
  place,     \* the thread between whose two calls of strtok nobody has called it, if any
  taken,     \* the token or the setting a thread has just been given
  env,       \* the environment of the process
  bufferSize,\* the global MAX_BUFFER, as text
  slips,     \* history: the lines on which another strtok came between its own two
  clean      \* history: it loads .env, and nobody has set the token of such a line since

configVars == <<pc, at, place, taken, env, bufferSize, slips, clean>>

(* What .env says. *)
Wanted == [k \in Keys |-> LET i == CHOOSE j \in DOMAIN EnvFile : EnvFile[j].key = k
                          IN EnvFile[i].value]

-----------------------------------------------------------------------------
Idle == [t \in Threads |-> "idle"]
FirstLine == [t \in Threads |-> 1]
NoToken == [t \in Threads |-> Null]
NoSlip == [t \in Threads |-> {}]
NoLoad == [t \in Threads |-> FALSE]

(* main loads .env before there is any other thread. *)
ConfigInit ==
  /\ pc = Idle /\ at = FirstLine
  /\ taken = NoToken /\ slips = NoSlip /\ clean = NoLoad
  /\ place = NoOne
  /\ env = Wanted /\ bufferSize = Wanted[BufferKey]

Goes(t, where) == pc' = [pc EXCEPT ![t] = where]
NextLine(t) == at' = [at EXCEPT ![t] = @ + 1]

(* Thread t starts a job, and ends it. *)
Begins(t, where) ==
  /\ pc[t] = "idle"
  /\ Goes(t, where)

Ends(t) ==
  /\ Goes(t, "idle")
  /\ at' = [at EXCEPT ![t] = 1]
  /\ slips' = [slips EXCEPT ![t] = {}]
  /\ clean' = [clean EXCEPT ![t] = FALSE]

(* strtok(line, ...), which t is to follow by strtok(NULL, ...) or is not. *)
Splits(t) == place' = t /\ UNCHANGED slips
SplitsOnce == place' = NoOne /\ UNCHANGED slips

(* strtok(NULL, ...): it comes to the end of that text, or of another's. *)
SplitsOn(t) ==
  /\ place' = NoOne
  /\ slips' = IF place = t THEN slips ELSE [slips EXCEPT ![t] = @ \union {at[t]}]

(***************************************************************************)
(* What strtok(NULL) may return to t, own being the next token of its own  *)
(* text: nothing or any other text in use if another thread has called     *)
(* strtok since, or if that thread's buffer was reused in the meantime.    *)
(***************************************************************************)
NextToken(t, own) == IF place = t THEN {own} ELSE {own, Null} \union Tokens

-----------------------------------------------------------------------------
(* logger, init_config, load_env. *)

Log(t) ==
  /\ Begins(t, "key")
  /\ clean' = [clean EXCEPT ![t] = TRUE]
  /\ UNCHANGED <<at, place, taken, env, bufferSize, slips>>

(* key = strtok(line, "=") *)
ReadKey(t) ==
  /\ pc[t] = "key" /\ at[t] <= Len(EnvFile)
  /\ Splits(t)
  /\ Goes(t, "value")
  /\ UNCHANGED <<at, taken, env, bufferSize, clean>>

(* value = strtok(NULL, "=") *)
ReadValue(t) ==
  /\ pc[t] = "value"
  /\ \E value \in NextToken(t, EnvFile[at[t]].value) : taken' = [taken EXCEPT ![t] = value]
  /\ SplitsOn(t)
  /\ Goes(t, "set")
  /\ UNCHANGED <<at, env, bufferSize, clean>>

(* Mutant: setenv whether or not there is a value. *)
SetValueUnchecked(t) ==
  /\ pc[t] = "set"
  /\ env' = [env EXCEPT ![EnvFile[at[t]].key] = taken[t]]
  /\ clean' = IF slips[t] = {} THEN clean ELSE NoLoad
  /\ taken' = [taken EXCEPT ![t] = Null] /\ slips' = [slips EXCEPT ![t] = {}]
  /\ Goes(t, "key") /\ NextLine(t)
  /\ UNCHANGED <<place, bufferSize>>

(* if (key && value) setenv(key, value, 1) *)
SetValue(t) ==
  /\ pc[t] = "set"
  /\ env' = IF taken[t] = Null THEN env ELSE [env EXCEPT ![EnvFile[at[t]].key] = taken[t]]
  /\ clean' = IF slips[t] = {} THEN clean ELSE NoLoad
  /\ taken' = [taken EXCEPT ![t] = Null] /\ slips' = [slips EXCEPT ![t] = {}]
  /\ Goes(t, "key") /\ NextLine(t)
  /\ UNCHANGED <<place, bufferSize>>

(* Mutant: the settings may be read before the last line is loaded. *)
ReadSizeEarly(t) ==
  /\ pc[t] = "key" /\ at[t] >= Len(EnvFile)
  /\ taken' = [taken EXCEPT ![t] = env[BufferKey]]
  /\ Goes(t, "size")
  /\ UNCHANGED <<at, place, env, bufferSize, slips, clean>>

(* max_buffer_str = getenv("MAX_BUFFER"): a later setenv leaves this text alone. *)
ReadSize(t) ==
  /\ pc[t] = "key" /\ at[t] > Len(EnvFile)
  /\ taken' = [taken EXCEPT ![t] = env[BufferKey]]
  /\ Goes(t, "size")
  /\ UNCHANGED <<at, place, env, bufferSize, slips, clean>>

(* MAX_BUFFER = atoi(max_buffer_str) *)
Configure(t) ==
  /\ pc[t] = "size"
  /\ bufferSize' = taken[t]
  /\ taken' = [taken EXCEPT ![t] = Null]
  /\ Ends(t)
  /\ UNCHANGED <<place, env>>

ConfigStep(t) ==
  Log(t) \/ ReadKey(t) \/ ReadValue(t) \/ SetValue(t) \/ ReadSize(t) \/ Configure(t)

-----------------------------------------------------------------------------
ConfigTypeOK ==
  /\ at \in [Threads -> Nat \ {0}]
  /\ place \in Threads \union {NoOne}
  /\ taken \in [Threads -> Tokens \union {Null}]
  /\ env \in [Keys -> Tokens]
  /\ bufferSize \in Tokens
  /\ slips \in [Threads -> SUBSET Nat]
  /\ clean \in [Threads -> BOOLEAN]
=============================================================================
