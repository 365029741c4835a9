---------------------------- MODULE ScriptEngine ----------------------------
(***************************************************************************)
(* The pool of Lua states of one script engine (script/engine.go) under    *)
(* concurrent calls.  One timeout covers the wait for a state and the run  *)
(* of the script; it may expire at any point of either.  The engine's own  *)
(* function is defined: NewProcessor refuses a script without it.          *)
(***************************************************************************)
EXTENDS Naturals, Sequences, FiniteSets

CONSTANTS
    Callers,        \* goroutines that call: handlers, or queue workers
    States,         \* the Lua states, pool_size of them
    NoState,        \* a caller that holds none
    NoContext       \* a state outside a call

ASSUME StatesAssumption == IsFiniteSet(States) /\ States # {} /\ NoState \notin States
ASSUME ContextAssumption == NoContext \notin Callers

VARIABLES
    pool,           \* the channel of free states
    call,           \* per caller: [pc, state, expired]
    context         \* per state, the call whose context it runs under

engineVars == <<pool, call, context>>

NoCall == [pc |-> "idle", state |-> NoState, expired |-> FALSE]

\* NewEngine: every state has run the script's top level once.
EngineInit ==
    /\ pool \in {s \in [1..Cardinality(States) -> States] : \A i, j \in DOMAIN s : s[i] = s[j] => i = j}
    /\ call = [c \in Callers |-> NoCall]
    /\ context = [s \in States |-> NoContext]

-----------------------------------------------------------------------------
At(c, pc) == call[c].pc = pc
Goto(c, pc) == call' = [call EXCEPT ![c].pc = pc]

Begin(c) ==
    /\ At(c, "idle")
    /\ Goto(c, "waiting")
    /\ UNCHANGED <<pool, context>>

\* Mutant of Expire: the context bounds the script only, not the wait.
Expire_WhenRunning(c) ==
    /\ At(c, "running") /\ ~call[c].expired
    /\ call' = [call EXCEPT ![c].expired = TRUE]
    /\ UNCHANGED <<pool, context>>

\* The timer of context.WithTimeout.
Expire(c) ==
    /\ ~At(c, "idle") /\ ~call[c].expired
    /\ call' = [call EXCEPT ![c].expired = TRUE]
    /\ UNCHANGED <<pool, context>>

\* select: a state is free, even when the context expired as well...
Acquire(c) ==
    /\ At(c, "waiting") /\ pool # << >>
    /\ call' = [call EXCEPT ![c].pc = "holding", ![c].state = Head(pool)]
    /\ pool' = Tail(pool)
    /\ UNCHANGED context

\* Mutant of GiveUp: a function literal deferred before the select returns
\* whatever state the call holds.
GiveUp_DefersEarly(c) ==
    /\ At(c, "waiting") /\ call[c].expired
    /\ Goto(c, "returning")
    /\ UNCHANGED <<pool, context>>

\* ... or the context expired.
GiveUp(c) ==
    /\ At(c, "waiting") /\ call[c].expired
    /\ call' = [call EXCEPT ![c] = NoCall]
    /\ UNCHANGED <<pool, context>>

SetContext(c) ==
    /\ At(c, "holding")
    /\ context' = [context EXCEPT ![call[c].state] = c]
    /\ Goto(c, "running")
    /\ UNCHANGED pool

\* Mutant of ScriptEnds: the clean-up is not deferred, so an error skips it.
ScriptEnds_ErrorLeaks(c) ==
    /\ At(c, "running")
    /\ \/ Goto(c, "leaving")
       \/ call' = [call EXCEPT ![c] = NoCall]
    /\ UNCHANGED <<pool, context>>

\* The script returns, raises an error, or is stopped by its context; all
\* three leave through the deferred function.
ScriptEnds(c) ==
    /\ At(c, "running")
    /\ Goto(c, "leaving")
    /\ UNCHANGED <<pool, context>>

\* Mutant of RemoveContext: the state goes back with the context of its last call.
RemoveContext_Forgotten(c) ==
    /\ At(c, "leaving")
    /\ Goto(c, "returning")
    /\ UNCHANGED <<pool, context>>

RemoveContext(c) ==
    /\ At(c, "leaving")
    /\ context' = [context EXCEPT ![call[c].state] = NoContext]
    /\ Goto(c, "returning")
    /\ UNCHANGED pool

\* The send would block on a full channel.
PutBack(c) ==
    /\ At(c, "returning") /\ Len(pool) < Cardinality(States)
    /\ pool' = Append(pool, call[c].state)
    /\ call' = [call EXCEPT ![c] = NoCall]
    /\ UNCHANGED context

EngineNext ==
    \E c \in Callers :
        \/ Begin(c) \/ Expire(c) \/ Acquire(c) \/ GiveUp(c)
        \/ SetContext(c) \/ ScriptEnds(c) \/ RemoveContext(c) \/ PutBack(c)

EngineSpec == EngineInit /\ [][EngineNext]_engineVars

\* Timers fire.  A script may run until then, not longer: the interpreter tests
\* the context before every instruction and the http and redis functions pass
\* it on.  Nobody has to call.
EngineFairness ==
    \A c \in Callers :
        /\ WF_engineVars(Expire(c))
        /\ WF_engineVars(GiveUp(c) \/ SetContext(c) \/ RemoveContext(c) \/ PutBack(c))
        /\ WF_engineVars(call[c].expired /\ ScriptEnds(c))

-----------------------------------------------------------------------------
Holding(c) == call[c].pc \in {"holding", "running", "leaving", "returning"}

EngineTypeOK ==
    /\ pool \in Seq(States)
    /\ call \in [Callers -> [pc : {"idle", "waiting", "holding", "running", "leaving", "returning"},
                             state : States \cup {NoState}, expired : BOOLEAN]]
    /\ context \in [States -> Callers \cup {NoContext}]

\* script/leak_test.go:45 "no state is lost and none doubled": every state is
\* in the pool once or held by one call, whatever way earlier calls ended
\* (engine.go:160-170).
InPool(s) == \E i \in 1..Len(pool) : pool[i] = s

StatesConserved ==
    /\ \A i, j \in 1..Len(pool) : pool[i] = pool[j] => i = j
    /\ \A c \in Callers : Holding(c) <=> call[c].state # NoState
    /\ \A c, d \in Callers : Holding(c) /\ call[c].state = call[d].state => c = d
    /\ \A s \in States : InPool(s) <=> \A c \in Callers : call[c].state # s

\* A script runs under the context of its own call, and a free state, or one
\* about to be freed, has none: no request inherits the deadline of the one
\* before it (engine.go:167-171).
OwnContext ==
    /\ \A s \in States : InPool(s) => context[s] = NoContext
    /\ \A c \in Callers :
          /\ At(c, "running") => context[call[c].state] = c
          /\ At(c, "returning") => context[call[c].state] = NoContext

\* The send that returns a state finds room: a call that is through never
\* blocks its caller (engine.go:169).
ReturnNeverBlocks ==
    \A c \in Callers : At(c, "returning") => Len(pool) < Cardinality(States)

\* The pool holds every state that no call holds, bare of earlier calls, so that
\* it takes each of them back (engine.go:160-171).
EngineInv == EngineTypeOK /\ StatesConserved /\ OwnContext /\ ReturnNeverBlocks

\* Every call returns, however busy the pool and whatever the script does: the
\* NAS gets its answer or its silence in bounded time (engine.go:157-166).
EveryCallReturns ==
    \A c \in Callers : At(c, "waiting") ~> At(c, "idle")
=============================================================================
