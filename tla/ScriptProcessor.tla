-------------------------- MODULE ScriptProcessor --------------------------
(***************************************************************************)
(* The accounting or post-auth phase of script/processor.go: the handlers  *)
(* fill the queue, its workers run the phase's script on an engine of      *)
(* their own, one call for each event.  There is one worker per Lua state. *)
(***************************************************************************)
EXTENDS EventQueue, ScriptEngine

ASSUME WorkersAssumption ==
    Workers \subseteq Callers /\ IsFiniteSet(Workers) /\ Cardinality(Workers) = Cardinality(States)

phaseVars == <<queueVars, engineVars>>

PhaseInit == QueueInit /\ EngineInit /\ addresses = 1

\* for ev := range queue { engine.PostAuth(ev) }
Work(w) == Take(w) /\ Begin(w)

\* The call has returned, its error is logged, the loop goes on.
Done(w) == At(w, "idle") /\ Post(w) /\ UNCHANGED engineVars

InCall(w) ==
    \/ Expire(w) \/ Acquire(w) \/ GiveUp(w)
    \/ SetContext(w) \/ ScriptEnds(w) \/ RemoveContext(w) \/ PutBack(w)

PhaseNext ==
    \/ \E e \in Events : Send(e) /\ UNCHANGED engineVars
    \/ \E w \in Workers : Work(w) \/ Done(w) \/ (InCall(w) /\ UNCHANGED queueVars)

PhaseSpec == PhaseInit /\ [][PhaseNext]_phaseVars

PhaseFairness == EngineFairness /\ \A w \in Workers : WF_phaseVars(Work(w) \/ Done(w))

-----------------------------------------------------------------------------
\* A burst of events does not make scripts time out before they have begun: a
\* worker with an event finds a free state at once, whatever happened to the
\* calls before (processor.go:76-78, 92-94; engine.go:160-170).
WorkersFindState ==
    \A w \in Workers : worker[w] # Idle /\ At(w, "waiting") => pool # << >>
=============================================================================
