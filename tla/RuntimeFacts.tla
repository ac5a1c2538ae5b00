---------------------------- MODULE RuntimeFacts -----------------------------
(***************************************************************************)
(* One service seen through its two stores: the status plane               *)
(* (DaemonResources::status_plane) and the runtime facts                   *)
(* (core/runtime_facts.rs).  No lock covers both, so each write here is a  *)
(* step of its own, in the order of the code: the supervisor of            *)
(* runner/supervisor.rs, the wave of runner/wave.rs, the lifecycle calls   *)
(* of context/api.rs made by the body and by a spawn_with_context helper   *)
(* that may outlive its generation, and a reader of                        *)
(* ServiceDaemonHandle::runtime_readiness.                                 *)
(*                                                                         *)
(* A status is <<name, message>>; the message of Recovering is the number  *)
(* of the generation that failed.  Times are abstracted to "set or not".   *)
(***************************************************************************)
EXTENDS Integers

CONSTANTS
  MaxServiceGens,   \* bound: generations the supervisor starts
  MaxCalls          \* bound: lifecycle calls that write something

ASSUME FactsAssumption == {MaxServiceGens, MaxCalls} \subseteq Nat

VARIABLES
  plane,     \* the status plane's entry, or Unset
  facts,     \* ServiceRuntimeState
  sup,       \* the supervisor's next write
  pending,   \* the status the supervisor is about to write
  again,     \* the restart decision of the last outcome
  gens,      \* the supervisor's generation counter
  stopping,  \* the service's cancellation token
  wave,      \* the shutdown wave's next write
  call,      \* per task: its lifecycle call in progress
  flag,      \* per generation: is_handshake_done
  owner,     \* per task: the generation whose identity it carries, 0 for none
  calls,     \* writing calls made so far
  earned,    \* ghost: some lifecycle call has moved the plane since the last start
  stale,     \* ghost: a call of an earlier generation's helper has written
  failed,    \* ghost: the newest generation whose failure is in the facts
  reader     \* the reader: where it is, what it read and what it must show

rvars == <<plane, facts, sup, pending, again, gens, stopping, wave, call, flag, owner,
           calls, earned, stale, failed, reader>>
supvars == <<sup, pending, again, gens>>
taskvars == <<call, flag, owner, calls>>
ghosts == <<earned, stale, failed>>

Tasks == {"body", "helper"}
Gens == 1 .. MaxServiceGens
St(name) == <<name, 0>>
Unset == St("Unset")
StartupNames == {"Initializing", "Restoring", "Recovering"}
NoCall == [op |-> "none", at |-> "idle", next |-> Unset]

RInit ==
  /\ plane = Unset
  /\ facts = [gen |-> 0, restarts |-> 0, error |-> 0, backoff |-> FALSE,
              healthy |-> FALSE, stopped |-> FALSE]
  /\ sup = "starting" /\ pending = Unset /\ again = "immediate" /\ gens = 0
  /\ stopping = FALSE /\ wave = "idle"
  /\ call = [t \in Tasks |-> NoCall] /\ flag = [g \in Gens |-> FALSE]
  /\ owner = [t \in Tasks |-> 0] /\ calls = 0
  /\ earned = FALSE /\ stale = FALSE /\ failed = 0
  /\ reader = [at |-> "idle", status |-> Unset, floor |-> 0, error |-> 0]

-----------------------------------------------------------------------------
(* The facts store                                                         *)

\* Mutant of StatusFacts: Initializing leaves healthy_since.
StatusFactsKeepsHealthy(f, st) ==
  LET n == st[1] IN
  [f EXCEPT !.healthy = n = "Healthy" \/ (@ /\ n = "Initializing"),
            !.error = IF n = "Recovering" THEN st[2] ELSE @,
            !.stopped = @ \/ n \in {"Recovering", "Terminated", "ShuttingDown"},
            !.backoff = @ /\ n \notin {"Healthy", "Terminated", "Initializing", "Restoring"}]

\* record_status_facts
StatusFacts(f, st) ==
  LET n == st[1] IN
  [f EXCEPT !.healthy = n = "Healthy",
            !.error = IF n = "Recovering" THEN st[2] ELSE @,
            !.stopped = @ \/ n \in {"Recovering", "Terminated", "ShuttingDown"},
            !.backoff = @ /\ n \notin {"Healthy", "Terminated", "Initializing", "Restoring"}]

\* record_service_started
StartedFacts(f, g, st) ==
  StatusFacts([f EXCEPT !.gen = g, !.backoff = FALSE, !.healthy = FALSE], st)

\* record_service_restart
RestartFacts(f, delayed) == [f EXCEPT !.restarts = @ + 1, !.backoff = delayed]

-----------------------------------------------------------------------------
(* The supervisor                                                          *)

\* determine_start_status
StartStatus ==
  IF plane = Unset THEN St("Initializing")
  ELSE IF plane[1] \in {"Initializing", "Recovering"} THEN plane ELSE St("Restoring")

\* on_starting up to record_service_started.
Starting ==
  /\ sup = "starting"
  /\ \/ /\ stopping
        /\ sup' = "termPlane" /\ UNCHANGED <<pending, gens>>
     \/ /\ ~stopping /\ gens < MaxServiceGens
        /\ pending' = StartStatus
        /\ gens' = gens + 1 /\ sup' = "startFacts"
  /\ UNCHANGED <<plane, facts, again, stopping, wave, taskvars, ghosts, reader>>

StartFacts ==
  /\ sup = "startFacts"
  /\ facts' = StartedFacts(facts, gens, pending)
  /\ sup' = "startPlane"
  /\ UNCHANGED <<plane, pending, again, gens, stopping, wave, taskvars, ghosts, reader>>

\* Mutant of StartPlane: the new generation inherits the handshake flag.
StartPlaneInherits ==
  /\ sup = "startPlane"
  /\ plane' = pending /\ earned' = FALSE
  /\ sup' = "running"
  /\ owner' = [owner EXCEPT !["body"] = gens]
  /\ flag' = [flag EXCEPT ![gens] = gens > 1 /\ flag[gens - 1]]
  /\ UNCHANGED <<facts, pending, again, gens, stopping, wave, call, calls, stale, failed,
                 reader>>

\* on_starting's insert, and the body begins with a new ServiceIdentity.
StartPlane ==
  /\ sup = "startPlane"
  /\ plane' = pending /\ earned' = FALSE
  /\ sup' = "running"
  /\ owner' = [owner EXCEPT !["body"] = gens]
  /\ UNCHANGED <<facts, pending, again, gens, stopping, wave, call, flag, calls, stale,
                 failed, reader>>

\* The generation's body ends: cleanly (reloaded or not), with a recoverable
\* failure, or with one that forbids a restart.
BodyEnds ==
  /\ sup = "running" /\ call["body"] = NoCall
  /\ owner' = [owner EXCEPT !["body"] = 0]
  /\ \/ /\ stopping
        /\ sup' = "termPlane" /\ UNCHANGED <<pending, again>>
     \/ /\ ~stopping /\ sup' = "outPlane"
        /\ \/ pending' \in {St("Restoring"), St("Initializing")} /\ again' = "immediate"
           \/ pending' = <<"Recovering", gens>> /\ again' = "backoff"
     \/ /\ ~stopping /\ sup' = "fatalFacts"
        /\ pending' = St("Terminated") /\ UNCHANGED again
  /\ UNCHANGED <<plane, facts, gens, stopping, wave, call, flag, calls, ghosts, reader>>

\* on_outcome with a restart: the plane, then the facts.
OutcomeWrites ==
  /\ \/ /\ sup = "outPlane" /\ sup' = "outFacts"
        /\ plane' = pending /\ UNCHANGED <<facts, failed>>
     \/ /\ sup = "outFacts" /\ sup' = "restart"
        /\ facts' = StatusFacts(facts, pending)
        /\ failed' = IF pending[1] = "Recovering" THEN pending[2] ELSE failed
        /\ UNCHANGED plane
  /\ UNCHANGED <<pending, again, gens, stopping, wave, taskvars, earned, stale, reader>>

\* on_outcome without a restart: the facts, then terminate().
FatalFacts ==
  /\ sup = "fatalFacts"
  /\ facts' = StatusFacts(facts, pending)
  /\ sup' = "termPlane"
  /\ UNCHANGED <<plane, pending, again, gens, stopping, wave, taskvars, ghosts, reader>>

\* wait_for_restart up to the select!.
RestartRecorded ==
  /\ sup = "restart"
  /\ facts' = RestartFacts(facts, again = "backoff")
  /\ sup' = IF again = "backoff" THEN "delay" ELSE "starting"
  /\ UNCHANGED <<plane, pending, again, gens, stopping, wave, taskvars, ghosts, reader>>

\* The delay ends by itself or by a reload signal, or by the shutdown.
DelayEnds ==
  /\ sup = "delay"
  /\ \/ sup' = "starting"
     \/ stopping /\ sup' = "termPlane"
  /\ UNCHANGED <<plane, facts, pending, again, gens, stopping, wave, taskvars, ghosts, reader>>

\* terminate(), and the shutdown branch of wait_for_restart.
TerminatePlane ==
  /\ sup = "termPlane"
  /\ plane' = St("Terminated")
  /\ sup' = "termFacts"
  /\ UNCHANGED <<facts, pending, again, gens, stopping, wave, taskvars, ghosts, reader>>

TerminateFacts ==
  /\ sup = "termFacts"
  /\ facts' = StatusFacts(facts, St("Terminated"))
  /\ sup' = "exited"
  /\ UNCHANGED <<plane, pending, again, gens, stopping, wave, taskvars, ghosts, reader>>

-----------------------------------------------------------------------------
(* The shutdown wave: cancel, plane, facts, join, plane                    *)

WaveCancels ==
  /\ wave = "idle"
  /\ stopping' = TRUE /\ wave' = "plane"
  /\ UNCHANGED <<plane, facts, supvars, taskvars, ghosts, reader>>

WavePlane ==
  /\ wave = "plane"
  /\ plane' = St("ShuttingDown") /\ wave' = "facts"
  /\ UNCHANGED <<facts, supvars, stopping, taskvars, ghosts, reader>>

WaveFacts ==
  /\ wave = "facts"
  /\ facts' = StatusFacts(facts, St("ShuttingDown")) /\ wave' = "over"
  /\ UNCHANGED <<plane, supvars, stopping, taskvars, ghosts, reader>>

\* The supervisor has ended, or its body has not within the grace period and the
\* supervisor is aborted; the facts are not told.
WaveJoins ==
  /\ wave = "over" /\ wave' = "insert"
  /\ \/ sup = "exited" /\ UNCHANGED sup
     \/ sup = "running" /\ sup' = "aborted"
  /\ UNCHANGED <<plane, facts, pending, again, gens, stopping, taskvars, ghosts, reader>>

WaveTerminates ==
  /\ wave = "insert" /\ wave' = "done"
  /\ plane' = St("Terminated")
  /\ UNCHANGED <<facts, supvars, stopping, taskvars, ghosts, reader>>

\* The body of an aborted supervisor is dropped at its next await.
BodyDropped ==
  /\ sup = "aborted" /\ owner["body"] # 0 /\ call["body"] = NoCall
  /\ owner' = [owner EXCEPT !["body"] = 0]
  /\ UNCHANGED <<plane, facts, supvars, stopping, wave, call, flag, calls, ghosts, reader>>

-----------------------------------------------------------------------------
(* Lifecycle calls                                                         *)

\* spawn_with_context: the helper carries a clone of the body's identity.
SpawnHelper ==
  /\ owner["body"] # 0 /\ call["body"] = NoCall /\ owner["helper"] = 0
  /\ owner' = [owner EXCEPT !["helper"] = owner["body"]]
  /\ UNCHANGED <<plane, facts, supvars, stopping, wave, call, flag, calls, ghosts, reader>>

HelperEnds ==
  /\ owner["helper"] # 0 /\ call["helper"] = NoCall
  /\ owner' = [owner EXCEPT !["helper"] = 0]
  /\ UNCHANGED <<plane, facts, supvars, stopping, wave, call, flag, calls, ghosts, reader>>

\* done() reads the plane and decides; nothing to do for Healthy and Terminated.
DoneReads(t) ==
  /\ owner[t] # 0 /\ call[t] = NoCall /\ calls < MaxCalls
  /\ plane[1] \notin {"Healthy", "Terminated"}
  /\ calls' = calls + 1
  /\ call' = [call EXCEPT ![t] =
       [op |-> "done", at |-> "insert",
        next |-> IF plane[1] \in {"NeedReload", "ShuttingDown"} THEN St("Terminated")
                 ELSE St("Healthy")]]
  /\ UNCHANGED <<plane, facts, supvars, stopping, wave, flag, owner, ghosts, reader>>

\* implicit_handshake() finds the flag clear and reads the plane.
HandshakeReads(t) ==
  /\ owner[t] # 0 /\ call[t] = NoCall /\ ~flag[owner[t]] /\ calls < MaxCalls
  /\ calls' = calls + 1
  /\ call' = [call EXCEPT ![t] =
       [op |-> "handshake", next |-> St("Healthy"),
        at |-> IF plane[1] \in StartupNames THEN "insert" ELSE "store"]]
  /\ UNCHANGED <<plane, facts, supvars, stopping, wave, flag, owner, ghosts, reader>>

CallInserts(t) ==
  /\ call[t].at = "insert"
  /\ plane' = call[t].next
  /\ call' = [call EXCEPT ![t].at = "record"]
  /\ earned' = TRUE
  /\ stale' = (stale \/ owner[t] # gens \/ sup # "running")
  /\ UNCHANGED <<facts, supvars, stopping, wave, flag, owner, calls, failed, reader>>

CallRecords(t) ==
  /\ call[t].at = "record"
  /\ facts' = StatusFacts(facts, call[t].next)
  /\ call' = [call EXCEPT ![t] = IF @.op = "done" THEN NoCall ELSE [@ EXCEPT !.at = "store"]]
  /\ stale' = (stale \/ owner[t] # gens \/ sup # "running")
  /\ UNCHANGED <<plane, supvars, stopping, wave, flag, owner, calls, earned, failed, reader>>

FlagStored(t) ==
  /\ call[t].at = "store"
  /\ flag' = [flag EXCEPT ![owner[t]] = TRUE]
  /\ call' = [call EXCEPT ![t] = NoCall]
  /\ UNCHANGED <<plane, facts, supvars, stopping, wave, owner, calls, ghosts, reader>>

-----------------------------------------------------------------------------
(* One reader: status_for_snapshot, then the record's lock                 *)

ReadStatus ==
  /\ reader.at = "idle"
  /\ reader' = [at |-> "facts", status |-> plane, floor |-> facts.error, error |-> 0]
  /\ UNCHANGED <<plane, facts, supvars, stopping, wave, taskvars, ghosts>>

\* readiness_from_services: the error listed of a service, 0 for none.
ListedError(status, lastError) ==
  IF status[1] = "Recovering" THEN status[2] ELSE lastError

\* ServiceRuntimeRecord::snapshot.
ReadFacts ==
  /\ reader.at = "facts"
  /\ reader' = [reader EXCEPT !.at = "shown", !.status = Unset,
                              !.error = ListedError(reader.status, facts.error)]
  /\ UNCHANGED <<plane, facts, supvars, stopping, wave, taskvars, ghosts>>

RNext ==
  \/ Starting \/ StartFacts \/ StartPlane \/ BodyEnds
  \/ OutcomeWrites \/ FatalFacts
  \/ RestartRecorded \/ DelayEnds
  \/ TerminatePlane \/ TerminateFacts
  \/ WaveCancels \/ WavePlane \/ WaveFacts \/ WaveJoins \/ WaveTerminates \/ BodyDropped
  \/ SpawnHelper \/ HelperEnds
  \/ \E t \in Tasks : DoneReads(t) \/ HandshakeReads(t) \/ CallInserts(t) \/ CallRecords(t)
                      \/ FlagStored(t)
  \/ ReadStatus \/ ReadFacts

RSpec == RInit /\ [][RNext]_rvars

-----------------------------------------------------------------------------
(* Properties                                                              *)

\* No lifecycle call is under way, and no write of the supervisor is half done.
Settled ==
  /\ \A t \in Tasks : call[t] = NoCall
  /\ sup \in {"running", "restart", "delay", "starting", "exited"}

\* The facts tell of the service what the plane and its history tell.  healthy_since
\* is set exactly while the plane says Healthy, as long as the shutdown has not begun
\* and no helper of an earlier generation has written; a backoff shows only between
\* record_service_restart(Some) and the next start or the end of the service;
\* last_error is the message of the newest recorded failure, through restarts,
\* handshakes, late helpers and the shutdown; and a readiness snapshot, whose status
\* and facts are read at different moments, never lists an error older than the one
\* on record when it began.
FactsCurrent ==
  /\ Settled /\ ~stopping /\ ~stale => (facts.healthy <=> plane[1] = "Healthy")
  /\ facts.backoff => sup \in {"delay", "starting", "startFacts", "termPlane", "termFacts"}
  /\ facts.error = failed
  /\ reader.at = "shown" => reader.error >= reader.floor

\* Readiness is earned, and kept.  A generation begins unready: its service is
\* Healthy on the plane only if some lifecycle call has moved the plane since the
\* generation started; and once the generation's handshake flag is set, a running
\* service that is not being shut down is Healthy, whichever task set the flag.
ReadinessEarned ==
  /\ sup = "running" /\ plane[1] = "Healthy" => earned
  /\ Settled /\ sup = "running" /\ ~stopping /\ flag[gens] => plane[1] = "Healthy"
=============================================================================
