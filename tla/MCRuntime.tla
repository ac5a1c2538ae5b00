----------------------------- MODULE MCRuntime ------------------------------
(***************************************************************************)
(* What a daemon runs on, side by side: its runtimes and their owner         *)
(* (DaemonRuntimes), the threads of isolated generations                     *)
(* (IsolatedGeneration) and what generations hand to each other over the     *)
(* shelf (ShelvedProgress).  A behaviour is a behaviour of one of them,      *)
(* `part'; the others keep an initial state.                                 *)
(***************************************************************************)
EXTENDS DaemonRuntimes, IsolatedGeneration, ShelvedProgress

VARIABLE part

vars == <<part, tvars, zvars, qvars>>

\* The daemons of DaemonRuntimes: none, or two, of the lanes.
MCDaemons == {{}, {"standard", "high"}, {"standard", "isolated"}, {"high", "isolated"}}

\* The daemons of ShelvedProgress: two loops that share the shelf, and each of the
\* others by itself.
MCRegistered ==
    {{"recovery", "counter"}} \cup {{s} : s \in {"advanced", "stats", "system", "fatal", "sync"}}

Init ==
    /\ part \in {"runtimes", "isolated", "shelf"}
    /\ part = "runtimes" \/ (lanes = {} /\ driver = "wait")
    /\ part = "shelf" \/ present = {"sync"}
    /\ TInit /\ ZInit /\ QInit

Next ==
    /\ part' = part
    /\ \/ part = "runtimes" /\ TNext /\ UNCHANGED <<zvars, qvars>>
       \/ part = "isolated" /\ ZNext /\ UNCHANGED <<tvars, qvars>>
       \/ part = "shelf" /\ QNext /\ UNCHANGED <<tvars, zvars>>

\* The fairness of DaemonRuntimes, for the behaviours of that part.
RuntimesFairness ==
    /\ WF_tvars(part = "runtimes" /\ OwnerSteps) /\ WF_tvars(part = "runtimes" /\ StartupTaskEnds)
    /\ WF_tvars(part = "runtimes" /\ AdviceEnds) /\ WF_tvars(part = "runtimes" /\ HighBodyDropped)
    /\ \A l \in ProbeLanes : WF_tvars(part = "runtimes" /\ ProbeEnds(l))
    /\ \A r \in Owned : WF_tvars(part = "runtimes" /\ Closed(r))
    /\ \A s \in BodyLanes :
         /\ WF_tvars(part = "runtimes" /\ SpawnSupervisor(s))
         /\ WF_tvars(part = "runtimes" /\ SupervisorEnds(s))
         /\ WF_tvars(part = "runtimes" /\ Tell(s))
         /\ WF_tvars(part = "runtimes" /\ AbortSupervisor(s))
         /\ WF_tvars(part = "runtimes" /\ (body[s] = "aborted" \/ s \in told) /\ BodyReturns(s))

Spec == Init /\ [][Next]_vars /\ RuntimesFairness
=============================================================================
