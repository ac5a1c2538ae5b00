----------------------------- MODULE MCTriggers -----------------------------
(***************************************************************************)
(* The components on the path from an event to a handler, side by side: the  *)
(* hosts (TriggerHosts), the event loop (TriggerRunner), the concurrency     *)
(* controller (TriggerConcurrency) and its overlay store (OverlayStore).  A  *)
(* behaviour is a behaviour of one of them, `part'; the others keep an       *)
(* initial state.                                                            *)
(***************************************************************************)
EXTENDS TriggerHosts, TriggerRunner, TriggerConcurrency, OverlayStore

VARIABLE part

vars == <<part, hvars, rvars, cvars, yvars>>

Init ==
    /\ part \in {"hosts", "loop", "permits", "overlays"}
    /\ part = "hosts" \/ kind = "topic"
    /\ HInit /\ RInit /\ CInit /\ YInit

Next ==
    /\ part' = part
    /\ \/ part = "hosts" /\ HNext /\ UNCHANGED <<rvars, cvars, yvars>>
       \/ part = "loop" /\ RNext /\ UNCHANGED <<hvars, cvars, yvars>>
       \/ part = "permits" /\ CNext /\ UNCHANGED <<hvars, rvars, yvars>>
       \/ part = "overlays" /\ YNext /\ UNCHANGED <<hvars, rvars, cvars>>

\* The fairness of the components' own specifications, for the part that runs.
Spec ==
    /\ Init /\ [][Next]_vars
    /\ \A h \in Hosts : /\ WF_hvars(part = "hosts" /\ HostStep(h))
                        /\ WF_hvars(part = "hosts" /\ HandlerEnds(h))
    /\ WF_rvars(part = "loop" /\ LoopStep)
    /\ WF_cvars(part = "permits" /\ MonitorStep) /\ WF_cvars(part = "permits" /\ DispatchStep)
    /\ WF_cvars(part = "permits" /\ Release) /\ SF_cvars(part = "permits" /\ Acquire)
=============================================================================
