----------------------------- MODULE MCStreams ------------------------------
(***************************************************************************)
(* Three streams of messages, side by side: the log queue and its readers    *)
(* (Logging), the controller connection of the examples (ControllerBridge)   *)
(* and the path of a Unix socket (UnixSocket).  A behaviour is a behaviour   *)
(* of one of them, `part'; the others keep an initial state.                 *)
(***************************************************************************)
EXTENDS Logging, ControllerBridge, UnixSocket

VARIABLE part

vars == <<part, logvars, bvars, uvars>>

\* Spans around a log event: none, or a trigger of service 2, which service 1 fired,
\* inside service 2.
MCService(s) == [service |-> s, source |-> 0]
MCTrigger(s, from) == [service |-> s, source |-> from]
MCScopes == {<<>>, <<MCTrigger(2, 1), MCService(2)>>}

\* Two requests that use one sequence number.
MCSequenceOf == <<1, 1>>

Init ==
    /\ part \in {"log", "bridge", "socket"}
    /\ part = "log" \/ (cap = Multiplier /\ level = "info")
    /\ part = "socket" \/ path = Nothing
    /\ LogInit /\ BInit /\ UInit

Next ==
    /\ part' = part
    /\ \/ part = "log" /\ LogNext /\ UNCHANGED <<bvars, uvars>>
       \/ part = "bridge" /\ BNext /\ UNCHANGED <<logvars, uvars>>
       \/ part = "socket" /\ UNext /\ UNCHANGED <<logvars, bvars>>

\* The fairness of the components' own specifications, for the part that runs.
Spec ==
    /\ Init /\ [][Next]_vars
    /\ \A r \in Sinks : WF_logvars(part = "log" /\ SinkStep(r))
    /\ WF_logvars(part = "log" /\ (Collect \/ Lagged(Collector)))
    /\ WF_bvars(part = "bridge" /\ HostStepB)
    /\ WF_bvars(part = "bridge" /\ BridgeHandlerReturns)
    /\ \A r \in Requests : /\ WF_bvars(part = "bridge" /\ CommandStep(r))
                           /\ WF_bvars(part = "bridge" /\ SpawnedCancel(r))
    /\ \A p \in Processes : WF_uvars(part = "socket" /\ TryNew(p))
=============================================================================
