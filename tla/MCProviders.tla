---------------------------- MODULE MCProviders -----------------------------
(***************************************************************************)
(* How a provider's value comes to be and changes, side by side: the         *)
(* dependency graph and its resolution (ProviderGraph), the attempts of one  *)
(* init function (ProviderInit), and the managed state that generations then *)
(* share (ManagedState); with the pacing of restarts (RestartBackoff), which *)
(* ProviderInit uses.  A behaviour is a behaviour of one of them, `part';    *)
(* the others keep an initial state.                                         *)
(***************************************************************************)
EXTENDS ProviderGraph, ProviderInit, ManagedState

VARIABLE part

vars == <<part, gvars, bvars, ivars, mvars>>

Init ==
    /\ part \in {"graph", "restarts", "attempts", "state"}
    /\ part = "graph" \/ (deps = [p \in Providers |-> {}] /\ eager = {} /\ roots = {})
    /\ GInit
    /\ IF part = "attempts"
         THEN IInit
         ELSE BInit /\ OffInit /\ (part = "restarts" \/ jitter = 0)
    /\ MInit

Next ==
    /\ part' = part
    /\ \/ part = "graph" /\ GNext /\ UNCHANGED <<bvars, ivars, mvars>>
       \/ part = "restarts" /\ BNext /\ UNCHANGED <<gvars, ivars, mvars>>
       \/ part = "attempts" /\ INext /\ UNCHANGED <<gvars, mvars>>
       \/ part = "state" /\ MNext /\ UNCHANGED <<gvars, bvars, ivars>>

\* The fairness of the components' own specifications, for the part that runs.
Spec ==
    /\ Init /\ [][Next]_vars
    /\ \A t \in Tasks : WF_gvars(part = "graph" /\ Advance(t))
    /\ WF_gvars(part = "graph" /\ Validate) /\ WF_gvars(part = "graph" /\ EagerNext)
    /\ WF_gvars(part = "graph" /\ EagerEnd)
    /\ \A w \in Writers : WF_mvars(part = "state" /\ PublishStep(w))
    /\ WF_mvars(part = "state" /\ MutateBinding) /\ WF_mvars(part = "state" /\ NotifyBinding)
    /\ \A r \in Readers : /\ WF_mvars(part = "state" /\ ValueWatch(r))
                          /\ WF_mvars(part = "state" /\ BindingWatch(r))
=============================================================================
