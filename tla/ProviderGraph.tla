--------------------------- MODULE ProviderGraph ---------------------------
(***************************************************************************)
(* How providers come to be initialised: the dependency graph checked at    *)
(* startup, the eager ones initialised in topological order                 *)
(* (service_daemon/provider_graph.rs, startup_preflight.rs,                 *)
(* startup_pipeline.rs), then the others on demand by the resolve and init  *)
(* functions that the #[provider] macro generates.                          *)
(*                                                                          *)
(* A task (the startup, or a service generation) that resolves a provider   *)
(* has a stack of frames: a provider resolves its parameters before its own *)
(* init function runs.  Every provider has a OnceCell: the frame with       *)
(* "init" has its permit, the others wait for it.  Parameters are resolved  *)
(* in any order.  The time an init function takes is in ProviderInit.       *)
(***************************************************************************)
EXTENDS Integers, Sequences, FiniteSets

CONSTANTS
    Providers,      \* PROVIDER_REGISTRY
    Generations,    \* service generations that resolve
    Boot,           \* the task that runs the startup pipeline
    MaxResolves     \* bound: resolutions started per generation

ASSUME GraphAssumption == IsFiniteSet(Providers) /\ Boot \notin Generations

Tasks == Generations \cup {Boot}

VARIABLES
    deps,       \* ProviderEntry.params
    eager,      \* ProviderEntry.eager
    roots,      \* the parameters of the registered services
    phase,      \* of the startup pipeline
    order,      \* eager providers still to be initialised
    filled,     \* providers whose cell is set
    via,        \* the generated function whose policy and token the value was made with
    initRuns,      \* successful runs of the init function
    stack,      \* per task, innermost frame last: [p, by, at, todo]
    result,     \* per task, of the last frame that returned
    calls,      \* resolutions started
    stop        \* the daemon's cancellation token

registry == <<deps, eager, roots>>
cellvars == <<filled, via, initRuns>>
gvars == <<deps, eager, roots, phase, order, filled, via, initRuns, stack, result, calls, stop>>

Errors == {"Fatal", "Timeout", "Cancelled"}

\* What is reached from S along the parameters D: the least set that has S and, with a
\* provider, its parameters.
Closure(D, S) ==
    {p \in Providers : \A T \in SUBSET Providers :
        S \subseteq T /\ (\A q \in T : D[q] \subseteq T) => p \in T}

\* Closure under ProviderEntry.params, from the parameters of the services.
Reachable == Closure(deps, roots)

\* Mutant of Cyclic: only the parameters of the services' own providers are
\* followed.
CyclicShallow == \E p \in roots : p \in deps[p] \cup UNION {deps[q] : q \in deps[p]}

\* validate_dependency_graph over the whole registry, reachable or not: toposort
\* fails.
Cyclic == \E p \in Providers : p \in Closure(deps, deps[p])

Targets == Reachable \cap eager

\* Mutant of EagerOrders: dependents first.
EagerOrdersReversed ==
    {f \in [1..Cardinality(Targets) -> Targets] :
        \A i, j \in DOMAIN f : i < j => f[i] # f[j] /\ f[i] \notin Closure(deps, deps[f[j]])}

\* toposort of the reachable graph, restricted to the eager targets: an order in
\* which no provider comes before one that it needs.
EagerOrders ==
    {f \in [1..Cardinality(Targets) -> Targets] :
        \A i, j \in DOMAIN f : i < j => f[i] # f[j] /\ f[j] \notin Closure(deps, deps[f[i]])}

Frame(p, by) == [p |-> p, by |-> by, at |-> "lookup", todo |-> deps[p]]
Top(t) == stack[t][Len(stack[t])]
Pop(t) == SubSeq(stack[t], 1, Len(stack[t]) - 1)
SetTop(t, f) == [stack EXCEPT ![t][Len(stack[t])] = f]
Resolving(t) == stack[t] # <<>>

\* The permit of p's OnceCell is taken.
CellsHeld(p) ==
    \E t \in Tasks : \E i \in DOMAIN stack[t] : stack[t][i].p = p /\ stack[t][i].at = "init"

GInit ==
    /\ deps \in [Providers -> SUBSET Providers]
    /\ eager \in SUBSET Providers /\ roots \in SUBSET Providers
    /\ phase = "validate" /\ order = <<>>
    /\ filled = {} /\ via = [p \in Providers |-> "none"] /\ initRuns = [p \in Providers |-> 0]
    /\ stack = [t \in Tasks |-> <<>>] /\ result = [t \in Tasks |-> "Ok"]
    /\ calls = [t \in Generations |-> 0]
    /\ stop = FALSE

(* ------------------------------- startup ------------------------------- *)

\* run_startup_preflight: the graph is validated; then the eager order is made.
Validate ==
    /\ phase = "validate"
    /\ IF Cyclic
       THEN phase' = "failed" /\ UNCHANGED order
       ELSE phase' = "eager" /\ order' \in EagerOrders
    /\ UNCHANGED <<registry, cellvars, stack, result, calls, stop>>

\* eager_init_reachable_providers: the next one, by its generated init function.
EagerNext ==
    /\ phase = "eager" /\ ~Resolving(Boot) /\ result[Boot] = "Ok" /\ order # <<>>
    /\ stack' = [stack EXCEPT ![Boot] = <<Frame(Head(order), "eager")>>]
    /\ order' = Tail(order)
    /\ UNCHANGED <<registry, phase, cellvars, result, calls, stop>>

\* The first error ends the pipeline, and run() shuts the daemon down; otherwise
\* the services are spawned.
EagerEnd ==
    /\ phase = "eager" /\ ~Resolving(Boot)
    /\ \/ result[Boot] = "Ok" /\ order = <<>> /\ phase' = "running" /\ UNCHANGED stop
       \/ result[Boot] # "Ok" /\ phase' = "failed" /\ stop' = TRUE
    /\ UNCHANGED <<registry, order, cellvars, stack, result, calls>>

\* A service generation resolves one of its parameters.
ResolveProvider(t) ==
    /\ phase = "running" /\ ~Resolving(t) /\ ~stop
    /\ calls[t] < MaxResolves
    /\ calls' = [calls EXCEPT ![t] = @ + 1]
    /\ \E p \in roots : stack' = [stack EXCEPT ![t] = <<Frame(p, "resolve")>>]
    /\ result' = [result EXCEPT ![t] = "Ok"]
    /\ UNCHANGED <<registry, phase, order, cellvars, stop>>

(* ------------------------- the generated functions ---------------------- *)

\* get_or_try_init on a set cell.
Hit(t) ==
    /\ Resolving(t) /\ result[t] = "Ok"
    /\ Top(t).at = "lookup" /\ Top(t).p \in filled
    /\ stack' = [stack EXCEPT ![t] = Pop(t)]
    /\ UNCHANGED <<registry, phase, order, cellvars, result, calls, stop>>

\* get_or_try_init on an empty cell, permit free; a failed holder leaves the cell
\* empty and the next one tries.
AcquireCell(t) ==
    /\ Resolving(t) /\ result[t] = "Ok"
    /\ Top(t).at = "lookup" /\ Top(t).p \notin filled /\ ~CellsHeld(Top(t).p)
    /\ stack' = SetTop(t, [Top(t) EXCEPT !.at = "init"])
    /\ UNCHANGED <<registry, phase, order, cellvars, result, calls, stop>>

\* The generated code resolves a parameter, with Provided::resolve whatever the
\* caller was.
NeedParam(t) ==
    /\ Resolving(t) /\ result[t] = "Ok" /\ Top(t).at = "init"
    /\ \E d \in Top(t).todo :
         stack' = [stack EXCEPT ![t] =
                     Append(Pop(t), [Top(t) EXCEPT !.todo = @ \ {d}]) \o <<Frame(d, "resolve")>>]
    /\ UNCHANGED <<registry, phase, order, cellvars, result, calls, stop>>

\* Every parameter is there and the init function succeeds.
InitOk(t) ==
    /\ Resolving(t) /\ result[t] = "Ok" /\ Top(t).at = "init" /\ Top(t).todo = {}
    /\ filled' = filled \cup {Top(t).p}
    /\ via' = [via EXCEPT ![Top(t).p] = Top(t).by]
    /\ initRuns' = [initRuns EXCEPT ![Top(t).p] = @ + 1]
    /\ stack' = [stack EXCEPT ![t] = Pop(t)]
    /\ UNCHANGED <<registry, phase, order, result, calls, stop>>

\* current_cancellation_token: inside a generation the service's, which ends with
\* the daemon's; the eager init gets the daemon's; a parameter of an eager
\* provider gets a token nobody cancels.
Cancellable(t) == stop /\ (t \in Generations \/ Top(t).by = "eager")

\* It fails or panics (Fatal), gives up (Timeout) or sees its token (Cancelled).
InitFails(t) ==
    /\ Resolving(t) /\ result[t] = "Ok" /\ Top(t).at = "init" /\ Top(t).todo = {}
    /\ \E e \in Errors :
         /\ e = "Cancelled" => Cancellable(t)
         /\ result' = [result EXCEPT ![t] = e]
    /\ stack' = [stack EXCEPT ![t] = Pop(t)]
    /\ UNCHANGED <<registry, phase, order, cellvars, calls, stop>>

\* DependencyProvider: the error of a parameter ends the frame that needed it.
Unwind(t) ==
    /\ Resolving(t) /\ result[t] # "Ok"
    /\ stack' = [stack EXCEPT ![t] = Pop(t)]
    /\ UNCHANGED <<registry, phase, order, cellvars, result, calls, stop>>

(* ------------------------------- shutdown ------------------------------- *)

\* handle_outcome: a provider init error of a generation cancels the daemon.
FailureStops(t) ==
    /\ ~Resolving(t) /\ result[t] # "Ok" /\ ~stop
    /\ stop' = TRUE
    /\ UNCHANGED <<registry, phase, order, cellvars, stack, result, calls>>

Shutdown ==
    /\ ~stop /\ phase \in {"eager", "running"}
    /\ stop' = TRUE
    /\ UNCHANGED <<registry, phase, order, cellvars, stack, result, calls>>

Advance(t) ==
    Hit(t) \/ AcquireCell(t) \/ NeedParam(t) \/ InitOk(t) \/ InitFails(t) \/ Unwind(t)

GNext ==
    \/ Validate \/ EagerNext \/ EagerEnd \/ Shutdown
    \/ \E t \in Generations : ResolveProvider(t) \/ FailureStops(t)
    \/ \E t \in Tasks : Advance(t)

\* Init functions end (ProviderInit), so every enabled step of a resolution is
\* taken.
GSpec ==
    /\ GInit /\ [][GNext]_gvars
    /\ \A t \in Tasks : WF_gvars(Advance(t))
    /\ WF_gvars(Validate) /\ WF_gvars(EagerNext) /\ WF_gvars(EagerEnd)

(* ------------------------------ properties ------------------------------ *)

\* The daemon makes the eager providers itself, in time.  However they depend on each
\* other, and through lazy ones, eager_init_reachable_providers makes every one of
\* them with the daemon's restart policy and cancellation token, none on the way, as
\* a parameter, with the defaults of Provided::resolve; no service generation starts
\* before all of them have their value; and whoever resolves a provider at the same
\* time, it is made once (the OnceCell behind the generated functions).
EagerUnderDaemonPolicy ==
    /\ \A p \in filled \cap Targets : via[p] = "eager"
    /\ phase = "running" => Targets \subseteq filled
    /\ \A p \in Providers : initRuns[p] <= 1

\* What the graph check is for: once the registry is validated, no set of
\* concurrent resolutions waits on itself; every resolution returns.
ResolutionEnds == []<>(\A t \in Tasks : ~Resolving(t))
=============================================================================
