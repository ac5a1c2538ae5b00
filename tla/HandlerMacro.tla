---------------------------- MODULE HandlerMacro ----------------------------
(***************************************************************************)
(* #[service] and #[trigger] (service-daemon-macro/src/common.rs, service/,  *)
(* trigger/): the attribute, the parameters and the function itself are      *)
(* turned into a wrapper, a watcher and a registry entry.                    *)
(*                                                                          *)
(* A parameter is the wrapper of its type ("Arc", "ArcRwLock", "ArcMutex" or *)
(* "Plain") and whether it is marked #[payload]; dependency n is parameter   *)
(* n's inner type, dependency 0 is the trigger's target.  A module is its    *)
(* depth below the crate root, a restricted visibility the depth it reaches. *)
(***************************************************************************)
EXTENDS Integers, Sequences, FiniteSets

CONSTANTS
    MaxParams,      \* bound: parameters of one function
    MaxAttrs,       \* bound: named arguments of one attribute
    Depth           \* the depth of the module the function is written in

ASSUME HandlerAssumption == {MaxParams, MaxAttrs, Depth} \subseteq Nat

VARIABLES
    item,       \* the annotated function
    stage,      \* "attr", "params", "emit", "done" or "error"
    left,       \* what is still to be parsed in this stage
    attr,       \* priority, scheduling, tags
    extracted,  \* ExtractedParams
    emitted     \* the expansion

mvars == <<item, stage, left, attr, extracted, emitted>>

LockOrArc == {"Arc", "ArcRwLock", "ArcMutex"}
Params == [type : LockOrArc \cup {"Plain"}, payload : BOOLEAN]
AttrArgs == {"priority=1", "priority=2", "Isolated", "NoSuchLane", "tags", "other"}
SeqsUpTo(S, n) == UNION {[1 .. k -> S] : k \in 0 .. n}

\* Public, private, pub(crate), pub(self), and pub(super), pub(in super::super).
Visibilities == {"pub", "private", "crate", "self"} \cup {"super", "super2"}
\* The attributes on the function: #[allow(..)] lists and one other.
AllowLists == {{{"sync_handler"}}, {{"sync_handler", "dead_code"}, {"doc"}}, {{"dead_code"}}, {}}

Given(f) ==
    /\ item = f
    /\ stage = "attr" /\ left = f.args
    /\ attr = [priority |-> 50, scheduling |-> "Standard", tags |-> FALSE]
    /\ extracted = [resolve |-> <<>>, call |-> <<>>, entries |-> <<>>, watch |-> <<>>, payload |-> 0]
    /\ emitted = [resolves |-> <<>>, params |-> <<>>, watches |-> {}, vis |-> "none", allow |-> {}]

MInit ==
    \E k \in {"service", "trigger"}, w \in BOOLEAN, p \in SeqsUpTo(Params, MaxParams),
       a \in SeqsUpTo(AttrArgs, MaxAttrs), v \in Visibilities, l \in AllowLists :
        /\ w => k = "trigger"
        \* the function around the parameters varies only where it matters
        /\ v # "pub" \/ l # {} => Len(p) = 0 /\ Len(a) = 0
        /\ Given([kind |-> k, watch |-> w, params |-> p, args |-> a, vis |-> v, allow |-> l])

(* --------------------------------- parsing ------------------------------- *)

\* One key of ServiceAttr or TriggerArgs; a repeated key overwrites.
AttrKey(a, x) ==
    CASE x = "priority=1" -> [a EXCEPT !.priority = 1]
      [] x = "priority=2" -> [a EXCEPT !.priority = 2]
      [] x = "Isolated" -> [a EXCEPT !.scheduling = x]
      [] x = "tags" -> [a EXCEPT !.tags = TRUE]
SchedulingKnown(x) == x # "NoSuchLane"

ParseAttr ==
    /\ stage = "attr"
    /\ IF left = <<>> THEN stage' = "params" /\ left' = item.params /\ UNCHANGED attr
       ELSE IF Head(left) = "other" \/ ~SchedulingKnown(Head(left))
         THEN stage' = "error" /\ UNCHANGED <<left, attr>>
         ELSE attr' = AttrKey(attr, Head(left)) /\ left' = Tail(left) /\ UNCHANGED stage
    /\ UNCHANGED <<item, extracted, emitted>>

\* analyze_param, decompose_type: #[payload] decides before the wrapper does.
IsPayload(p) == p.payload \/ p.type \notin LockOrArc

\* process_payload: refused for a service, and for a second one.
Payload(n) ==
    IF item.kind = "service" \/ extracted.payload # 0
      THEN stage' = "error" /\ UNCHANGED <<left, extracted>>
      ELSE /\ extracted' = [extracted EXCEPT !.payload = n, !.call = Append(@, n)]
           /\ left' = Tail(left) /\ UNCHANGED stage

\* Mutant of Dependency: a lock is shared, so it is not watched.
DependencySnapshots(n) ==
    /\ extracted' = [extracted EXCEPT
         !.resolve = Append(@, n), !.call = Append(@, n), !.entries = Append(@, n),
         !.watch = IF Head(left).type = "Arc" THEN Append(@, n) ELSE @]
    /\ left' = Tail(left) /\ UNCHANGED stage

\* process_dependency
Dependency(n) ==
    /\ extracted' = [extracted EXCEPT !.resolve = Append(@, n), !.call = Append(@, n),
                                      !.entries = Append(@, n), !.watch = Append(@, n)]
    /\ left' = Tail(left) /\ UNCHANGED stage

\* extract_params, one parameter at a time.
ProcessParam ==
    /\ stage = "params" /\ left # <<>>
    /\ LET n == Len(item.params) - Len(left) + 1 IN
       IF IsPayload(Head(left)) THEN Payload(n) ELSE Dependency(n)
    /\ UNCHANGED <<item, attr, emitted>>

ParamsEnd ==
    /\ stage = "params" /\ left = <<>> /\ stage' = "emit"
    /\ UNCHANGED <<item, left, attr, extracted, emitted>>

(* ---------------------------------- output ------------------------------- *)

\* scope_inner_visibility: one level further out, seen from the scope module.
ScopeInnerVisibility(v) ==
    CASE v \in {"pub", "crate"} -> v
      [] v \in {"private", "self"} -> "super"
      [] v = "super" -> "super2"
      [] OTHER -> "super3"

\* extract_sync_handler_flag: an allow list it leaves empty is dropped.
Cleaned(l) == {s \ {"sync_handler"} : s \in l} \ {{}}

\* generate_event_loop_call: the target is resolved first, then the
\* dependencies, once for all events.
EventLoopCall == <<0>> \o extracted.resolve

\* generate_watcher: a ProviderDependencyWatchSet of the arms.
Watcher(arms) == {arms[n] : n \in DOMAIN arms}

\* service_impl: the wrapper resolves the dependencies and calls the function.
EmitService == [resolves |-> extracted.resolve, watches |-> Watcher(extracted.watch)]

\* trigger_impl: a Watch host also watches the target.
EmitTrigger ==
    [resolves |-> EventLoopCall,
     watches |-> Watcher(IF item.watch THEN Append(extracted.watch, 0) ELSE extracted.watch)]

Emit ==
    /\ stage = "emit" /\ stage' = "done"
    /\ LET e == IF item.kind = "service" THEN EmitService ELSE EmitTrigger IN
       emitted' = [resolves |-> e.resolves, params |-> extracted.entries, watches |-> e.watches,
                   vis |-> ScopeInnerVisibility(item.vis), allow |-> Cleaned(item.allow)]
    /\ UNCHANGED <<item, left, attr, extracted>>

(* ----------------------------- specification ----------------------------- *)

MNext == ParseAttr \/ ProcessParam \/ ParamsEnd \/ Emit

MSpec == MInit /\ [][MNext]_mvars

(* ------------------------------ properties ------------------------------ *)

ElemsOf(s) == {s[n] : n \in DOMAIN s}

\* The region a visibility opens, as the depth of the module it reaches, from a
\* module at depth d.
Region(v, d) ==
    CASE v = "pub" -> -1 [] v = "crate" -> 0 [] v \in {"private", "self"} -> d
      [] v = "super" -> d - 1 [] v = "super2" -> d - 2 [] OTHER -> d - 3

\* The wrapper a handler macro emits is the function.  It is accepted exactly with
\* parameters the wrapper can supply (no payload for a service, at most one for a
\* trigger) and called with every argument in its place; its generation is reloaded
\* for every dependency the wrapper resolved and for nothing else, of a trigger's
\* target exactly under a Watch host; and moving the function into its scope module,
\* one level down, changes neither who sees it nor which other lints it allows.
WrapperFaithful ==
    LET payloads == {n \in DOMAIN item.params : IsPayload(item.params[n])}
        fits == Cardinality(payloads) <= IF item.kind = "service" THEN 0 ELSE 1
    IN  /\ stage = "error" => ~fits \/ \E n \in DOMAIN item.args : item.args[n] \in {"other", "NoSuchLane"}
        /\ stage \in {"emit", "done"} => fits /\ extracted.call = [n \in DOMAIN item.params |-> n]
        /\ stage = "done" =>
             /\ emitted.watches = IF item.watch \/ item.kind = "service" THEN ElemsOf(emitted.resolves)
                                  ELSE ElemsOf(emitted.resolves) \ {0}
             /\ Region(emitted.vis, Depth + 1) = Region(item.vis, Depth)
             /\ UNION emitted.allow = (UNION item.allow) \ {"sync_handler"}
=============================================================================
