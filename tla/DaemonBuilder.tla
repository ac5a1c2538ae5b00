---------------------------- MODULE DaemonBuilder ----------------------------
(***************************************************************************)
(* From the service registry to a ServiceDaemon: RegistryBuilder             *)
(* (models/service.rs), ServiceDaemonBuilder (service_daemon/builder.rs) and *)
(* the builder MockContext prepares for a simulation (context/simulation.rs).*)
(* Setters come in any order and repeatedly; one process builds several      *)
(* daemons from the same SERVICE_REGISTRY.                                   *)
(*                                                                          *)
(* A registered entry is its set of tags, a policy is a value.  A list of    *)
(* services is a function on <<part, number of the entry>>, in the order of  *)
(* the pairs: part 1 is what the registry selects, part 2 what the infra     *)
(* tags add, each in registration order.  The settings build() only copies   *)
(* (the external token, the advisory profile, the isolated startup limit)    *)
(* are left out.                                                             *)
(***************************************************************************)
EXTENDS Integers, Sequences, FiniteSets

CONSTANTS
    Entries,        \* SERVICE_REGISTRY: <<the tags of an entry, ...>>
    Tags,           \* tags a caller filters by
    LogTag,         \* "__log__"
    IsolationTag,   \* "__simulation_isolation__", on no entry
    Policies,       \* restart and scaling policies
    DefaultPolicy,  \* RestartPolicy::default()
    TestingPolicy,  \* RestartPolicy::for_testing()
    MaxSetterCalls,       \* bound: setter calls
    MaxDaemons      \* bound: daemons built

ASSUME BuilderAssumption ==
    \A i \in DOMAIN Entries : i \in Nat /\ IsolationTag \notin Entries[i]

VARIABLES
    filter,     \* the RegistryBuilder at hand
    kit,        \* the ServiceDaemonBuilder at hand, as a sequence of at most one
    built,      \* the daemons
    setterCalls

kvars == <<filter, kit, built, setterCalls>>

NoFilter == [include |-> {}, exclude |-> {}]
ConfigTypes == {"restart", "scaling"}
NoConfig == [t \in ConfigTypes |-> {}]

(* ------------------------------- Registry ------------------------------- *)

\* The entries that pass both filters.
Passing(f) == {i \in DOMAIN Entries : /\ f.include = {} \/ Entries[i] \cap f.include # {}
                                      /\ Entries[i] \cap f.exclude = {}}

\* RegistryBuilder::build: the id is the place in SERVICE_REGISTRY.
RegistryBuild(part, f) == [p \in {part} \X Passing(f) |-> [id |-> p[2] - 1, entry |-> p[2]]]

\* with_tag, with_tags, exclude_tag
Filter ==
    /\ \E t \in Tags, side \in {"include", "exclude"} :
         filter' = [filter EXCEPT ![side] = @ \cup {t}]
    /\ UNCHANGED <<kit, built>>

(* --------------------------- the daemon builder -------------------------- *)

\* ServiceDaemonBuilder::new
New ==
    /\ kit = <<>>
    /\ kit' = <<[from |-> "new", registry |-> <<>>, restart |-> DefaultPolicy,
                 user |-> NoConfig, infra |-> {}, selects |-> FALSE]>>
    /\ UNCHANGED <<filter, built>>

\* new_isolated: a registry whose tag no entry has.
IsolatedRegistry == <<RegistryBuild(1, [NoFilter EXCEPT !.include = {IsolationTag}])>>

\* MockContextBuilder::with_logging, build
Mock(logging) ==
    /\ kit = <<>>
    /\ kit' = <<[from |-> "sandbox",
                 registry |-> IsolatedRegistry, restart |-> TestingPolicy, user |-> NoConfig,
                 infra |-> IF logging THEN {LogTag} ELSE {}, selects |-> FALSE]>>
    /\ UNCHANGED <<filter, built>>

\* with_registry: the RegistryBuilder is built and used up.
WithRegistry ==
    /\ kit' = <<[kit[1] EXCEPT !.registry = <<RegistryBuild(1, filter)>>, !.selects = TRUE]>>
    /\ filter' = NoFilter
    /\ UNCHANGED built

WithRestartPolicy ==
    /\ \E p \in Policies : kit' = <<[kit[1] EXCEPT !.restart = p]>>
    /\ UNCHANGED <<filter, built>>

\* with_trigger_config: one per type, the last one counts.
WithTriggerConfig ==
    /\ \E t \in ConfigTypes, p \in Policies : kit' = <<[kit[1] EXCEPT !.user[t] = {p}]>>
    /\ UNCHANGED <<filter, built>>

WithInfraTags ==
    /\ \E t \in Tags : kit' = <<[kit[1] EXCEPT !.infra = @ \cup {t}]>>
    /\ UNCHANGED <<filter, built>>

(* --------------------------------- build --------------------------------- *)

Ids(services) == {services[i].id : i \in DOMAIN services}

\* The infrastructure services, resolved against the whole registry, follow: those
\* that are not there yet.
Merged(services, infra) ==
    IF infra = {} THEN services
    ELSE LET extra == RegistryBuild(2, [NoFilter EXCEPT !.include = infra])
             added == {p \in DOMAIN extra : extra[p].id \notin Ids(services)}
         IN  [p \in DOMAIN services \cup added |->
                IF p \in added THEN extra[p] ELSE services[p]]

\* The registry of the builder, by default every entry.
Chosen(k) == IF k.registry = <<>> THEN RegistryBuild(1, NoFilter) ELSE k.registry[1]

\* Mutant of Configs: the daemon's policy goes in last.
ConfigsDaemonLast(k) == [k.user EXCEPT !["restart"] = {k.restart}]

\* trigger_configs: the daemon's restart policy first, then the caller's.
Configs(k) == [k.user EXCEPT !["restart"] = IF @ = {} THEN {k.restart} ELSE @]

\* runtime_facts.register_services
FactsOf(k) == Ids(Merged(Chosen(k), k.infra))

Build ==
    /\ kit # <<>> /\ Len(built) < MaxDaemons
    /\ LET k == kit[1] IN
         built' = Append(built, [from |-> k.from, services |-> Merged(Chosen(k), k.infra),
                                 restart |-> k.restart, configs |-> Configs(k),
                                 facts |-> FactsOf(k), user |-> k.user, infra |-> k.infra,
                                 selects |-> k.selects])
    /\ kit' = <<>>
    /\ UNCHANGED <<filter, setterCalls>>

\* TriggerHost::run_as_service: what a trigger of the daemon runs with, given
\* the scaling its template declares.
TriggerPolicies(d, template) ==
    [restart |-> IF d.configs["restart"] = {} THEN {DefaultPolicy} ELSE d.configs["restart"],
     scaling |-> IF d.configs["scaling"] = {} THEN template ELSE d.configs["scaling"]]

(* ----------------------------- specification ----------------------------- *)

KInit == filter = NoFilter /\ kit = <<>> /\ built = <<>> /\ setterCalls = 0

KNext ==
    \/ /\ Len(built) < MaxDaemons
       /\ \/ (New \/ \E logging \in BOOLEAN : Mock(logging)) /\ UNCHANGED setterCalls
          \/ /\ setterCalls < MaxSetterCalls /\ setterCalls' = setterCalls + 1
             /\ \/ Filter
                \/ kit # <<>> /\ (WithRegistry \/ WithRestartPolicy \/ WithTriggerConfig
                                  \/ WithInfraTags)
    \/ Build

KSpec == KInit /\ [][KNext]_kvars

(* ------------------------------ properties ------------------------------ *)

Daemons == {built[i] : i \in DOMAIN built}

\* A daemon is what its builder was asked for, in whatever order.  A ServiceId names
\* one entry in every daemon of the process, however its registry was filtered, and
\* no daemon has an id twice (running_tasks, the status plane and the shelf are keyed
\* by it); every service it will spawn has a runtime record, those the infra tags add
\* included; a trigger retries under the policy its caller configured for triggers
\* and, without one, under the daemon's restart policy; and a simulation that selects
\* nothing starts nothing but what its infra tags name.
BuiltAsAsked ==
    /\ \A a, b \in Daemons : \A i \in DOMAIN a.services, j \in DOMAIN b.services :
         a.services[i].id = b.services[j].id <=> a.services[i].entry = b.services[j].entry
    /\ \A d \in Daemons :
         /\ \A i, j \in DOMAIN d.services : d.services[i].id = d.services[j].id => i = j
         /\ d.facts = Ids(d.services)
         /\ TriggerPolicies(d, {}) = [restart |-> IF d.user["restart"] = {} THEN {d.restart}
                                                  ELSE d.user["restart"],
                                      scaling |-> d.user["scaling"]]
         /\ d.from = "sandbox" /\ ~d.selects =>
              \A i \in DOMAIN d.services : d.infra \cap Entries[d.services[i].entry] # {}
=============================================================================
