----------------------------- MODULE MCRecords ------------------------------
(***************************************************************************)
(* What is built before a daemon runs and what is recorded while it does,    *)
(* side by side: the macros (ProviderMacro, HandlerMacro), the builders      *)
(* (PolicyBuilders, DaemonBuilder), the status and its facts (RuntimeFacts), *)
(* the diagnostics (Diagnostics, ObservationStats), the scheduling advice    *)
(* (SchedulingAdvice) and the process-wide batch size (LogBatchSize).  A     *)
(* behaviour is a behaviour of one of them, `part'; the others keep an       *)
(* initial state.                                                            *)
(***************************************************************************)
EXTENDS ProviderMacro, HandlerMacro, PolicyBuilders, DaemonBuilder, RuntimeFacts,
        Diagnostics, ObservationStats, SchedulingAdvice, LogBatchSize

VARIABLE part

\* The tags of four registry entries.
MCEntries == <<{"app"}, {"log"}, {}, {"app", "sys"}>>

\* A unit struct with #[provider], and a service without parameters.
MCItem == [item |-> "unit", string |-> FALSE, types |-> <<>>, fallible |-> FALSE]
MCPrimary == [kind |-> "Empty", name |-> "-", paren |-> "-"]
MCFunction == [kind |-> "service", watch |-> FALSE, params |-> <<>>, args |-> <<>>, vis |-> "pub",
               allow |-> {}]

built1 == <<jvars, mvars>>
built2 == <<pvars, kvars>>
recorded1 == <<rvars, dvars>>
recorded2 == <<ovars, avars, batchvars>>
vars == <<part, built1, built2, recorded1, recorded2>>

Init ==
    /\ part \in {"provider macro", "handler macro", "policies", "builder", "facts", "diagnostics",
                "stats", "advice", "batch size"}
    /\ IF part = "provider macro" THEN JInit ELSE Declared(MCItem, MCPrimary, <<>>)
    /\ IF part = "handler macro" THEN MInit ELSE Given(MCFunction)
    /\ PInit /\ KInit /\ RInit /\ DInit /\ OInit /\ AInit /\ BatchInit

Next ==
    /\ part' = part
    /\ \/ part = "provider macro" /\ JNext /\ UNCHANGED <<mvars, built2, recorded1, recorded2>>
       \/ part = "handler macro" /\ MNext /\ UNCHANGED <<jvars, built2, recorded1, recorded2>>
       \/ part = "policies" /\ PNext /\ UNCHANGED <<kvars, built1, recorded1, recorded2>>
       \/ part = "builder" /\ KNext /\ UNCHANGED <<pvars, built1, recorded1, recorded2>>
       \/ part = "facts" /\ RNext /\ UNCHANGED <<dvars, built1, built2, recorded2>>
       \/ part = "diagnostics" /\ DNext /\ UNCHANGED <<rvars, built1, built2, recorded2>>
       \/ part = "stats" /\ ONext /\ UNCHANGED <<avars, batchvars, built1, built2, recorded1>>
       \/ part = "advice" /\ ANext /\ UNCHANGED <<ovars, batchvars, built1, built2, recorded1>>
       \/ part = "batch size" /\ BatchNext /\ UNCHANGED <<ovars, avars, built1, built2, recorded1>>

Spec == Init /\ [][Next]_vars
=============================================================================
