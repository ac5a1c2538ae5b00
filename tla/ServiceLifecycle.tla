-------------------------- MODULE ServiceLifecycle --------------------------
(***************************************************************************)
(* What the runner promises about the bodies of a service, and nothing      *)
(* about how: generations are numbered consecutively, one body at a time,   *)
(* and a service that has been told to stop starts no further generation.   *)
(***************************************************************************)
EXTENDS Integers

CONSTANTS Services

VARIABLES
    gen,    \* number of generations started
    up,     \* services with a running body
    halted  \* services told to stop

lvars == <<gen, up, halted>>

LInit ==
    /\ gen = [s \in Services |-> 0]
    /\ up = {}
    /\ halted = {}

StartGeneration(s) ==
    /\ s \notin up
    /\ s \notin halted
    /\ gen' = [gen EXCEPT ![s] = @ + 1]
    /\ up' = up \cup {s}
    /\ UNCHANGED halted

EndGeneration(s) ==
    /\ s \in up
    /\ up' = up \ {s}
    /\ UNCHANGED <<gen, halted>>

\* A wave of services is told to stop at once.
Halt(S) ==
    /\ halted' = halted \cup S
    /\ UNCHANGED <<gen, up>>

LNext ==
    \/ \E s \in Services : StartGeneration(s) \/ EndGeneration(s)
    \/ \E S \in SUBSET Services : Halt(S)

LSpec == LInit /\ [][LNext]_lvars
=============================================================================
