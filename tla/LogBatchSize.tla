---------------------------- MODULE LogBatchSize ----------------------------
(***************************************************************************)
(* set_log_batch_size against the first use of the log queue               *)
(* (core/logging/model.rs): the size is a OnceLock, the queue another one, *)
(* and a caller looks at the second before it writes the first.            *)
(***************************************************************************)
EXTENDS Integers

CONSTANTS
  Setters,        \* callers of set_log_batch_size
  Sizes,          \* the batch sizes they ask for
  MaxBatch,       \* MAX_LOG_BATCH_SIZE
  DefaultBatch,   \* DEFAULT_BATCH_SIZE
  QueuePerBatch   \* LOG_QUEUE_BATCH_MULTIPLIER

\* A size is a NonZeroUsize, and the constants of the file are positive.
ASSUME BatchAssumption ==
  Sizes \cup {MaxBatch, DefaultBatch, QueuePerBatch} \subseteq Nat \ {0}

VARIABLES
  size,      \* LOG_BATCH_SIZE, 0 while unset
  setter,    \* what each caller has done, and with which size
  capacity   \* of LOG_QUEUE, 0 before its first use

batchvars == <<size, setter, capacity>>

BatchInit ==
  /\ size = 0
  /\ setter = [s \in Setters |-> <<"idle", 0>>]
  /\ capacity = 0

\* effective_batch_size.
EffectiveBatch == IF size = 0 THEN DefaultBatch ELSE size

\* get_log_queue: the first use builds the queue for the batch size of that moment.
GetLogQueue ==
  /\ capacity = 0
  /\ capacity' = QueuePerBatch * EffectiveBatch
  /\ UNCHANGED <<size, setter>>

\* set_log_batch_size, first part: the size is validated and LOG_QUEUE looked at.
SetCheck(s) ==
  /\ setter[s][1] = "idle"
  /\ \E n \in Sizes :
       setter' = [setter EXCEPT ![s] =
                    <<IF n > MaxBatch \/ capacity > 0 THEN "refused" ELSE "checked", n>>]
  /\ UNCHANGED <<size, capacity>>

\* Mutant of SetStore: the later caller overwrites.
SetStoreOverwrites(s) ==
  /\ setter[s][1] = "checked"
  /\ size' = setter[s][2]
  /\ setter' = [setter EXCEPT ![s][1] = "accepted"]
  /\ UNCHANGED capacity

\* set_log_batch_size, second part: OnceLock::set.  The queue may have come to
\* life since the first part looked.
SetStore(s) ==
  /\ setter[s][1] = "checked"
  /\ size' = IF size = 0 THEN setter[s][2] ELSE size
  /\ setter' = [setter EXCEPT ![s][1] = IF size = 0 THEN "accepted" ELSE "refused"]
  /\ UNCHANGED capacity

BatchNext ==
  \/ GetLogQueue
  \/ \E s \in Setters : SetCheck(s) \/ SetStore(s)

BatchSpec == BatchInit /\ [][BatchNext]_batchvars

-----------------------------------------------------------------------------

\* Of the callers that race to set the log batch size, even those that all saw the
\* queue uninitialised, one is told Ok, its size is the one in force ever after, and
\* a queue built smaller than its batches was there before it was told Ok.
OneBatchSize ==
  \A s \in Setters : setter[s][1] = "accepted" =>
    /\ EffectiveBatch = setter[s][2]
    /\ \A t \in Setters \ {s} : setter[t][1] # "accepted"
    /\ capacity \in {0, QueuePerBatch * DefaultBatch, QueuePerBatch * EffectiveBatch}
=============================================================================
