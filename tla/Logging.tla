------------------------------ MODULE Logging ------------------------------
(***************************************************************************)
(* The log queue and its three readers: DaemonLayer publishes every        *)
(* tracing event on one broadcast channel, log_service and                 *)
(* file_log_service write batches of it, the topology collector counts     *)
(* causal edges from it (core/logging/*, core/topology_collector.rs).      *)
(*                                                                         *)
(* An event is the number n of the application's events up to it, and      *)
(* whether it is one of the readers' own (the lag warning, the farewell),  *)
(* which go through the same layer and so through the same queue.  A       *)
(* reader is represented by how far its cursor is behind the tail: more    *)
(* than the capacity means that the slot it would read has been            *)
(* overwritten.                                                            *)
(***************************************************************************)
EXTENDS Integers, Sequences, FiniteSets

CONSTANTS
  Sinks,          \* the batch writers: log_service and file_log_service
  FileSinks,      \* those among them that need a FileLogConfig
  Collector,      \* the topology collector
  BatchSizes,     \* the batch sizes that may be in force
  Multiplier,     \* LOG_QUEUE_BATCH_MULTIPLIER
  Scopes,         \* the span chains an event may be emitted in
  MaxEmits        \* bound: application events

ASSUME LogAssumption ==
  /\ BatchSizes \subseteq Nat \ {0} /\ Multiplier \in Nat \ {0}
  /\ FileSinks \subseteq Sinks /\ Collector \notin Sinks

VARIABLES
  cap,       \* the capacity the queue was built with
  ring,      \* the events the channel retains, oldest first
  ids,       \* per application event, the service ids its span chain gave it
  level,     \* RUST_LOG: "info" lets the readers' own events through, "error" not
  where,     \* per reader: its place in its loop
  batch,     \* per sink: the batch size it read when it subscribed
  behind,    \* per reader: events between its cursor and the tail
  size,      \* per sink: the events of the batch being collected
  buffer,    \* per sink: the application's events among them
  written,   \* per sink: the application events it has written
  edges,     \* the collector's counts, by <<source, target>>
  stopping,  \* the daemon's shutdown
  since,     \* per reader: application events published before it subscribed
  upto,      \* per sink: application events published when its last drain ended
  skipped,   \* per reader: its cursor has been moved past an event
  cleared    \* application events the collector had passed at the last reset

logvars == <<cap, ring, ids, level, where, batch, behind, size, buffer,
             written, edges, stopping, since, upto, skipped, cleared>>

Readers == Sinks \cup {Collector}
Reading == {r \in Readers : where[r] \notin {"off", "idle", "returned", "stopped"}}

LogInit ==
  /\ cap \in {Multiplier * n : n \in BatchSizes} /\ ring = <<>> /\ ids = <<>>
  /\ level \in {"info", "error"}
  /\ where = [r \in Readers |-> "off"]
  /\ batch = [r \in Sinks |-> 0]
  /\ behind = [r \in Readers |-> 0]
  /\ size = [r \in Sinks |-> 0]
  /\ buffer = [r \in Sinks |-> <<>>] /\ written = [r \in Sinks |-> <<>>]
  /\ edges = <<>>
  /\ stopping = FALSE
  /\ since = [r \in Readers |-> 0] /\ skipped = [r \in Readers |-> FALSE]
  /\ cleared = 0 /\ upto = [r \in Sinks |-> 0]

-----------------------------------------------------------------------------
(* The queue                                                               *)

\* broadcast::Sender::send: the oldest event makes room, every live cursor falls
\* one further behind.  "pos" is where the cursors stand before the send.
Send(e, pos) ==
  /\ ring' = Append(IF Len(ring) = cap THEN Tail(ring) ELSE ring, e)
  /\ behind' = [r \in Readers |->
                  IF r \in Reading /\ pos[r] <= cap THEN pos[r] + 1 ELSE pos[r]]

\* The reader's own event, unless RUST_LOG filters it.
Note(pos) ==
  IF level = "info"
    THEN Send([n |-> Len(ids), own |-> TRUE], pos)
    ELSE behind' = pos /\ UNCHANGED ring

\* extract_span_ids: from the innermost span outwards, the first value of each id.
Nearest(scope, id) ==
  LET having == {i \in DOMAIN scope : scope[i][id] # 0}
  IN  IF having = {} THEN 0 ELSE scope[CHOOSE i \in having : \A j \in having : i <= j][id]

\* source_service_id and service_id of an event in a span chain.
IdsIn(scope) == <<Nearest(scope, "source"), Nearest(scope, "service")>>

\* DaemonLayer::on_event outside log processing.
Emit ==
  /\ Len(ids) < MaxEmits
  /\ \E scope \in Scopes : ids' = Append(ids, IdsIn(scope))
  /\ Send([n |-> Len(ids) + 1, own |-> FALSE], behind)
  /\ UNCHANGED <<cap, level, where, batch, size, buffer, written, edges, stopping, since,
                 skipped, cleared, upto>>

-----------------------------------------------------------------------------
(* The sinks                                                               *)

\* A sink starts: it subscribes and reads the batch size.  A file sink without
\* a config, or whose appender cannot be built, only waits for shutdown.
SinkStarts(r) ==
  /\ where[r] = "off"
  /\ \/ /\ r \in FileSinks
        /\ where' = [where EXCEPT ![r] = "idle"]
        /\ UNCHANGED <<batch, since>>
     \/ /\ where' = [where EXCEPT ![r] = "loop"]
        /\ \E n \in BatchSizes : batch' = [batch EXCEPT ![r] = n]
        /\ since' = [since EXCEPT ![r] = Len(ids)]
  /\ UNCHANGED <<ring, ids, cap, level, behind, size, buffer, written, edges, stopping,
                 skipped, cleared, upto>>

\* One pass of the select: shutdown is looked at first, then the channel.
Poll(r) ==
  /\ where[r] = "loop" /\ ~stopping /\ behind[r] > 0
  /\ where' = [where EXCEPT ![r] = "poll"]
  /\ UNCHANGED <<ring, ids, cap, level, batch, behind, size, buffer, written, edges, stopping,
                 since, skipped, cleared, upto>>

\* The event at r's cursor.
AtCursor(r) == ring[Len(ring) - behind[r] + 1]

\* The application's event at r's cursor, if it is one.
Taken(r) == IF AtCursor(r).own THEN <<>> ELSE <<AtCursor(r).n>>

\* recv returns an event: the batch begins.
Recv(r) ==
  /\ where[r] = "poll" /\ behind[r] \in 1 .. cap
  /\ size' = [size EXCEPT ![r] = @ + 1]
  /\ buffer' = [buffer EXCEPT ![r] = @ \o Taken(r)]
  /\ behind' = [behind EXCEPT ![r] = @ - 1]
  /\ where' = [where EXCEPT ![r] = "greedy"]
  /\ UNCHANGED <<ring, ids, cap, level, batch, written, edges, stopping, since, skipped,
                 cleared, upto>>

\* recv returns Lagged: the cursor is now at the oldest retained event, and the
\* warning is one more event on the same queue.  Once the ring holds only warnings
\* the collector's pass through this branch leaves the state as it was: a reader
\* that spins here for ever shows as stuttering at the end of a trace.
Lagged(r) ==
  /\ where[r] \in {"poll", "collect"} /\ behind[r] > cap
  /\ Note([behind EXCEPT ![r] = cap])
  /\ skipped' = [skipped EXCEPT ![r] = TRUE]
  /\ where' = [where EXCEPT ![r] = IF r = Collector THEN "collect" ELSE "loop"]
  /\ UNCHANGED <<ids, cap, level, batch, size, buffer, written, edges, stopping, since,
                 cleared, upto>>

\* The greedy drain: try_recv while the batch has room.
Greedy(r) ==
  /\ where[r] = "greedy" /\ size[r] < batch[r] /\ behind[r] \in 1 .. cap
  /\ size' = [size EXCEPT ![r] = @ + 1]
  /\ buffer' = [buffer EXCEPT ![r] = @ \o Taken(r)]
  /\ behind' = [behind EXCEPT ![r] = @ - 1]
  /\ UNCHANGED <<ring, ids, cap, level, where, batch, written, edges, stopping, since,
                 skipped, cleared, upto>>

\* The batch is full, the channel empty, or try_recv said Lagged (which moves the
\* cursor and is not reported): the batch is written.
Flush(r) ==
  /\ where[r] = "greedy"
  /\ size[r] >= batch[r] \/ behind[r] \notin 1 .. cap
  /\ written' = [written EXCEPT ![r] = @ \o buffer[r]]
  /\ size' = [size EXCEPT ![r] = 0] /\ buffer' = [buffer EXCEPT ![r] = <<>>]
  /\ LET lag == size[r] < batch[r] /\ behind[r] > cap
     IN  /\ behind' = [behind EXCEPT ![r] = IF lag THEN cap ELSE @]
         /\ skipped' = [skipped EXCEPT ![r] = @ \/ lag]
  /\ where' = [where EXCEPT ![r] = "loop"]
  /\ UNCHANGED <<ring, ids, cap, level, batch, edges, stopping, since, cleared, upto>>

\* Shutdown is seen: a reading sink drains, an idle one returns.
Break(r) ==
  /\ where[r] \in {"loop", "idle"} /\ stopping
  /\ where' = [where EXCEPT ![r] = IF where[r] = "idle" THEN "returned" ELSE "final"]
  /\ UNCHANGED <<ring, ids, cap, level, batch, behind, size, buffer, written, edges, stopping,
                 since, skipped, cleared, upto>>

\* The last drain: try_recv until it fails, however many events there are.
FinalRecv(r) ==
  /\ where[r] = "final" /\ behind[r] \in 1 .. cap
  /\ buffer' = [buffer EXCEPT ![r] = @ \o Taken(r)]
  /\ behind' = [behind EXCEPT ![r] = @ - 1]
  /\ UNCHANGED <<ring, ids, cap, level, where, batch, size, written, edges, stopping, since,
                 skipped, cleared, upto>>

\* Mutant of FinalEnd: the last drain stops at a batch, like the others.
FinalEndAtBatch(r) ==
  /\ where[r] = "final"
  /\ behind[r] \notin 1 .. cap \/ Len(buffer[r]) >= batch[r]
  /\ written' = [written EXCEPT ![r] = @ \o buffer[r]]
  /\ buffer' = [buffer EXCEPT ![r] = <<>>]
  /\ skipped' = [skipped EXCEPT ![r] = @ \/ behind[r] > cap]
  /\ upto' = [upto EXCEPT ![r] = Len(ids)]
  /\ where' = [where EXCEPT ![r] = "stopped"]
  /\ Note([behind EXCEPT ![r] = 0])
  /\ UNCHANGED <<ids, cap, level, batch, size, edges, stopping, since, cleared>>

\* try_recv failed, for want of events or because of a lag: what was collected is
\* written, the farewell logged, the receiver dropped.
FinalEnd(r) ==
  /\ where[r] = "final" /\ behind[r] \notin 1 .. cap
  /\ written' = [written EXCEPT ![r] = @ \o buffer[r]]
  /\ buffer' = [buffer EXCEPT ![r] = <<>>]
  /\ skipped' = [skipped EXCEPT ![r] = @ \/ behind[r] > cap]
  /\ upto' = [upto EXCEPT ![r] = Len(ids)]
  /\ where' = [where EXCEPT ![r] = "stopped"]
  /\ Note([behind EXCEPT ![r] = 0])
  /\ UNCHANGED <<ids, cap, level, batch, size, edges, stopping, since, cleared>>

-----------------------------------------------------------------------------
(* The topology collector                                                  *)

\* start_topology_collector: the STARTED flag admits one caller.
CollectorStarts ==
  /\ where[Collector] = "off"
  /\ where' = [where EXCEPT ![Collector] = "collect"]
  /\ since' = [since EXCEPT ![Collector] = Len(ids)]
  /\ cleared' = Len(ids)
  /\ UNCHANGED <<ring, ids, cap, level, batch, behind, size, buffer, written, edges, stopping,
                 skipped, upto>>

\* An application event stands for an edge when it has both ids and they differ.
IsEdge(e) == ids[e][1] # 0 /\ ids[e][2] # 0 /\ ids[e][1] # ids[e][2]

CountOf(p) == IF p \in DOMAIN edges THEN edges[p] ELSE 0

\* *edges.entry(edge).or_insert(0) += 1.
Counted(p) ==
  [q \in DOMAIN edges \cup {p} |-> IF q = p THEN CountOf(p) + 1 ELSE edges[q]]

\* process_event.
Collect ==
  /\ where[Collector] = "collect" /\ behind[Collector] \in 1 .. cap
  /\ LET e == AtCursor(Collector)
     IN  edges' = IF ~e.own /\ IsEdge(e.n) THEN Counted(ids[e.n]) ELSE edges
  /\ behind' = [behind EXCEPT ![Collector] = @ - 1]
  /\ UNCHANGED <<ring, ids, cap, level, where, batch, size, buffer, written, stopping, since,
                 skipped, cleared, upto>>

\* How many application events r's cursor is past; one that lagged will go on from the
\* oldest event the channel retains.
Passed(r) ==
  LET e == IF behind[r] <= cap THEN AtCursor(r) ELSE ring[1]
  IN  IF behind[r] = 0 THEN Len(ids) ELSE IF e.own THEN e.n ELSE e.n - 1

\* reset_topology.
Reset ==
  /\ DOMAIN edges # {}
  /\ edges' = <<>>
  /\ cleared' = Passed(Collector)
  /\ UNCHANGED <<ring, ids, cap, level, where, batch, behind, size, buffer, written, stopping,
                 since, skipped, upto>>

LogShutdown ==
  /\ ~stopping
  /\ stopping' = TRUE
  /\ UNCHANGED <<ring, ids, cap, level, where, batch, behind, size, buffer, written, edges,
                 since, skipped, cleared, upto>>

-----------------------------------------------------------------------------

SinkStep(r) ==
  \/ Poll(r) \/ Recv(r) \/ Lagged(r) \/ Greedy(r) \/ Flush(r)
  \/ Break(r) \/ FinalRecv(r) \/ FinalEnd(r)

LogNext ==
  \/ Emit
  \/ \E r \in Sinks : SinkStarts(r) \/ SinkStep(r)
  \/ CollectorStarts \/ Collect \/ Lagged(Collector) \/ Reset
  \/ LogShutdown

\* The readers are tokio tasks: each keeps being polled while it can move.
\* Nothing forces an application to log, configure or stop.
LogFairness ==
  /\ \A r \in Sinks : WF_logvars(SinkStep(r))
  /\ WF_logvars(Collect \/ Lagged(Collector))

LogSpec == LogInit /\ [][LogNext]_logvars /\ LogFairness

-----------------------------------------------------------------------------

\* The application's events that r has yet to read.
Unread(r) == {ring[i].n : i \in {j \in DOMAIN ring : j > Len(ring) - behind[r] /\ ~ring[j].own}}

\* A reader of the log queue that has not lagged misses nothing, and none reads
\* twice.  log_service and file_log_service write the application's events in the
\* order they were published, across batches, lags and the last drain; a sink whose
\* cursor was never moved past an event has, between what it wrote, what it collects
\* and what it has yet to read, every event published since it subscribed, and once
\* stopped has written all that was published up to its end; and every count of the
\* topology is the number of events its collector has read since the last reset whose
\* innermost ids name that edge.
ReadersComplete ==
  /\ \A r \in Reading : behind[r] <= cap => Unread(r) = Passed(r) + 1 .. Len(ids)
  /\ \A r \in Sinks :
       /\ \A i, j \in DOMAIN written[r] : i < j => written[r][i] < written[r][j]
       /\ ~skipped[r] /\ r \in Reading /\ behind[r] <= cap =>
            written[r] \o buffer[r] = [i \in 1 .. Passed(r) - since[r] |-> since[r] + i]
       /\ ~skipped[r] /\ where[r] = "stopped" =>
            written[r] = [i \in 1 .. upto[r] - since[r] |-> since[r] + i]
  /\ where[Collector] = "collect" /\ ~skipped[Collector] /\ behind[Collector] <= cap =>
       \A p \in {IdsIn(scope) : scope \in Scopes} :
         CountOf(p) = Cardinality({e \in cleared + 1 .. Passed(Collector) : IsEdge(e) /\ ids[e] = p})

\* A reader that has lagged gets back within the reach of the queue, or stops: the
\* headroom of the queue is meant for a temporary imbalance, not for a lag for ever.
LagPasses ==
  []<>(\A r \in Reading : behind[r] <= cap)
=============================================================================
