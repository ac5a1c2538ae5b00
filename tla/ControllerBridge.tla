-------------------------- MODULE ControllerBridge ---------------------------
(***************************************************************************)
(* examples/controller-bridge: a device connection shared by a trigger     *)
(* host that polls it and by command handlers that wait for replies        *)
(* (adapter/connection.rs, transport.rs, codec.rs, services/controller.rs, *)
(* trigger_templates.rs).                                                  *)
(*                                                                         *)
(* Every method of ConnectionHandle holds the mutex for the whole call and *)
(* awaits nothing that is not ready, so each is one step.  What the device *)
(* sends is a sequence of reads: some whole frames, the first half of a    *)
(* frame, its second half, or the loss of the link.  The host's dispatch   *)
(* has one permit (its scaling policy is None), and a handler that ends    *)
(* makes the event loop drop the step the host is in (TriggerHosts).       *)
(***************************************************************************)
EXTENDS Integers, Sequences, SequencesExt, FiniteSets

CONSTANTS
  SequenceOf,      \* the requests: <<sequence, ...>>, request r has SequenceOf[r]
  RetiredLimit,    \* RETIRED_SEQUENCE_LIMIT
  MaxReads         \* bound: reads the device prepares

ASSUME BridgeAssumption == SequenceOf \in Seq(Nat) /\ {RetiredLimit, MaxReads} \subseteq Nat

VARIABLES
  link,       \* TransportBuffer.state
  inbound,    \* TransportBuffer.inbound
  carry,      \* FrameCodec.buffer: the half frame, or None
  pend,       \* pending_commands: per sequence, the request, 0 for none
  retired,    \* retired_sequences_order
  queue,      \* pending_events
  links,      \* reconnects
  at,         \* per request: its handler's place
  slot,       \* per request: what its oneshot holds
  answer,     \* per request: what its ControllerReplyHandle was completed with
  cancels,    \* requests whose dropped guard has spawned a cancel_command
  host,       \* the host's place in handle_step
  final,      \* stop_after_final_event
  shut,       \* closed_after_final_event
  handling,   \* a handler of the host is in flight
  log,        \* the events dispatched
  unanswered, \* commands the device has received and not replied to
  half,       \* the frame the device has sent half of, or None
  reads,      \* reads prepared
  ended,      \* ghost: per sequence, the retirements before its last one
  retires,    \* ghost: retirements
  crossed,    \* ghost: a reply or cancellation meant for another request took effect
  halt        \* shutdown of the services

bvars == <<link, inbound, carry, pend, retired, queue, links, at, slot, answer, cancels,
           host, final, shut, handling, log, unanswered, half, reads, ended, retires,
           crossed, halt>>
wire == <<link, inbound, carry, links>>
book == <<pend, retired, ended, retires>>
device == <<unanswered, half, reads>>
hostvars == <<host, final, shut, handling, log>>
cmdvars == <<at, slot, answer, cancels>>

Requests == DOMAIN SequenceOf
Seqs == Range(SequenceOf)
None == <<"none">>
Event(n) == <<"event", n>>
Final == <<"final">>
Bad == <<"bad">>              \* neither a reply nor an event
Oversized == <<"oversized">>  \* a header beyond MAX_FRAME_LEN
Reply(r, fits) == <<"reply", r, fits>>
Drop == <<"drop">>

BInit ==
  /\ link = "Disconnected" /\ inbound = <<>> /\ carry = None
  /\ pend = [s \in Seqs |-> 0] /\ retired = <<>> /\ queue = <<>> /\ links = 0
  /\ at = [r \in Requests |-> "new"] /\ slot = [r \in Requests |-> "none"]
  /\ answer = [r \in Requests |-> "none"] /\ cancels = {}
  /\ host = "setup" /\ final = FALSE /\ shut = FALSE /\ handling = FALSE /\ log = <<>>
  /\ unanswered = {} /\ half = None /\ reads = 0
  /\ ended = [s \in Seqs |-> 0] /\ retires = 0 /\ crossed = FALSE /\ halt = FALSE

-----------------------------------------------------------------------------
(* Command bookkeeping                                                     *)

\* retire_sequence for each of the sequences in ss, in this order.
Retire(ss) ==
  /\ retired' = LET all == retired \o ss
                IN  SubSeq(all, 1 + (IF Len(all) > RetiredLimit THEN Len(all) - RetiredLimit
                                     ELSE 0), Len(all))
  /\ retires' = retires + Len(ss)
  /\ ended' = [s \in Seqs |-> IF Contains(ss, s) THEN retires + (CHOOSE i \in DOMAIN ss : ss[i] = s)
                                ELSE ended[s]]

\* Mutant of EndAll: the sequences are not retired.
EndAllForgets(c) ==
  /\ pend' = [s \in Seqs |-> 0]
  /\ slot' = [r \in Requests |-> IF \E s \in Seqs : pend[s] = r THEN "err" ELSE slot[r]]
  /\ UNCHANGED <<retired, ended, retires>>

\* drain_pending_commands: a HashMap, so in any order c.
EndAll(c) ==
  /\ pend' = [s \in Seqs |-> 0]
  /\ slot' = [r \in Requests |-> IF \E s \in Seqs : pend[s] = r THEN "err" ELSE slot[r]]
  /\ Retire(c)

PendingSeqs == {s \in Seqs : pend[s] # 0}
Orders == SetToSeqs(PendingSeqs)

\* cancel_command
Cancel(r) ==
  LET s == SequenceOf[r] IN
  IF pend[s] = 0 THEN UNCHANGED <<book, slot, crossed>>
  ELSE /\ pend' = [pend EXCEPT ![s] = 0]
       /\ slot' = [slot EXCEPT ![pend[s]] = "err"]
       /\ crossed' = (crossed \/ (pend[s] # r /\ retires - ended[s] < RetiredLimit))
       /\ Retire(<<s>>)

\* send_controller_command up to the select!: send_command, and the guard.
SendCommand(r) ==
  /\ at[r] = "new"
  /\ LET s == SequenceOf[r] IN
     IF pend[s] # 0 \/ Contains(retired, s) \/ link # "Connected"
     THEN /\ answer' = [answer EXCEPT ![r] = "err"] /\ at' = [at EXCEPT ![r] = "over"]
          /\ UNCHANGED <<pend, slot, unanswered>>
     ELSE /\ unanswered' = unanswered \cup {r}
          /\ pend' = [pend EXCEPT ![s] = r] /\ slot' = [slot EXCEPT ![r] = "open"]
          /\ at' = [at EXCEPT ![r] = "sent"] /\ UNCHANGED answer
  /\ UNCHANGED <<wire, retired, ended, retires, queue, cancels, hostvars, half, reads, crossed,
                 halt>>

\* The reply arrived, or its sender was used for an error: guard.complete.
CommandReplied(r) ==
  /\ at[r] = "sent" /\ slot[r] \in {"ok", "err"}
  /\ answer' = [answer EXCEPT ![r] = slot[r]] /\ at' = [at EXCEPT ![r] = "over"]
  /\ UNCHANGED <<wire, book, queue, slot, cancels, hostvars, device, crossed, halt>>

\* The reply timeout, or wait_shutdown: the handler asks for cancel_command.
CommandGivenUp(r) ==
  /\ at[r] = "sent"
  /\ at' = [at EXCEPT ![r] = "cancel"]
  /\ UNCHANGED <<wire, book, queue, slot, answer, cancels, hostvars, device, crossed, halt>>

CommandCancelled(r) ==
  /\ at[r] = "cancel"
  /\ Cancel(r)
  /\ answer' = [answer EXCEPT ![r] = "err"] /\ at' = [at EXCEPT ![r] = "over"]
  /\ UNCHANGED <<wire, queue, cancels, hostvars, device, halt>>

\* Mutant of HandlerDropped: the guard leaves the command pending.
HandlerDroppedNoCancel(r) ==
  /\ at[r] \in {"new", "sent", "cancel"}
  /\ at' = [at EXCEPT ![r] = "over"]
  /\ answer' = [answer EXCEPT ![r] = IF at[r] = "new" THEN "closed" ELSE "err"]
  /\ UNCHANGED cancels
  /\ UNCHANGED <<wire, book, queue, slot, hostvars, device, crossed, halt>>

\* The dispatch of the handler is dropped: before the guard exists the reply handle
\* is just dropped; after, CommandDispatchGuard::drop answers and spawns the cancel.
HandlerDropped(r) ==
  /\ at[r] \in {"new", "sent", "cancel"}
  /\ at' = [at EXCEPT ![r] = "over"]
  /\ answer' = [answer EXCEPT ![r] = IF at[r] = "new" THEN "closed" ELSE "err"]
  /\ cancels' = IF at[r] = "new" THEN cancels ELSE cancels \cup {r}
  /\ UNCHANGED <<wire, book, queue, slot, hostvars, device, crossed, halt>>

SpawnedCancel(r) ==
  /\ r \in cancels
  /\ Cancel(r)
  /\ cancels' = cancels \ {r}
  /\ UNCHANGED <<wire, queue, at, answer, hostvars, device, halt>>

-----------------------------------------------------------------------------
(* The device                                                              *)

\* What a frame may hold; n numbers the device's events.
Messages(n) == {Reply(r, fits) : r \in unanswered, fits \in BOOLEAN}
               \cup {Event(n), Final, Bad, Oversized}
Replies(ms) == {i \in DOMAIN ms : ms[i][1] = "reply"}

\* One or two whole frames in one read, one of them a reply at most; what follows an
\* oversized header is not looked at.
DeviceSends ==
  /\ reads < MaxReads /\ half = None
  /\ \E ms \in {<<a>> : a \in Messages(2 * reads)}
               \cup {<<a, b>> : a \in Messages(2 * reads) \ {Oversized}, b \in Messages(2 * reads + 1)} :
       /\ \A i, j \in Replies(ms) : i = j
       /\ inbound' = Append(inbound, ms)
       /\ unanswered' = {r \in unanswered : \A i \in DOMAIN ms, f \in BOOLEAN : ms[i] # Reply(r, f)}
  /\ reads' = reads + 1
  /\ UNCHANGED <<link, carry, links, book, queue, cmdvars, hostvars, half, crossed, halt>>

DeviceSendsHalf ==
  /\ reads < MaxReads /\ half = None
  /\ half' = Event(2 * reads) /\ inbound' = Append(inbound, <<<<"head", Event(2 * reads)>>>>)
  /\ reads' = reads + 1
  /\ UNCHANGED <<link, carry, links, book, queue, cmdvars, hostvars, unanswered, crossed, halt>>

DeviceSendsRest ==
  /\ half # None
  /\ inbound' = Append(inbound, <<<<"rest">>>>) /\ half' = None
  /\ UNCHANGED <<link, carry, links, book, queue, cmdvars, hostvars, unanswered, reads, crossed,
                 halt>>

DeviceDrops ==
  /\ reads < MaxReads
  /\ inbound' = Append(inbound, <<Drop>>) /\ half' = None
  /\ reads' = reads + 1
  /\ UNCHANGED <<link, carry, links, book, queue, cmdvars, hostvars, unanswered, crossed, halt>>

-----------------------------------------------------------------------------
(* recv_event                                                              *)

\* FrameCodec::feed, then handle_frame of each frame until one fails: the frames
\* before an oversized header in one read are lost with it, and so are the frames
\* after one that is neither a reply nor an event.
Frames(ms) ==
  IF Contains(ms, Oversized) \/ ms[1][1] = "head" THEN <<>>
  ELSE LET whole == IF ms[1][1] = "rest" THEN <<carry>> ELSE ms
           bads  == {i \in DOMAIN whole : whole[i] = Bad}
       IN  IF bads = {} THEN whole
           ELSE SubSeq(whole, 1, (CHOOSE i \in bads : \A j \in bads : i <= j) - 1)

FeedFails(ms) == Contains(ms, Oversized) \/ Contains(ms, Bad)

CarryAfter(ms) ==
  IF ms[1][1] = "head" THEN ms[1][2] ELSE None

\* handle_frame of a reply: no pending command, or the command it is for.
TakeReply(m) ==
  LET s == SequenceOf[m[2]] IN
  IF pend[s] = 0 THEN UNCHANGED <<book, slot, crossed>>
  ELSE /\ pend' = [pend EXCEPT ![s] = 0]
       /\ slot' = [slot EXCEPT ![pend[s]] = IF m[3] THEN "ok" ELSE "err"]
       /\ crossed' = (crossed \/ (pend[s] # m[2] /\ retires - ended[s] < RetiredLimit))
       /\ Retire(<<s>>)

\* What handle_step does with the result: an event, or the end of the loop's turn.
Deliver(e) ==
  IF e = Final
  THEN final' = TRUE /\ host' = "closing" /\ UNCHANGED log
  ELSE host' = "dispatch" /\ log' = Append(log, e) /\ UNCHANGED final

RecvQueued ==
  /\ host = "poll" /\ ~final /\ queue # <<>>
  /\ queue' = Tail(queue) /\ Deliver(Head(queue))
  /\ UNCHANGED <<wire, book, cmdvars, shut, handling, device, crossed, halt>>

\* Bytes: at most one reply in a read of the device here, so TakeReply is enough.
RecvBytes ==
  /\ host = "poll" /\ ~final /\ queue = <<>> /\ link = "Connected"
  /\ inbound # <<>> /\ Head(inbound) # <<Drop>>
  /\ LET ms == Head(inbound)
         fs == Frames(ms)
         reply == CHOOSE i \in Replies(fs) : TRUE
         evs == IF Replies(fs) = {} THEN fs ELSE RemoveAt(fs, reply)
     IN  /\ inbound' = Tail(inbound) /\ carry' = CarryAfter(ms)
         /\ IF Replies(fs) = {} THEN UNCHANGED <<book, slot, crossed>> ELSE TakeReply(fs[reply])
         /\ IF FeedFails(ms)
            THEN /\ queue' = evs
                 /\ host' = "dispatch" /\ log' = Append(log, Bad) /\ UNCHANGED final
            ELSE IF evs = <<>> THEN UNCHANGED <<queue, host, log, final>>
            ELSE queue' = Tail(evs) /\ Deliver(Head(evs))
  /\ UNCHANGED <<link, links, at, answer, cancels, shut, handling, device, halt>>

\* Disconnected: the codec is reset, the commands are drained, connect() at once.
RecvDrop ==
  /\ host = "poll" /\ ~final /\ queue = <<>> /\ link = "Connected"
  /\ inbound # <<>> /\ Head(inbound) = <<Drop>>
  /\ inbound' = Tail(inbound) /\ carry' = None /\ links' = links + 1
  /\ \E c \in Orders : EndAll(c)
  /\ queue' = <<<<"recovered", links + 1>>>>
  /\ Deliver(<<"interrupted", links + 1>>)
  /\ UNCHANGED <<link, at, answer, cancels, shut, handling, device, crossed, halt>>

-----------------------------------------------------------------------------
(* The host                                                                *)

HostSetup ==
  /\ host = "setup"
  /\ link' = "Connected" /\ host' = "poll"
  /\ UNCHANGED <<inbound, carry, links, book, queue, cmdvars, final, shut, handling, log, device,
                 crossed, halt>>

\* close(): in the step that received Completed, or in the next one.
HostClose ==
  /\ ~shut /\ (host = "closing" \/ (host = "poll" /\ final))
  /\ \E c \in Orders : EndAll(c)
  /\ link' = "Closed" /\ shut' = TRUE
  /\ IF host = "closing" THEN host' = "dispatch" /\ log' = Append(log, Final)
     ELSE UNCHANGED <<host, log>>
  /\ UNCHANGED <<inbound, carry, links, queue, at, answer, cancels, final, handling, device,
                 crossed, halt>>

\* The event loop dispatches: the handler takes the only permit.
HostDispatch ==
  /\ host = "dispatch" /\ ~handling
  /\ host' = "poll" /\ handling' = TRUE
  /\ UNCHANGED <<wire, book, queue, cmdvars, final, shut, log, device, crossed, halt>>

\* A handler ends: the select! drops the step the host is in, so a Completed that
\* waits for the mutex of close() is gone.
BridgeHandlerReturns ==
  /\ handling
  /\ handling' = FALSE
  /\ host' = IF host = "closing" THEN "poll" ELSE host
  /\ UNCHANGED <<wire, book, queue, cmdvars, final, shut, log, device, crossed, halt>>

BridgeShutdown ==
  /\ ~halt /\ halt' = TRUE
  /\ UNCHANGED <<wire, book, queue, cmdvars, hostvars, device, crossed>>

\* The shutdown ends the host's step: sleep() or wait_shutdown() returns.
HostStops ==
  /\ halt /\ host \in {"poll", "closing"}
  /\ host' = "stopped"
  /\ UNCHANGED <<wire, book, queue, cmdvars, final, shut, handling, log, device, crossed, halt>>

HostStepB ==
  RecvQueued \/ RecvBytes \/ RecvDrop \/ HostSetup \/ HostClose \/ HostDispatch \/ HostStops
CommandStep(r) ==
  SendCommand(r) \/ CommandReplied(r) \/ CommandGivenUp(r) \/ CommandCancelled(r)

BNext ==
  \/ HostStepB \/ BridgeHandlerReturns \/ BridgeShutdown
  \/ DeviceSends \/ DeviceSendsHalf \/ DeviceSendsRest \/ DeviceDrops
  \/ \E r \in Requests : CommandStep(r) \/ HandlerDropped(r) \/ SpawnedCancel(r)

\* tokio runs the tasks that are ready; the reply timeout fires (2 s).
BFairness ==
  /\ WF_bvars(HostStepB) /\ WF_bvars(BridgeHandlerReturns)
  /\ \A r \in Requests : WF_bvars(CommandStep(r)) /\ WF_bvars(SpawnedCancel(r))

BSpec == BInit /\ [][BNext]_bvars /\ BFairness

-----------------------------------------------------------------------------
(* Properties                                                              *)

\* Nothing crosses on a connection.  While fewer than RETIRED_SEQUENCE_LIMIT
\* sequences have been retired since a sequence was last used, no late reply and no
\* late cancel_command of a dropped handler ends another request's command of that
\* sequence; the events reach the handlers in the order the device sent them, a lost
\* link included (LinkInterrupted is directly followed by its LinkRecovered); and no
\* command stays pending on a closed connection.
NothingCrosses ==
  /\ ~crossed
  /\ \A i, j \in DOMAIN log : i < j /\ log[i][1] = "event" /\ log[j][1] = "event"
                              => log[i][2] < log[j][2]
  /\ \A i \in DOMAIN log : log[i][1] = "interrupted" /\ i < Len(log)
                           => log[i + 1] = <<"recovered", log[i][2]>>
  /\ link = "Closed" => PendingSeqs = {}

\* What begins on a connection ends.  Every request is answered, with a reply, an
\* error or a closed channel; a command whose handler is over, however that ended, is
\* taken off the connection, so pending_commands does not grow with dropped handlers;
\* and once the device's last event was received the connection is closed, even if
\* the step that received it is dropped, unless the host is stopped first.
ConnectionSettles ==
  /\ []<>(\A r \in Requests : at[r] # "new" => answer[r] # "none")
  /\ []<>(\A r \in Requests : at[r] = "over" => \A s \in Seqs : pend[s] # r)
  /\ final ~> (link = "Closed" \/ halt)
=============================================================================
