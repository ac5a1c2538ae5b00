---------------------------- MODULE TriggerHosts -----------------------------
(***************************************************************************)
(* The built-in trigger hosts and their event sources: what happens        *)
(* between a publisher's call and the transition handle_step returns       *)
(* (core/triggers.rs, TrackedNotify and TrackedSender of                   *)
(* core/managed_state.rs, TriggerHost::run_as_service of                   *)
(* models/trigger.rs).                                                     *)
(*                                                                         *)
(* Several trigger services listen to one target of the kind chosen in     *)
(* HInit.  The dispatch of TriggerRunner.tla is one state here, "busy":    *)
(* while a host is busy it does not poll its source, and when a handler    *)
(* finishes while the host waits, the select! of the event loop drops the  *)
(* handle_step future and makes a new one.  tokio's Notify and broadcast   *)
(* channel are external and modelled from how these hosts use them.        *)
(***************************************************************************)
EXTENDS Integers, Sequences

CONSTANTS
  Hosts,         \* trigger services listening to the target
  Publishers,    \* services that publish on it
  Kinds,         \* subset of {"topic", "signal", "cron", "watch"}
  TopicCap,      \* capacity of the broadcast channel
  MaxMessages,   \* bound: publications
  MaxSourceMoves,\* bound: cron ticks, and the last epoch of the watched provider
  MaxLives       \* bound: generations of a host that end other than by a reload

\* broadcast::channel panics without a capacity.
ASSUME HostsAssumption == TopicCap \in Nat \ {0}

VARIABLES
  kind,      \* the kind of the target
  place,     \* per host: "down", "poll", "wait", "woken", "got", "busy", "idle", "off"
  lives,     \* per host: generations started
  running,   \* per host: a spawned handler is still in flight
  sources,   \* the publisher of each message, in the order the ids were made
  publish,   \* per publisher: the message whose id is recorded and which is not out yet
  lastId,    \* TrackedSender/TrackedNotify::last_id, 0 for None
  sent,      \* broadcast channel: the messages sent
  cursor,    \* per topic host: messages its receiver has passed
  got,       \* per host: the message handle_step has received and not yet returned
  handled,   \* per host: <<position or 0, message, identity>> of its transitions
  base,      \* per topic host: where its generation subscribed
  lagged,    \* per topic host: its receiver has skipped messages in this generation
  permit,    \* Notify: a stored notify_one
  wokenBy,   \* per host: what woke its Notified future
  owed,      \* a notify_one no host has acted on yet
  jobs,      \* cron: <<host, generation>> of the registered jobs
  ticks,     \* cron: ticks of the schedule
  epoch,     \* watch: the provider's epoch
  baseline,  \* per watch host: the epoch its generation's watch set captured
  latest     \* per watch host: the newest epoch a dispatch has seen

hvars == <<kind, place, lives, running, sources, publish, lastId, sent, cursor, got,
           handled, base, lagged, permit, wokenBy, owed, jobs, ticks, epoch, baseline,
           latest>>

loopvars == <<place, lives, running>>
idvars == <<sources, publish, lastId>>
topicvars == <<sent, cursor, base, lagged>>
signalvars == <<permit, wokenBy, owed>>
cronvars == <<jobs, ticks>>
watchvars == <<epoch, baseline, latest>>

Zero == [h \in Hosts |-> 0]

HInit ==
  /\ kind \in Kinds
  /\ place = [h \in Hosts |-> "down"] /\ lives = Zero
  /\ running = [h \in Hosts |-> FALSE]
  /\ sources = <<>> /\ publish = [p \in Publishers |-> 0] /\ lastId = 0
  /\ sent = <<>> /\ cursor = Zero /\ base = Zero /\ lagged = [h \in Hosts |-> FALSE]
  /\ got = Zero /\ handled = [h \in Hosts |-> <<>>]
  /\ permit = FALSE /\ wokenBy = [h \in Hosts |-> "none"] /\ owed = FALSE
  /\ jobs = {} /\ ticks = 0
  /\ epoch = 1 /\ baseline = Zero /\ latest = Zero

Waiting == {h \in Hosts : place[h] = "wait"}

-----------------------------------------------------------------------------
(* Publishers                                                              *)

\* send and notify_*, first part: capture_message_identity, and the id is recorded.
RecordId(p) ==
  /\ kind \in {"topic", "signal"} /\ publish[p] = 0 /\ Len(sources) < MaxMessages
  /\ sources' = Append(sources, p)
  /\ publish' = [publish EXCEPT ![p] = Len(sources) + 1]
  /\ lastId' = Len(sources) + 1
  /\ UNCHANGED <<kind, loopvars, topicvars, got, handled, signalvars, cronvars, watchvars>>

\* TrackedSender::send, second part.
SendMessage(p) ==
  /\ kind = "topic" /\ publish[p] # 0
  /\ sent' = Append(sent, publish[p])
  /\ publish' = [publish EXCEPT ![p] = 0]
  /\ UNCHANGED <<kind, loopvars, sources, lastId, cursor, base, lagged, got, handled,
                 signalvars, cronvars, watchvars>>

\* Notify::notify_waiters wakes the hosts that wait now; nothing is stored.
WakeAll(hs) ==
  /\ place' = [h \in Hosts |-> IF h \in hs THEN "woken" ELSE place[h]]
  /\ wokenBy' = [h \in Hosts |-> IF h \in hs THEN "all" ELSE wokenBy[h]]

\* TrackedNotify::notify_waiters, second part.
NotifyWaiters(p) ==
  /\ kind = "signal" /\ publish[p] # 0
  /\ publish' = [publish EXCEPT ![p] = 0]
  /\ WakeAll(Waiting)
  /\ UNCHANGED <<kind, lives, running, sources, lastId, topicvars, got, handled,
                 permit, owed, cronvars, watchvars>>

\* Mutant of NotifyOne: only those that wait now are told.
NotifyOneUnstored(p) ==
  /\ kind = "signal" /\ publish[p] # 0
  /\ publish' = [publish EXCEPT ![p] = 0]
  /\ owed' = TRUE
  /\ WakeAll(Waiting)
  /\ UNCHANGED <<kind, lives, running, sources, lastId, topicvars, got, handled,
                 permit, cronvars, watchvars>>

\* TrackedNotify::notify_one, second part: one waiter is woken, or the
\* notification is stored.
NotifyOne(p) ==
  /\ kind = "signal" /\ publish[p] # 0
  /\ publish' = [publish EXCEPT ![p] = 0]
  /\ owed' = TRUE
  /\ \/ /\ Waiting = {}
        /\ permit' = TRUE
        /\ UNCHANGED <<place, wokenBy>>
     \/ \E h \in Waiting :
          /\ place' = [place EXCEPT ![h] = "woken"]
          /\ wokenBy' = [wokenBy EXCEPT ![h] = "one"]
          /\ UNCHANGED permit
  /\ UNCHANGED <<kind, lives, running, sources, lastId, topicvars, got, handled,
                 cronvars, watchvars>>

-----------------------------------------------------------------------------
(* A generation of a host                                                  *)

\* TopicHost::setup: a receiver at the tail of the channel.
Subscribe(h) ==
  /\ kind = "topic"
  /\ cursor' = [cursor EXCEPT ![h] = Len(sent)]
  /\ base' = [base EXCEPT ![h] = Len(sent)]
  /\ lagged' = [lagged EXCEPT ![h] = FALSE]
  /\ UNCHANGED <<sent, jobs>>

\* CronHost::setup: one more job, with a Notify of its own; the jobs of earlier
\* generations stay with the scheduler.
AddJob(h) ==
  /\ kind = "cron"
  /\ jobs' = jobs \cup {<<h, lives[h] + 1>>}
  /\ UNCHANGED topicvars

\* on_starting: the generation's watch set captures the epoch.
Baseline(h) ==
  /\ baseline' = [baseline EXCEPT ![h] = epoch]
  /\ UNCHANGED <<epoch, latest>>

\* run_as_service: setup, then the event loop.
Setup(h) ==
  /\ place[h] = "down" /\ lives[h] < MaxLives
  /\ place' = [place EXCEPT ![h] = "poll"]
  /\ lives' = [lives EXCEPT ![h] = @ + 1]
  /\ \/ Subscribe(h)
     \/ AddJob(h)
     \/ kind \in {"signal", "watch"} /\ UNCHANGED <<topicvars, jobs>>
  /\ Baseline(h)
  /\ UNCHANGED <<kind, running, idvars, got, handled, signalvars, ticks>>

\* CronHost::setup fails: a fatal error, the service is not restarted.
SetupFails(h) ==
  /\ kind = "cron" /\ place[h] = "down"
  /\ place' = [place EXCEPT ![h] = "off"]
  /\ UNCHANGED <<kind, lives, running, idvars, topicvars, got, handled, signalvars,
                 cronvars, watchvars>>

\* handle_step is polled for the first time.
PollStep(h) ==
  /\ place[h] = "poll" /\ kind # "watch"
  /\ IF permit
       THEN /\ place' = [place EXCEPT ![h] = "woken"]
            /\ wokenBy' = [wokenBy EXCEPT ![h] = "one"]
            /\ permit' = FALSE
       ELSE /\ place' = [place EXCEPT ![h] = "wait"]
            /\ UNCHANGED <<wokenBy, permit>>
  /\ UNCHANGED <<kind, lives, running, idvars, topicvars, got, handled, owed, cronvars,
                 watchvars>>

\* TopicHost: recv returns the message at the cursor.
ReceiveMessage(h) ==
  /\ kind = "topic" /\ place[h] = "wait"
  /\ Len(sent) - cursor[h] \in 1 .. TopicCap
  /\ cursor' = [cursor EXCEPT ![h] = @ + 1]
  /\ got' = [got EXCEPT ![h] = sent[cursor[h] + 1]]
  /\ place' = [place EXCEPT ![h] = "got"]
  /\ UNCHANGED <<kind, lives, running, idvars, sent, base, lagged, handled, signalvars,
                 cronvars, watchvars>>

\* TopicHost: recv returns Lagged; handle_step tries again.
TopicLags(h) ==
  /\ kind = "topic" /\ place[h] = "wait"
  /\ Len(sent) - cursor[h] > TopicCap
  /\ cursor' = [cursor EXCEPT ![h] = Len(sent) - TopicCap]
  /\ lagged' = [lagged EXCEPT ![h] = TRUE]
  /\ UNCHANGED <<kind, loopvars, idvars, sent, base, got, handled, signalvars, cronvars,
                 watchvars>>

\* Mutant of TakeId: last_id is read and left.
TakeIdReads(h) ==
  /\ lastId' = lastId
  /\ handled' = [handled EXCEPT ![h] = Append(@, <<cursor[h], got[h], lastId>>)]

\* last_id takes what is recorded now, and handle_step returns Next.
TakeId(h) ==
  /\ lastId' = 0
  /\ handled' = [handled EXCEPT ![h] = Append(@, <<cursor[h], got[h], lastId>>)]

\* handle_step returns: the runner has an event to dispatch.
StepReturns(h) ==
  /\ place[h] \in {"got", "woken"}
  /\ IF kind = "cron" THEN /\ handled' = [handled EXCEPT ![h] = Append(@, <<0, 0, 0>>)]
                           /\ UNCHANGED lastId
                      ELSE TakeId(h)
  /\ place' = [place EXCEPT ![h] = "busy"]
  /\ got' = [got EXCEPT ![h] = 0]
  /\ wokenBy' = [wokenBy EXCEPT ![h] = "none"]
  /\ owed' = (owed /\ kind # "signal")
  /\ UNCHANGED <<kind, lives, running, sources, publish, topicvars, permit, cronvars,
                 watchvars>>

\* WatchHost returns Reload: the dispatch sees the provider as it is now.
WatchFires(h) ==
  /\ kind = "watch" /\ place[h] = "poll"
  /\ latest' = [latest EXCEPT ![h] = epoch]
  /\ place' = [place EXCEPT ![h] = "busy"]
  /\ UNCHANGED <<kind, lives, running, idvars, topicvars, got, handled, signalvars,
                 cronvars, epoch, baseline>>

\* Mutant of WatchIdles: the reload wait takes a baseline of its own.
WatchIdlesRebased(h) ==
  /\ kind = "watch" /\ place[h] = "busy"
  /\ place' = [place EXCEPT ![h] = "idle"]
  /\ Baseline(h)
  /\ UNCHANGED <<kind, lives, running, idvars, topicvars, got, handled, signalvars,
                 cronvars>>

\* handle_transition, Reload: dispatched, the host waits for its generation to be
\* reloaded.
WatchIdles(h) ==
  /\ kind = "watch" /\ place[h] = "busy"
  /\ place' = [place EXCEPT ![h] = "idle"]
  /\ UNCHANGED <<kind, lives, running, idvars, topicvars, got, handled, signalvars,
                 cronvars, watchvars>>

\* The runner has a permit: the handler runs as a task of its own and the loop goes
\* round.  Serial hosts wait for the handler that is still running.
Dispatched(h) ==
  /\ place[h] = "busy" /\ kind # "watch" /\ (kind = "topic" \/ ~running[h])
  /\ place' = [place EXCEPT ![h] = "poll"]
  /\ running' = [running EXCEPT ![h] = TRUE]
  /\ UNCHANGED <<kind, lives, idvars, topicvars, got, handled, signalvars, cronvars,
                 watchvars>>

\* The handle_step future of h is dropped: a Notified woken by notify_one passes its
\* notification on, one woken by notify_waiters does not.
DropStep(h, next) ==
  LET others == Waiting \ {h} IN
  IF place[h] = "woken" /\ wokenBy[h] = "one"
    THEN \/ /\ others = {}
            /\ permit' = TRUE
            /\ place' = [place EXCEPT ![h] = next]
            /\ wokenBy' = [wokenBy EXCEPT ![h] = "none"]
         \/ \E o \in others :
              /\ place' = [place EXCEPT ![h] = next, ![o] = "woken"]
              /\ wokenBy' = [wokenBy EXCEPT ![h] = "none", ![o] = "one"]
              /\ UNCHANGED permit
    ELSE /\ place' = [place EXCEPT ![h] = next]
         /\ wokenBy' = [wokenBy EXCEPT ![h] = "none"]
         /\ UNCHANGED permit

\* A handler ends.  The biased select! looks at it before it polls handle_step, so a
\* host that waits, woken or not, starts its step anew.
HandlerEnds(h) ==
  /\ running[h]
  /\ running' = [running EXCEPT ![h] = FALSE]
  /\ IF place[h] \in {"wait", "woken"}
       THEN DropStep(h, "poll")
       ELSE UNCHANGED <<place, wokenBy, permit>>
  /\ UNCHANGED <<kind, lives, idvars, topicvars, got, handled, owed, cronvars, watchvars>>

\* The generation ends (failure, external reload); the restart delay, if any, is
\* spent in "down", where nothing is watched.
GenerationEnds(h) ==
  /\ place[h] \in {"poll", "wait", "woken", "busy", "idle"} /\ lives[h] < MaxLives
  /\ DropStep(h, "down")
  /\ running' = [running EXCEPT ![h] = FALSE]
  /\ UNCHANGED <<kind, lives, idvars, topicvars, got, handled, owed, cronvars, watchvars>>

-----------------------------------------------------------------------------
(* Cron and watch sources                                                  *)

\* The schedule is due: every job notifies the waiters of its own Notify, of which
\* only the job of a host's current generation has one.
Tick ==
  /\ kind = "cron" /\ ticks < MaxSourceMoves
  /\ ticks' = ticks + 1
  /\ WakeAll({h \in Waiting : <<h, lives[h]>> \in jobs})
  /\ UNCHANGED <<kind, lives, running, idvars, topicvars, got, handled, permit, owed,
                 jobs, watchvars>>

\* A commit to the watched provider.
Change ==
  /\ kind = "watch" /\ epoch < MaxSourceMoves
  /\ epoch' = epoch + 1
  /\ UNCHANGED <<kind, loopvars, idvars, topicvars, got, handled, signalvars, cronvars,
                 baseline, latest>>

\* The generation's watch set reports a change since its baseline: reload.
WatchReloads(h) ==
  /\ kind = "watch" /\ place[h] \in {"poll", "busy", "idle"} /\ epoch # baseline[h]
  /\ place' = [place EXCEPT ![h] = "poll"]
  /\ Baseline(h)
  /\ UNCHANGED <<kind, lives, running, idvars, topicvars, got, handled, signalvars,
                 cronvars>>

-----------------------------------------------------------------------------

HostStep(h) ==
  \/ Setup(h) \/ PollStep(h) \/ ReceiveMessage(h) \/ TopicLags(h) \/ StepReturns(h)
  \/ WatchFires(h) \/ WatchIdles(h) \/ Dispatched(h) \/ WatchReloads(h)

HNext ==
  \/ \E p \in Publishers : RecordId(p) \/ SendMessage(p) \/ NotifyWaiters(p) \/ NotifyOne(p)
  \/ \E h \in Hosts : HostStep(h) \/ SetupFails(h) \/ HandlerEnds(h) \/ GenerationEnds(h)
  \/ Tick \/ Change

\* The supervisor starts generations and the runtime polls the loops and runs the
\* handlers to their end; nothing forces anybody to publish.
HFairness ==
  \A h \in Hosts : WF_hvars(HostStep(h)) /\ WF_hvars(HandlerEnds(h))

HSpec == HInit /\ [][HNext]_hvars /\ HFairness

-----------------------------------------------------------------------------

\* A host dispatches what was fired, in order and once.  TopicHost hands a trigger
\* the messages in channel order, none twice, not even across the receivers of
\* successive generations, and misses none since its setup while its receiver has
\* not lagged; one tick of the schedule is at most one dispatch of a cron trigger,
\* although the jobs of its earlier generations are still registered; and no message
\* identity is used for two dispatches, of one trigger or of two that share the
\* target, because last_id takes it out.
DispatchedOnce ==
  /\ kind = "topic" => \A h \in Hosts :
       /\ \A i, j \in DOMAIN handled[h] : i < j => handled[h][i][1] < handled[h][j][1]
       /\ (~lagged[h] /\ place[h] \in {"poll", "wait", "busy"}) =>
            base[h] + 1 .. cursor[h] \subseteq {handled[h][i][1] : i \in DOMAIN handled[h]}
  /\ kind = "cron" => \A h \in Hosts : Len(handled[h]) <= ticks
  /\ \A h, k \in Hosts : \A i \in DOMAIN handled[h], j \in DOMAIN handled[k] :
       (handled[h][i][3] # 0 /\ handled[h][i][3] = handled[k][j][3]) => (h = k /\ i = j)

\* A notify_one reaches a handler, whatever else goes on: a host that is busy, a
\* select! that drops the woken step, a generation that ends with it.
NotifyOneArrives == owed ~> ~owed

\* WatchHost catches up: whatever was committed to the provider, every host comes to
\* dispatch with the newest value, also when the commit falls between two
\* generations, into a restart delay, or between the baseline and the dispatch.
WatchCatchesUp ==
  []<>(kind = "watch" => \A h \in Hosts : latest[h] = epoch)
=============================================================================
