---------------------------- MODULE ManagedState ----------------------------
(***************************************************************************)
(* One provider type as services see it: the StateManagers that hold its    *)
(* value (managed_state.rs), the daemon's ProviderScope that may override   *)
(* the process-wide root manager (provider_scope.rs), and the dependency    *)
(* watch that reloads a generation when either changes.                     *)
(*                                                                          *)
(* Nothing here runs under a common lock, so every load or store of shared  *)
(* state is a step of its own.  Slot 0 is the root manager and slot n the   *)
(* n-th one installed.  A value is its slot and the number of publications  *)
(* before it; the seed of a slot is number 0.                               *)
(***************************************************************************)
EXTENDS Integers

CONSTANTS
    Readers,    \* watching services that resolve the provider as Arc<T>
    Writers,    \* tasks that resolve it as RwLock or Mutex and write
    MaxSlot,    \* bound: calls of SimulationHandle::override_provider
    MaxPub      \* bound: publications per slot

ASSUME ManagedAssumption == MaxSlot \in Nat /\ MaxPub \in Nat

Slots == 0..MaxSlot
Unset == -1

VARIABLES
    cache,      \* slots whose snapshot_cache is set
    inner,      \* TrackedRwLock.inner, or Unset while the lock cell is empty
    chan,       \* value in the watch channel, or Unset while watch_rx is empty
    epoch,      \* value_epoch
    inits,      \* successful runs of the provider's init function, per slot
    slot,       \* the local_slots entry; 0: none
    binding,    \* epoch of the local_bindings entry; 0: InheritedRoot
    slots,      \* slots allocated so far
    toBind,     \* override_provider calls that have yet to mutate the binding
    toNotify,   \* and those that have yet to notify
    wpc,        \* writers
    wslot,      \* the slot a writer resolved
    dirty,      \* TrackedWriteGuard.is_dirty, per slot
    rpc,        \* readers: the generation being started, then its body
    seen,       \* the binding epoch a body has looked up
    rslot,      \* the slot it found behind it
    got,        \* the value the last body resolved, [slot, pub]
    watch       \* [slot, base, binding] captured; value and bind: where its
                \* two futures are; vnote, bnote: notified since enabled

cells == <<cache, inner, chan, epoch, inits>>
scope == <<slot, binding, slots, toBind, toNotify>>
writing == <<wpc, wslot, dirty>>
reading == <<rpc, seen, rslot, got, watch>>
mvars == <<cache, inner, chan, epoch, inits, slot, binding, slots, toBind, toNotify,
           wpc, wslot, dirty, rpc, seen, rslot, got, watch>>

NoWatch == [slot |-> 0, base |-> 0, binding |-> 0,
            value |-> "off", bind |-> "off", vnote |-> FALSE, bnote |-> FALSE]

MInit ==
    /\ cache = {} /\ inner = [m \in Slots |-> Unset]
    /\ chan = [m \in Slots |-> Unset] /\ epoch = [m \in Slots |-> 0]
    /\ inits = [m \in Slots |-> 0]
    /\ slot = 0 /\ binding = 0 /\ slots = 0
    /\ toBind = 0 /\ toNotify = 0
    /\ wpc = [w \in Writers |-> "idle"] /\ wslot = [w \in Writers |-> 0]
    /\ dirty = [m \in Slots |-> FALSE]
    /\ rpc = [r \in Readers |-> "start"] /\ seen = [r \in Readers |-> 0]
    /\ rslot = [r \in Readers |-> 0]
    /\ got = [r \in Readers |-> [slot |-> 0, pub |-> 0]]
    /\ watch = [r \in Readers |-> NoWatch]

\* local_slot_for_binding: the slot behind a binding epoch read earlier.
SlotFor(b) == IF b = 0 THEN 0 ELSE slot

\* publish_current under commit() or publish(), and under Drop.
SendFrom == {"send", "dropSend"}
BumpFrom == {"bump", "dropBump"}
NotifyFrom == {"notify", "dropNotify"}

\* Who is inside get_or_try_init of the lock cell, who has the write lock, who
\* is inside get_or_try_init of the snapshot cell.
Locking(m) == \E w \in Writers : wslot[w] = m /\ wpc[w] \in {"init", "seed"}
Held(m) ==
    \E w \in Writers : wslot[w] = m /\ wpc[w] \in {"held"} \cup SendFrom \cup BumpFrom \cup NotifyFrom
Caching(m) == \E r \in Readers : rslot[r] = m /\ rpc[r] = "init"

(* ------------------------------- overrides ----------------------------- *)

\* install_local_slot: the slot, seeded with its value, goes in first.
InsertSlot ==
    /\ slots < MaxSlot
    /\ slots' = slots + 1
    /\ slot' = slots + 1
    /\ cache' = cache \cup {slots + 1}
    /\ toBind' = toBind + 1
    /\ UNCHANGED <<binding, toNotify, inner, chan, epoch, inits, writing, reading>>

\* mutate_binding
MutateBinding ==
    /\ toBind > 0
    /\ binding' = binding + 1
    /\ toBind' = toBind - 1
    /\ toNotify' = toNotify + 1
    /\ UNCHANGED <<slot, slots, cells, writing, reading>>

\* notify_binding_changed: futures that are enabled take the notification.
NotifyBinding ==
    /\ toNotify > 0
    /\ toNotify' = toNotify - 1
    /\ watch' = [r \in Readers |->
                   [watch[r] EXCEPT !.bnote = @ \/ watch[r].bind \in {"recheck", "parked"}]]
    /\ UNCHANGED <<slot, binding, slots, toBind, cells, writing, rpc, seen, rslot, got>>

(* -------------------------------- writers ------------------------------ *)

\* resolve_provider_rwlock and resolve_provider_mutex: read the binding, ...
WriterLookup(w) ==
    /\ wpc[w] = "idle"
    /\ wpc' = [wpc EXCEPT ![w] = IF binding = 0 THEN "resolve" ELSE "local"]
    /\ UNCHANGED <<cells, scope, wslot, dirty, reading>>

\* ... then the slot.
WriterSlot(w) ==
    /\ wpc[w] = "local"
    /\ wslot' = [wslot EXCEPT ![w] = slot]
    /\ wpc' = [wpc EXCEPT ![w] = "resolve"]
    /\ UNCHANGED <<cells, scope, dirty, reading>>

\* resolve_rwlock_result, lock cell set.
LockResolved(w) ==
    /\ wpc[w] = "resolve"
    /\ inner[wslot[w]] # Unset
    /\ wpc' = [wpc EXCEPT ![w] = "acquire"]
    /\ UNCHANGED <<cells, scope, wslot, dirty, reading>>

\* resolve_rwlock_result, lock cell empty: a cached snapshot is the seed.
LockBegin(w) ==
    /\ wpc[w] = "resolve"
    /\ inner[wslot[w]] = Unset
    /\ ~Locking(wslot[w])
    /\ wpc' = [wpc EXCEPT ![w] = IF wslot[w] \in cache THEN "seed" ELSE "init"]
    /\ UNCHANGED <<cells, scope, wslot, dirty, reading>>

\* The provider's init function returns.
LockInitOk(w) ==
    /\ wpc[w] = "init"
    /\ inits' = [inits EXCEPT ![wslot[w]] = @ + 1]
    /\ wpc' = [wpc EXCEPT ![w] = "seed"]
    /\ UNCHANGED <<cache, inner, chan, epoch, scope, wslot, dirty, reading>>

\* The init function fails, or the caller is cancelled: the cell is free again.
LockInitFails(w) ==
    /\ wpc[w] = "init"
    /\ wpc' = [wpc EXCEPT ![w] = "idle"]
    /\ wslot' = [wslot EXCEPT ![w] = 0]
    /\ UNCHANGED <<cells, scope, dirty, reading>>

\* watch_rx is set, then the lock cell; no reader looks at the latter.
LockReady(w) ==
    /\ wpc[w] = "seed"
    /\ chan' = [chan EXCEPT ![wslot[w]] = 0]
    /\ inner' = [inner EXCEPT ![wslot[w]] = 0]
    /\ wpc' = [wpc EXCEPT ![w] = "acquire"]
    /\ UNCHANGED <<cache, epoch, inits, scope, wslot, dirty, reading>>

\* TrackedRwLock::write, TrackedMutex::lock
Acquire(w) ==
    /\ wpc[w] = "acquire"
    /\ ~Held(wslot[w])
    /\ wpc' = [wpc EXCEPT ![w] = "held"]
    /\ UNCHANGED <<cells, scope, wslot, dirty, reading>>

\* DerefMut: a new value that the channel does not have yet.
DerefMut(w) ==
    /\ wpc[w] = "held"
    /\ chan[wslot[w]] < MaxPub
    /\ inner' = [inner EXCEPT ![wslot[w]] = chan[wslot[w]] + 1]
    /\ dirty' = [dirty EXCEPT ![wslot[w]] = TRUE]
    /\ UNCHANGED <<cache, chan, epoch, inits, scope, wpc, wslot, reading>>

\* publish(new): the caller's value replaces the inner one and is sent.
PublishNew(w) ==
    /\ wpc[w] = "held"
    /\ chan[wslot[w]] < MaxPub
    /\ inner' = [inner EXCEPT ![wslot[w]] = chan[wslot[w]] + 1]
    /\ wpc' = [wpc EXCEPT ![w] = "send"]
    /\ UNCHANGED <<cache, chan, epoch, inits, scope, wslot, dirty, reading>>

\* commit()
Commit(w) ==
    /\ wpc[w] = "held"
    /\ dirty[wslot[w]]
    /\ wpc' = [wpc EXCEPT ![w] = "send"]
    /\ UNCHANGED <<cells, scope, wslot, dirty, reading>>

\* Mutant of DropGuard: mutations that were not committed are not published.
DropGuardSilent(w) ==
    /\ wpc[w] = "held"
    /\ wpc' = [wpc EXCEPT ![w] = "idle"]
    /\ wslot' = [wslot EXCEPT ![w] = 0]
    /\ UNCHANGED <<cells, scope, dirty, reading>>

\* Drop of the guard, at the end of its scope or when its task is dropped.
DropGuard(w) ==
    /\ wpc[w] = "held"
    /\ wpc' = [wpc EXCEPT ![w] = IF dirty[wslot[w]] THEN "dropSend" ELSE "idle"]
    /\ wslot' = [wslot EXCEPT ![w] = IF dirty[wslot[w]] THEN @ ELSE 0]
    /\ UNCHANGED <<cells, scope, dirty, reading>>

\* publish_current: send_replace ...
SendReplace(w) ==
    /\ wpc[w] \in SendFrom
    /\ chan' = [chan EXCEPT ![wslot[w]] = inner[wslot[w]]]
    /\ wpc' = [wpc EXCEPT ![w] = IF @ = "send" THEN "bump" ELSE "dropBump"]
    /\ UNCHANGED <<cache, inner, epoch, inits, scope, wslot, dirty, reading>>

\* ... then value_epoch.fetch_add ...
BumpEpoch(w) ==
    /\ wpc[w] \in BumpFrom
    /\ epoch' = [epoch EXCEPT ![wslot[w]] = @ + 1]
    /\ wpc' = [wpc EXCEPT ![w] = IF @ = "bump" THEN "notify" ELSE "dropNotify"]
    /\ UNCHANGED <<cache, inner, chan, inits, scope, wslot, dirty, reading>>

\* ... then notify_waiters, is_dirty = false and, in Drop, the unlock.
NotifyWaiters(w) ==
    /\ wpc[w] \in NotifyFrom
    /\ watch' = [r \in Readers |->
                   [watch[r] EXCEPT !.vnote = @ \/ /\ watch[r].slot = wslot[w]
                                                   /\ watch[r].value \in {"recheck", "parked"}]]
    /\ dirty' = [dirty EXCEPT ![wslot[w]] = FALSE]
    /\ wslot' = [wslot EXCEPT ![w] = IF wpc[w] = "notify" THEN @ ELSE 0]
    /\ wpc' = [wpc EXCEPT ![w] = IF @ = "notify" THEN "held" ELSE "idle"]
    /\ UNCHANGED <<cells, scope, rpc, seen, rslot, got>>

(* -------------------------------- readers ------------------------------ *)

\* on_starting: the generation's provider_dependency_watch reads the binding,
WatchBinding(r) ==
    /\ rpc[r] = "start"
    /\ watch' = [watch EXCEPT ![r] = [NoWatch EXCEPT !.binding = binding]]
    /\ rpc' = [rpc EXCEPT ![r] = "watchSlot"]
    /\ UNCHANGED <<cells, scope, writing, seen, rslot, got>>

\* the slot behind it,
WatchSlot(r) ==
    /\ rpc[r] = "watchSlot"
    /\ watch' = [watch EXCEPT ![r].slot = SlotFor(watch[r].binding)]
    /\ rpc' = [rpc EXCEPT ![r] = "watchEpoch"]
    /\ UNCHANGED <<cells, scope, writing, seen, rslot, got>>

\* and the baseline epoch.  on_running then polls the watch beside the body.
WatchEpoch(r) ==
    /\ rpc[r] = "watchEpoch"
    /\ watch' = [watch EXCEPT ![r].base = epoch[watch[r].slot],
                             ![r].value = "enable", ![r].bind = "enable"]
    /\ rpc' = [rpc EXCEPT ![r] = "lookup"]
    /\ UNCHANGED <<cells, scope, writing, seen, rslot, got>>

\* The body: resolve_provider_snapshot reads the binding,
ReaderLookup(r) ==
    /\ rpc[r] = "lookup"
    /\ seen' = [seen EXCEPT ![r] = binding]
    /\ rpc' = [rpc EXCEPT ![r] = "slot"]
    /\ UNCHANGED <<cells, scope, writing, rslot, got, watch>>

\* the slot,
ReaderSlot(r) ==
    /\ rpc[r] = "slot"
    /\ rslot' = [rslot EXCEPT ![r] = SlotFor(seen[r])]
    /\ seen' = [seen EXCEPT ![r] = 0]
    /\ rpc' = [rpc EXCEPT ![r] = "channel"]
    /\ UNCHANGED <<cells, scope, writing, got, watch>>

Resolved(r, n) ==
    /\ got' = [got EXCEPT ![r] = [slot |-> rslot[r], pub |-> n]]
    /\ rslot' = [rslot EXCEPT ![r] = 0]
    /\ rpc' = [rpc EXCEPT ![r] = "running"]

\* resolve_snapshot_result: the watch channel if there is one,
ReadChannel(r) ==
    /\ rpc[r] = "channel"
    /\ \/ chan[rslot[r]] # Unset /\ Resolved(r, chan[rslot[r]])
       \/ /\ chan[rslot[r]] = Unset
          /\ rpc' = [rpc EXCEPT ![r] = "cache"]
          /\ UNCHANGED <<rslot, got>>
    /\ UNCHANGED <<cells, scope, writing, seen, watch>>

\* else the cached snapshot, which another get_or_try_init may have to fill,
ReadCache(r) ==
    /\ rpc[r] = "cache"
    /\ rslot[r] \in cache
    /\ Resolved(r, 0)
    /\ UNCHANGED <<cells, scope, writing, seen, watch>>

\* else it fills the cache itself.
CacheBegin(r) ==
    /\ rpc[r] = "cache"
    /\ rslot[r] \notin cache
    /\ ~Caching(rslot[r])
    /\ rpc' = [rpc EXCEPT ![r] = "init"]
    /\ UNCHANGED <<cells, scope, writing, seen, rslot, got, watch>>

\* The provider's init function returns, and the cell is set.
CacheInitOk(r) ==
    /\ rpc[r] = "init"
    /\ inits' = [inits EXCEPT ![rslot[r]] = @ + 1]
    /\ cache' = cache \cup {rslot[r]}
    /\ rpc' = [rpc EXCEPT ![r] = "cache"]
    /\ UNCHANGED <<inner, chan, epoch, scope, writing, seen, rslot, got, watch>>

\* A failed init ends the generation; its watch is dropped.
CacheInitFails(r) ==
    /\ rpc[r] = "init"
    /\ watch' = [watch EXCEPT ![r] = NoWatch]
    /\ rpc' = [rpc EXCEPT ![r] = "start"]
    /\ UNCHANGED <<cells, scope, writing, seen, rslot, got>>

\* The body returns, by itself or because it was asked to reload.
BodyReturns(r) ==
    /\ rpc[r] = "running"
    /\ watch' = [watch EXCEPT ![r] = NoWatch]
    /\ rpc' = [rpc EXCEPT ![r] = "start"]
    /\ UNCHANGED <<cells, scope, writing, seen, rslot, got>>

(* --------------------------------- watch ------------------------------- *)

Polled(r, w) ==
    /\ watch' = [watch EXCEPT ![r] = w]
    /\ UNCHANGED <<cells, scope, writing, rpc, seen, rslot, got>>

\* select! returns a ProviderDependencyChange and drops both futures.
Fired == [NoWatch EXCEPT !.value = "fired", !.bind = "fired"]

\* Mutant of ValueWatch: the epoch is compared before the notification is
\* enabled, and not after.
ValueWatchEarly(r) ==
    LET w == watch[r] IN
    \/ w.value = "enable" /\ epoch[w.slot] # w.base /\ Polled(r, Fired)
    \/ w.value = "enable" /\ epoch[w.slot] = w.base /\ Polled(r, [w EXCEPT !.value = "late"])
    \/ w.value = "late" /\ Polled(r, [w EXCEPT !.value = "parked"])
    \/ w.value = "parked" /\ w.vnote /\ Polled(r, [w EXCEPT !.value = "enable", !.vnote = FALSE])

\* changed_since: enable the notification, compare, await.  (The comparison
\* before enabling returns early at most what the one after it would.)
ValueWatch(r) ==
    LET w == watch[r] IN
    \/ w.value = "enable" /\ Polled(r, [w EXCEPT !.value = "recheck"])
    \/ w.value = "recheck" /\ epoch[w.slot] # w.base /\ Polled(r, Fired)
    \/ w.value = "recheck" /\ epoch[w.slot] = w.base /\ Polled(r, [w EXCEPT !.value = "parked"])
    \/ w.value = "parked" /\ w.vnote /\ Polled(r, [w EXCEPT !.value = "enable", !.vnote = FALSE])

\* binding_changed_from: enable the notification, compare, await.
BindingWatch(r) ==
    LET w == watch[r] IN
    \/ w.bind = "enable" /\ Polled(r, [w EXCEPT !.bind = "recheck"])
    \/ w.bind = "recheck" /\ binding # w.binding /\ Polled(r, Fired)
    \/ w.bind = "recheck" /\ binding = w.binding /\ Polled(r, [w EXCEPT !.bind = "parked"])
    \/ w.bind = "parked" /\ w.bnote /\ Polled(r, [w EXCEPT !.bind = "enable", !.bnote = FALSE])

(* ----------------------------- specification --------------------------- *)

Resolve(w) ==
    \/ WriterLookup(w) \/ WriterSlot(w) \/ LockResolved(w) \/ LockBegin(w)
    \/ LockInitOk(w) \/ LockInitFails(w) \/ LockReady(w)
Write(w) ==
    Acquire(w) \/ DerefMut(w) \/ PublishNew(w) \/ Commit(w) \/ DropGuard(w)
PublishStep(w) == SendReplace(w) \/ BumpEpoch(w) \/ NotifyWaiters(w)

StartWatches(r) == WatchBinding(r) \/ WatchSlot(r) \/ WatchEpoch(r)
Snapshot(r) ==
    \/ ReaderLookup(r) \/ ReaderSlot(r) \/ ReadChannel(r) \/ ReadCache(r)
    \/ CacheBegin(r) \/ CacheInitOk(r) \/ CacheInitFails(r) \/ BodyReturns(r)

MNext ==
    \/ InsertSlot \/ MutateBinding \/ NotifyBinding
    \/ \E w \in Writers : Resolve(w) \/ Write(w) \/ PublishStep(w)
    \/ \E r \in Readers : StartWatches(r) \/ Snapshot(r) \/ ValueWatch(r) \/ BindingWatch(r)

MSpec == MInit /\ [][MNext]_mvars

\* Synchronous code runs on: a publication and the end of an installation are
\* not suspended for ever, and the supervisor is polled when its watch wakes.
MFairSpec ==
    /\ MSpec
    /\ \A w \in Writers : WF_mvars(PublishStep(w))
    /\ WF_mvars(MutateBinding) /\ WF_mvars(NotifyBinding)
    /\ \A r \in Readers : WF_mvars(ValueWatch(r)) /\ WF_mvars(BindingWatch(r))

(* ------------------------------- properties ---------------------------- *)

\* Once no guard is held, snapshots show everything that was written: whatever
\* mix of deref_mut, commit and publish a guard saw, its Drop left the channel
\* and the epoch level with the value under the lock.
SnapshotIsLatest ==
    \A m \in Slots :
        ~Held(m) /\ inner[m] # Unset => chan[m] = inner[m] /\ epoch[m] = inner[m]

\* What a new generation would resolve now.
Effective ==
    LET m == SlotFor(binding) IN [slot |-> m, pub |-> IF chan[m] = Unset THEN 0 ELSE chan[m]]

\* A body that works with a value that is no longer the effective one, because
\* of a publication or of an override, is reloaded, or has returned.
ChangeReachesBody ==
    \A r \in Readers :
        (rpc[r] = "running" /\ got[r] # Effective)
            ~> (watch[r].value = "fired" \/ rpc[r] # "running")

\* docs: a provider's resource "is initialized once".
InitializedOnce == inits[0] <= 1
=============================================================================
