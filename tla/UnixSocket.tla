----------------------------- MODULE UnixSocket -----------------------------
(***************************************************************************)
(* The UnixListen and UnixConnect provider templates                         *)
(* (macro: provider/templates/unix.rs): how a process takes over a socket    *)
(* path, and how a client finds a listener there.                            *)
(*                                                                          *)
(* The file system is external: a path holds nothing, an ordinary file, or a *)
(* socket, named after the process and the start that bound it.  A socket    *)
(* file outlives its listener.  Each system call of bind_prelude is a step.  *)
(***************************************************************************)
EXTENDS Integers, Sequences

CONSTANTS
    Processes,      \* daemons configured with the same path
    Clients,        \* processes with a UnixConnect provider for it
    MaxStarts,      \* bound: starts of a process
    MaxTries        \* bound: attempts of one init_fallible loop

VARIABLES
    path,       \* what the path names
    listening,  \* sockets with an open listener
    pc,         \* of try_new, per process
    starts,     \* per process
    tries,      \* per process or client, in this start
    client,     \* outcome of the client's provider
    met         \* two processes have been inside try_new at the same time

uvars == <<path, listening, pc, starts, tries, client, met>>

Nothing == <<"nothing", 0>>
File == <<"file", 0>>
Socket(p) == <<p, starts[p]>>

Inside == {"stat", "probe", "restat", "remove", "bind"}

UInit ==
    /\ path \in {Nothing, File} \cup (Processes \X {0})  \* possibly left by an earlier run
    /\ listening = {}
    /\ pc = [p \in Processes |-> "down"] /\ starts = [p \in Processes |-> 0]
    /\ tries = [x \in Processes \cup Clients |-> 0]
    /\ client = [c \in Clients |-> "init"]
    /\ met = FALSE

Goto(p, l) == pc' = [pc EXCEPT ![p] = l]

Start(p) ==
    /\ pc[p] = "down" /\ starts[p] < MaxStarts
    /\ met' = (met \/ \E q \in Processes : pc[q] \in Inside)
    /\ starts' = [starts EXCEPT ![p] = @ + 1] /\ tries' = [tries EXCEPT ![p] = 0]
    /\ Goto(p, "stat")
    /\ UNCHANGED <<path, listening, client>>

\* symlink_metadata
Stat(p) ==
    /\ pc[p] = "stat"
    /\ Goto(p, IF path = Nothing THEN "bind" ELSE "probe")
    /\ UNCHANGED <<path, listening, starts, tries, client, met>>

\* UnixStream::connect
Probe(p) ==
    /\ pc[p] = "probe"
    /\ Goto(p, IF path \in listening THEN "fatal" ELSE "restat")
    /\ UNCHANGED <<path, listening, starts, tries, client, met>>

\* Mutant of Restat: whatever does not answer is removed.
RestatAny(p) ==
    /\ pc[p] = "restat"
    /\ Goto(p, IF path = Nothing THEN "bind" ELSE "remove")
    /\ UNCHANGED <<path, listening, starts, tries, client, met>>

\* symlink_metadata again: only a socket is removed.
Restat(p) ==
    /\ pc[p] = "restat"
    /\ Goto(p, IF path = Nothing THEN "bind" ELSE IF path = File THEN "fatal" ELSE "remove")
    /\ UNCHANGED <<path, listening, starts, tries, client, met>>

\* remove_file; NotFound is fine.
RemoveStale(p) ==
    /\ pc[p] = "remove"
    /\ path' = Nothing
    /\ Goto(p, "bind")
    /\ UNCHANGED <<listening, starts, tries, client, met>>

\* UnixListener::bind; AddrInUse is retryable, and init_fallible calls try_new
\* again until its timeout.
Bind(p) ==
    /\ pc[p] = "bind"
    /\ IF path = Nothing
       THEN /\ path' = Socket(p) /\ listening' = listening \cup {Socket(p)}
            /\ Goto(p, "serving") /\ UNCHANGED tries
       ELSE /\ tries' = [tries EXCEPT ![p] = @ + 1]
            /\ Goto(p, IF tries[p] + 1 < MaxTries THEN "stat" ELSE "timeout")
            /\ UNCHANGED <<path, listening>>
    /\ UNCHANGED <<starts, client, met>>

\* The daemon ends, in whatever state: the listener is closed, the file stays.
Exit(p) ==
    /\ pc[p] # "down"
    /\ listening' = listening \ {Socket(p)}
    /\ Goto(p, "down")
    /\ UNCHANGED <<path, starts, tries, client, met>>

\* UnixConnect: probe_and_classify; refused and not found are retryable.
Connect(c) ==
    /\ client[c] = "init"
    /\ IF path \in listening
       THEN client' = [client EXCEPT ![c] = "connected"] /\ UNCHANGED tries
       ELSE /\ tries' = [tries EXCEPT ![c] = @ + 1]
            /\ client' = [client EXCEPT ![c] = IF tries[c] + 1 < MaxTries THEN "init" ELSE "timeout"]
    /\ UNCHANGED <<path, listening, pc, starts, met>>

TryNew(p) == Stat(p) \/ Probe(p) \/ Restat(p) \/ RemoveStale(p) \/ Bind(p)

UNext ==
    \/ \E p \in Processes : Start(p) \/ TryNew(p) \/ Exit(p)
    \/ \E c \in Clients : Connect(c)

UFairness == \A p \in Processes : WF_uvars(TryNew(p))

USpec == UInit /\ [][UNext]_uvars /\ UFairness

(* ------------------------------ properties ------------------------------ *)

\* A process that was given its listener is the one that clients of the path reach:
\* another start of try_new neither removes nor replaces the socket of a listener
\* that is still open, as long as no two starts overlap (bind_prelude probes, looks
\* again and removes in separate system calls).
ListenerReachable == ~met => \A s \in listening : path = s

\* try_new takes over the path of a stale socket, and only that.  A listener that is
\* open stays reachable; an ordinary file at the path is never removed, whatever the
\* starts; and a stale socket does not keep a lone process from binding: only a live
\* listener, an ordinary file or its own end can.
OnlyStaleIsTakenOver ==
    /\ []ListenerReachable
    /\ [][path = File => path' = File]_uvars
    /\ \A p \in Processes :
        (pc[p] = "stat" /\ path # File /\ listening = {}) ~> (pc[p] \in {"serving", "down"} \/ listening # {})
=============================================================================
