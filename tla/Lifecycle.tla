----------------------------- MODULE Lifecycle -----------------------------
(* How the process starts, notices that a part of it has died, and stops:   *)
(* start.rs and the spawn function of each thread. The main thread runs the *)
(* core services on its LocalSet, spawns up to four OS threads, waits at a  *)
(* gate for each to report ready, and then runs until the root cancellation *)
(* token is cancelled. What the services compute is left to the other       *)
(* modules; here a task only runs, is aborted, or has finished.             *)
EXTENDS Integers, Sequences

CONSTANT CoreServices  \* the services on the main LocalSet: matcher, price, admin, obs

VARIABLES
    enabled,  \* the threads the configuration asks for (router_enabled)
    main,     \* where start is: boot, spawn, gate, run, join, returned
    at,       \* the thread of Order that start deals with next
    refused,  \* the threads the OS would not spawn
    cancel,   \* the root CancellationToken has been cancelled
    core,     \* the services on the main LocalSet
    thread,   \* the program counter of each OS thread
    ready,    \* the readiness oneshot of each thread
    task,     \* the tasks of the client threads
    polls     \* how often each JoinHandle has been polled to completion

vars == <<enabled, main, at, refused, cancel, core, thread, ready, task, polls>>

Order == <<"ingest", "executor", "price_api", "router">>
Clients == {"ingest", "executor"}
Servers == {"price_api", "router"}
Threads == Clients \cup Servers

\* (ingest, subscribe-relay) and (executor, executor-sync).
Handles == Clients \X {1, 2}

Mains == {"boot", "spawn", "gate", "run", "join", "returned"}
ThreadStates == {"unspawned", "building", "up", "drain1", "await1", "drain2", "await2", "exited"}

(* One type invariant for the module.                                       *)
TypeOK ==
    /\ enabled \in SUBSET Threads
    /\ main \in Mains
    /\ at \in 1..4
    /\ refused \in SUBSET Threads
    /\ cancel \in BOOLEAN
    /\ core \in [CoreServices -> {"none", "running", "exited"}]
    /\ thread \in [Threads -> ThreadStates]
    /\ ready \in [Threads -> {"none", "ok", "err", "dropped"}]
    /\ task \in [Handles -> {"none", "running", "aborted", "finished"}]
    /\ polls \in [Handles -> Nat]

Init ==
    /\ enabled \in {Threads, Threads \ {"router"}}
    /\ main = "boot" /\ at = 1
    /\ refused = {}
    /\ cancel = FALSE
    /\ core = [s \in CoreServices |-> "none"]
    /\ thread = [t \in Threads |-> "unspawned"]
    /\ ready = [t \in Threads |-> "none"]
    /\ task = [h \in Handles |-> "none"]
    /\ polls = [h \in Handles |-> 0]

-----------------------------------------------------------------------------
(* start, on the main thread.                                               *)

\* Opening the database, building the price client, parsing the pairs or
\* prepare_db fails: start returns before anything has been spawned.
BootFails ==
    /\ main = "boot"
    /\ main' = "returned"
    /\ UNCHANGED <<enabled, at, refused, cancel, core, thread, ready, task, polls>>

\* The services of the main thread are spawned on its LocalSet.
SpawnCore ==
    /\ main = "boot"
    /\ core' = [s \in CoreServices |-> "running"]
    /\ main' = "spawn"
    /\ UNCHANGED <<enabled, at, refused, cancel, thread, ready, task, polls>>

\* The next thread of Order is spawned, or left out by the configuration.
Spawn ==
    /\ main = "spawn"
    /\ thread' = IF Order[at] \in enabled
                 THEN [thread EXCEPT ![Order[at]] = "building"] ELSE thread
    /\ IF at = 4 THEN main' = "gate" /\ at' = 1
                 ELSE at' = at + 1 /\ UNCHANGED main
    /\ UNCHANGED <<enabled, refused, cancel, core, ready, task, polls>>

\* The OS refuses the thread. The three ? return at once and detach whatever
\* runs by then; only the router's arm cancels and joins.
SpawnRefused ==
    /\ main = "spawn" /\ Order[at] \in enabled
    /\ refused' = refused \cup {Order[at]}
    /\ IF Order[at] = "router"
       THEN main' = "join" /\ at' = 1 /\ cancel' = TRUE
       ELSE main' = "returned" /\ UNCHANGED <<at, cancel>>
    /\ UNCHANGED <<enabled, core, thread, ready, task, polls>>

\* The gate: every thread that was spawned must report ready, in order.
GatePasses ==
    /\ main = "gate"
    /\ Order[at] \in enabled => ready[Order[at]] = "ok"
    /\ IF at = 4 THEN main' = "run" /\ at' = 1
                 ELSE at' = at + 1 /\ UNCHANGED main
    /\ UNCHANGED <<enabled, refused, cancel, core, thread, ready, task, polls>>

GateFailsReturns ==
    /\ main = "gate"
    /\ Order[at] \in enabled /\ ready[Order[at]] \in {"err", "dropped"}
    /\ main' = "returned"
    /\ UNCHANGED <<enabled, at, refused, cancel, core, thread, ready, task, polls>>

\* A thread reports an error, or drops the sender without a word: everything
\* is cancelled and joined, and start returns the error.
GateFails ==
    /\ main = "gate"
    /\ Order[at] \in enabled /\ ready[Order[at]] \in {"err", "dropped"}
    /\ cancel' = TRUE
    /\ main' = "join" /\ at' = 1
    /\ UNCHANGED <<enabled, refused, core, thread, ready, task, polls>>

\* The select of step 15, and the cancel of step 16.
AwaitShutdown ==
    /\ main = "run" /\ (cancel \/ \E s \in CoreServices : core[s] = "exited")
    /\ cancel' = TRUE
    /\ main' = "join"
    /\ UNCHANGED <<enabled, at, refused, core, thread, ready, task, polls>>

\* spawn_blocking joins the threads one after the other; one that was not
\* spawned has no handle to join.
Join ==
    /\ main = "join"
    /\ thread[Order[at]] \in {"unspawned", "exited"}
    /\ IF at = 4 THEN main' = "returned" /\ UNCHANGED at
                 ELSE at' = at + 1 /\ UNCHANGED main
    /\ UNCHANGED <<enabled, refused, cancel, core, thread, ready, task, polls>>

-----------------------------------------------------------------------------
(* The root token and the services on the main LocalSet.                    *)

\* main.rs: Ctrl-C cancels the root token, at any time.
CtrlC ==
    /\ main # "returned" /\ ~cancel
    /\ cancel' = TRUE
    /\ UNCHANGED <<enabled, main, at, refused, core, thread, ready, task, polls>>

\* A core service ends: its port is taken, it failed, or it was cancelled. The
\* admin server cancels the root token itself, the others leave it to start.
CoreExits(s) ==
    /\ core[s] = "running"
    /\ core' = [core EXCEPT ![s] = "exited"]
    /\ cancel' = (cancel \/ s = "admin")
    /\ UNCHANGED <<enabled, main, at, refused, thread, ready, task, polls>>

-----------------------------------------------------------------------------
(* The client threads, ingest and executor.                                 *)

\* The thread's runtime cannot be built: the future that owns the readiness
\* sender is dropped unpolled.
RuntimeFails(t) ==
    /\ t \in Clients /\ thread[t] = "building"
    /\ thread' = [thread EXCEPT ![t] = "exited"]
    /\ ready' = [ready EXCEPT ![t] = "dropped"]
    /\ UNCHANGED <<enabled, main, at, refused, cancel, core, task, polls>>

\* A client that cannot be built or subscribe, a server that has no runtime or
\* cannot bind: the error is reported and the thread ends.
BuildFails(t) ==
    /\ thread[t] = "building"
    /\ thread' = [thread EXCEPT ![t] = "exited"]
    /\ ready' = [ready EXCEPT ![t] = "err"]
    /\ UNCHANGED <<enabled, main, at, refused, cancel, core, task, polls>>

\* The client is built, both tasks are spawned, then the thread reports ready.
\* The token is not looked at until the select that follows.
ClientReady(t) ==
    /\ t \in Clients /\ thread[t] = "building"
    /\ thread' = [thread EXCEPT ![t] = "up"]
    /\ ready' = [ready EXCEPT ![t] = "ok"]
    /\ task' = [h \in Handles |-> IF h[1] = t THEN "running" ELSE task[h]]
    /\ UNCHANGED <<enabled, main, at, refused, cancel, core, polls>>

\* A task returns, panics, sees the token, or yields to an abort.
TaskEnds(h) ==
    /\ task[h] \in {"running", "aborted"}
    /\ task' = [task EXCEPT ![h] = "finished"]
    /\ UNCHANGED <<enabled, main, at, refused, cancel, core, thread, ready, polls>>

\* abort() of both handles; on a task that has finished it does nothing.
Abort(t) ==
    task' = [h \in Handles |-> IF h[1] = t /\ task[h] = "running" THEN "aborted" ELSE task[h]]

\* The select of a client thread: the token arm.
SelectCancelled(t) ==
    /\ t \in Clients /\ thread[t] = "up" /\ cancel
    /\ Abort(t)
    /\ thread' = [thread EXCEPT ![t] = "drain1"]
    /\ UNCHANGED <<enabled, main, at, refused, cancel, core, ready, polls>>

\* Mutant of SelectTaskEnded: the token is not cancelled.
SelectTaskEndedQuiet(t, i) ==
    /\ t \in Clients /\ thread[t] = "up" /\ task[<<t, i>>] = "finished"
    /\ polls' = [polls EXCEPT ![<<t, i>>] = @ + 1]
    /\ Abort(t)
    /\ thread' = [thread EXCEPT ![t] = "drain1"]
    /\ UNCHANGED <<enabled, main, at, refused, cancel, core, ready>>

\* The arm of a handle: a task ended, so the whole process is to end.
SelectTaskEnded(t, i) ==
    /\ t \in Clients /\ thread[t] = "up" /\ task[<<t, i>>] = "finished"
    /\ polls' = [polls EXCEPT ![<<t, i>>] = @ + 1]
    /\ cancel' = TRUE
    /\ Abort(t)
    /\ thread' = [thread EXCEPT ![t] = "drain1"]
    /\ UNCHANGED <<enabled, main, at, refused, core, ready>>

\* Where the drain of handle i starts, waits, and goes on to.
DrainAt(i) == IF i = 1 THEN "drain1" ELSE "drain2"
AwaitAt(i) == IF i = 1 THEN "await1" ELSE "await2"
AfterDrain(i) == IF i = 1 THEN "drain2" ELSE "exited"

\* Mutant of Drain: the handle is awaited, finished or not.
DrainAlwaysAwaits(t, i) ==
    /\ t \in Clients /\ thread[t] = DrainAt(i)
    /\ thread' = [thread EXCEPT ![t] = AwaitAt(i)]
    /\ UNCHANGED <<enabled, main, at, refused, cancel, core, ready, task, polls>>

\* if !handle.is_finished() { handle.await }: the test.
Drain(t, i) ==
    /\ t \in Clients /\ thread[t] = DrainAt(i)
    /\ thread' = [thread EXCEPT ![t] =
                    IF task[<<t, i>>] = "finished" THEN AfterDrain(i) ELSE AwaitAt(i)]
    /\ UNCHANGED <<enabled, main, at, refused, cancel, core, ready, task, polls>>

\* The await. The last one is the end of the future, and of the thread.
Awaited(t, i) ==
    /\ t \in Clients /\ thread[t] = AwaitAt(i) /\ task[<<t, i>>] = "finished"
    /\ polls' = [polls EXCEPT ![<<t, i>>] = @ + 1]
    /\ thread' = [thread EXCEPT ![t] = AfterDrain(i)]
    /\ UNCHANGED <<enabled, main, at, refused, cancel, core, ready, task>>

-----------------------------------------------------------------------------
(* The server threads, price API and router.                                *)

\* The listener is bound and the thread reports ready.
ServerReady(t) ==
    /\ t \in Servers /\ thread[t] = "building"
    /\ thread' = [thread EXCEPT ![t] = "up"]
    /\ ready' = [ready EXCEPT ![t] = "ok"]
    /\ UNCHANGED <<enabled, main, at, refused, cancel, core, task, polls>>

\* with_graceful_shutdown: the token ends the server.
ServerStops(t) ==
    /\ t \in Servers /\ thread[t] = "up" /\ cancel
    /\ thread' = [thread EXCEPT ![t] = "exited"]
    /\ UNCHANGED <<enabled, main, at, refused, cancel, core, ready, task, polls>>

\* serve returns an error: it is logged, and nobody else is told.
ServerFails(t) ==
    /\ t \in Servers /\ thread[t] = "up" /\ ~cancel
    /\ thread' = [thread EXCEPT ![t] = "exited"]
    /\ UNCHANGED <<enabled, main, at, refused, cancel, core, ready, task, polls>>

-----------------------------------------------------------------------------
Main == BootFails \/ SpawnCore \/ Spawn \/ SpawnRefused \/ GatePasses \/ GateFails
        \/ AwaitShutdown \/ Join

Build(t) == RuntimeFails(t) \/ BuildFails(t) \/ ClientReady(t) \/ ServerReady(t)

Step(t) ==
    \/ SelectCancelled(t)
    \/ \E i \in 1..2 : SelectTaskEnded(t, i) \/ Drain(t, i) \/ Awaited(t, i)

\* main.rs returns with start, and the process with it.
Next ==
    /\ main # "returned"
    /\ \/ Main
       \/ CtrlC
       \/ \E s \in CoreServices : CoreExits(s)
       \/ \E t \in Threads : Build(t) \/ Step(t) \/ ServerStops(t) \/ ServerFails(t)
       \/ \E h \in Handles : TaskEnds(h)

Spec == Init /\ [][Next]_vars

(* The main thread and the client threads are polled whenever they have     *)
(* something to do. A build ends one way or the other, an aborted task      *)
(* yields at its next await, and a graceful shutdown finishes. Nothing has  *)
(* to die, and nobody has to press Ctrl-C.                                  *)
Fairness ==
    LET Live == main # "returned" IN
    /\ WF_vars(Main)
    /\ \A t \in Threads :
         /\ WF_vars(Live /\ Build(t))
         /\ WF_vars(Live /\ (Step(t) \/ ServerStops(t)))
    /\ \A h \in Handles : WF_vars(Live /\ task[h] = "aborted" /\ TaskEnds(h))

FairSpec == Spec /\ Fairness

-----------------------------------------------------------------------------
(* "so nothing is left running after `start` returns": when start has       *)
(* returned, no thread it spawned is alive, whatever failed and whenever    *)
(* the token was cancelled. The one exception is an OS that refuses the     *)
(* executor's or the price API's thread, where the ? leaves the ones before *)
(* it behind.                                                               *)
NothingLeftRunning ==
    main = "returned" =>
        \/ \A t \in Threads : thread[t] \in {"unspawned", "exited"}
        \/ refused \cap {"executor", "price_api"} # {}

(* "A `JoinHandle` is a one-shot future": between the select and the drain, *)
(* neither handle of a client thread is polled to completion twice, in      *)
(* whatever order the tasks end, are aborted and the token fires.           *)
HandleAwaitedOnce == \A h \in Handles : polls[h] <= 1

(* "Drain inside the runtime": once a client thread has left its runtime,   *)
(* both of its tasks have ended, so neither still holds the !Send client.   *)
ClientDroppedInside ==
    \A h \in Handles : thread[h[1]] = "exited" => task[h] \in {"none", "finished"}

(* Both parts of a safe drain, with every variable in its range.            *)
DrainSafe == TypeOK /\ HandleAwaitedOnce /\ ClientDroppedInside

(* Ctrl-C ends the process, in whatever phase of the start or the run it    *)
(* comes: no join waits for a thread that waits for something else. So does *)
(* the death of a client task or of a core service, rather than let the     *)
(* process run on a stale book.                                             *)
StopReturns ==
    \/ cancel
    \/ \E h \in Handles : task[h] = "finished"
    \/ \E s \in CoreServices : core[s] = "exited"
    ~> main = "returned"
=============================================================================
