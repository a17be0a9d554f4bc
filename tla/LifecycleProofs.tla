-------------------------- MODULE LifecycleProofs --------------------------
(* What holds of the start and the stop of the process for every set of     *)
(* core services, every order of spawns, failures and deaths.               *)
EXTENDS Lifecycle, TLAPS

(* start deals with the threads in Order: those it has not come to are not  *)
(* spawned, and those the join has passed are gone.                         *)
SpawnInv ==
    /\ main = "boot" => \A t \in Threads : thread[t] = "unspawned"
    /\ main \in {"boot", "run"} => at = 1
    /\ main = "spawn" => \A j \in at..4 : thread[Order[j]] = "unspawned"
    /\ main = "join" => \A j \in 1..(at - 1) : thread[Order[j]] \in {"unspawned", "exited"}
    /\ NothingLeftRunning

(* How far a client thread has come fixes what its handles may have seen.   *)
HandleInv ==
    \A h \in Handles :
        /\ polls[h] <= 1
        /\ polls[h] = 1 => task[h] = "finished"
        /\ thread[h[1]] \in {"unspawned", "building"} => task[h] = "none"
        /\ thread[h[1]] = "up" => task[h] \in {"running", "finished"} /\ polls[h] = 0
        /\ thread[h[1]] = AwaitAt(h[2]) => polls[h] = 0
        /\ thread[h[1]] \in {"drain2", "await2", "exited"} /\ h[2] = 1 => task[h] \in {"none", "finished"}
        /\ thread[h[1]] = "exited" => task[h] \in {"none", "finished"}

(* The facts of Order that the provers need.                                *)
LEMMA OrderFacts ==
    /\ \A j \in 1..4 : Order[j] \in Threads
    /\ \A t \in Threads : \E j \in 1..4 : t = Order[j]
    /\ \A j, k \in 1..4 : Order[j] = Order[k] => j = k
    /\ Clients \subseteq Threads /\ Servers \subseteq Threads
    /\ Clients \cap Servers = {}
  BY DEF Order, Threads, Clients, Servers

(* The type invariant holds at the start, and every step keeps it.          *)
LEMMA TypeInit == Init => TypeOK
<1> SUFFICES ASSUME Init PROVE TypeOK
  OBVIOUS
<1>1. enabled \in SUBSET Threads
  BY DEF Init
<1>2. cancel \in BOOLEAN
  BY Zenon DEF Init
<1>3. at \in 1..4 /\ main \in Mains /\ refused \in SUBSET Threads
  BY DEF Init, Mains
<1> QED
  BY <1>1, <1>2, <1>3 DEF Init, TypeOK, ThreadStates

(* Every step of start, the threads and the tasks keeps the types.          *)
LEMMA TypeStep ==
    ASSUME TypeOK, [Next]_vars
    PROVE  TypeOK'
<1> USE OrderFacts DEF TypeOK, Mains, ThreadStates
<1>1. CASE UNCHANGED vars
  BY <1>1 DEF vars
<1>2. CASE Main
  <2>1. CASE BootFails \/ SpawnCore \/ AwaitShutdown
    <3>1. cancel' \in BOOLEAN
      BY <2>1, Zenon DEF BootFails, SpawnCore, AwaitShutdown
    <3> QED
      BY <2>1, <3>1 DEF BootFails, SpawnCore, AwaitShutdown
  <2>2. CASE Spawn
    <3>1. at' \in 1..4 /\ main' \in Mains
      BY <2>2 DEF Spawn
    <3> QED
      BY <2>2, <3>1 DEF Spawn
  <2>3. CASE SpawnRefused
    <3>1. cancel' \in BOOLEAN
      BY <2>3, Zenon DEF SpawnRefused
    <3>2. at' \in 1..4 /\ main' \in Mains /\ refused' \in SUBSET Threads
      BY <2>3 DEF SpawnRefused
    <3> QED
      BY <2>3, <3>1, <3>2 DEF SpawnRefused
  <2>4. CASE GatePasses \/ GateFails
    <3>1. at' \in 1..4 /\ main' \in Mains
      BY <2>4 DEF GatePasses, GateFails
    <3> QED
      BY <2>4, <3>1, Zenon DEF GatePasses, GateFails
  <2>5. CASE Join
    <3>1. at' \in 1..4 /\ main' \in Mains
      BY <2>5 DEF Join
    <3> QED
      BY <2>5, <3>1 DEF Join
  <2> QED
    BY <1>2, <2>1, <2>2, <2>3, <2>4, <2>5 DEF Main
<1>3. CASE CtrlC
  BY <1>3 DEF CtrlC
<1>4. ASSUME NEW s \in CoreServices, CoreExits(s) PROVE TypeOK'
  BY <1>4 DEF CoreExits
<1>5. ASSUME NEW t \in Threads, Build(t) PROVE TypeOK'
  BY <1>5 DEF Build, RuntimeFails, BuildFails, ClientReady, ServerReady
<1>6. ASSUME NEW t \in Threads, SelectCancelled(t) PROVE TypeOK'
  BY <1>6 DEF SelectCancelled, Abort
<1>7. ASSUME NEW t \in Threads, NEW i \in 1..2,
             SelectTaskEnded(t, i) \/ Drain(t, i) \/ Awaited(t, i)
      PROVE  TypeOK'
  <2>1. CASE SelectTaskEnded(t, i)
    <3>1. polls' \in [Handles -> Nat]
      BY <2>1 DEF SelectTaskEnded, Handles
    <3> QED
      BY <2>1, <3>1 DEF SelectTaskEnded, Abort
  <2>2. CASE Drain(t, i)
    BY <2>2 DEF Drain, AwaitAt, AfterDrain
  <2>3. CASE Awaited(t, i)
    <3>1. polls' \in [Handles -> Nat]
      BY <2>3 DEF Awaited, Handles
    <3> QED
      BY <2>3, <3>1 DEF Awaited, AfterDrain
  <2> QED
    BY <1>7, <2>1, <2>2, <2>3
<1>8. ASSUME NEW t \in Threads, ServerStops(t) \/ ServerFails(t) PROVE TypeOK'
  BY <1>8 DEF ServerStops, ServerFails
<1>9. ASSUME NEW h \in Handles, TaskEnds(h) PROVE TypeOK'
  BY <1>9 DEF TaskEnds
<1> QED
  BY <1>1, <1>2, <1>3, <1>4, <1>5, <1>6, <1>7, <1>8, <1>9 DEF Next, Step

(* start's own progress: the actions of the other threads neither spawn a   *)
(* thread nor bring one back.                                               *)
LEMMA SpawnStep ==
    ASSUME TypeOK, SpawnInv, [Next]_vars
    PROVE  SpawnInv'
<1> USE OrderFacts DEF TypeOK, SpawnInv, NothingLeftRunning
<1> DEFINE Gone(t) == thread[t] \in {"unspawned", "exited"}
<1>1. ASSUME UNCHANGED <<main, at, refused>>, main # "returned",
             \A t \in Threads : /\ thread[t] = "unspawned" => thread'[t] = "unspawned"
                                /\ thread[t] = "exited" => thread'[t] = "exited"
      PROVE  SpawnInv'
  BY <1>1
<1>2. CASE UNCHANGED vars
  BY <1>2 DEF vars
<1>3. CASE Main
  <2>1. CASE BootFails \/ GatePasses \/ GateFails \/ AwaitShutdown
    BY <2>1 DEF BootFails, GatePasses, GateFails, AwaitShutdown
  <2>2. CASE SpawnCore
    BY <2>2 DEF SpawnCore
  <2>3. CASE Spawn
    BY <2>3 DEF Spawn
  <2>4. CASE SpawnRefused
    <3>1. CASE Order[at] = "router"
      BY <2>4, <3>1 DEF SpawnRefused
    <3>2. CASE Order[at] = "ingest"
      <4>1. at = 1
        BY <3>2 DEF Order
      <4>2. \A t \in Threads : thread[t] = "unspawned"
        BY <2>4, <4>1 DEF SpawnRefused
      <4> QED
        BY <2>4, <3>2, <4>2 DEF SpawnRefused
    <3>3. CASE Order[at] \in {"executor", "price_api"}
      BY <2>4, <3>3 DEF SpawnRefused
    <3> QED
      BY <3>1, <3>2, <3>3 DEF Threads, Clients, Servers
  <2>5. CASE Join
    <3>1. CASE at = 4
      <4>1. \A j \in 1..4 : Gone(Order[j])
        BY <2>5, <3>1 DEF Join
      <4>2. \A t \in Threads : Gone(t)
        BY <4>1
      <4> QED
        BY <2>5, <3>1, <4>2 DEF Join
    <3>2. CASE at # 4
      BY <2>5, <3>2 DEF Join
    <3> QED
      BY <3>1, <3>2
  <2> QED
    BY <1>3, <2>1, <2>2, <2>3, <2>4, <2>5 DEF Main
<1>4. CASE main # "returned" /\ ~Main /\ Next
  <2> SUFFICES
        /\ UNCHANGED <<main, at, refused>>
        /\ \A t \in Threads : /\ thread[t] = "unspawned" => thread'[t] = "unspawned"
                              /\ thread[t] = "exited" => thread'[t] = "exited"
    BY <1>1, <1>4
  <2>1. CASE CtrlC
    BY <2>1 DEF CtrlC
  <2>2. CASE \E s \in CoreServices : CoreExits(s)
    BY <2>2 DEF CoreExits
  <2>3. CASE \E t \in Threads : Build(t)
    BY <2>3 DEF Build, RuntimeFails, BuildFails, ClientReady, ServerReady
  <2>4. CASE \E t \in Threads : Step(t)
    BY <2>4 DEF Step, SelectCancelled, SelectTaskEnded, Drain, Awaited, DrainAt, AwaitAt
  <2>5. CASE \E t \in Threads : ServerStops(t) \/ ServerFails(t)
    BY <2>5 DEF ServerStops, ServerFails
  <2>6. CASE \E h \in Handles : TaskEnds(h)
    BY <2>6 DEF TaskEnds
  <2> QED
    BY <1>4, <2>1, <2>2, <2>3, <2>4, <2>5, <2>6 DEF Next
<1> QED
  BY <1>2, <1>3, <1>4 DEF Next

(* The handles: what start, a client thread and its tasks do to them. A     *)
(* thread that is only now spawned has run no task.                         *)
LEMMA HandleStep ==
    ASSUME TypeOK, SpawnInv, HandleInv, [Next]_vars
    PROVE  HandleInv'
<1> USE OrderFacts DEF TypeOK
<1>1. ASSUME UNCHANGED <<thread, task, polls>> PROVE HandleInv'
  BY <1>1 DEF HandleInv
<1>2. CASE UNCHANGED vars
  BY <1>1, <1>2 DEF vars
<1>3. CASE Main
  <2>1. CASE Spawn
    <3>1. thread[Order[at]] = "unspawned"
      BY <2>1 DEF Spawn, SpawnInv
    <3>2. \A t \in Threads : \/ thread'[t] = thread[t]
                             \/ thread[t] = "unspawned" /\ thread'[t] = "building"
      BY <2>1, <3>1 DEF Spawn
    <3>3. UNCHANGED <<task, polls>>
      BY <2>1 DEF Spawn
    <3> SUFFICES ASSUME NEW h \in Handles PROVE HandleInv!(h)'
      BY DEF HandleInv
    <3> QED
      BY <3>2, <3>3 DEF HandleInv, Handles, AwaitAt
  <2> QED
    BY <1>1, <1>3, <2>1 DEF Main, BootFails, SpawnCore, SpawnRefused, GatePasses, GateFails, AwaitShutdown, Join
<1>4. CASE CtrlC
  BY <1>1, <1>4 DEF CtrlC
<1>5. ASSUME NEW s \in CoreServices, CoreExits(s) PROVE HandleInv'
  BY <1>1, <1>5 DEF CoreExits
<1>6. ASSUME NEW t \in Threads, Build(t) PROVE HandleInv'
  BY <1>6 DEF HandleInv, Handles, AwaitAt, Build, RuntimeFails, BuildFails, ClientReady, ServerReady
<1>7. ASSUME NEW t \in Threads, SelectCancelled(t) PROVE HandleInv'
  BY <1>7 DEF HandleInv, Handles, AwaitAt, SelectCancelled, Abort
<1>8. ASSUME NEW t \in Threads, NEW i \in 1..2, SelectTaskEnded(t, i) PROVE HandleInv'
  BY <1>8 DEF HandleInv, Handles, AwaitAt, SelectTaskEnded, Abort
<1>9. ASSUME NEW t \in Threads, NEW i \in 1..2, Drain(t, i) PROVE HandleInv'
  <2>1. <<t, i>> \in Handles /\ UNCHANGED <<task, polls>>
    BY <1>9 DEF Drain, Handles
  <2>2. task[<<t, i>>] # "finished" => polls[<<t, i>>] = 0
    BY <2>1 DEF HandleInv
  <2>3. \A u \in Threads : u # t => thread'[u] = thread[u]
    BY <1>9 DEF Drain
  <2> SUFFICES ASSUME NEW h \in Handles PROVE HandleInv!(h)'
    BY DEF HandleInv
  <2>4. h[1] \in Threads /\ h[2] \in 1..2 /\ h = <<h[1], h[2]>> /\ HandleInv!(h)
    BY DEF HandleInv, Handles
  <2>5. CASE h[1] # t
    BY <2>1, <2>3, <2>4, <2>5
  <2>6. CASE h[1] = t /\ i = 1
    BY <1>9, <2>1, <2>2, <2>4, <2>6 DEF AwaitAt, DrainAt, AfterDrain, Drain
  <2>7. CASE h[1] = t /\ i = 2
    BY <1>9, <2>1, <2>2, <2>4, <2>7 DEF AwaitAt, DrainAt, AfterDrain, Drain
  <2> QED
    BY <2>5, <2>6, <2>7
<1>10. ASSUME NEW t \in Threads, NEW i \in 1..2, Awaited(t, i) PROVE HandleInv'
  BY <1>10 DEF HandleInv, Handles, AwaitAt, AfterDrain, Awaited
<1>11. ASSUME NEW t \in Threads, ServerStops(t) \/ ServerFails(t) PROVE HandleInv'
  BY <1>11 DEF HandleInv, Handles, AwaitAt, ServerStops, ServerFails
<1>12. ASSUME NEW g \in Handles, TaskEnds(g) PROVE HandleInv'
  BY <1>12 DEF HandleInv, TaskEnds
<1> QED
  BY <1>2, <1>3, <1>4, <1>5, <1>6, <1>7, <1>8, <1>9, <1>10, <1>11, <1>12 DEF Next, Step

(* Nothing outlives start: when start returns, with or without an error,    *)
(* every thread it spawned has exited, unless the OS refused the executor's *)
(* or the price API's thread.                                               *)
THEOREM StartLeavesNothing == Spec => []NothingLeftRunning
<1>1. Init => TypeOK /\ SpawnInv
  BY TypeInit, OrderFacts DEF Init, SpawnInv, NothingLeftRunning
<1>2. TypeOK /\ SpawnInv /\ [Next]_vars => (TypeOK /\ SpawnInv)'
  BY TypeStep, SpawnStep
<1>3. SpawnInv => NothingLeftRunning
  BY DEF SpawnInv
<1> QED
  BY <1>1, <1>2, <1>3, PTL DEF Spec

(* No JoinHandle of a client thread is polled again after it has completed, *)
(* and no task that holds the client outlives the thread's runtime.         *)
THEOREM DrainIsSafe == Spec => []DrainSafe
<1> DEFINE IInv == TypeOK /\ SpawnInv /\ HandleInv
<1>1. Init => IInv
  BY TypeInit, OrderFacts DEF Init, SpawnInv, NothingLeftRunning, HandleInv, Handles, AwaitAt
<1>2. IInv /\ [Next]_vars => IInv'
  BY TypeStep, SpawnStep, HandleStep
<1>3. IInv => DrainSafe
  BY DEF HandleInv, HandleAwaitedOnce, ClientDroppedInside, DrainSafe
<1> QED
  BY <1>1, <1>2, <1>3, PTL DEF Spec
=============================================================================
