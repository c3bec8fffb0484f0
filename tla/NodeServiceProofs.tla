-------------------------- MODULE NodeServiceProofs --------------------------
(***************************************************************************)
(* The life of the node process: types, and that a node which goes on      *)
(* after its startup has all that it is configured for.                    *)
(***************************************************************************)
EXTENDS NodeService, SequenceTheorems, TLAPS

-----------------------------------------------------------------------------
(* The startup.                                                            *)

Steps == {telemetry_worker, new_full_parts, telemetry, transaction_pool, block_import,
          import_queue, build_network, offchain_workers, spawn_tasks, create_full,
          slot_duration, start_aura, run_grandpa_voter}

(* The steps of new_full after those of new_partial. *)
lastSteps == <<build_network, offchain_workers, spawn_tasks, create_full,
               slot_duration, start_aura, run_grandpa_voter>>

LEMMA PartialSteps ==
  /\ new_partial \in Seq(Steps)
  /\ Len(new_partial) = 6
  /\ new_partial[1] = telemetry_worker
  /\ new_partial[2] = new_full_parts
  /\ new_partial[3] = telemetry
  /\ new_partial[4] = transaction_pool
  /\ new_partial[5] = block_import
  /\ new_partial[6] = import_queue
  BY DEF new_partial, Steps

LEMMA LastSteps ==
  /\ lastSteps \in Seq(Steps)
  /\ Len(lastSteps) = 7
  /\ lastSteps[1] = build_network
  /\ lastSteps[2] = offchain_workers
  /\ lastSteps[3] = spawn_tasks
  /\ lastSteps[4] = create_full
  /\ lastSteps[5] = slot_duration
  /\ lastSteps[6] = start_aura
  /\ lastSteps[7] = run_grandpa_voter
  BY DEF lastSteps, Steps

(* new_full begins with new_partial, and each has its steps in order. *)
LEMMA FullSteps ==
  /\ new_full \in Seq(Steps)
  /\ Len(new_full) = 13
  /\ \A i \in 1..6 : new_full[i] = new_partial[i]
  /\ \A i \in 7..13 : new_full[i] = lastSteps[i - 6]
<1>1. new_full = new_partial \o lastSteps
  BY DEF new_full, lastSteps
<1>2. /\ new_partial \in Seq(Steps) /\ Len(new_partial) = 6
      /\ lastSteps \in Seq(Steps) /\ Len(lastSteps) = 7
  BY PartialSteps, LastSteps
<1>3. /\ new_full \in Seq(Steps)
      /\ Len(new_full) = Len(new_partial) + Len(lastSteps)
      /\ \A i \in 1..Len(new_partial) + Len(lastSteps) :
           new_full[i] = IF i <= Len(new_partial) THEN new_partial[i]
                         ELSE lastSteps[i - Len(new_partial)]
  <2>1. /\ new_partial \o lastSteps \in Seq(Steps)
        /\ Len(new_partial \o lastSteps) = Len(new_partial) + Len(lastSteps)
        /\ \A i \in 1..Len(new_partial) + Len(lastSteps) :
             (new_partial \o lastSteps)[i] = IF i <= Len(new_partial) THEN new_partial[i]
                                            ELSE lastSteps[i - Len(new_partial)]
    BY <1>2, ConcatProperties, Zenon
  <2>2. QED
    BY <1>1, <2>1, Zenon
<1>4. /\ Len(new_full) = 13
      /\ \A i \in 1..13 : new_full[i] = IF i <= 6 THEN new_partial[i] ELSE lastSteps[i - 6]
  BY <1>2, <1>3
<1>5. \A i \in 1..6 : new_full[i] = new_partial[i]
  BY <1>4
<1>6. \A i \in 7..13 : new_full[i] = lastSteps[i - 6]
  BY <1>4
<1>7. QED
  BY <1>3, <1>4, <1>5, <1>6, Zenon

(* What each step of the node spawns. *)
LEMMA Spawners ==
  /\ new_full[1].spawns = {} /\ new_full[2].spawns = {}
  /\ new_full[3].spawns = {"telemetry"}
  /\ new_full[4].spawns = {"transaction_pool"}
  /\ new_full[5].spawns = {}
  /\ new_full[6].spawns = {"import_queue"}
  /\ new_full[7].spawns = {"network"}
  /\ new_full[8].spawns = {"offchain_worker"}
  /\ new_full[9].spawns = {"txpool_notifications"}
  /\ new_full[10].spawns = {"rpc", "informant"}
  /\ new_full[11].spawns = {}
  /\ new_full[12].spawns = {"aura"}
  /\ new_full[13].spawns = {"grandpa_voter"}
<1>1. /\ new_full[1].spawns = {} /\ new_full[2].spawns = {}
      /\ new_full[3].spawns = {"telemetry"}
      /\ new_full[4].spawns = {"transaction_pool"}
      /\ new_full[5].spawns = {}
      /\ new_full[6].spawns = {"import_queue"}
  BY PartialSteps, FullSteps
  DEF telemetry_worker, new_full_parts, telemetry, transaction_pool, block_import,
      import_queue, Step
<1>2. /\ new_full[7].spawns = {"network"}
      /\ new_full[8].spawns = {"offchain_worker"}
      /\ new_full[9].spawns = {"txpool_notifications"}
      /\ new_full[10].spawns = {"rpc", "informant"}
      /\ new_full[11].spawns = {}
      /\ new_full[12].spawns = {"aura"}
      /\ new_full[13].spawns = {"grandpa_voter"}
  BY LastSteps, FullSteps
  DEF build_network, offchain_workers, spawn_tasks, create_full, slot_duration,
      start_aura, run_grandpa_voter, Step
<1>3. QED
  BY <1>1, <1>2, Zenon

(* Which of them the configuration turns on: each step that is not always   *)
(* made is turned on by the flag of the task that it spawns.               *)
LEMMA Flags ==
  /\ new_full[3].when = {"telemetry"} /\ new_full[8].when = {"offchain_worker"}
  /\ new_full[12].when = {"authority"} /\ new_full[13].when = {"grandpa"}
  /\ new_full[4].when = {} /\ new_full[6].when = {} /\ new_full[7].when = {}
  /\ new_full[9].when = {} /\ new_full[10].when = {}
<1>1. new_full[3].when = {"telemetry"} /\ new_full[4].when = {} /\ new_full[6].when = {}
  BY PartialSteps, FullSteps DEF telemetry, transaction_pool, import_queue, Step
<1>2. /\ new_full[7].when = {} /\ new_full[8].when = {"offchain_worker"}
      /\ new_full[9].when = {} /\ new_full[10].when = {}
      /\ new_full[12].when = {"authority"} /\ new_full[13].when = {"grandpa"}
  BY LastSteps, FullSteps
  DEF build_network, offchain_workers, spawn_tasks, create_full, start_aura,
      run_grandpa_voter, Step
<1>3. QED
  BY <1>1, <1>2, Zenon

(* The startup of any command is that of the node, or the beginning of it. *)
LEMMA StartupSteps ==
  /\ Len(startup) = IF command = "node" THEN 13 ELSE 6
  /\ \A i \in 1..Len(startup) : startup[i] = new_full[i] /\ startup[i].spawns \subseteq Task
<1>1. CASE command = "node"
  <2>1. startup = new_full
    BY <1>1 DEF startup
  <2>2. \A i \in 1..13 : new_full[i].spawns \subseteq Task
    BY FullSteps DEF Task
  <2>3. QED
    BY <1>1, <2>1, <2>2, FullSteps
<1>2. CASE command # "node"
  <2>1. startup = new_partial
    BY <1>2 DEF startup
  <2>2. \A i \in 1..6 : new_partial[i] = new_full[i] /\ new_full[i].spawns \subseteq Task
    BY FullSteps DEF Task
  <2>3. QED
    BY <1>2, <2>1, <2>2, PartialSteps
<1>3. QED
  BY <1>1, <1>2, Zenon

(* The tasks spawned essential are tasks of the node; so are the others. *)
LEMMA NodeTasks ==
  Task = Essential \cup {"telemetry", "offchain_worker", "txpool_notifications",
                         "rpc", "informant"}
<1>1. Task = UNION {new_full[i].spawns : i \in 1..13}
  BY FullSteps DEF Task
<1>2. ASSUME NEW i \in 1..13
      PROVE  i \in {1, 2, 3, 4, 5, 6, 7, 8, 9, 10, 11, 12, 13}
  OBVIOUS
<1>3. ASSUME NEW t \in Task
      PROVE  t \in Essential \cup {"telemetry", "offchain_worker",
                                   "txpool_notifications", "rpc", "informant"}
  <2>1. PICK i \in 1..13 : t \in new_full[i].spawns
    BY <1>1
  <2>2. QED
    BY <1>2, <2>1, Spawners DEF Essential
<1>4. /\ 3 \in 1..13 /\ 4 \in 1..13 /\ 6 \in 1..13 /\ 7 \in 1..13 /\ 8 \in 1..13
      /\ 9 \in 1..13 /\ 10 \in 1..13 /\ 12 \in 1..13 /\ 13 \in 1..13
  OBVIOUS
<1>5. Essential \cup {"telemetry", "offchain_worker", "txpool_notifications",
                      "rpc", "informant"} \subseteq Task
  BY <1>1, <1>4, Spawners DEF Essential
<1>6. QED
  BY <1>3, <1>5

LEMMA ServiceTasks == Essential \subseteq Task
  BY NodeTasks

-----------------------------------------------------------------------------
(* The inductive invariant.                                                *)

(* The steps that are over have spawned what they spawn. *)
SpawnedInv ==
  \A i \in 1..Len(startup) :
    i < at /\ startup[i].when \subseteq flags
      => \A t \in startup[i].spawns : task[t] # "absent"

(* The TaskManager is kept for as long as the startup lasts, and then by     *)
(* the node; until it is dropped, the end of an essential task is signalled. *)
ServiceInv ==
  /\ phase = "starting" => ~ dropped
  /\ phase = "running" /\ command = "node" => ~ dropped /\ at > 13
  /\ ~ dropped =>
       /\ SpawnedInv
       /\ \A t \in Essential : task[t] = "ended" => t \in failures

NodeInv == NodeTypeOK /\ ServiceInv

LEMMA NodeInitially == Init => NodeInv
<1> SUFFICES ASSUME Init PROVE NodeInv
  OBVIOUS
<1>1. at \in 1..(Len(startup) + 1)
  BY StartupSteps DEF Init
<1>2. phase = "exited" <=> result # None
  BY DEF Init
<1>3. NodeTypeOK
  BY <1>1, <1>2 DEF Init, NodeTypeOK
<1>4. ServiceInv
  <2>1. SpawnedInv
    BY StartupSteps DEF Init, SpawnedInv
  <2>2. QED
    BY <2>1, ServiceTasks DEF Init, ServiceInv
<1>5. QED
  BY <1>3, <1>4 DEF NodeInv

(* Spawning changes the tasks it names, and no other. *)
LEMMA SpawnedTasks ==
  ASSUME NodeTypeOK, NEW tasks, Spawn(tasks)
  PROVE  /\ task' \in [Task -> {"absent", "running", "ended"}]
         /\ \A t \in Task : t \in tasks => task'[t] = "running"
         /\ \A t \in Task : t \notin tasks => task'[t] = task[t]
  BY DEF Spawn, NodeTypeOK

LEMMA StartupStays == command' = command => startup' = startup
  BY DEF startup

LEMMA NodeTypeStep == NodeTypeOK /\ [Next]_vars => NodeTypeOK'
<1> SUFFICES ASSUME NodeTypeOK, [Next]_vars PROVE NodeTypeOK'
  OBVIOUS
<1> USE NoneAssumption
<1>0. Len(startup) \in Nat
  BY StartupSteps
<1>1. CASE Proceed
  <2>1. task' \in [Task -> {"absent", "running", "ended"}]
    BY <1>1, SpawnedTasks DEF Proceed
  <2>2. startup' = startup
    BY <1>1, StartupStays DEF Proceed, config
  <2>3. at' \in 1..(Len(startup') + 1)
    BY <1>0, <1>1, <2>2 DEF Proceed, NodeTypeOK
  <2>4. QED
    BY <1>1, <2>1, <2>3 DEF Proceed, NodeTypeOK, config
<1>2. CASE Fail
  <2>1. task' \in [Task -> {"absent", "running", "ended"}]
    BY <1>2, SpawnedTasks DEF Fail
  <2>2. startup' = startup
    BY <1>2, StartupStays DEF Fail, config
  <2>3. at' \in 1..(Len(startup') + 1)
    BY <1>2, <2>2 DEF Fail, NodeTypeOK
  <2>4. QED
    BY <1>2, <2>1, <2>3 DEF Fail, Exit, NodeTypeOK, config
<1>3. CASE Started
  BY <1>3, StartupStays DEF Started, NodeTypeOK, config
<1>4. CASE EssentialFailure
  BY <1>4, StartupStays DEF EssentialFailure, Exit, NodeTypeOK, config
<1>5. CASE Signal
  BY <1>5, StartupStays DEF Signal, NodeTypeOK, config
<1>6. CASE OnSignal
  BY <1>6, StartupStays DEF OnSignal, Exit, NodeTypeOK, config
<1>7. CASE Complete
  BY <1>7, StartupStays DEF Complete, Exit, NodeTypeOK, config
<1>8. CASE \E t \in Task : EndTask(t)
  BY <1>8, StartupStays DEF EndTask, NodeTypeOK, config
<1>9. CASE \E t \in Task : StopTask(t)
  BY <1>9, StartupStays DEF StopTask, NodeTypeOK, config
<1>10. CASE UNCHANGED vars
  BY <1>10, StartupStays DEF vars, NodeTypeOK, config
<1>11. QED
  BY <1>1, <1>2, <1>3, <1>4, <1>5, <1>6, <1>7, <1>8, <1>9, <1>10 DEF Next

(* A step that succeeds has spawned what it spawns, if it is asked for. *)
LEMMA ServiceProceeds == NodeInv /\ Proceed => ServiceInv'
<1> SUFFICES ASSUME NodeInv, Proceed PROVE ServiceInv'
  OBVIOUS
<1> DEFINE spawned == IF startup[at].when \subseteq flags THEN startup[at].spawns ELSE {}
<1>1. /\ phase = "starting" /\ at \in 1..Len(startup) /\ at \in Nat /\ at' = at + 1
      /\ Spawn(spawned)
      /\ UNCHANGED <<command, flags, phase, failures, dropped>>
  BY StartupSteps DEF Proceed, NodeInv, NodeTypeOK, config
<1>2. /\ \A t \in Task : t \in spawned => task'[t] = "running"
      /\ \A t \in Task : t \notin spawned => task'[t] = task[t]
  BY <1>1, SpawnedTasks DEF NodeInv
<1>3. startup' = startup
  BY <1>1, StartupStays
<1>4. /\ ~ dropped /\ SpawnedInv
      /\ \A t \in Essential : task[t] = "ended" => t \in failures
  BY <1>1 DEF NodeInv, ServiceInv
<1>5. SpawnedInv'
  <2>1. SUFFICES ASSUME NEW i \in 1..Len(startup), i < at + 1,
                        startup[i].when \subseteq flags, NEW t \in startup[i].spawns
                 PROVE  task'[t] # "absent"
    BY <1>1, <1>3 DEF SpawnedInv
  <2>2. t \in Task
    BY StartupSteps
  <2>3. CASE i = at
    BY <1>2, <2>1, <2>2, <2>3
  <2>4. CASE i # at
    <3>1. i < at
      BY <1>1, <2>1, <2>4, StartupSteps
    <3>2. task[t] # "absent"
      BY <1>4, <2>1, <3>1 DEF SpawnedInv
    <3>3. QED
      BY <1>2, <2>2, <3>2
  <2>5. QED
    BY <2>3, <2>4
<1>6. \A t \in Essential : task'[t] = "ended" => t \in failures'
  BY <1>1, <1>2, <1>4, ServiceTasks
<1>7. QED
  BY <1>1, <1>4, <1>5, <1>6 DEF ServiceInv

(* What leaves command, flags and steps alone, and takes no task back to     *)
(* "absent", keeps what has been spawned.                                  *)
LEMMA SpawnedStays ==
  ASSUME SpawnedInv, UNCHANGED <<command, flags, at>>,
         \A t \in Task : task[t] # "absent" => task'[t] # "absent"
  PROVE  SpawnedInv'
<1>1. startup' = startup
  BY StartupStays
<1>2. SUFFICES ASSUME NEW i \in 1..Len(startup), i < at, startup[i].when \subseteq flags,
                      NEW t \in startup[i].spawns
               PROVE  task'[t] # "absent"
  BY <1>1 DEF SpawnedInv
<1>3. t \in Task /\ task[t] # "absent"
  BY <1>2, StartupSteps DEF SpawnedInv
<1>4. QED
  BY <1>3

LEMMA ServiceStep == NodeInv /\ [Next]_vars => ServiceInv'
<1> SUFFICES ASSUME NodeInv, [Next]_vars PROVE ServiceInv'
  OBVIOUS
<1>1. CASE Proceed
  BY <1>1, ServiceProceeds
<1>2. CASE Fail
  BY <1>2 DEF Fail, Exit, ServiceInv
<1>3. CASE Started
  <2>1. /\ ~ dropped /\ at > Len(startup) /\ phase' = "running"
        /\ dropped' = (command = "benchmark")
        /\ UNCHANGED <<command, flags, at, task, failures>>
    BY <1>3 DEF Started, NodeInv, ServiceInv, config
  <2>2. command = "node" => at > 13
    BY <2>1, StartupSteps
  <2>3. QED
    BY <2>1, <2>2, SpawnedStays DEF NodeInv, ServiceInv
<1>4. CASE EssentialFailure
  BY <1>4 DEF EssentialFailure, Exit, ServiceInv
<1>5. CASE Signal
  BY <1>5, SpawnedStays DEF Signal, NodeInv, ServiceInv, config
<1>6. CASE OnSignal
  BY <1>6 DEF OnSignal, Exit, ServiceInv
<1>7. CASE Complete
  BY <1>7 DEF Complete, Exit, ServiceInv
<1>8. ASSUME NEW t \in Task, EndTask(t) PROVE ServiceInv'
  <2>1. /\ ~ dropped /\ task[t] = "running"
        /\ task' = [task EXCEPT ![t] = "ended"]
        /\ failures' = IF t \in Essential THEN failures \cup {t} ELSE failures
        /\ UNCHANGED <<command, flags, at, phase, dropped>>
    BY <1>8 DEF EndTask, config
  <2>2. /\ task'[t] = "ended"
        /\ \A u \in Task : u # t => task'[u] = task[u]
    BY <2>1 DEF NodeInv, NodeTypeOK
  <2>3. \A u \in Essential : task'[u] = "ended" => u \in failures'
    BY <2>1, <2>2, ServiceTasks DEF NodeInv, ServiceInv
  <2>4. SpawnedInv'
    BY <2>1, <2>2, SpawnedStays DEF NodeInv, ServiceInv
  <2>5. QED
    BY <2>1, <2>3, <2>4 DEF NodeInv, ServiceInv
<1>9. ASSUME NEW t \in Task, StopTask(t) PROVE ServiceInv'
  BY <1>9 DEF StopTask, NodeInv, ServiceInv, config
<1>10. CASE UNCHANGED vars
  BY <1>10, SpawnedStays DEF vars, NodeInv, ServiceInv, config
<1>11. QED
  BY <1>1, <1>2, <1>3, <1>4, <1>5, <1>6, <1>7, <1>8, <1>9, <1>10 DEF Next

-----------------------------------------------------------------------------
(* The theorems.                                                           *)

LEMMA NodeInvariant == Spec => []NodeInv
<1>1. Init => NodeInv
  BY NodeInitially
<1>2. NodeInv /\ [Next]_vars => NodeInv'
  BY NodeTypeStep, ServiceStep DEF NodeInv
<1>3. QED
  BY <1>1, <1>2, PTL DEF Spec

(* The state of the process always has its type; in particular it has a     *)
(* result if and only if it has returned (node/src/command.rs, run).        *)
THEOREM NodeTypeCorrect == Spec => []NodeTypeOK
<1>1. NodeInv => NodeTypeOK
  BY DEF NodeInv
<1>2. QED
  BY <1>1, NodeInvariant, PTL

(* A step of the startup (node/src/service.rs) that fails ends it, and the  *)
(* end of an essential task is signalled: a node that is running has every *)
(* part it is configured for, or is about to stop.                         *)
THEOREM RunningNodeIsWhole == Spec => []NodeIsWhole
<1>1. NodeInv => NodeIsWhole
  <2> SUFFICES ASSUME NodeInv, command = "node", phase = "running", NEW t \in Task
               PROVE  /\ task[t] = "absent" => t \in DOMAIN FlagOf /\ FlagOf[t] \notin flags
                      /\ task[t] = "ended" =>
                           \/ t \in failures
                           \/ t \in {"telemetry", "offchain_worker",
                                     "txpool_notifications", "rpc", "informant"}
    BY DEF NodeIsWhole
  <2>1. /\ ~ dropped /\ at > 13 /\ at \in Nat /\ SpawnedInv
        /\ \A u \in Essential : task[u] = "ended" => u \in failures
    BY StartupSteps DEF NodeInv, ServiceInv, NodeTypeOK
  <2>2. \A i \in 1..13 :
          new_full[i].when \subseteq flags => \A u \in new_full[i].spawns : task[u] # "absent"
    <3>1. ASSUME NEW i \in 1..13, new_full[i].when \subseteq flags
          PROVE  \A u \in new_full[i].spawns : task[u] # "absent"
      <4>1. i < at /\ i \in 1..Len(startup) /\ startup[i] = new_full[i]
        BY <2>1, StartupSteps
      <4>2. QED
        BY <2>1, <3>1, <4>1 DEF SpawnedInv
    <3>2. QED
      BY <3>1
  <2>3. /\ DOMAIN FlagOf = {"telemetry", "offchain_worker", "aura", "grandpa_voter"}
        /\ FlagOf["telemetry"] = "telemetry"
        /\ FlagOf["offchain_worker"] = "offchain_worker"
        /\ FlagOf["aura"] = "authority"
        /\ FlagOf["grandpa_voter"] = "grandpa"
    BY DEF FlagOf
  <2>4. /\ 3 \in 1..13 /\ 4 \in 1..13 /\ 6 \in 1..13 /\ 7 \in 1..13 /\ 8 \in 1..13
        /\ 9 \in 1..13 /\ 10 \in 1..13 /\ 12 \in 1..13 /\ 13 \in 1..13
    OBVIOUS
  <2>5. /\ \A u \in {"transaction_pool", "import_queue", "network",
                     "txpool_notifications", "rpc", "informant"} : task[u] # "absent"
        /\ "telemetry" \in flags => task["telemetry"] # "absent"
        /\ "offchain_worker" \in flags => task["offchain_worker"] # "absent"
        /\ "authority" \in flags => task["aura"] # "absent"
        /\ "grandpa" \in flags => task["grandpa_voter"] # "absent"
    BY <2>2, <2>4, Spawners, Flags
  <2>6. task[t] = "absent" => t \in DOMAIN FlagOf /\ FlagOf[t] \notin flags
    BY <2>3, <2>5, NodeTasks DEF Essential
  <2>7. QED
    BY <2>1, <2>6, NodeTasks
<1>2. QED
  BY <1>1, NodeInvariant, PTL
=============================================================================
