----------------------------- MODULE NodeService -----------------------------
(***************************************************************************)
(* The life of the node process (node/src/service.rs, node/src/command.rs):*)
(* the steps of new_partial and new_full in the order of the code, each    *)
(* of which may fail with `?` and some of which spawn background tasks;    *)
(* then the wait for a task or a signal to end it.                         *)
(*                                                                         *)
(* A task runs from the moment it is spawned, concurrently with the rest   *)
(* of the startup.  The TaskManager belongs to whoever holds it: when it   *)
(* is dropped, which any early return does, every task is told to stop.    *)
(***************************************************************************)
EXTENDS Integers, Sequences, FiniteSets

CONSTANT None  \* no result yet

ASSUME NoneAssumption == None \notin {"Ok", "Err"}

(* What the configuration turns on. *)
Flag == {"authority", "offchain_worker", "telemetry", "grandpa"}

(* Running a node, an offline command on a database (check, import, export  *)
(* and revert blocks), and a benchmark on a client.                        *)
Command == {"node", "offline", "benchmark"}

-----------------------------------------------------------------------------
(* The steps of the startup: the flags that ask for the step, whether it   *)
(* can fail, the tasks it spawns, and whether they are spawned before the  *)
(* failure, inside the call.                                               *)

Step(when, fallible, spawns, inside) ==
  [when |-> when, fallible |-> fallible, spawns |-> spawns, inside |-> inside]

telemetry_worker  == Step({"telemetry"}, TRUE, {}, FALSE)
new_full_parts    == Step({}, TRUE, {}, FALSE)
telemetry         == Step({"telemetry"}, FALSE, {"telemetry"}, FALSE)
transaction_pool  == Step({}, FALSE, {"transaction_pool"}, FALSE)
block_import      == Step({}, TRUE, {}, FALSE)
import_queue      == Step({}, TRUE, {"import_queue"}, FALSE)
build_network     == Step({}, TRUE, {"network"}, TRUE)
offchain_workers  == Step({"offchain_worker"}, TRUE, {"offchain_worker"}, FALSE)
spawn_tasks       == Step({}, TRUE, {"txpool_notifications"}, TRUE)
create_full       == Step({}, TRUE, {"rpc", "informant"}, FALSE)
slot_duration     == Step({"authority"}, TRUE, {}, FALSE)
start_aura        == Step({"authority"}, TRUE, {"aura"}, FALSE)
run_grandpa_voter == Step({"grandpa"}, TRUE, {"grandpa_voter"}, FALSE)

new_partial == <<telemetry_worker, new_full_parts, telemetry, transaction_pool,
                 block_import, import_queue>>

new_full == new_partial \o <<build_network, offchain_workers, spawn_tasks,
                             create_full, slot_duration, start_aura, run_grandpa_voter>>

Task == UNION {new_full[i].spawns : i \in DOMAIN new_full}

(* The tasks spawned through spawn_essential_handle. *)
Essential == {"transaction_pool", "import_queue", "network", "aura", "grandpa_voter"}

-----------------------------------------------------------------------------

VARIABLES
  command,   \* the command line's subcommand
  flags,     \* the configuration
  at,        \* the step of the startup that is next
  phase,     \* "starting", "running" or "exited"
  result,    \* what the process returns: "Ok" or "Err", None before the end
  task,      \* [Task -> "absent", "running" or "ended"]
  failures,  \* essential tasks whose end has been signalled
  dropped,   \* the TaskManager has been dropped
  signalled  \* a termination signal has arrived

config == <<command, flags>>
vars == <<config, at, phase, result, task, failures, dropped, signalled>>

startup == IF command = "node" THEN new_full ELSE new_partial

Init ==
  /\ command \in Command
  /\ flags \in SUBSET Flag
  /\ at = 1
  /\ phase = "starting"
  /\ result = None
  /\ task = [t \in Task |-> "absent"]
  /\ failures = {}
  /\ dropped = FALSE
  /\ signalled = FALSE

Spawn(tasks) == task' = [t \in Task |-> IF t \in tasks THEN "running" ELSE task[t]]

(* The next step of the startup succeeds, or is not asked for. *)
Proceed ==
  /\ phase = "starting"
  /\ at <= Len(startup)
  /\ Spawn(IF startup[at].when \subseteq flags THEN startup[at].spawns ELSE {})
  /\ at' = at + 1
  /\ UNCHANGED <<config, phase, result, failures, dropped, signalled>>

(* Mutants: the TaskManager is leaked, and the result is lost. *)
Exit_Leaks(res) ==
  /\ phase' = "exited"
  /\ result' = res
  /\ UNCHANGED dropped
Exit_NoResult(res) ==
  /\ phase' = "exited"
  /\ dropped' = TRUE
  /\ UNCHANGED result

(* The process ends, or gives up the startup: the TaskManager goes. *)
Exit(res) ==
  /\ phase' = "exited"
  /\ result' = res
  /\ dropped' = TRUE

(* Mutant: spawn_tasks without its `?`: nobody uses _rpc_handlers. *)
Fail_PassedOver ==
  /\ phase = "starting"
  /\ at <= Len(startup)
  /\ startup[at] = create_full
  /\ at' = at + 1
  /\ UNCHANGED <<config, phase, result, task, failures, dropped, signalled>>

(* The next step returns an error, and so does the startup. *)
Fail ==
  /\ phase = "starting"
  /\ at <= Len(startup)
  /\ startup[at].fallible
  /\ startup[at].when \subseteq flags
  /\ \E tasks \in SUBSET startup[at].spawns :
       /\ startup[at].inside \/ tasks = {}
       /\ Spawn(tasks)
  /\ Exit("Err")
  /\ UNCHANGED <<config, at, failures, signalled>>

(* Mutants: what ended during the startup is forgotten, and a benchmark      *)
(* keeps the TaskManager.                                                  *)
Started_Forgets ==
  /\ phase = "starting"
  /\ at > Len(startup)
  /\ phase' = "running"
  /\ failures' = {}
  /\ dropped' = (command = "benchmark")
  /\ UNCHANGED <<config, at, result, task, signalled>>
Started_Holds ==
  /\ phase = "starting"
  /\ at > Len(startup)
  /\ phase' = "running"
  /\ UNCHANGED <<config, at, result, task, failures, dropped, signalled>>

(* The startup returns.  A benchmark takes the client and drops the rest. *)
Started ==
  /\ phase = "starting"
  /\ at > Len(startup)
  /\ phase' = "running"
  /\ dropped' = (command = "benchmark")
  /\ UNCHANGED <<config, at, result, task, failures, signalled>>

(* A task ends by itself; the end of an essential one is signalled. *)
EndTask(t) ==
  /\ task[t] = "running"
  /\ ~ dropped
  /\ task' = [task EXCEPT ![t] = "ended"]
  /\ failures' = IF t \in Essential THEN failures \cup {t} ELSE failures
  /\ UNCHANGED <<config, at, phase, result, dropped, signalled>>

(* Nobody waits for essential tasks but the running node. *)
EssentialFailure ==
  /\ phase = "running"
  /\ command = "node"
  /\ failures # {}
  /\ Exit("Err")
  /\ UNCHANGED <<config, at, task, failures, signalled>>

Signal ==
  /\ phase # "exited"
  /\ ~ signalled
  /\ signalled' = TRUE
  /\ UNCHANGED <<config, at, phase, result, task, failures, dropped>>

(* Signals are looked at once the startup is over, and not by sync_run. *)
OnSignal ==
  /\ phase = "running"
  /\ command # "benchmark"
  /\ signalled
  /\ Exit("Ok")
  /\ UNCHANGED <<config, at, task, failures, signalled>>

(* A command other than the node comes to its end. *)
Complete ==
  /\ phase = "running"
  /\ command # "node"
  /\ \E res \in {"Ok", "Err"} : Exit(res)
  /\ UNCHANGED <<config, at, task, failures, signalled>>

(* A task sees that the TaskManager is gone. *)
StopTask(t) ==
  /\ dropped
  /\ task[t] = "running"
  /\ task' = [task EXCEPT ![t] = "ended"]
  /\ UNCHANGED <<config, at, phase, result, failures, dropped, signalled>>

Next ==
  \/ Proceed \/ Fail \/ Started
  \/ EssentialFailure \/ Signal \/ OnSignal \/ Complete
  \/ \E t \in Task : EndTask(t) \/ StopTask(t)

(* The startup's thread runs, the runner polls what it waits for, and every *)
(* task is polled once more after the TaskManager is dropped.  Tasks need   *)
(* not end, commands need not finish and signals need not arrive.          *)
Fairness ==
  /\ WF_vars(Proceed \/ Fail \/ Started)
  /\ WF_vars(EssentialFailure \/ OnSignal)
  /\ \A t \in Task : WF_vars(StopTask(t))

Spec == Init /\ [][Next]_vars /\ Fairness

-----------------------------------------------------------------------------
(* Properties.                                                             *)

(* Type invariant; a process that has returned has a result. *)
NodeTypeOK ==
  /\ command \in Command
  /\ flags \subseteq Flag
  /\ at \in 1..(Len(startup) + 1)
  /\ phase \in {"starting", "running", "exited"}
  /\ result \in {None, "Ok", "Err"}
  /\ phase = "exited" <=> result # None
  /\ task \in [Task -> {"absent", "running", "ended"}]
  /\ failures \subseteq Essential
  /\ {dropped, signalled} \subseteq BOOLEAN

(* Whichever step of the startup fails, and however the node ends, no task  *)
(* it has spawned keeps running.                                           *)
NothingOutlivesTheNode ==
  phase = "exited" ~> \A t \in Task : task[t] # "running"

(* "if it fails we take down the service with it": when the authoring task  *)
(* or the GRANDPA voter ends, the node does not go on without it, also when *)
(* it ended during the startup, before anyone was waiting for it.          *)
NodeNeverOutlivesConsensus ==
  \A t \in {"aura", "grandpa_voter"} :
    command = "node" /\ task[t] = "ended" ~> phase = "exited"

(* What the configuration has to turn on for a task. *)
FlagOf == [telemetry |-> "telemetry", offchain_worker |-> "offchain_worker",
           aura |-> "authority", grandpa_voter |-> "grandpa"]

(* A node that goes on after its startup has started every task that its    *)
(* configuration asks for; and a task that has ended since then is one that *)
(* the node can do without, or its end is about to stop the node.  Neither  *)
(* the failure of a step nor the end of a task has passed unnoticed, so     *)
(* that no node runs on without RPC, import queue, authoring or voting.     *)
NodeIsWhole ==
  command = "node" /\ phase = "running" =>
    \A t \in Task :
      /\ task[t] = "absent" => t \in DOMAIN FlagOf /\ FlagOf[t] \notin flags
      /\ task[t] = "ended" =>
           \/ t \in failures
           \/ t \in {"telemetry", "offchain_worker", "txpool_notifications", "rpc", "informant"}

(* When a benchmark starts, the background tasks of the client it has been  *)
(* given are told to stop, and they do, whether or not it ever ends: what   *)
(* it measures before the last of them has gone is not its own.            *)
BenchmarkTasksStop ==
  command = "benchmark" /\ phase = "running" ~> \A t \in Task : task[t] # "running"
=============================================================================
