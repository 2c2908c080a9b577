------------------------------ MODULE Lifecycle ------------------------------
(***************************************************************************)
(* The life of the process: main creates the queues, the threads, the      *)
(* timer task with its queue and the four timers, keeps the connection     *)
(* until a reboot is ordered, and takes down what it has created.          *)
(* Meanwhile the threads start to run, timers expire, and the device       *)
(* thread executes commands, of which two matter here: the one that sets   *)
(* the timers anew and the one that orders the reboot.                     *)
(*                                                                         *)
(* The operating system's tasks, queues, events and timers are external.   *)
(* What goes through the queues, and how the connection comes and goes, is *)
(* left to LinkSession and Commands; how a timer is replaced, and what is  *)
(* left when that fails, to DeviceConfig.                                  *)
(***************************************************************************)
EXTENDS Integers, SequencesExt

CONSTANTS
  Faults,      \* bound: creations and deletions that fail
  ReadErrors,  \* bound: errors of the timer task's queue
  Commands,    \* bound: commands that set the timers
  Ticking      \* bound: the timers that are seen to expire

ASSUME LifeAssumption == {Faults, ReadErrors, Commands} \subseteq Nat

MODE_RMTMAN == "MODE_RMTMAN"
MODE_MQTT   == "MODE_MQTT"
Mode        == {MODE_RMTMAN, MODE_MQTT}

VARIABLES
  startmode,    \* from the parameter file
  main,         \* where main is
  step,         \* how far it is with the list it works on
  made,         \* external: the queues, tasks and timers there are
  failed,       \* what sg_init could not create
  kept,         \* what sg_exit could not delete
  g_mqtt_connect_flag,
  edge_reboot_flag,
  todo,         \* the timers the device thread is about to set
  tt,           \* where the timer task is
  event,        \* external: VOS_TIMER_EVENT is set
  g_timer_queue,\* external: timers whose expiry waits to be handled
  faults, errors, commands,  \* what is left of the bounds
  raced         \* history: the device thread set a timer while main deleted them

made_by == <<step, made, failed, kept>>
timing  == <<tt, event, g_timer_queue, errors>>
device  == <<edge_reboot_flag, todo, commands, raced>>
vars    == <<startmode, main, made_by, g_mqtt_connect_flag, timing, device, faults>>

-----------------------------------------------------------------------------
(* What there is to create and to delete                                   *)

\* sg_que_unpack_create, sg_que_pack_create, sg_que_task_create and
\* sg_que_result_create; the destroy functions go in the same order.
Queues == <<"unpack", "pack", "dev", "container", "app", "result">>

\* The threads of the link, by the way the agent is started.
Link(mode) == IF mode = MODE_RMTMAN THEN <<"rpc_read", "rpc_write">> ELSE <<"mqtt_pub">>

Timers == <<"heart", "dev_timer", "container_timer", "app_timer">>

\* sg_create_task
CreateTasks(mode) ==
  <<"insert", "poly", "interact", "exe_dev", "exe_con", "exe_app", "event">> \o Link(mode)

\* A variant of DestroyTasks that is wrong: the second thread is forgotten.
DestroyFirst(mode) ==
  <<"interact", "insert", "event", "exe_dev", "exe_con", "exe_app">> \o Link(mode)

\* sg_destroy_task
DestroyTasks(mode) ==
  <<"interact", "insert", "poly", "event", "exe_dev", "exe_con", "exe_app">> \o Link(mode)

\* A variant of InitList that is wrong: the threads come before the queues.
TasksFirst(mode) ==
  CreateTasks(mode) \o Queues \o <<"timer_task", "timer_queue">> \o Timers

\* sg_init
InitList(mode) ==
  Queues \o CreateTasks(mode) \o <<"timer_task", "timer_queue">> \o Timers

\* sg_exit
ExitList(mode) == Queues \o Timers \o DestroyTasks(mode)

\* The queue a thread waits on, whose id is the first thing it reads when it runs.
QueueOf == [interact |-> "unpack", exe_dev |-> "dev", exe_con |-> "container",
            exe_app |-> "app", mqtt_pub |-> "pack"]

-----------------------------------------------------------------------------
(* main                                                                    *)

\* Without these sg_init returns at once.
AtOnce == {"timer_task", "timer_queue"}

\* A variant of Counts that is wrong: only what is created last counts.
CountsLast(x) == x \in ToSet(Timers) \union AtOnce

\* A queue that could not be created is only logged.
Counts(x) == x \notin ToSet(Queues)

Creating == main = "init" /\ step <= Len(InitList(startmode))

Create ==
  /\ Creating
  /\ LET x == InitList(startmode)[step]
     IN  /\ made' = made \union {x}
         /\ tt' = IF x = "timer_task" THEN "event" ELSE tt
  /\ step' = step + 1
  /\ UNCHANGED <<startmode, main, failed, kept, g_mqtt_connect_flag, event,
                 g_timer_queue, errors, device, faults>>

CreateFails ==
  /\ Creating /\ faults > 0
  /\ LET x == InitList(startmode)[step]
     IN  /\ failed' = failed \union {x}
         /\ main' = IF x \in AtOnce THEN "main_error" ELSE main
  /\ step' = step + 1 /\ faults' = faults - 1
  /\ UNCHANGED <<startmode, made, kept, g_mqtt_connect_flag, timing, device>>

\* A variant of Started that is wrong: sg_exit starts where sg_init has ended.
StartedFar ==
  /\ main = "init" /\ step > Len(InitList(startmode))
  /\ main' = IF \E x \in failed : Counts(x) THEN "main_error"
             ELSE IF startmode = MODE_RMTMAN THEN "exit" ELSE "mqtt_init"
  /\ UNCHANGED <<startmode, made_by, g_mqtt_connect_flag, timing, device, faults>>

\* sg_init returns; to RMTMAN, main does not stay.
Started ==
  /\ main = "init" /\ step > Len(InitList(startmode))
  /\ main' = IF \E x \in failed : Counts(x) THEN "main_error"
             ELSE IF startmode = MODE_RMTMAN THEN "exit" ELSE "mqtt_init"
  /\ step' = 1
  /\ UNCHANGED <<startmode, made, failed, kept, g_mqtt_connect_flag, timing,
                 device, faults>>

\* sg_mqtt_init, and what ends sg_mqtt_main_task besides a reboot.
MqttInit ==
  /\ main = "mqtt_init"
  /\ \/ main' = "loop" /\ g_mqtt_connect_flag' \in BOOLEAN
     \/ main' = "exit" /\ UNCHANGED g_mqtt_connect_flag
  /\ UNCHANGED <<startmode, made_by, timing, device, faults>>

\* The head of the loop, where a connection that is down is made anew, ...
Connected ==
  /\ main = "loop"
  /\ g_mqtt_connect_flag' = TRUE
  /\ main' = "test"
  /\ UNCHANGED <<startmode, made_by, timing, device, faults>>

SubscribeFails ==
  /\ main = "loop" /\ ~g_mqtt_connect_flag
  /\ main' = "exit"
  /\ UNCHANGED <<startmode, made_by, g_mqtt_connect_flag, timing, device, faults>>

\* A variant of TestReboot that is wrong: the reboot only connects anew.
TestRebootLoop ==
  /\ main = "test"
  /\ main' = "loop"
  /\ g_mqtt_connect_flag' = (g_mqtt_connect_flag /\ ~edge_reboot_flag)
  /\ UNCHANGED <<startmode, made_by, timing, device, faults>>

\* ... and its end.  sg_mqtt_exit takes the connection down.
TestReboot ==
  /\ main = "test"
  /\ main' = IF edge_reboot_flag THEN "exit" ELSE "loop"
  /\ g_mqtt_connect_flag' = (g_mqtt_connect_flag /\ ~edge_reboot_flag)
  /\ UNCHANGED <<startmode, made_by, timing, device, faults>>

Deleting == main = "exit" /\ step <= Len(ExitList(startmode))

Delete ==
  /\ Deleting
  /\ made' = made \ {ExitList(startmode)[step]}
  /\ step' = step + 1
  /\ UNCHANGED <<startmode, main, failed, kept, g_mqtt_connect_flag, timing,
                 device, faults>>

DeleteFails ==
  /\ Deleting /\ faults > 0
  /\ kept' = kept \union {ExitList(startmode)[step]}
  /\ step' = step + 1 /\ faults' = faults - 1
  /\ UNCHANGED <<startmode, main, made, failed, g_mqtt_connect_flag, timing,
                 device>>

Exited ==
  /\ main = "exit" /\ step > Len(ExitList(startmode))
  /\ main' = "ended"
  /\ UNCHANGED <<startmode, made_by, g_mqtt_connect_flag, timing, device, faults>>

Main == \/ Create \/ CreateFails \/ Started \/ MqttInit \/ Connected \/ SubscribeFails
        \/ TestReboot \/ Delete \/ DeleteFails \/ Exited

\* External: the connection is lost.
Lost ==
  /\ main \in {"loop", "test"} /\ g_mqtt_connect_flag
  /\ g_mqtt_connect_flag' = FALSE
  /\ UNCHANGED <<startmode, main, made_by, timing, device, faults>>

-----------------------------------------------------------------------------
(* The threads and the timer task                                          *)

\* A thread may run while the process is there.
Runs(t) == t \in made /\ main \notin {"ended", "main_error"}

\* The variable of a queue's id is set when main has created the queue, for good.
IdSet(q) ==
  /\ q \notin failed
  /\ main = "init" => \E i \in 1 .. step - 1 : InitList(startmode)[i] = q

\* The device thread takes a command, once there is a connection it came by.
Takes ==
  /\ Runs("exe_dev") /\ "dev" \in made
  /\ g_mqtt_connect_flag /\ todo = <<>>

\* sg_creat_timer
TakeParameters ==
  /\ Takes /\ commands > 0
  /\ todo' = Timers /\ commands' = commands - 1
  /\ UNCHANGED <<startmode, main, made_by, g_mqtt_connect_flag, timing,
                 edge_reboot_flag, raced, faults>>

\* sg_handle_dev_ctrl_cmd, edge-reboot
TakeReboot ==
  /\ Takes
  /\ edge_reboot_flag' = TRUE
  /\ UNCHANGED <<startmode, main, made_by, g_mqtt_connect_flag, timing, todo,
                 commands, raced, faults>>

Replaces == Runs("exe_dev") /\ todo # <<>>

DeleteTimer ==
  /\ Replaces /\ Head(todo) \in made
  /\ made' = made \ {Head(todo)}
  /\ UNCHANGED <<startmode, main, step, failed, kept, g_mqtt_connect_flag,
                 timing, device, faults>>

\* A timer that cannot be created ends the command.
CreateTimer ==
  /\ Replaces /\ Head(todo) \notin made
  /\ \/ /\ made' = made \union {Head(todo)} /\ todo' = Tail(todo)
        /\ raced' = (raced \/ main = "exit") /\ UNCHANGED faults
     \/ /\ faults > 0 /\ faults' = faults - 1
        /\ todo' = <<>> /\ UNCHANGED <<made, raced>>
  /\ UNCHANGED <<startmode, main, step, failed, kept, g_mqtt_connect_flag,
                 timing, edge_reboot_flag, commands>>

Device == DeleteTimer \/ CreateTimer

Waits(k) == Contains(g_timer_queue, k)

\* External: a timer expires, which puts a message in the queue and sets the
\* event.  Of one timer one message waits at most: a bound.
Expire(k) ==
  /\ Runs(k)
  /\ g_timer_queue' = IF Waits(k) THEN g_timer_queue ELSE Append(g_timer_queue, k)
  /\ event' = TRUE
  /\ UNCHANGED <<startmode, main, made_by, g_mqtt_connect_flag, tt, errors,
                 device, faults>>

\* sg_timer_task_entry waits for the event ...
TaskEvent ==
  /\ Runs("timer_task") /\ tt = "event" /\ event
  /\ event' = FALSE /\ tt' = "queue"
  /\ UNCHANGED <<startmode, main, made_by, g_mqtt_connect_flag, g_timer_queue,
                 errors, device, faults>>

\* ... and sg_timer_queue_entry reads the queue from then on, ...
TaskRead ==
  /\ Runs("timer_task") /\ tt = "queue" /\ g_timer_queue # <<>>
  /\ g_timer_queue' = Tail(g_timer_queue)
  /\ UNCHANGED <<startmode, main, made_by, g_mqtt_connect_flag, tt, event,
                 errors, device, faults>>

\* A variant of TaskError that is wrong: an error ends both loops.
TaskErrorEnds ==
  /\ Runs("timer_task") /\ tt = "queue" /\ errors > 0
  /\ errors' = errors - 1 /\ tt' = "none"
  /\ UNCHANGED <<startmode, main, made_by, g_mqtt_connect_flag, event,
                 g_timer_queue, device, faults>>

\* ... until there is an error, which makes it wait for the next event.
TaskError ==
  /\ Runs("timer_task") /\ tt = "queue" /\ errors > 0
  /\ errors' = errors - 1 /\ tt' = "event"
  /\ UNCHANGED <<startmode, main, made_by, g_mqtt_connect_flag, event,
                 g_timer_queue, device, faults>>

-----------------------------------------------------------------------------
Init ==
  /\ startmode \in Mode
  /\ main = "init" /\ step = 1
  /\ made = {} /\ failed = {} /\ kept = {}
  /\ g_mqtt_connect_flag = FALSE /\ edge_reboot_flag = FALSE
  /\ todo = <<>>
  /\ tt = "none" /\ event = FALSE /\ g_timer_queue = <<>>
  /\ faults = Faults /\ errors = ReadErrors /\ commands = Commands
  /\ raced = FALSE

Next ==
  \/ Main \/ Lost
  \/ TakeParameters \/ TakeReboot \/ Device
  \/ \E k \in Ticking : Expire(k)
  \/ TaskEvent \/ TaskRead \/ TaskError

Spec == Init /\ [][Next]_vars

\* main and the threads are scheduled, timers expire, and a connection is made
\* at last.
FairSpec ==
  /\ Spec
  /\ WF_vars(Main) /\ WF_vars(Device)
  /\ WF_vars(TaskEvent) /\ WF_vars(TaskRead)
  /\ \A k \in Ticking : WF_vars(Expire(k))

-----------------------------------------------------------------------------
(* Properties                                                              *)

Tasks == ToSet(CreateTasks(startmode))
Thing == ToSet(InitList(MODE_MQTT)) \union ToSet(InitList(MODE_RMTMAN))

\* The type of every variable, and how far main can be in its lists.
TypeOK ==
  /\ startmode \in Mode
  /\ main \in {"init", "mqtt_init", "loop", "test", "exit", "ended", "main_error"}
  /\ step \in 1 .. 1 + Len(IF main \in {"init", "main_error"} THEN InitList(startmode)
                           ELSE ExitList(startmode))
  /\ made \subseteq Thing /\ failed \subseteq Thing /\ kept \subseteq Thing
  /\ g_mqtt_connect_flag \in BOOLEAN /\ edge_reboot_flag \in BOOLEAN
  /\ IsSuffix(todo, Timers)
  /\ tt \in {"none", "event", "queue"} /\ event \in BOOLEAN
  /\ g_timer_queue \in Seq(Ticking) /\ IsInjective(g_timer_queue)
  /\ faults \in 0 .. Faults /\ errors \in 0 .. ReadErrors /\ commands \in 0 .. Commands
  /\ raced \in BOOLEAN

\* However early a thread runs, and however late, the id it reads is its queue's,
\* unless the queue could not be created; and no timer is without task and queue.
FindsItsOwn ==
  /\ \A t \in DOMAIN QueueOf :
       t \in made => IdSet(QueueOf[t]) \/ QueueOf[t] \in failed
  /\ (\E k \in ToSet(Timers) : k \in made) => AtOnce \subseteq made

\* main goes on to the connection with every thread and the timer task, and with
\* every timer as long as no command has set them: what fails on the way is found
\* out at the end.
WholeOrNot ==
  main \in {"mqtt_init", "loop", "test"} =>
    /\ Tasks \union AtOnce \subseteq made
    /\ commands = Commands => ToSet(Timers) \subseteq made

\* What sg_exit leaves: the timer task and its queue, which nothing deletes, what
\* could not be deleted, and timers, if the device thread was setting them.
LeftAtExit ==
  main = "ended" =>
    made \subseteq AtOnce \union kept \union (IF raced THEN ToSet(Timers) ELSE {})

\* An expiry is handled, errors of the queue notwithstanding, until main exits.
TimersHeard ==
  \A k \in Ticking :
    Waits(k) ~> (~Waits(k) \/ main \in {"exit", "ended", "main_error"})

\* A reboot that was ordered takes place, however often the connection is lost.
RebootEnds == edge_reboot_flag ~> (main = "ended")
=============================================================================
