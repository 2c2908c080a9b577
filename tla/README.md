# sgdevagent: a verification project

TLA+ models of the device agent under `src/sgdevagent_V01`, model-checked with
TLC, with theorems checked by TLAPS. The agent runs on an edge gateway. It keeps
an MQTT session with the platform, announces the device and sends heartbeats,
executes the platform's commands on the device, its containers and its
applications through a middleware, and forwards data of a serial link manager
(RMTMAN) over a socket.

Everything beside `src/sgdevagent_V01` (an example of libcurl, notes, a makefile)
is not part of the program.

## 1. The system

### Components

| component | source | state | operations |
|---|---|---|---|
| MQTT session | `upmqtt/mqtt_pub.c` | `g_client`, `g_mqtt_connect_flag` | create, connect, subscribe, publish, reconnect loop, exit; callbacks `sg_connLost`, `sg_mqtt_msg_arrvd` |
| Device access | `maintask/thread_dev_insert.c` | `g_dev_access_flag` | announce (`EVENT_LINKUP`) until accepted |
| Timers | `maintask/timer_pack.c` | `g_heart_flag`, `g_heart_send_count`, the four timer ids | heartbeat callback, three reports, create / delete / replace |
| Answers and commands | `maintask/thread_interact.c` | `g_exe_state` | take a message off the unpack queue; answers set flags, commands are routed, status queries answered |
| Queues | `commn/sgdev_queue.c` | pack, unpack, dev, container, app | pushes that never wait, reads that wait for ever |
| Executing threads | `maintask/thread_task_exe.c` | one queue and one item in hand each | dispatch by tag |
| Command handlers | `taskexe/task_deal.c` | three status records | call the middleware, queue replies and results |
| Installation | `taskexe/task_app.c`, `task_container.c` | `app_install_status`, `app_hash` | hash, install, enable |
| Downloads | `commn/sgdev_curl.c` | the download directory | download over what is there, check |
| Periods | `commn/sgdev_param.c`, `taskexe/task_link.c` | `sg_period_params`, `m_devperiod` | read at start, write on command |
| Process | `maintask/main.c` | what is created, `edge_reboot_flag` | `sg_init`, main loop, `sg_exit` |
| Publishing and socket threads | `maintask/thread_manage.c` | `g_rmt_connect_flag` | publish the pack queue; read and write the socket |
| Socket, frames | `uprmtman/*.c` | `m_socket`, `m_ConnectState`, two buffers with their counts | connect, read, close; reassemble frames |
| Event thread | `maintask/thread_event.c` | - | waits for events, publishes none |
| Messages | `upmqtt/mqtt_*.c` | - | pack and unpack fields |
| List, helpers | see PROJECT.json | - | no shared state of their own, or not called |

### How they interact

    platform ==device/response==> sg_mqtt_msg_arrvd --unpack queue--> sg_bus_inter_thread
                                                        |  answers: access flag, heartbeat flag
                                                        |  commands: tag + queue
                         dev / container / app queues <-'
                              |        |        |
                       three executing threads --calls--> middleware
                              |        |        |
    platform <== sg_mqtt_pub_thread <-- pack queue <-- replies, results,
                                                       linkup (insert thread),
                                                       heartbeat and reports (timer task)

The main thread connects and reconnects. All flags are plain globals without a
lock; the threads poll them and sleep. Started with `startmode` 0 (`MODE_RMTMAN`)
the agent is to talk to RMTMAN instead: a reading and a writing thread take the
place of the publishing thread. `main` then sets the socket back, closes it and
ends the process right after it has started them, and the other threads test the
MQTT flag, which nothing sets in that mode.

### What is hard, and what makes each component correct

* **Session.** Five threads poll the connection flag with
  `sg_get_mqtt_connect_flag`, which tests the library and *then* writes the flag;
  `sg_connLost` writes it from the library's thread; main writes it on connecting.
  Queues outlive the connection their items came through. Correct: the device
  counts as accepted only on an answer to an announcement; a broken connection is
  noticed; a platform that falls silent is noticed, after a bounded number of
  heartbeats; and when nothing fails any more the device takes part again.
* **Commands.** Topic and type are turned into queue and tag in one file and the
  tag into a handler in another, over tables that must agree. Correct: the right
  handler, in order, at most one answer, nothing stuck.
* **Jobs.** Two threads share the download directory and the install status.
  Correct: a result without an error is true, a deferred job is not installed at
  once, a status never goes back, every job ends.
* **Configuration.** Thresholds, file and timers change in a dozen steps that can
  be cut by a failure or a crash; the numbers come in any size and may be left
  out. Correct: timers run at the periods of the file, no timer is lost, no
  threshold leaves its bounds, the process comes back.
* **Link to RMTMAN.** The socket hands out a stream cut anywhere, with lengths
  that an `int16_t` may turn negative and reads of any size; the state of the
  connection is changed by the reading thread and by `main`, and read by both
  threads. Correct, up to the first copy that leaves its buffer (which the code
  does not prevent): of what waits no byte is lost or moved, and only the start
  of a frame waits. Correct, up to the end of the process: no descriptor is lost
  but 0 and one that `main` makes the process forget, and the flag follows the
  connection, late writes of the writing thread apart.
* **Life of the process.** Threads run as soon as they are created, any creation
  may fail, and what they use is taken down while they still run. Correct:
  nothing reads an id before it is set, the process is whole or ends, expiries
  are handled, an ordered reboot takes place, and nothing but the timer task is
  left at the end.

`PROJECT.json` lists each hazard with its line and the properties that cover it.

## 2. The modules

    LinkSession     refines  AccessProtocol     (MCLinkSession, LinkSessionProofs)
    Commands        refines  CommandLanes       (MCCommands, CommandsProofs)
    InstallJobs                                 (MCInstallJobs, InstallJobsProofs)
    DeviceConfig                                (MCDeviceConfig, DeviceConfigProofs)
    RmtLink                                     (MCRmtLink, RmtLinkProofs)
    Lifecycle                                   (MCLifecycle, LifecycleProofs)

### LinkSession

The core: six threads as six sets of actions with a program counter each, the two
queues, the flags and the heartbeat counters, and, external, the library's
connection, the subscription, the messages on the way and the platform.

| thread | code | actions |
|---|---|---|
| main | `sg_mqtt_main_task`, `sg_mqtt_init`, `sg_agent_mqtt_*` | `Main...` |
| insert | `sg_dev_insert_thread` | `InsertCheck` ... `InsertGiveUp` |
| heart | `sg_timer_heart_callback` | `HeartCheck` ... `HeartSend` |
| inter | `sg_bus_inter_thread` | `InterCheck` ... `InterHandle` |
| pub | `sg_mqtt_pub_thread` | `PubCheck` ... `PubPublish` |
| paho | the client library's thread | `MsgArrvd`, `ConnLost`, `ConnLostClear`, `LinkDrop` |

A loop is cut where another thread can make a difference: between the test and
the write of `sg_get_mqtt_connect_flag` (in the threads of `Racers`), around the
blocking queue read and connect, between `sg_connLost`'s write and the test that
follows it, between the two reads of the access flag in the timer. Accesses that
no other thread can tell apart are one step. `silent` is a history variable, set
to 0 when a heartbeat's answer is handled and when the count takes the device
offline.

`AccessProtocol` is the promise: requests, answers, and an online flag that only
an answer sets. The refinement maps the requests to the linkups in the pack queue
and on the way, the answers to those on the way back and in the unpack queue.

### Commands

From a message on a command topic to the reply. `RouteLane` and `RouteTag` are
`sg_topic_data_unpack` with the three unpack functions, `sg_task_pro_*` the
dispatch of the threads, `sg_handle_*` what each handler replies for each outcome
of its middleware calls. `Take`, `Act` and `Reply` are the loop of an executing
thread; `ReplyTopic` and `ReplyMessage` are what each handler and its pack
function put on a reply. `g_exe_state` is kept because status queries read and,
by an assignment in a condition, write it.

`ParamPassed` says whether parameters get through at all. As the code stands they
do not (the run CommandUnanswered), and every command with parameters is dropped. The
passing runs set it to TRUE, which admits both kinds of command, since a command
may also come without parameters: so they check the rest of the path as well as
the dropping. The run about the defect sets it to FALSE.

`CommandLanes` is the promise: lanes served in order, one answer at most, only to
the command in service.

### InstallJobs

The three handlers that go on after the acknowledgement, step by step, in two
threads: download (start, end), image, create, hash, call, report. Files are
records of whose they are and whether they are complete, so that a file
overwritten by the other thread, left by an earlier job or torn by a restart can
be told from the right one. Restart keeps files only.

### DeviceConfig

`sg_handle_dev_set_para_cmd` and `sg_set_period`, step by step, the timers with
their ids, the file in its two steps of writing, and start-up. An order is what
the command says, `Absent` where it says nothing; `Field`, `Threshold` and
`Period` are what `sg_unpack_dev_set_para_cmd` makes of it: 0 for what is left
out, the lowest byte of a threshold. Seconds are multiplied by `Milli` modulo
`Word`, the code's 1000 and 2^32 scaled down. `stale` is a history variable: the
kinds whose timers could not be created when the file changed.

### RmtLink

The two threads of `thread_manage.c` that serve the socket, with `rmt_socket.c`
and `rmt_frame.c`, and `main`, which comes to `sg_sockket_init` and
`sg_sockket_exit` at any time after it has started them.

| code | definitions |
|---|---|
| `sg_init_socket`, `sg_cloese_socket` | `Create` (`Got`), `sg_cloese_socket` |
| `sg_connect_socket` | `Dial`, `Dialled`; `Select`, `Verify`; `Return` |
| `sg_rpc_read_data_thread` | `ReadCheck`, `Online`, `ReadLook`, `ReadAfter` |
| `sg_read_data`, `sg_recvive`, `sg_set_recv_cnt` | `ReadNothing`, `ReadBytes` |
| `ProcBuf`, `sg_unpack_frame`, `AfterUnpackProc` | `Join`, `Unpack` (`Skip`, `FrameFound`, `Taken`, `Unpacked`) |
| `sg_rpc_write_data_thread` | `WriteCheck`, `WriteLook`, `WriteLost` |
| `sg_sockket_init`, `sg_sockket_exit`, the end of `main` | `ResetSocket`, `ResetState`; `Exit`; `End` |

Connecting is cut wherever `main` can come between: the descriptor is made, used,
and only then the state is set from what came of it. So after `ResetSocket` the
reader may set the state of a connection whose descriptor is gone, and a
descriptor stays open that nobody knows any more. `socket()` may return 0 when the
process has that number free; 0 stands for no socket, another one is made, and 0
stays open (`Create`). `sg_cloese_socket` is one step.

The buffers are functions from positions to bytes, zeroed and copied as the code
does, with its counts. Reads are not limited by the bytes that wait, as in the
code. The two bytes of a length make a `uint16_t`, which becomes an `int16_t`
(`AsInt16`, for a word of `Base * Base` values): from half a word less 6 on it is
negative or 0, and then always complete. What the length bytes are when they lie
behind the buffer is left open (`ByteAt`). Two places of the reader are final:
`undefined`, when bytes are copied behind the buffer or a negative number of them,
after which nothing is said of the process, and `endless`, when a frame of length
0 keeps the loop where it is.

`recent` is a history variable, the end of the stream as far back as to what
waited before the last read, against which the buffer is compared; what is done
with is dropped from it in `Unpacked`, to have fewer states. `FrmHeadToApciInf` has no return statement, so that the value
its caller tests is undefined: `Unpack` may take the head of a frame for one or
not, even at a length of 0. `late` is a history variable: the writing thread has
reported a loss when a new connection was there.

### Lifecycle

`InitList` and `ExitList` are the orders of `sg_init` and `sg_exit`, queue by
queue, thread by thread, timer by timer; `Create`, `CreateFails`, `Delete` and
`DeleteFails` go through them, `Started` counts what has failed as `sg_init`
does. `made` is what exists. Meanwhile the threads may run: the device thread
takes the command that replaces the timers (`DeleteTimer`, `CreateTimer`) or the
one that orders a reboot (`TakeReboot`), timers expire, and `TaskEvent`,
`TaskRead`, `TaskError` are `sg_timer_task_entry` and `sg_timer_queue_entry`. The
connection is one flag that is lost at any time (its life is LinkSession's).

### Reading of code that does not compile as it stands

Some lines have slips that no compiler takes: a full-width `！=` and
`!= VOS_OK !` in `thread_interact.c`, `void (void)sg_set_mqtt_connect_flag` in
`mqtt_pub.c`, an unbalanced parenthesis in `main.c`, undeclared names in
`sg_get_json_content_heaser`, and braces that do not match at the end of
`sg_connect_socket` (`rmt_socket.c:185`). They are read as obviously meant. None
of them changes a condition or an assignment of the models.

## 3. What is checked

### Runs that pass

| run | shows | distinct states |
|---|---|---|
| LinkSafety | types; `SilenceBounded`; the refinement of AccessProtocol | 4.0 M |
| LinkCalm | `CalmJoins`: once nothing fails, the device joins, from any state left behind | 0.7 M |
| LinkMute | `OutageRevokes`: a broken connection takes the device offline or is replaced; `MuteNoticed`: a silent platform is noticed for good | 0.6 M |
| CommandOrder | types; `RightHandler`, `RightReply`: the handler that was asked for, and a reply of that type to where the command came from; lanes in order, one answer each; `AllServed`: nothing stuck | 0.6 M |
| JobSafety | types; a deferred job is not installed; a result without an error is true; no status goes back; every job ends | 0.6 M |
| ConfigSafety | types; stray timers; ids; timers follow the file between commands; `LimitsAsAsked`: a threshold changes only if it is named and only within its bounds; what was acknowledged survives crashes; the process comes back after every crash but one kind | 1.8 M |
| RmtSafety | types, with the bounds of positions and counts; `WaitingIsEnd`, `OnlyPartWaits`: reassembly up to the first copy that leaves its buffer; `OneSocket`: which descriptors stay open; `LossReported`, `LastingReported`: the flag follows the connection | 1.4 M |
| LifeSafety | types and places in the lists; `FindsItsOwn`: no thread reads an id before it is set; `WholeOrNot`; `LeftAtExit`; `TimersHeard`; `RebootEnds` | 0.7 M |

`CalmJoins` has one exception, named `Deaf`: `sg_mqtt_init` ignores a failed
subscription, the connect has set the flag before, and the loop never subscribes
again. Every property has a mutant of a mapped definition (the "variant that is
wrong" definitions in the modules) under which its run fails.

### Runs that find a disagreement

Each checks one property that a comment of the repository states.

| run | what happens |
|---|---|
| CommandUnanswered | the parameters never arrive: `param` is passed by value; the command gets no reply |
| JobDeferred | a deferred installation is never taken up |
| JobUpgrade | the end of an upgrade is written to the install status |
| ConfigTorn | a crash between emptying and writing the period file |

The models follow the code in these points too, which are plain when read and
have no run of their own:

* `thread_interact.c:72`, `114`, `149`: `if (sprintf_s(...))` takes a length for
  an error, and a status query gets no reply (`StatusQueried`).
* `thread_interact.c:103`: `if (g_exe_state = ...)`: the query changes the state
  it asks for (`StatusQueried`).
* `task_deal.c:1430` and its like: success is reported when the transport could
  be opened, whatever the call returned (`OnlyTransport`).
* `task_deal.c:635`: the result of a container's installation carries no job id
  (`JobId`).
* `task_app.c:131`: braces are missing, and disabling an application always
  counts as refused (`Call`).
* `timer_pack.c:200`: seconds times 1000 in 32 bits (`Ms`).
* `task_deal.c:438`: a threshold that is skipped or refused is reported as a
  success (`SetLimit`, `Reply`).
* `mqtt_dev.c:615`: a threshold of 306 is one of 50, a temperature of -5 one of
  251; a command without a temperature sets it to 0, and one without periods sets
  all four to 0, in the file too (`Field`, `SetTemperature`, `Write`).
* `main.c:224`: to RMTMAN, the process ends as soon as it has started
  (`Started`; in RmtLink, `End`).
* `main.c:225`: the descriptor of a connection that is there already is set to 0
  and not closed (`ResetSocket`, allowed for in `OneSocket`).
* `rmt_socket.c:99`: descriptor 0 is left open for another one (`Create`, allowed
  for in `OneSocket`).
* `rmt_frame.c:146`: a frame of 0x7FFA bytes or more has a negative length, or
  length 0, and counts as complete (`nFrmLength`, `Taken`); a few lengths near
  0xFFFF become small positive ones.
* `rmt_frame.c:110`: `//assert((m_usRecvCnt + usRecvCnt <= RECVBUFLEN))`: nothing
  keeps a read from being longer than the room behind the bytes that wait, and
  `ProcBuf` then copies behind the buffer (`ReadBytes`, `Join`).
* `rmt_frame.c:33`: `FrmHeadToApciInf` returns nothing (`Unpack`).
* `thread_manage.c:193`: the writing thread may set the flag to offline for an
  earlier loss when a new connection is there, and nothing sets it right until
  that one breaks (`WriteLost`, the exception `late` of `LastingReported`).
* `thread_manage.c:147`: the start of a frame that a broken connection left is
  joined with the first bytes of the next one (`ReadBytes`, `Join`).
* `main.c:174`: the timer task and its queue are never deleted, and the queues go
  before the threads that wait on them (`LeftAtExit`, `ExitList`).

### Bounds, and why they are enough

* *LinkSafety*: `HEART_MAX_COUNT = 1` gives the counter the three values that
  differ (below, at and above the limit), `SilentCap = 4` is above the bound of
  3, so that a violation shows. Queues of one item are full and empty; two
  messages on the way are a request and an answer, two requests or two answers.
  Three of the four polling threads may be cut between test and write.
* *LinkCalm, LinkMute*: liveness needs smaller graphs: a limit of 0 and one
  message on the way. In LinkCalm the publishing thread is cut between test and
  write, so that a late OFFLINE can undo a new connection; such a write has the
  same effect whichever thread makes it. In LinkMute no thread is: there a late
  OFFLINE only helps to notice.
* *CommandOrder*: two commands, from four types that are routed and answered
  differently, on each topic, one outage, queues of one: full queues, dropped
  items and waiting across the outage occur. That the tables agree for all 28
  types is proved.
* *JobSafety*: two jobs of any kind, one or two names, one restart: two jobs in
  one thread meet the leftovers of each other, two in different threads write to
  one file and one status at a time.
* *ConfigSafety*: `Milli = 10`, `Word = 64`: one period fits, one wraps, one is
  left out; thresholds at 50, 89 and 90 (346, cut to its byte) against an alert at
  90, and left out; a temperature below zero, none, and half a one; two crashes
  and one failed deletion.
* *RmtSafety*: buffers of 5 bytes, lengths of two bytes with `Base = 4` (a word of
  16 stands for 65536), three values of a byte (the head of a frame, 0 and
  another), reads of up to 3: lengths come out as 2, 3 and 4 (complete within the
  buffer), 6 and 7 (never complete), 0 and below. A read brings part of a frame,
  its end and the start of the next, or rubbish; the buffer fills up and reads stop
  fitting. Descriptors 0, 1 and 2, so that 0, one that is forgotten and one in use
  are open together.
* *LifeSafety*: one creation or deletion that fails, anywhere, one error of the
  timer queue, one command that sets the timers, two timers that expire: the
  first and the last one created. `sg_init` decides by the count of failures,
  and one is enough for that.

`CHECK_DEADLOCK FALSE` stands in every configuration, because the system really
stops: main ends the process, all commands and jobs of a run are done, and a torn
file keeps the process from starting.

### Fairness

Weak fairness of each thread: the threads are created with `VOS_T_Create` and
scheduled by the operating system, every wait of theirs is a sleep or a queue
read, and a read is enabled as long as the queue holds an item. The timer ticks.
The environment has no fairness except that what was published reaches the
platform or is lost, and the mood of `LinkSession` (calm, mute), which is part of
the property and not of the fairness. `Commands` assumes that middleware calls
return and that the session comes up again, which LinkCalm shows under its
exceptions; `InstallJobs` that downloads and calls return (the code sets no
timeout: listed as a hazard); `DeviceConfig` that whoever supervises the process
starts it again; `RmtLink` that its two threads are scheduled, and `main` from its
first call for the socket on (it may be a long time before it, which is allowed
and needs no fairness), and nothing of the peer; `Lifecycle` that main and the
threads are scheduled, that timers expire, and that a connection is made at last (`Connected`, part of main's progress: the
code tries for ever), but not that errors of the queue come to an end by
themselves (they are bounded) or that connections last.

## 4. What is proved

Every invariant and every action property of the runs that pass, and both
refinements, are theorems, for every value of the constants that the named
assumptions admit. Each `...Proofs` module states its invariant first, then what
the operators of the model do to its parts, then one lemma for each group of
actions, and the theorems at the end.

`LinkSessionProofs`, for every heartbeat limit, queue depth, number of messages
on the way, set of `Racers` and of moods:

* **TypeCorrect**: `Spec => []TypeOK`. `TypeOK` is inductive. One lemma for the
  main thread, one for the polls, one for the work between them, one for
  callbacks and environment; queues and channels go through `PushType`,
  `PopType` and `ClearAirType`.
* **SilenceIsBounded**: `Spec => []SilenceBounded`. The bound is not inductive:
  it says nothing of the counter. `CountInv` adds what the timer and the answer
  handler keep between them: the count is at most the limit + 1, and at most the
  limit while a heartbeat is about to be queued; while no answer is pending the
  silence exceeds the count by one at most (the heartbeat that was about to be
  queued when the last answer came in); while one is pending, no heartbeat but
  that one has been queued.

* **AccessImplemented**: `Spec => ImplementsAccess`, the refinement of
  `AccessProtocol`. `Allowed` says what any step may do to the flag, the requests
  and the answers: one request more, one request that becomes an answer, one
  answer that is handled and sets the flag, or losses and the flag going offline;
  `AccessStep` goes through the actions, `AllowedIsProtocol` finds the step of the
  protocol. The requests are counted over two sequences together
  (`OccursConcat` and the lemmas before it: what appending, taking off and dropping
  do to a count), so that a request that moves from the queue to the network is
  no step at all. The types are all the invariant it needs, since both
  counts are taken from the queues themselves.

The assumption used is `LinkAssumption`, on the constants.

`CommandsProofs`, for any message ids, any of the types, every queue depth and
number of outages, with and without parameters, from `CommandsAssumption` and
`TypesAssumption`:

* **RightHandlerAlways**: `Spec => []RightHandler`. `TablesAgree` is the fact
  about the tables: on each topic, the tag found for a type is the one its thread
  takes for that type. The invariant is `Routed`: whatever is queued or in hand
  came by the tables, and a thread at work has an item whose tag it knows.
* **RightReplyAlways**: `Spec => []RightReply`. A thread that replies has an item
  that came by the tables, so that its handler is that of the command's type
  (`FitsHandler`), and `TopicAgrees` says that this handler's topic is the one the
  type belongs to.
* **TypeCorrect**: `Spec => []TypeOK`. The two invariants need each other: that a
  reply names a message id holds because a thread that replies has an item in
  hand, and `Routed` says so.
* **LanesImplemented**: `Spec => ImplementsLanes`, the refinement of
  `CommandLanes`. A lane (`Line`) is what a thread has in hand and what waits in its
  queue; the answers are the replies sent. `Shape` lists what a step may do to
  them (`Arrives`, `Handled`, `Served`, `Rests`), one lemma per action showing which.
  That an answer is never the second, and only to the command in service, needs
  the invariant `Once`: a message arrives once, waits to be handled or stands in
  one lane, in one place, and is answered only while its thread has acknowledged
  it and has it in hand. `Idle` (a thread that waits has nothing in hand) is what
  makes taking an item leave the lane as it is.

`InstallJobsProofs`, for any number of jobs, file names and restarts and any set
of orders, from `JobsAssumption` (a jobId given by a platform is not the "0" of
a status no job has set):

* **TypeCorrect**: `Spec => []TypeOK`. `TypeOK` needs `InHand`: a thread that is
  not idle has a job, of its own lane, that waits no longer.
* **NeverTooEarly**: `Spec => []NotTooEarly`. `InHand` says as well that past the
  downloads the job in hand is not deferred; only these steps install, or show
  the last states, and they show the jobId in hand.
* **StatesAdvance**: `Spec => StatusForward`. The invariant is `NotAhead`: no
  status is about a job that waits, and what a status says of a job in hand is
  no further than the step its thread is at (`Top`). `Advances` is the one fact
  about a step: it shows a state between the bound before and the bound after.
  That the other thread does not disturb it is `InHand`: the two lanes have no
  job in common.
* **ResultsTellTheTruth**: `Spec => []ResultHonest`. The invariant is `Faithful`,
  which says of the job in hand what a result will say of it once it is out:
  while it has no error, no call for it was refused, and if it fetches a file
  under a name no job of the other thread uses (`Sought`), that file is its own
  from the end of the download on, and is what has been installed when the thread
  comes to report (`NoError`). A result is out about no job that waits or is in
  hand (`NotReported`), and each thread takes the steps of its own kind of job
  (`OwnSteps`). `StepTouches` bounds what a step of a thread may change; a file
  torn by a restart harms nobody, since the jobs in hand end with it.

`RmtLinkProofs`, for every size of the buffers and of a read, every base and
overhead of the lengths, every set of byte values and of descriptors, from
`RmtAssumption` (a word is more than two buffers, and a low byte with the overhead
stays below half a word, as 16384, 65536 and 6 do):

* **TypeCorrect**, **Reassembled** (`Spec => []WaitingIsEnd`),
  **OnlyPartWaitsAlways** (`Spec => []OnlyPartWaits`): from one invariant, `Inv`,
  of the three parts `TypeOK`, `Layout` and `OnlyPartWaits`. `WaitingIsEnd` is not
  inductive: between a read and `ProcBuf` the end of the stream lies in two
  buffers. `Layout` says which part lies where, and that the counts fit, unless
  the read was too long; then `Join` finds no room (`UndefinedKeeps`).
  `OnlyPartWaits` is about what `Unpacked` leaves: a head whose frame is longer
  than what is there. Moving it to the front keeps that (`UnpackedKeeps`): with
  three bytes or more the length bytes are the same, wherever in the buffer they
  stood; with fewer, those that had not come are 0 now, and such a length is small,
  not negative, and longer than what waits (`ShortLength`).
* **OneSocketAlways**: `Spec => []OneSocket`. Besides the types it needs `HandsFull`:
  until `main` comes to its calls, a reader in the middle of connecting has a
  descriptor. `CloseKeeps`, `GotKeeps` and `ResetKeeps` are the three ways in which
  the open descriptors change.

`DeviceConfigProofs`, for every set of orders with numbers of any size, every
width of the fields, every alert threshold, and any number of failures and
crashes, from `ConfigAssumption`. One invariant, `IInv`, of four parts:

* `TypeOK` (**TypeCorrect**: `Spec => []TypeOK`).
* `TimersApart`. The properties **IdsStayApart** (`[]IdsApart`) and **FewTimers**
  (`[]NoStrayTimers`) need each other and more: that an id which is kept names a
  timer that runs (`NamesLive`), and that a kind has one timer less if its id is
  0 (`FewOfEach`). Else replacing a timer whose id is 0, after a deletion without a
  creation, could leave two. `FreshIdNew` is where cardinality comes in: among one
  more id than there are timers, one is free.
* `Underway`: while the timers of a command are created the file has its period,
  and what was answered with success is in the file: **PeriodsAreKept**
  (`[]AcknowledgedKept`).
* `Following`: each timer whose turn has come (`Awaited` are the others) runs at
  the period of the file unless its kind is stale. Between commands none is
  awaited: **TimersRunAsStored** (`[]TimersFollowFile`).

**LimitsSetAsAsked** (`Spec => LimitsAsAsked`) follows from the types: only
`SetLimit` changes the threshold of a resource, and a threshold that is left out is
0, below 50.

`LifecycleProofs`, for any number of failures, errors of the queue and commands,
from `LifeAssumption`. The invariant follows main through its two lists:

* `Typed`, `Place` (**TypeCorrect**: `Spec => []TypeOK`): main is never beyond the end of
  its list, and no expiry is queued twice.
* `Creation`: while main creates, what it has been through exists or has failed,
  and nothing else exists. With `InOrder` (every queue comes before the thread that
  reads it in the list) it gives **ThreadsFindTheirOwn** (`[]FindsItsOwn`), of the
  threads made early.
* `Complete`, with `Quiet` (no command before there is a connection): **StartsWhole**
  (`[]WholeOrNot`).
* `Removal`: while main deletes, what it has been through is gone, could not be
  deleted, or is a timer set meanwhile: **LeavesLittle** (`[]LeftAtExit`).

What `Queues`, `CreateTasks` and the other lists hold is worked out once, in
`ListSets` and `Lists`.

Only model-checked are the properties under fairness: `CalmJoins`, `OutageRevokes`,
`MuteNoticed`, `AllServed`, `EveryJobEnds`, `ComesBack`, `LossReported`,
`LastingReported`, `TimersHeard`, `RebootEnds`. Their proofs need ENABLED of the
threads' actions and an argument over a measure, both beyond the prover. The
runs that find a disagreement need no proof: each shows an execution.

## 5. What is not modelled

* The contents of messages: a message is its kind, a command its topic, type and
  whether its parameters are there, a reply its topic, type and code. The fields
  of one command are modelled, those of the one that changes parameters; for the
  others packing and unpacking go field by field into a structure of their own,
  without state, and are left out.
* The three status reports of the timers: they gather and publish data.
* Memory: that allocations may fail is modelled only where a thread ends by it;
  leaks are not. What a thread does with a queue or a client that was destroyed
  under it is the library's business, and unknown.
* RMTMAN: sending (`sg_write_data` and `sg_packframe` are never reached, since
  `sg_get_continue_send` has nothing for a caller that brings a buffer), the
  listening side and UDP, which nothing uses; what the process does after a copy
  that has left its buffer.
* The device upgrade (`sg_dev_install` does nothing) and the section file
  (`read_section_file` and `write_section_file` are called by nobody; the reason
  of a restart is reset before it is looked at).
* The loop of the event thread (it publishes nothing), the use of the result queue
  (nobody), the list (never called) and the helpers (strings, logging, and a
  mutex held for one call).
* Uploads of logs, and the arithmetic of the check of a download.

## 6. Plan

Done: LinkSession with AccessProtocol, Commands with CommandLanes, InstallJobs,
DeviceConfig, RmtLink and Lifecycle, the runs of each, and the proofs of what is
not liveness: types, invariants, action properties and the two refinements. The
reply to a reboot against the end of the process, once planned as a module of its
own, is a matter of time only: `RebootEnds` says what is certain.

What is left:

1. To model: `FileCheck`, size and hash after a download, as functions over short
   files against a reference definition.
2. To prove: safety consequences of the refinements at the level of
   `AccessProtocol` and `CommandLanes` themselves, and the invariants that stand
   behind the liveness properties (what holds at each place where a thread waits).
