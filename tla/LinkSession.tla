----------------------------- MODULE LinkSession -----------------------------
(***************************************************************************)
(* The MQTT session of the gateway: the main task that keeps the client    *)
(* connected, the thread that announces the device to the platform, the    *)
(* heartbeat timer, the publishing thread, the thread that handles the     *)
(* platform's answers, and the callbacks of the MQTT client library.       *)
(* They share, without a lock, the connection flag, the access flag and    *)
(* the heartbeat flag; requests and answers travel through two bounded     *)
(* queues.                                                                 *)
(*                                                                         *)
(* A thread's loop is cut wherever another thread can make a difference:   *)
(* between reading a flag and acting on it, around a blocking call, and    *)
(* between two writes that another write can separate.  Accesses that no   *)
(* other thread can tell from one are one step.  A thread that sleeps or   *)
(* waits on a queue takes no step.                                         *)
(*                                                                         *)
(* The MQTT client library, the network and the platform are external:     *)
(* they do what the code under src/ relies on and no more.                 *)
(***************************************************************************)
EXTENDS Integers, Sequences, FiniteSets

CONSTANTS
  HEART_MAX_COUNT,   \* unanswered heartbeats tolerated (3 in the code)
  QUEUE_DEPTH_LEN,   \* capacity of the pack and of the unpack queue (512)
  AirCap,            \* bound: messages on the way, both directions together
  SilentCap,         \* bound: what the history variable silent counts up to
  MemoryFails,       \* whether an allocation may fail
  Racers,            \* bound: the threads in which the test and the write of
                     \* sg_get_mqtt_connect_flag are apart
  Moods              \* how network and platform may settle, see Settle

ASSUME LinkAssumption ==
  /\ HEART_MAX_COUNT \in Nat
  /\ QUEUE_DEPTH_LEN \in Nat \ {0}
  /\ AirCap \in Nat \ {0}
  /\ SilentCap \in Nat
  /\ MemoryFails \in BOOLEAN
  /\ Racers \subseteq {"insert", "inter", "pub", "heart"}
  /\ Moods \subseteq {"calm", "mute"}

DEVICE_OFFLINE == 0
DEVICE_ONLINE  == 1

\* What is published on device/request; an answer on device/response names
\* the request it answers.
Request == {"linkup", "heartbeat"}

Main   == "main"     \* sg_mqtt_main_task, in the process's first thread
Insert == "insert"   \* sg_dev_insert_thread
Inter  == "inter"    \* sg_bus_inter_thread
Pub    == "pub"      \* sg_mqtt_pub_thread
Heart  == "heart"    \* the timer task, running sg_timer_heart_callback
Paho   == "paho"     \* the client library's thread, running the callbacks
Threads == {Main, Insert, Inter, Pub, Heart, Paho}

\* Where a thread can be: see TypeOK for the places of each.
Places == {"init", "dial", "online", "subscribe", "confirm", "loop", "exit",
           "halted", "check", "demote", "test", "announce", "ended", "count",
           "send", "read", "idle", "lost", "lostclear"}

VARIABLES
  mqtt_connect_flag,    \* g_mqtt_connect_flag
  g_dev_access_flag,    \* has the platform accepted the device?
  g_heart_flag,         \* 1: a heartbeat was answered since the last tick
  g_heart_send_count,   \* heartbeats queued since an answer was seen
  packQ, unpackQ,       \* the queues of mqtt_data_info_s items
  pc,                   \* where each thread is
  starting,             \* main is in sg_mqtt_init, not yet in its loop
  g_client,             \* external: the library's handle and its connection
  subscribed,           \* external: device/response is subscribed
  accepted,             \* external: the platform took a linkup this session
  uplink, downlink,     \* external: messages on the way
  mood,                 \* external: how network and platform behave from now
  silent                \* history: heartbeats queued since one was answered, or
                        \* the count last took the device offline

flags   == <<mqtt_connect_flag, g_dev_access_flag>>
heart   == <<g_heart_flag, g_heart_send_count, silent>>
queues  == <<packQ, unpackQ>>
air     == <<accepted, uplink, downlink>>
outside == <<g_client, subscribed, air, mood>>
vars    == <<flags, heart, queues, pc, starting, outside>>

At(t, l)   == pc[t] = l
Goto(t, l) == pc' = [pc EXCEPT ![t] = l]

-----------------------------------------------------------------------------
(* Helpers shared by the threads.                                          *)

\* sg_get_mqtt_connect_flag at the head of thread t's loop.  A flag that reads
\* online is checked against the library, and if they disagree it is written
\* offline, at once or, in a thread of Racers, in a step of its own.  A flag
\* that reads offline makes the thread sleep and loop.
GetConnectFlag(t, online) ==
  /\ At(t, "check")
  /\ mqtt_connect_flag = DEVICE_ONLINE
  /\ \/ /\ g_client = "up" \/ t \in Racers
        /\ Goto(t, IF g_client = "up" THEN online ELSE "demote")
        /\ UNCHANGED mqtt_connect_flag
     \/ /\ g_client # "up" /\ t \notin Racers
        /\ mqtt_connect_flag' = DEVICE_OFFLINE
        /\ UNCHANGED pc
  /\ UNCHANGED <<g_dev_access_flag, heart, queues, starting, outside>>

\* That write, which leaves the access flag alone.  Whatever main did since
\* the test is overwritten.
DemoteFlag(t) ==
  /\ At(t, "demote")
  /\ mqtt_connect_flag' = DEVICE_OFFLINE
  /\ Goto(t, "check")
  /\ UNCHANGED <<g_dev_access_flag, heart, queues, starting, outside>>

\* A variant of SetOffline that is wrong: the access flag is kept.
FlagOnlyOffline ==
  /\ mqtt_connect_flag' = DEVICE_OFFLINE
  /\ UNCHANGED g_dev_access_flag

\* sg_set_mqtt_connect_flag(DEVICE_OFFLINE) in the main thread, the only one
\* that ever writes DEVICE_ONLINE: the access flag is cleared with it.
SetOffline ==
  /\ mqtt_connect_flag' = DEVICE_OFFLINE
  /\ g_dev_access_flag' = DEVICE_OFFLINE

\* A variant of Push that is wrong: it does not look for room.
PushAlways(q, x) == Append(q, x)

\* The push functions do not wait: a full queue drops (and frees) the item.
Push(q, x) == IF Len(q) < QUEUE_DEPTH_LEN THEN Append(q, x) ELSE q

sg_push_pack_item(x)   == packQ' = Push(packQ, x) /\ UNCHANGED unpackQ
sg_push_unpack_item(x) == unpackQ' = Push(unpackQ, x) /\ UNCHANGED packQ

\* What a connection that ends takes with it, and a new one starts from.
ClearAir == accepted' = FALSE /\ uplink' = <<>> /\ downlink' = <<>>

-----------------------------------------------------------------------------
(* sg_mqtt_main_task                                                       *)

\* sg_mqtt_init and sg_agent_mqtt_init: the client handle is created, and
\* sg_agent_mqtt_connect entered, or the library refuses and main gives up.
MainInit ==
  /\ At(Main, "init")
  /\ SetOffline
  /\ \/ g_client' = "down" /\ Goto(Main, "dial")
     \/ mood # "calm" /\ UNCHANGED g_client /\ Goto(Main, "exit")
  /\ UNCHANGED <<heart, queues, starting, subscribed, air, mood>>

\* sg_agent_mqtt_connect: MQTTClient_connect succeeds, with a clean session
\* that has no subscriptions, ...
MainConnected ==
  /\ At(Main, "dial")
  /\ g_client' = "up"
  /\ subscribed' = FALSE
  /\ ClearAir
  /\ Goto(Main, "online")
  /\ UNCHANGED <<flags, heart, queues, starting, mood>>

\* ... and then the flag is set, before any topic is subscribed.
MainOnline ==
  /\ At(Main, "online")
  /\ mqtt_connect_flag' = DEVICE_ONLINE
  /\ Goto(Main, "subscribe")
  /\ UNCHANGED <<g_dev_access_flag, heart, queues, starting, outside>>

\* MQTTClient_connect fails.  sg_mqtt_init ignores it; the loop tries again.
MainRefused ==
  /\ At(Main, "dial")
  /\ mood # "calm"
  /\ SetOffline
  /\ starting' = FALSE
  /\ Goto(Main, "loop")
  /\ UNCHANGED <<heart, queues, outside>>

\* sg_create_sub_topic subscribes all four topics ...
MainSubscribed ==
  /\ At(Main, "subscribe")
  /\ g_client = "up"
  /\ subscribed' = TRUE
  /\ Goto(Main, IF starting THEN "confirm" ELSE "loop")
  /\ UNCHANGED <<flags, heart, queues, starting, g_client, air, mood>>

\* ... or fails, with or without device/response among those that worked:
\* sg_mqtt_init goes on to the loop all the same, the loop ends.
MainSubscribeFailed ==
  /\ At(Main, "subscribe")
  /\ mood # "calm" \/ g_client # "up"
  /\ subscribed' \in (IF g_client = "up" THEN BOOLEAN ELSE {FALSE})
  /\ starting' = FALSE
  /\ Goto(Main, IF starting THEN "loop" ELSE "exit")
  /\ UNCHANGED <<flags, heart, queues, g_client, air, mood>>

\* sg_mqtt_init's own sg_set_mqtt_connect_flag(DEVICE_ONLINE)
MainConfirm ==
  /\ At(Main, "confirm")
  /\ mqtt_connect_flag' = DEVICE_ONLINE
  /\ starting' = FALSE
  /\ Goto(Main, "loop")
  /\ UNCHANGED <<g_dev_access_flag, heart, queues, outside>>

\* The loop finds the connection down, in the flag or in the library, and
\* enters sg_agent_mqtt_connect.  Found up, it sleeps for 30 s.
MainReconnect ==
  /\ At(Main, "loop")
  /\ mqtt_connect_flag = DEVICE_OFFLINE \/ g_client # "up"
  /\ SetOffline
  /\ Goto(Main, "dial")
  /\ UNCHANGED <<heart, queues, starting, outside>>

\* edge_reboot_flag is found set: the loop ends.
MainReboot ==
  /\ At(Main, "loop")
  /\ mqtt_connect_flag = DEVICE_ONLINE /\ g_client = "up"
  /\ Goto(Main, "exit")
  /\ UNCHANGED <<flags, heart, queues, starting, outside>>

\* sg_mqtt_exit, and the end of the process.
MainExit ==
  /\ At(Main, "exit")
  /\ SetOffline
  /\ g_client' = "null"
  /\ subscribed' = FALSE
  /\ ClearAir
  /\ Goto(Main, "halted")
  /\ UNCHANGED <<heart, queues, starting, mood>>

\* What the main thread does of itself, MainReboot being ordered from outside.
MainStep ==
  \/ MainInit \/ MainConnected \/ MainRefused \/ MainOnline
  \/ MainSubscribed \/ MainSubscribeFailed \/ MainConfirm
  \/ MainReconnect \/ MainExit

-----------------------------------------------------------------------------
(* sg_dev_insert_thread                                                    *)

InsertCheck  == GetConnectFlag(Insert, "test")
InsertDemote == DemoteFlag(Insert)

\* While the platform has not accepted the device a linkup is prepared in every
\* turn of the loop, ...
InsertTest ==
  /\ At(Insert, "test")
  /\ Goto(Insert, IF g_dev_access_flag # DEVICE_ONLINE THEN "announce" ELSE "check")
  /\ UNCHANGED <<flags, heart, queues, starting, outside>>

\* ... and queued when the device's data have been gathered, whatever has
\* happened to the access flag meanwhile.
InsertAnnounce ==
  /\ At(Insert, "announce")
  /\ sg_push_pack_item("linkup")
  /\ Goto(Insert, "check")
  /\ UNCHANGED <<flags, heart, starting, outside>>

\* VOS_Malloc fails: the thread leaves its loop for good.
InsertGiveUp ==
  /\ MemoryFails
  /\ At(Insert, "announce")
  /\ Goto(Insert, "ended")
  /\ UNCHANGED <<flags, heart, queues, starting, outside>>

InsertStep == InsertCheck \/ InsertDemote \/ InsertTest \/ InsertAnnounce

-----------------------------------------------------------------------------
(* sg_timer_heart_callback                                                 *)

HeartCheck  == GetConnectFlag(Heart, "count")
HeartDemote == DemoteFlag(Heart)

\* A device that is not accepted has no heartbeat: the tick ends.
HeartSkip ==
  /\ At(Heart, "count")
  /\ g_dev_access_flag = DEVICE_OFFLINE
  /\ Goto(Heart, "check")
  /\ UNCHANGED <<flags, heart, queues, starting, outside>>

\* A variant of HeartCount that is wrong: one heartbeat too many is allowed.
CountOneMore ==
  /\ At(Heart, "count")
  /\ g_dev_access_flag = DEVICE_ONLINE
  /\ LET count == IF g_heart_flag = 1 THEN 0 ELSE g_heart_send_count
     IN  IF count > HEART_MAX_COUNT + 1
         THEN /\ g_dev_access_flag' = DEVICE_OFFLINE
              /\ g_heart_send_count' = 0
              /\ silent' = 0
         ELSE /\ g_heart_send_count' = count
              /\ UNCHANGED <<g_dev_access_flag, silent>>
  /\ g_heart_flag' = 0
  /\ Goto(Heart, "send")
  /\ UNCHANGED <<mqtt_connect_flag, queues, starting, outside>>

\* A variant of HeartCount that is wrong: the device stays online.
CountKeepsAccess ==
  /\ At(Heart, "count")
  /\ g_dev_access_flag = DEVICE_ONLINE
  /\ LET count == IF g_heart_flag = 1 THEN 0 ELSE g_heart_send_count
     IN  IF count > HEART_MAX_COUNT
         THEN g_heart_send_count' = 0 /\ silent' = 0
         ELSE g_heart_send_count' = count /\ UNCHANGED silent
  /\ g_heart_flag' = 0
  /\ Goto(Heart, "send")
  /\ UNCHANGED <<flags, queues, starting, outside>>

\* A variant of HeartCount that is wrong: one answer is taken for many.
CountKeepsAnswer ==
  /\ At(Heart, "count")
  /\ g_dev_access_flag = DEVICE_ONLINE
  /\ LET count == IF g_heart_flag = 1 THEN 0 ELSE g_heart_send_count
     IN  IF count > HEART_MAX_COUNT
         THEN /\ g_dev_access_flag' = DEVICE_OFFLINE
              /\ g_heart_send_count' = 0
              /\ silent' = 0
         ELSE /\ g_heart_send_count' = count
              /\ UNCHANGED <<g_dev_access_flag, silent>>
  /\ Goto(Heart, "send")
  /\ UNCHANGED <<mqtt_connect_flag, g_heart_flag, queues, starting, outside>>

\* An answer since the last tick restarts the count; a count beyond the limit
\* takes the device offline.
HeartCount ==
  /\ At(Heart, "count")
  /\ g_dev_access_flag = DEVICE_ONLINE
  /\ LET count == IF g_heart_flag = 1 THEN 0 ELSE g_heart_send_count
     IN  IF count > HEART_MAX_COUNT
         THEN /\ g_dev_access_flag' = DEVICE_OFFLINE
              /\ g_heart_send_count' = 0
              /\ silent' = 0
         ELSE /\ g_heart_send_count' = count
              /\ UNCHANGED <<g_dev_access_flag, silent>>
  /\ g_heart_flag' = 0
  /\ Goto(Heart, "send")
  /\ UNCHANGED <<mqtt_connect_flag, queues, starting, outside>>

\* The access flag is read again, then the heartbeat is queued and counted,
\* whether or not the queue had room for it.
HeartSend ==
  /\ At(Heart, "send")
  /\ IF g_dev_access_flag = DEVICE_ONLINE
     THEN /\ sg_push_pack_item("heartbeat")
          /\ g_heart_send_count' = g_heart_send_count + 1
          /\ silent' = IF silent < SilentCap THEN silent + 1 ELSE silent
     ELSE UNCHANGED <<queues, g_heart_send_count, silent>>
  /\ Goto(Heart, "check")
  /\ UNCHANGED <<flags, g_heart_flag, starting, outside>>

HeartStep == HeartCheck \/ HeartDemote \/ HeartSkip \/ HeartCount \/ HeartSend

-----------------------------------------------------------------------------
(* sg_bus_inter_thread, for the answers on device/response                 *)

InterCheck  == GetConnectFlag(Inter, "read")
InterDemote == DemoteFlag(Inter)

\* A variant of InterHandle that is wrong: any answer puts the device online.
AnyAnswerAccepts ==
  /\ At(Inter, "read")
  /\ unpackQ # <<>>
  /\ unpackQ' = Tail(unpackQ)
  /\ g_dev_access_flag' = DEVICE_ONLINE
  /\ IF Head(unpackQ) = "heartbeat"
     THEN g_heart_flag' = 1 /\ silent' = 0
     ELSE UNCHANGED <<g_heart_flag, silent>>
  /\ Goto(Inter, "check")
  /\ UNCHANGED <<mqtt_connect_flag, g_heart_send_count, packQ, starting, outside>>

\* VOS_Que_Read waits for an item however long that takes, so the connection
\* that was checked may be gone.  An answer to a linkup puts the device online,
\* whatever connection it came through.
InterHandle ==
  /\ At(Inter, "read")
  /\ unpackQ # <<>>
  /\ unpackQ' = Tail(unpackQ)
  /\ \/ /\ Head(unpackQ) = "linkup"
        /\ g_dev_access_flag' = DEVICE_ONLINE
        /\ UNCHANGED heart
     \/ /\ Head(unpackQ) = "heartbeat"
        /\ g_heart_flag' = 1
        /\ silent' = 0
        /\ UNCHANGED <<g_dev_access_flag, g_heart_send_count>>
  /\ Goto(Inter, "check")
  /\ UNCHANGED <<mqtt_connect_flag, packQ, starting, outside>>

InterStep == InterCheck \/ InterDemote \/ InterHandle

-----------------------------------------------------------------------------
(* sg_mqtt_pub_thread                                                      *)

PubCheck  == GetConnectFlag(Pub, "read")
PubDemote == DemoteFlag(Pub)

\* The next request is published, at QoS 0.  The result is ignored and the
\* item freed, so that it is lost if the connection is gone by then.
PubPublish ==
  /\ At(Pub, "read")
  /\ packQ # <<>>
  /\ packQ' = Tail(packQ)
  /\ \/ /\ g_client = "up" /\ Len(uplink) + Len(downlink) < AirCap
        /\ uplink' = Append(uplink, Head(packQ))
     \/ /\ g_client # "up" \/ mood # "calm"
        /\ UNCHANGED uplink
  /\ Goto(Pub, "check")
  /\ UNCHANGED <<flags, heart, unpackQ, starting, g_client, subscribed,
                 accepted, downlink, mood>>

PubStep == PubCheck \/ PubDemote \/ PubPublish

-----------------------------------------------------------------------------
(* The callbacks, run by the library's thread                              *)

\* sg_mqtt_msg_arrvd: an answer that arrived is queued for sg_bus_inter_thread;
\* the library does not deliver what was not subscribed.
MsgArrvd ==
  /\ At(Paho, "idle")
  /\ g_client = "up"
  /\ downlink # <<>>
  /\ downlink' = Tail(downlink)
  /\ IF subscribed THEN sg_push_unpack_item(Head(downlink)) ELSE UNCHANGED queues
  /\ UNCHANGED <<flags, heart, pc, starting, g_client, subscribed, accepted,
                 uplink, mood>>

\* sg_connLost writes the flag, ...
ConnLost ==
  /\ At(Paho, "lost")
  /\ mqtt_connect_flag' = DEVICE_OFFLINE
  /\ Goto(Paho, "lostclear")
  /\ UNCHANGED <<g_dev_access_flag, heart, queues, starting, outside>>

\* ... then sg_set_mqtt_connect_flag tests it, which main may have set again,
\* before it clears the access flag.
ConnLostClear ==
  /\ At(Paho, "lostclear")
  /\ IF mqtt_connect_flag = DEVICE_OFFLINE
     THEN g_dev_access_flag' = DEVICE_OFFLINE
     ELSE UNCHANGED g_dev_access_flag
  /\ Goto(Paho, "idle")
  /\ UNCHANGED <<mqtt_connect_flag, heart, queues, starting, outside>>

PahoStep == MsgArrvd \/ ConnLost \/ ConnLostClear

-----------------------------------------------------------------------------
(* Network and platform (external)                                         *)

\* The connection breaks, and the library will call sg_connLost.  It breaks
\* again only after that callback has returned.
LinkDrop ==
  /\ mood # "calm"
  /\ g_client = "up"
  /\ At(Paho, "idle")
  /\ g_client' = "down"
  /\ subscribed' = FALSE
  /\ ClearAir
  /\ Goto(Paho, "lost")
  /\ UNCHANGED <<flags, heart, queues, starting, mood>>

\* The platform answers a request: every linkup, and a heartbeat of a device
\* whose linkup it has accepted on this connection.
PlatformAnswer ==
  /\ mood # "mute"
  /\ uplink # <<>>
  /\ uplink' = Tail(uplink)
  /\ LET ok == accepted \/ Head(uplink) = "linkup"
     IN  /\ accepted' = ok
         /\ downlink' = IF ok THEN Append(downlink, Head(uplink)) ELSE downlink
  /\ UNCHANGED <<flags, heart, queues, pc, starting, g_client, subscribed, mood>>

\* The request, or the answer to it, is lost.
PlatformSilent ==
  /\ mood # "calm"
  /\ uplink # <<>>
  /\ uplink' = Tail(uplink)
  /\ accepted' \in {accepted, accepted \/ Head(uplink) = "linkup"}
  /\ UNCHANGED <<flags, heart, queues, pc, starting, g_client, subscribed,
                 downlink, mood>>

\* From now on nothing fails any more (calm), or the platform never answers
\* again (mute).
Settle ==
  /\ mood = "rough"
  /\ mood' \in Moods
  /\ UNCHANGED <<flags, heart, queues, pc, starting, g_client, subscribed, air>>

Environment == LinkDrop \/ PlatformAnswer \/ PlatformSilent \/ Settle

-----------------------------------------------------------------------------
Init ==
  /\ mqtt_connect_flag = DEVICE_OFFLINE
  /\ g_dev_access_flag = DEVICE_OFFLINE
  /\ g_heart_flag = 0
  /\ g_heart_send_count = 0
  /\ packQ = <<>> /\ unpackQ = <<>>
  /\ pc = [t \in Threads |-> IF t = Main THEN "init"
                            ELSE IF t = Paho THEN "idle" ELSE "check"]
  /\ starting = TRUE
  /\ g_client = "null"
  /\ subscribed = FALSE
  /\ accepted = FALSE /\ uplink = <<>> /\ downlink = <<>>
  /\ mood = "rough"
  /\ silent = 0

\* The process runs until main() returns.
Running == pc[Main] # "halted"

Next ==
  /\ Running
  /\ \/ MainStep \/ MainReboot \/ InsertStep \/ InsertGiveUp \/ HeartStep
     \/ InterStep \/ PubStep \/ PahoStep \/ Environment

Spec == Init /\ [][Next]_vars

\* Every thread the operating system schedules eventually takes its next step,
\* the timer keeps ticking, and what was published reaches the platform or is
\* lost.
Fairness ==
  /\ WF_vars(Running /\ MainStep)
  /\ WF_vars(Running /\ InsertStep)
  /\ WF_vars(Running /\ HeartStep)
  /\ WF_vars(Running /\ InterStep)
  /\ WF_vars(Running /\ PubStep)
  /\ WF_vars(Running /\ PahoStep)
  /\ WF_vars(Running /\ (PlatformAnswer \/ PlatformSilent))

FairSpec == Spec /\ Fairness

-----------------------------------------------------------------------------
(* Properties                                                              *)

\* The type of every variable, with the depth of the queues: a push to a full
\* queue drops the item.
TypeOK ==
  /\ mqtt_connect_flag \in {DEVICE_OFFLINE, DEVICE_ONLINE}
  /\ g_dev_access_flag \in {DEVICE_OFFLINE, DEVICE_ONLINE}
  /\ g_heart_flag \in {0, 1}
  /\ g_heart_send_count \in Nat
  /\ packQ \in Seq(Request) /\ Len(packQ) <= QUEUE_DEPTH_LEN
  /\ unpackQ \in Seq(Request) /\ Len(unpackQ) <= QUEUE_DEPTH_LEN
  /\ pc \in [Threads -> Places]
  /\ pc[Main] \in {"init", "dial", "online", "subscribe", "confirm", "loop",
                  "exit", "halted"}
  /\ pc[Insert] \in {"check", "demote", "test", "announce", "ended"}
  /\ pc[Heart] \in {"check", "demote", "count", "send"}
  /\ pc[Inter] \in {"check", "demote", "read"}
  /\ pc[Pub] \in {"check", "demote", "read"}
  /\ pc[Paho] \in {"idle", "lost", "lostclear"}
  /\ starting \in BOOLEAN
  /\ g_client \in {"null", "down", "up"}
  /\ subscribed \in BOOLEAN
  /\ accepted \in BOOLEAN
  /\ uplink \in Seq(Request) /\ downlink \in Seq(Request)
  /\ Len(uplink) + Len(downlink) <= AirCap
  /\ mood \in {"rough"} \union Moods
  /\ silent \in Nat

\* However the timer, the answer handler and the connection interleave, the
\* device never queues more than HEART_MAX_COUNT + 2 heartbeats after the last
\* answer it was given: HEART_MAX_COUNT + 1 the count allows, and one that was
\* about to be queued when the answer came in.
SilenceBounded == silent <= HEART_MAX_COUNT + 2

\* How often m occurs in the queue q.
Occurrences(q, m) == Cardinality({i \in DOMAIN q : q[i] = m})

\* The session implements the access protocol: the flag goes online only on an
\* answer to a linkup, each answer stems from a linkup that was queued, and none
\* counts twice, over all reconnections.
Access == INSTANCE AccessProtocol WITH
  online   <- g_dev_access_flag = DEVICE_ONLINE,
  requests <- Occurrences(packQ \o uplink, "linkup"),
  answers  <- Occurrences(unpackQ \o downlink, "linkup")
ImplementsAccess == Access!Spec

\* The device takes part in the platform's session.
Joined ==
  /\ g_client = "up"
  /\ g_dev_access_flag = DEVICE_ONLINE
  /\ accepted

\* Connected without a subscription: sg_mqtt_init ignored a subscription that
\* failed, the flag reads online already, and nobody subscribes again.
Deaf ==
  /\ g_client = "up" /\ ~subscribed
  /\ mqtt_connect_flag = DEVICE_ONLINE
  /\ At(Main, "loop")

Leaving == pc[Main] \in {"exit", "halted"}

\* Once network and platform work, the device joins the session from every
\* state, with whatever flags, counts and queued answers earlier connections
\* have left behind, unless it is deaf or the process is leaving.
CalmJoins == mood = "calm" ~> (Joined \/ Deaf \/ Leaving)

\* A platform that stops answering is noticed for good: the device ends up
\* offline, although answers of earlier connections may still be queued.
MuteNoticed ==
  (<>[](mood = "mute")) => <>[](g_dev_access_flag = DEVICE_OFFLINE)

\* A connection that breaks takes the device offline, whichever of sg_connLost
\* and the polling of sg_get_mqtt_connect_flag notices first, or main is
\* already on a new one.
OutageRevokes ==
  (g_client = "down" /\ g_dev_access_flag = DEVICE_ONLINE)
     ~> (g_dev_access_flag = DEVICE_OFFLINE \/ g_client = "up")

=============================================================================
