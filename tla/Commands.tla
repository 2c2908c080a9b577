------------------------------- MODULE Commands -------------------------------
(***************************************************************************)
(* The path of a command: from the platform's message on one of the three  *)
(* command topics through sg_bus_inter_thread, which turns topic and type  *)
(* into a queue and a tag, to the thread that executes the tag and queues  *)
(* the reply.  Three executing threads work in parallel, each on a bounded *)
(* queue of its own: device (which also answers the queries about          *)
(* containers and applications), container and application.                *)
(*                                                                         *)
(* The middleware that does what a command asks, the platform, and the     *)
(* session that LinkSession models (here: link) are external.  Install and *)
(* upgrade jobs go on after their acknowledgement: see InstallJobs.        *)
(***************************************************************************)
EXTENDS Integers, Sequences, FiniteSets

CONSTANTS
  Mid,               \* the platform's commands, by their message id
  Types,             \* the types it uses
  QUEUE_DEPTH_LEN,   \* capacity of each of the queues (512 in the code)
  ParamPassed,       \* can a command's parameters get through?  As the code
                     \* stands, FALSE: sg_get_json_content_heaser assigns its
                     \* own copy of the pointer.  TRUE admits both, since a
                     \* command may come without parameters
  Outages            \* bound: how often the link may go down

ASSUME CommandsAssumption ==
  /\ QUEUE_DEPTH_LEN \in Nat \ {0}
  /\ ParamPassed \in BOOLEAN
  /\ Outages \in Nat

-----------------------------------------------------------------------------
(* Topics, types and tags                                                  *)

\* The threads that execute commands; also the command topics.
Lane == {"dev", "container", "app"}

DevTypes == {"SYS_UPGRADE", "SYS_STATUS", "INFO_QUERY", "SYS_SET_CONFIG",
             "DATETIME_SYN", "SYS_LOG", "CTRL"}
ConQueries == {"CON_GET_CONFIG", "CON_STATUS"}
ConTypes == {"CON_INSTALL", "CON_START", "CON_STOP", "CON_REMOVE",
             "CON_SET_CONFIG", "CON_UPGRADE", "CON_LOG"}
AppQueries == {"APP_GET_CONFIG", "APP_STATUS"}
AppTypes == {"APP_INSTALL", "APP_START", "APP_STOP", "APP_REMOVE", "APP_ENABLE",
             "APP_UNENABLE", "APP_SET_CONFIG", "APP_UPGRADE", "APP_LOG"}
StatusQuery == "STATUS_QUERY"
AllTypes == DevTypes \union ConQueries \union ConTypes \union AppQueries
              \union AppTypes \union {StatusQuery}

ASSUME TypesAssumption == Types \subseteq AllTypes

Request == [topic : Lane, type : Types, param : BOOLEAN]

\* The queue for a type that came on a topic: queries about containers and
\* applications are for the device thread, everything else for the topic's.
RouteLane(topic, type) ==
  IF \/ topic = "container" /\ type \in ConQueries
     \/ topic = "app" /\ type \in AppQueries
  THEN "dev" ELSE topic

\* The tags the three unpack functions find for a type; a type that does not
\* belong to the topic gets TAG_CMD_NULL, and the installation of an application
\* goes by the tag of the container log.
sg_dev_com_data_unpack(type) == IF type \in DevTypes THEN type ELSE "NULL"

sg_container_com_data_unpack(type) ==
  IF type \in ConTypes \union ConQueries THEN type ELSE "NULL"

\* A variant of sg_app_com_data_unpack that is wrong: the tag's name is put
\* right on one side.
AppTagRenamed(type) == IF type \in AppTypes \union AppQueries THEN type ELSE "NULL"

sg_app_com_data_unpack(type) ==
  IF type = "APP_INSTALL" THEN "CON_LOG"
  ELSE IF type \in AppTypes \union AppQueries THEN type ELSE "NULL"

RouteTag(topic, type) ==
  IF topic = "dev" THEN sg_dev_com_data_unpack(type)
  ELSE IF topic = "container" THEN sg_container_com_data_unpack(type)
  ELSE sg_app_com_data_unpack(type)

\* Types whose tag is queued with a change of g_exe_state.
ExeState == [type \in {"SYS_UPGRADE", "CON_INSTALL", "CON_UPGRADE",
                       "APP_INSTALL", "APP_UPGRADE"} |->
               IF type = "SYS_UPGRADE" THEN "DEV_UP"
               ELSE IF type = "CON_INSTALL" THEN "CONTAINER_INSTALL"
               ELSE IF type = "CON_UPGRADE" THEN "CONTAINER_UP"
               ELSE IF type = "APP_INSTALL" THEN "APP_INSTALL" ELSE "APP_UP"]

\* What a thread does for a tag.
sg_task_pro_dev(tag) ==
  IF tag \in DevTypes \union ConQueries \union AppQueries THEN tag ELSE "none"

sg_task_pro_container(tag) == IF tag \in ConTypes THEN tag ELSE "none"

sg_task_pro_app(tag) ==
  IF tag = "CON_LOG" THEN "APP_INSTALL"
  ELSE IF tag \in AppTypes \ {"APP_INSTALL"} THEN tag ELSE "none"

Handler(lane, tag) ==
  IF lane = "dev" THEN sg_task_pro_dev(tag)
  ELSE IF lane = "container" THEN sg_task_pro_container(tag)
  ELSE sg_task_pro_app(tag)

\* Commands that go through an sg_deal function, which returns at once, and says
\* nothing, when there are no parameters or they do not parse.
DevDeals == {"SYS_UPGRADE", "SYS_SET_CONFIG", "DATETIME_SYN", "SYS_LOG", "CTRL"}
ContainerDeals == ConTypes
AppDeals == AppTypes \union AppQueries
NeedsParam == DevDeals \union ContainerDeals \union AppDeals

\* How the middleware may take a call: it does what is asked, it refuses, or
\* its transport cannot be opened.
Outcome == {"done", "refused", "closed"}

\* The codes a handler may reply with, by the outcome of its calls; "none" is no
\* reply at all.

\* These take no notice of what becomes of their calls, or make none.
sg_handle_dev_info_cmd(o)               == {"SUCCESS"}
sg_handle_dev_log_cmd(o)                == {"SUCCESS"}
sg_handle_dev_ctrl_cmd(o)               == {"SUCCESS"}
sg_handle_container_upgrade_cmd(o)      == {"SUCCESS"}
sg_handle_container_log_get_cmd(o)      == {"SUCCESS"}
sg_handle_app_log_get_cmd(o)            == {"SUCCESS"}
sg_handle_app_install_cmd(o)            == {"WAIT"}
sg_handle_app_upgrade_cmd(o)            == {"WAIT"}

\* This acknowledges a container that comes with an application only.
sg_handle_container_install_cmd(o)      == {"SUCCESS", "none"}

\* These say nothing if they cannot open the transport, and success otherwise.
sg_handle_dev_install_cmd(o)  == {IF o = "closed" THEN "none" ELSE "SUCCESS"}
sg_handle_dev_set_time_cmd(o) == {IF o = "closed" THEN "none" ELSE "SUCCESS"}

\* Reading a limit may fail, or setting it; setting may also be skipped.
sg_handle_dev_set_para_cmd(o) ==
  (IF o = "closed" THEN {} ELSE {"SUCCESS"}) \union (IF o = "done" THEN {} ELSE {"none"})

\* These report success or nothing.
OnlySuccess(o) == {IF o = "done" THEN "SUCCESS" ELSE "none"}
sg_handle_dev_inquire_cmd(o)      == OnlySuccess(o)
sg_handle_container_start_cmd(o)  == OnlySuccess(o)
sg_handle_container_stop_cmd(o)   == OnlySuccess(o)
sg_handle_container_delete_cmd(o) == OnlySuccess(o)

\* To have no container is a failure, too; to have no application may be one.
sg_handle_container_param_get(o)  == {"FAILED"} \union (IF o = "done" THEN {"SUCCESS"} ELSE {})
sg_handle_container_status_get(o) == {"FAILED"} \union (IF o = "done" THEN {"SUCCESS"} ELSE {})
sg_handle_app_param_get(o)  == {"FAILED"} \union (IF o = "closed" THEN {} ELSE {"SUCCESS"})
sg_handle_app_status_get(o) == {"FAILED"} \union (IF o = "closed" THEN {} ELSE {"SUCCESS"})

\* These report what became of the call.
sg_handle_container_param_set_cmd(o) == {IF o = "done" THEN "SUCCESS" ELSE "FAILED"}
sg_handle_app_param_set_cmd(o)       == {IF o = "done" THEN "SUCCESS" ELSE "FAILED"}

\* These report whether the transport could be opened, not what the call returned.
OnlyTransport(o) == {IF o = "closed" THEN "FAILED" ELSE "SUCCESS"}
sg_handle_app_start_cmd(o)     == OnlyTransport(o)
sg_handle_app_stop_cmd(o)      == OnlyTransport(o)
sg_handle_app_uninstall_cmd(o) == OnlyTransport(o)
sg_handle_app_enble_cmd(o)     == OnlyTransport(o)
sg_handle_app_unenble_cmd(o)   == OnlyTransport(o)

\* The codes of a reply, and none.
Code == {"SUCCESS", "WAIT", "FAILED", "none"}

Codes(handler, o) ==
  {c \in Code :
     \/ handler = "SYS_UPGRADE"    /\ c \in sg_handle_dev_install_cmd(o)
     \/ handler = "SYS_STATUS"     /\ c \in sg_handle_dev_inquire_cmd(o)
     \/ handler = "INFO_QUERY"     /\ c \in sg_handle_dev_info_cmd(o)
     \/ handler = "SYS_SET_CONFIG" /\ c \in sg_handle_dev_set_para_cmd(o)
     \/ handler = "DATETIME_SYN"   /\ c \in sg_handle_dev_set_time_cmd(o)
     \/ handler = "SYS_LOG"        /\ c \in sg_handle_dev_log_cmd(o)
     \/ handler = "CTRL"           /\ c \in sg_handle_dev_ctrl_cmd(o)
     \/ handler = "CON_INSTALL"    /\ c \in sg_handle_container_install_cmd(o)
     \/ handler = "CON_START"      /\ c \in sg_handle_container_start_cmd(o)
     \/ handler = "CON_STOP"       /\ c \in sg_handle_container_stop_cmd(o)
     \/ handler = "CON_REMOVE"     /\ c \in sg_handle_container_delete_cmd(o)
     \/ handler = "CON_SET_CONFIG" /\ c \in sg_handle_container_param_set_cmd(o)
     \/ handler = "CON_GET_CONFIG" /\ c \in sg_handle_container_param_get(o)
     \/ handler = "CON_STATUS"     /\ c \in sg_handle_container_status_get(o)
     \/ handler = "CON_UPGRADE"    /\ c \in sg_handle_container_upgrade_cmd(o)
     \/ handler = "CON_LOG"        /\ c \in sg_handle_container_log_get_cmd(o)
     \/ handler = "APP_INSTALL"    /\ c \in sg_handle_app_install_cmd(o)
     \/ handler = "APP_START"      /\ c \in sg_handle_app_start_cmd(o)
     \/ handler = "APP_STOP"       /\ c \in sg_handle_app_stop_cmd(o)
     \/ handler = "APP_REMOVE"     /\ c \in sg_handle_app_uninstall_cmd(o)
     \/ handler = "APP_ENABLE"     /\ c \in sg_handle_app_enble_cmd(o)
     \/ handler = "APP_UNENABLE"   /\ c \in sg_handle_app_unenble_cmd(o)
     \/ handler = "APP_SET_CONFIG" /\ c \in sg_handle_app_param_set_cmd(o)
     \/ handler = "APP_GET_CONFIG" /\ c \in sg_handle_app_param_get(o)
     \/ handler = "APP_STATUS"     /\ c \in sg_handle_app_status_get(o)
     \/ handler = "APP_UPGRADE"    /\ c \in sg_handle_app_upgrade_cmd(o)
     \/ handler = "APP_LOG"        /\ c \in sg_handle_app_log_get_cmd(o)}

\* A variant of ReplyTopic that is wrong: it goes by the thread at work.
TopicOfThread(h) ==
  IF sg_task_pro_dev(h) = h THEN "dev" ELSE IF h \in ConTypes THEN "container" ELSE "app"

\* The topic a handler's reply goes to, whatever thread runs it.
ReplyTopic(h) ==
  IF h \in DevTypes THEN "dev"
  ELSE IF h \in ConTypes \union ConQueries THEN "container" ELSE "app"

\* What handler h queues in answer to m: topic and header of the message, whose
\* type each pack function has of its own.
ReplyMessage(m, h, c) == [mid |-> m, topic |-> ReplyTopic(h), type |-> h, code |-> c]

\* Handlers that reply before they act.
AckFirst == {"CTRL", "CON_INSTALL", "APP_INSTALL", "APP_UPGRADE"}

-----------------------------------------------------------------------------
VARIABLES
  asked,         \* external: the command each message id stands for
  arrived,       \* external: the message ids that have arrived
  link,          \* external: "down", "connected", or "accepted" as well
  outages,       \* external: how often the link went down
  unpackQ,       \* message ids for sg_bus_inter_thread
  taskQ,         \* the queues of the executing threads: [mid, tag]
  g_exe_state,   \* the kind of the job last queued, or so it is meant
  pc,            \* where each thread is
  cur,           \* the item each executing thread has in hand
  outcome,       \* what came of the middleware call for it
  sent           \* history: the replies queued, [mid, topic, type, code]

outside == <<asked, arrived, link, outages>>
threads == <<pc, cur, outcome>>
vars    == <<outside, unpackQ, taskQ, g_exe_state, threads, sent>>

NoItem == [mid |-> "none", tag |-> "NULL"]
Item   == [mid : Mid, tag : AllTypes \union {"NULL"}]

\* A variant of Push that is wrong: it does not look for room.
PushAlways(q, x) == Append(q, x)

\* No push waits: what a full queue has no room for is freed.
Push(q, x) == IF Len(q) < QUEUE_DEPTH_LEN THEN Append(q, x) ELSE q

\* Whether a command's parameters reach the thread that executes it.
HasParam(m) == ParamPassed /\ asked[m].param

-----------------------------------------------------------------------------
(* Platform and session (external)                                         *)

\* sg_mqtt_msg_arrvd queues the message.
Arrive(m) ==
  /\ link # "down" /\ m \notin arrived
  /\ arrived' = arrived \union {m}
  /\ unpackQ' = Push(unpackQ, m)
  /\ UNCHANGED <<asked, link, outages, taskQ, g_exe_state, threads, sent>>

LinkUp ==
  /\ link # "accepted"
  /\ link' = IF link = "down" THEN "connected" ELSE "accepted"
  /\ UNCHANGED <<asked, arrived, outages, unpackQ, taskQ, g_exe_state, threads, sent>>

LinkDown ==
  /\ link # "down" /\ outages < Outages
  /\ link' = "down" /\ outages' = outages + 1
  /\ UNCHANGED <<asked, arrived, unpackQ, taskQ, g_exe_state, threads, sent>>

-----------------------------------------------------------------------------
(* sg_bus_inter_thread                                                     *)

InterCheck ==
  /\ pc["inter"] = "check" /\ link # "down"
  /\ pc' = [pc EXCEPT !["inter"] = "read"]
  /\ UNCHANGED <<outside, unpackQ, taskQ, g_exe_state, cur, outcome, sent>>

\* The next message, for sg_topic_data_unpack.
NextMessage ==
  /\ pc["inter"] = "read" /\ unpackQ # <<>>
  /\ unpackQ' = Tail(unpackQ)
  /\ pc' = [pc EXCEPT !["inter"] = "check"]

\* A command is queued for the thread that will execute it.
RouteCommand ==
  LET m     == Head(unpackQ)
      topic == asked[m].topic
      type  == asked[m].type
      tag   == RouteTag(topic, type)
  IN  /\ NextMessage
      /\ type # StatusQuery
      /\ taskQ' = [taskQ EXCEPT ![RouteLane(topic, type)] =
                     Push(@, [mid |-> m, tag |-> tag])]
      /\ g_exe_state' = IF tag # "NULL" /\ type \in DOMAIN ExeState
                        THEN ExeState[type] ELSE g_exe_state
      /\ UNCHANGED <<outside, cur, outcome, sent>>

\* The query for the state of a job is answered by this thread itself, from the
\* status the executing threads keep.  But without parameters it returns, and
\* with them the pack function takes the length that sprintf_s returns for a
\* failure and gives up before there is a reply; the one for containers has by
\* then assigned g_exe_state, where it meant to compare.
StatusQueried ==
  LET m == Head(unpackQ)
  IN  /\ NextMessage
      /\ asked[m].type = StatusQuery
      /\ g_exe_state' = IF HasParam(m) /\ asked[m].topic = "container"
                        THEN "CONTAINER_INSTALL" ELSE g_exe_state
      /\ UNCHANGED <<outside, taskQ, cur, outcome, sent>>

Inter == InterCheck \/ RouteCommand \/ StatusQueried

-----------------------------------------------------------------------------
(* sg_task_execution_dev_thread, _container_thread and _app_thread         *)

Exec(l) == Handler(l, cur[l].tag)

\* Both flags are online: the thread waits for an item, however long.
ExecCheck(l) ==
  /\ pc[l] = "check" /\ link = "accepted"
  /\ pc' = [pc EXCEPT ![l] = "read"]
  /\ UNCHANGED <<outside, unpackQ, taskQ, g_exe_state, cur, outcome, sent>>

\* A variant of Take that is wrong: what is not known or incomplete is put off.
TakeLater(l) ==
  /\ pc[l] = "read" /\ taskQ[l] # <<>>
  /\ LET item == Head(taskQ[l])
         h    == Handler(l, item.tag)
     IN  IF h = "none" \/ (h \in NeedsParam /\ ~HasParam(item.mid))
         THEN pc' = [pc EXCEPT ![l] = "check"] /\ UNCHANGED <<cur, taskQ>>
         ELSE /\ pc' = [pc EXCEPT ![l] = IF h \in AckFirst THEN "reply" ELSE "act"]
              /\ cur' = [cur EXCEPT ![l] = item]
              /\ taskQ' = [taskQ EXCEPT ![l] = Tail(@)]
  /\ UNCHANGED <<outside, unpackQ, g_exe_state, outcome, sent>>

\* A tag the thread does not know, and a command that lacks the parameters it
\* needs, are dropped without a reply.
Take(l) ==
  /\ pc[l] = "read" /\ taskQ[l] # <<>>
  /\ taskQ' = [taskQ EXCEPT ![l] = Tail(@)]
  /\ LET item == Head(taskQ[l])
         h    == Handler(l, item.tag)
     IN  IF h = "none" \/ (h \in NeedsParam /\ ~HasParam(item.mid))
         THEN pc' = [pc EXCEPT ![l] = "check"] /\ UNCHANGED cur
         ELSE /\ pc' = [pc EXCEPT ![l] = IF h \in AckFirst THEN "reply" ELSE "act"]
              /\ cur' = [cur EXCEPT ![l] = item]
  /\ UNCHANGED <<outside, unpackQ, g_exe_state, outcome, sent>>

\* A variant of Act that is wrong: every command is replied to after it.
ActThenReply(l) ==
  /\ pc[l] = "act"
  /\ \E o \in Outcome : outcome' = [outcome EXCEPT ![l] = o]
  /\ pc' = [pc EXCEPT ![l] = "reply"]
  /\ UNCHANGED <<outside, unpackQ, taskQ, g_exe_state, cur, sent>>

\* The middleware is called.
Act(l) ==
  /\ pc[l] = "act"
  /\ IF Exec(l) \in AckFirst
     THEN /\ pc' = [pc EXCEPT ![l] = "check"]
          /\ cur' = [cur EXCEPT ![l] = NoItem]
          /\ UNCHANGED outcome
     ELSE /\ \E o \in Outcome : outcome' = [outcome EXCEPT ![l] = o]
          /\ pc' = [pc EXCEPT ![l] = "reply"]
          /\ UNCHANGED cur
  /\ UNCHANGED <<outside, unpackQ, taskQ, g_exe_state, sent>>

\* The reply is queued for publishing, or the handler returns without one.
Reply(l) ==
  /\ pc[l] = "reply"
  /\ \E c \in Codes(Exec(l), outcome[l]) :
       sent' = IF c = "none" THEN sent
               ELSE Append(sent, ReplyMessage(cur[l].mid, Exec(l), c))
  /\ IF Exec(l) \in AckFirst
     THEN pc' = [pc EXCEPT ![l] = "act"] /\ UNCHANGED <<cur, outcome>>
     ELSE /\ pc' = [pc EXCEPT ![l] = "check"]
          /\ cur' = [cur EXCEPT ![l] = NoItem]
          /\ outcome' = [outcome EXCEPT ![l] = "none"]
  /\ UNCHANGED <<outside, unpackQ, taskQ, g_exe_state>>

Executor(l) == ExecCheck(l) \/ Take(l) \/ Act(l) \/ Reply(l)

-----------------------------------------------------------------------------
Init ==
  /\ asked \in [Mid -> Request]
  /\ arrived = {} /\ link = "accepted" /\ outages = 0
  /\ unpackQ = <<>>
  /\ taskQ = [l \in Lane |-> <<>>]
  /\ g_exe_state = "NULL"
  /\ pc = [t \in Lane \union {"inter"} |-> "check"]
  /\ cur = [l \in Lane |-> NoItem]
  /\ outcome = [l \in Lane |-> "none"]
  /\ sent = <<>>

Next ==
  \/ Inter
  \/ \E l \in Lane : Executor(l)
  \/ \E m \in Mid : Arrive(m)
  \/ LinkUp \/ LinkDown

Spec == Init /\ [][Next]_vars

\* The threads are scheduled, every middleware call returns, and the session is
\* brought up again (LinkSession).
FairSpec == /\ Spec
            /\ WF_vars(Inter) /\ WF_vars(LinkUp)
            /\ \A l \in Lane : WF_vars(Executor(l))

-----------------------------------------------------------------------------
(* Properties                                                              *)

\* The type of every variable, with the depth of the queues.
TypeOK ==
  /\ asked \in [Mid -> Request]
  /\ arrived \subseteq Mid
  /\ link \in {"down", "connected", "accepted"}
  /\ outages \in 0 .. Outages
  /\ unpackQ \in Seq(Mid) /\ Len(unpackQ) <= QUEUE_DEPTH_LEN
  /\ taskQ \in [Lane -> Seq(Item)]
  /\ \A l \in Lane : Len(taskQ[l]) <= QUEUE_DEPTH_LEN
  /\ g_exe_state \in {"NULL", "DEV_UP", "CONTAINER_INSTALL", "CONTAINER_UP",
                      "APP_INSTALL", "APP_UP"}
  /\ pc \in [Lane \union {"inter"} -> {"check", "read", "act", "reply"}]
  /\ cur \in [Lane -> Item \union {NoItem}]
  /\ outcome \in [Lane -> Outcome \union {"none"}]
  /\ sent \in Seq([mid : Mid, topic : Lane, type : AllTypes, code : Code \ {"none"}])

\* Whether the type of a command is one of its topic's.
Belongs(r) ==
  \/ r.topic = "dev"       /\ r.type \in DevTypes
  \/ r.topic = "container" /\ r.type \in ConTypes \union ConQueries
  \/ r.topic = "app"       /\ r.type \in AppTypes \union AppQueries

\* What a thread executes is what was asked: over all queues and tags, the one
\* that is misnamed on both sides included, a queued command will reach the
\* handler of its type, and one sent on the wrong topic none.
RightHandler ==
  \A l \in Lane :
    /\ \A i \in DOMAIN taskQ[l] :
         LET item == taskQ[l][i]
             r    == asked[item.mid]
         IN  Handler(l, item.tag) = IF Belongs(r) THEN r.type ELSE "none"
    /\ cur[l] # NoItem => Exec(l) = asked[cur[l].mid].type

\* A reply can be told for what it is: it goes out on the reply topic of the topic
\* its command came on, and says the type of that command, the ones included that
\* another topic's thread executes.
RightReply ==
  \A i \in DOMAIN sent :
    LET r == asked[sent[i].mid] IN sent[i].topic = r.topic /\ sent[i].type = r.type

Mids(q) == [i \in DOMAIN q |-> q[i].mid]

\* The three threads serve their lanes in order, one command at a time, and
\* answer each at most once, only while it is in service.
Lanes == INSTANCE CommandLanes WITH
  Command <- Mid,
  lanes   <- [l \in Lane |-> (IF cur[l] = NoItem THEN <<>> ELSE <<cur[l].mid>>)
                               \o Mids(taskQ[l])],
  replies <- Mids(sent)
ImplementsLanes == Lanes!Spec

\* Message ids that wait somewhere or are being served.
InSystem ==
  {m \in Mid : \/ \E i \in DOMAIN unpackQ : unpackQ[i] = m
               \/ \E l \in Lane : \/ cur[l].mid = m
                                 \/ \E i \in DOMAIN taskQ[l] : taskQ[l][i].mid = m}

\* Nothing stays in the system for ever, whatever the middleware answers and
\* however the link fails in between.
AllServed == \A m \in Mid : m \in InSystem ~> m \notin InSystem

Replied(m) == \E i \in DOMAIN sent : sent[i].mid = m

\* A command with its parameters, of a type whose reply does not depend on what
\* the middleware does, is replied to.
CommandAnswered ==
  \A m \in Mid :
    (/\ m \in arrived /\ asked[m].param /\ Belongs(asked[m])
     /\ "none" \notin UNION {Codes(asked[m].type, o) : o \in Outcome}) ~> Replied(m)
=============================================================================
