---------------------------- MODULE CommandsProofs ----------------------------
(***************************************************************************)
(* Theorems about Commands, for all message ids, all types, every queue    *)
(* depth, with and without parameters.                                     *)
(***************************************************************************)
EXTENDS Commands, SequenceTheorems, TLAPS

-----------------------------------------------------------------------------
(* The tables of topics, types and tags.                                   *)

\* On each topic, the tag found for a type is the one that the thread it is
\* queued for takes for that type, and for a type of another topic none.
LEMMA TablesAgree ==
  ASSUME NEW r \in [topic : Lane, type : AllTypes, param : BOOLEAN]
  PROVE  Handler(RouteLane(r.topic, r.type), RouteTag(r.topic, r.type))
           = IF Belongs(r) THEN r.type ELSE "none"
<1> USE DEF AllTypes, DevTypes, ConQueries, ConTypes, AppQueries, AppTypes,
            StatusQuery
<1>1. r.topic \in {"dev", "container", "app"} /\ r.type \in AllTypes
  BY DEF Lane
<1>2. CASE r.topic = "dev"
  BY <1>1, <1>2 DEF Handler, RouteLane, RouteTag, Belongs,
     sg_dev_com_data_unpack, sg_task_pro_dev
<1>3. CASE r.topic = "container"
  BY <1>1, <1>3 DEF Handler, RouteLane, RouteTag, Belongs,
     sg_container_com_data_unpack, sg_task_pro_dev, sg_task_pro_container
<1>4. CASE r.topic = "app"
  BY <1>1, <1>4 DEF Handler, RouteLane, RouteTag, Belongs,
     sg_app_com_data_unpack, sg_task_pro_dev, sg_task_pro_app
<1>5. QED
  BY <1>1, <1>2, <1>3, <1>4

\* A route leads to a thread, and its tag is one of those that are queued.
LEMMA RouteType ==
  ASSUME NEW r \in [topic : Lane, type : AllTypes, param : BOOLEAN]
  PROVE  /\ RouteLane(r.topic, r.type) \in Lane
         /\ RouteTag(r.topic, r.type) \in AllTypes \union {"NULL"}
<1>1. r.topic \in Lane /\ r.type \in AllTypes
  OBVIOUS
<1>2. RouteLane(r.topic, r.type) \in Lane
  BY <1>1 DEF RouteLane, Lane
<1>3. RouteTag(r.topic, r.type) \in AllTypes \union {"NULL"}
  BY <1>1 DEF RouteTag, sg_dev_com_data_unpack, sg_container_com_data_unpack,
     sg_app_com_data_unpack, AllTypes, ConTypes
<1>4. QED
  BY <1>2, <1>3

\* A handler's name is the type it is for.
LEMMA HandlerType ==
  ASSUME NEW l, NEW tag, Handler(l, tag) # "none"
  PROVE  Handler(l, tag) \in AllTypes
  BY DEF Handler, sg_task_pro_dev, sg_task_pro_container, sg_task_pro_app,
     AllTypes, AppTypes

\* The topic of a handler's reply is the one its command came on.
LEMMA TopicAgrees ==
  ASSUME NEW r \in [topic : Lane, type : AllTypes, param : BOOLEAN], Belongs(r)
  PROVE  ReplyTopic(r.type) = r.topic
  BY DEF Belongs, ReplyTopic, DevTypes, ConQueries, ConTypes, AppQueries, AppTypes

-----------------------------------------------------------------------------
(* Queues                                                                  *)

\* A push keeps a queue a queue, within its depth, and adds at most the item.
LEMMA PushType ==
  ASSUME NEW S, NEW q \in Seq(S), Len(q) <= QUEUE_DEPTH_LEN, NEW x \in S
  PROVE  /\ Push(q, x) \in Seq(S) /\ Len(Push(q, x)) <= QUEUE_DEPTH_LEN
         /\ \A i \in DOMAIN Push(q, x) :
              Push(q, x)[i] = x \/ (i \in DOMAIN q /\ Push(q, x)[i] = q[i])
<1>1. QUEUE_DEPTH_LEN \in Nat
  BY CommandsAssumption
<1>2. QED
  BY <1>1 DEF Push

\* What is taken off a queue was in it, and so was what remains.
LEMMA PopType ==
  ASSUME NEW S, NEW q \in Seq(S), q # <<>>
  PROVE  /\ Head(q) \in S /\ 1 \in DOMAIN q /\ Head(q) = q[1]
         /\ Tail(q) \in Seq(S)
         /\ Len(Tail(q)) = Len(q) - 1
         /\ \A i \in DOMAIN Tail(q) : i + 1 \in DOMAIN q /\ Tail(q)[i] = q[i + 1]
  OBVIOUS

\* A command asked for is one that the tables are about.
LEMMA AskedType ==
  ASSUME TypeOK, NEW m \in Mid
  PROVE  asked[m] \in [topic : Lane, type : AllTypes, param : BOOLEAN]
  BY TypesAssumption DEF TypeOK, Request

-----------------------------------------------------------------------------
(* What is queued and what is in hand.                                     *)

\* Item came to thread l by the tables.
Fits(l, item) ==
  LET r == asked[item.mid]
  IN  l = RouteLane(r.topic, r.type) /\ item.tag = RouteTag(r.topic, r.type)

\* Everything queued came by the tables, and a thread at work has an item in
\* hand that did, with a tag it knows.
Routed ==
  \A l \in Lane :
    /\ \A i \in DOMAIN taskQ[l] : Fits(l, taskQ[l][i])
    /\ cur[l] # NoItem => Fits(l, cur[l]) /\ Exec(l) # "none"
    /\ pc[l] \in {"act", "reply"} => cur[l] # NoItem

Message == [mid : Mid, topic : Lane, type : AllTypes, code : Code \ {"none"}]

-----------------------------------------------------------------------------
(* Type correctness                                                        *)

\* Platform, session and sg_bus_inter_thread keep the types.
LEMMA InterTyped ==
  ASSUME TypeOK, LinkUp \/ LinkDown \/ Inter \/ \E m \in Mid : Arrive(m)
  PROVE  TypeOK'
<1> USE CommandsAssumption DEF TypeOK, outside, threads
<1>1. ASSUME NEW m \in Mid, Arrive(m)
      PROVE  TypeOK'
  <2>1. unpackQ' \in Seq(Mid) /\ Len(unpackQ') <= QUEUE_DEPTH_LEN
    BY <1>1, PushType DEF Arrive
  <2>2. QED
    BY <1>1, <2>1 DEF Arrive
<1>2. CASE LinkUp     BY <1>2 DEF LinkUp
<1>3. CASE LinkDown   BY <1>3 DEF LinkDown
<1>4. CASE InterCheck BY <1>4 DEF InterCheck
<1>5. CASE RouteCommand
  <2> DEFINE m    == Head(unpackQ)
             lane == RouteLane(asked[m].topic, asked[m].type)
             item == [mid |-> m, tag |-> RouteTag(asked[m].topic, asked[m].type)]
  <2>1. /\ m \in Mid
        /\ unpackQ' \in Seq(Mid) /\ Len(unpackQ') <= QUEUE_DEPTH_LEN
    BY <1>5, PopType DEF RouteCommand, NextMessage
  <2>2. lane \in Lane /\ item \in Item
    BY <2>1, AskedType, RouteType DEF Item
  <2>3. taskQ' = [taskQ EXCEPT ![lane] = Push(taskQ[lane], item)]
    BY <1>5 DEF RouteCommand
  <2> HIDE DEF lane, item, m
  <2>4. /\ taskQ' \in [Lane -> Seq(Item)]
        /\ \A l \in Lane : Len(taskQ'[l]) <= QUEUE_DEPTH_LEN
    BY <2>2, <2>3, PushType
  <2>5. g_exe_state' \in {"NULL", "DEV_UP", "CONTAINER_INSTALL", "CONTAINER_UP",
                          "APP_INSTALL", "APP_UP"}
    BY <1>5 DEF RouteCommand, ExeState
  <2>6. pc' \in [Lane \union {"inter"} -> {"check", "read", "act", "reply"}]
    BY <1>5 DEF RouteCommand, NextMessage
  <2>7. QED
    BY <1>5, <2>1, <2>4, <2>5, <2>6 DEF RouteCommand
<1>6. CASE StatusQueried
  <2>1. unpackQ' \in Seq(Mid) /\ Len(unpackQ') <= QUEUE_DEPTH_LEN
    BY <1>6, PopType DEF StatusQueried, NextMessage
  <2>2. QED
    BY <1>6, <2>1 DEF StatusQueried, NextMessage
<1>7. QED
  BY <1>1, <1>2, <1>3, <1>4, <1>5, <1>6 DEF Inter

\* Taking, executing and answering a command keeps the types.
LEMMA ExecutorTyped ==
  ASSUME TypeOK, Routed, NEW l \in Lane, Executor(l)
  PROVE  TypeOK'
<1> USE CommandsAssumption DEF TypeOK, outside, threads, Message
<1>1. CASE ExecCheck(l) BY <1>1 DEF ExecCheck
<1>2. CASE Take(l)
  <2> DEFINE q == taskQ[l]
  <2>1. /\ q \in Seq(Item) /\ q # <<>> /\ Len(q) <= QUEUE_DEPTH_LEN
        /\ taskQ' = [taskQ EXCEPT ![l] = Tail(q)]
    BY <1>2 DEF Take
  <2>2. /\ Head(q) \in Item /\ Tail(q) \in Seq(Item)
        /\ Len(Tail(q)) <= QUEUE_DEPTH_LEN
    BY <2>1, PopType
  <2>3. /\ taskQ' \in [Lane -> Seq(Item)]
        /\ \A k \in Lane : Len(taskQ'[k]) <= QUEUE_DEPTH_LEN
    BY <2>1, <2>2
  <2>4. cur' \in [Lane -> Item \union {NoItem}]
    <3>1. cur' = cur \/ cur' = [cur EXCEPT ![l] = Head(q)]
      BY <1>2 DEF Take
    <3>2. QED
      BY <2>2, <3>1
  <2>5. pc' \in [Lane \union {"inter"} -> {"check", "read", "act", "reply"}]
    <3>1. \E p \in {"check", "act", "reply"} : pc' = [pc EXCEPT ![l] = p]
      <4> DEFINE h == Handler(l, Head(q).tag)
      <4>1. \/ pc' = [pc EXCEPT ![l] = "check"]
            \/ pc' = [pc EXCEPT ![l] = IF h \in AckFirst THEN "reply" ELSE "act"]
        BY <1>2 DEF Take
      <4> HIDE DEF h
      <4>2. QED
        BY <4>1
    <3>2. QED
      BY <3>1
  <2>6. QED
    BY <1>2, <2>3, <2>4, <2>5 DEF Take
<1>3. CASE Act(l)
  <2>1. /\ cur' \in [Lane -> Item \union {NoItem}]
        /\ pc' \in [Lane \union {"inter"} -> {"check", "read", "act", "reply"}]
    BY <1>3 DEF Act
  <2>2. outcome' \in [Lane -> Outcome \union {"none"}]
    <3>1. \/ outcome' = outcome
          \/ \E o \in Outcome : outcome' = [outcome EXCEPT ![l] = o]
      BY <1>3 DEF Act
    <3>2. QED
      BY <3>1
  <2>3. QED
    BY <1>3, <2>1, <2>2 DEF Act
<1>4. CASE Reply(l)
  <2>1. /\ cur' \in [Lane -> Item \union {NoItem}]
        /\ pc' \in [Lane \union {"inter"} -> {"check", "read", "act", "reply"}]
        /\ outcome' \in [Lane -> Outcome \union {"none"}]
    BY <1>4 DEF Reply
  <2>2. sent' \in Seq(Message)
    <3>1. PICK c \in Codes(Exec(l), outcome[l]) :
            sent' = IF c = "none" THEN sent
                    ELSE Append(sent, ReplyMessage(cur[l].mid, Exec(l), c))
      BY <1>4 DEF Reply
    <3>2. c \in Code
      BY DEF Codes
    <3>3. cur[l] \in Item
      BY <1>4 DEF Reply, Routed
    <3>4. CASE c = "none"
      BY <3>1, <3>4
    <3>5. CASE c # "none"
      <4> DEFINE r == ReplyMessage(cur[l].mid, Exec(l), c)
      <4>1. r \in Message
        <5>1. Exec(l) \in AllTypes
          BY <1>4, HandlerType DEF Reply, Routed, Exec
        <5>2. QED
          BY <3>2, <3>3, <3>5, <5>1 DEF Item, Message, ReplyMessage, ReplyTopic, Lane
      <4>2. sent' = Append(sent, r)
        BY <3>1, <3>5
      <4>3. sent \in Seq(Message)
        OBVIOUS
      <4> HIDE DEF r
      <4>4. QED
        BY <4>1, <4>2, <4>3
    <3>6. QED
      BY <3>4, <3>5
  <2>3. QED
    BY <1>4, <2>1, <2>2 DEF Reply
<1>5. QED
  BY <1>1, <1>2, <1>3, <1>4 DEF Executor

\* The variables keep their types, and the queues their depth, on the whole path
\* of a command.
LEMMA TypeStep ==
  ASSUME TypeOK, Routed, [Next]_vars
  PROVE  TypeOK'
<1>1. CASE LinkUp \/ LinkDown \/ Inter \/ \E m \in Mid : Arrive(m)
  BY <1>1, InterTyped
<1>2. CASE \E l \in Lane : Executor(l)
  BY <1>2, ExecutorTyped
<1>3. CASE UNCHANGED vars
  BY <1>3 DEF vars, outside, threads, TypeOK
<1>4. QED
  BY <1>1, <1>2, <1>3 DEF Next

-----------------------------------------------------------------------------
(* Routing is kept                                                         *)

\* What sg_bus_inter_thread queues came by the tables.
LEMMA RouteKeeps ==
  ASSUME TypeOK, Routed, RouteCommand
  PROVE  Routed'
<1> DEFINE m    == Head(unpackQ)
           lane == RouteLane(asked[m].topic, asked[m].type)
           item == [mid |-> m, tag |-> RouteTag(asked[m].topic, asked[m].type)]
<1>1. m \in Mid
  BY PopType DEF RouteCommand, NextMessage, TypeOK
<1>2. lane \in Lane /\ item \in Item
  BY <1>1, AskedType, RouteType DEF Item
<1>3. /\ taskQ' = [taskQ EXCEPT ![lane] = Push(taskQ[lane], item)]
      /\ pc' = [pc EXCEPT !["inter"] = "check"]
      /\ UNCHANGED <<asked, cur>>
  BY DEF RouteCommand, NextMessage, outside
<1>4. Fits(lane, item)
  BY DEF Fits
<1> HIDE DEF lane, item, m
<1>5. ASSUME NEW l \in Lane, NEW i \in DOMAIN taskQ'[l]
      PROVE  Fits(l, taskQ'[l][i])
  <2>1. CASE l # lane
    BY <1>3, <1>5, <2>1 DEF Routed, TypeOK
  <2>2. CASE l = lane
    <3>1. taskQ'[l] = Push(taskQ[l], item)
      BY <1>2, <1>3, <2>2 DEF TypeOK
    <3>2. taskQ[l] \in Seq(Item) /\ Len(taskQ[l]) <= QUEUE_DEPTH_LEN
      BY DEF TypeOK
    <3>3. \/ taskQ'[l][i] = item
          \/ i \in DOMAIN taskQ[l] /\ taskQ'[l][i] = taskQ[l][i]
      BY <1>2, <1>5, <3>1, <3>2, PushType
    <3>4. QED
      BY <1>4, <2>2, <3>3 DEF Routed
  <2>3. QED
    BY <2>1, <2>2
<1>6. ASSUME NEW l \in Lane, NEW it
      PROVE  Fits(l, it)' <=> Fits(l, it)
  BY <1>3 DEF Fits
<1>7. \A l \in Lane : pc'[l] = pc[l]
  BY <1>3 DEF Lane, TypeOK
<1>8. QED
  BY <1>3, <1>5, <1>6, <1>7 DEF Routed, Exec, Fits

\* What an executing thread has queued and in hand came by the tables.
LEMMA ExecutorKeeps ==
  ASSUME TypeOK, Routed, NEW l \in Lane, Executor(l)
  PROVE  Routed'
<1>1. asked' = asked
  BY DEF Executor, ExecCheck, Take, Act, Reply, outside
<1>2. CASE ExecCheck(l)
  BY <1>1, <1>2 DEF ExecCheck, Routed, TypeOK, Exec, Fits
<1>3. CASE Take(l)
  <2> DEFINE q == taskQ[l]
  <2>1. /\ q \in Seq(Item) /\ q # <<>>
        /\ taskQ' = [taskQ EXCEPT ![l] = Tail(q)]
    BY <1>3 DEF Take, TypeOK
  <2>2. /\ Head(q) = q[1] /\ 1 \in DOMAIN q
        /\ \A i \in DOMAIN Tail(q) : i + 1 \in DOMAIN q /\ Tail(q)[i] = q[i + 1]
    BY <2>1, PopType
  <2>3. Fits(l, Head(q))
    BY <2>2 DEF Routed
  <2>4. \/ cur' = cur /\ pc' = [pc EXCEPT ![l] = "check"]
        \/ /\ cur' = [cur EXCEPT ![l] = Head(q)]
           /\ Handler(l, Head(q).tag) # "none"
           /\ \E p \in {"act", "reply"} : pc' = [pc EXCEPT ![l] = p]
    <3> DEFINE h == Handler(l, Head(q).tag)
    <3>1. \/ cur' = cur /\ pc' = [pc EXCEPT ![l] = "check"]
          \/ /\ cur' = [cur EXCEPT ![l] = Head(q)]
             /\ h # "none"
             /\ pc' = [pc EXCEPT ![l] = IF h \in AckFirst THEN "reply" ELSE "act"]
      BY <1>3 DEF Take
    <3> HIDE DEF h
    <3>2. \/ cur' = cur /\ pc' = [pc EXCEPT ![l] = "check"]
          \/ /\ cur' = [cur EXCEPT ![l] = Head(q)]
             /\ h # "none"
             /\ \E p \in {"act", "reply"} : pc' = [pc EXCEPT ![l] = p]
      BY <3>1
    <3>3. QED
      BY <3>2 DEF h
  <2>5. Head(q) # NoItem \/ Handler(l, Head(q).tag) = "none"
    BY DEF NoItem, Handler, sg_task_pro_dev, sg_task_pro_container, sg_task_pro_app,
       DevTypes, ConQueries, ConTypes, AppQueries, AppTypes
  <2>6. ASSUME NEW k \in Lane, NEW i \in DOMAIN taskQ'[k]
        PROVE  Fits(k, taskQ'[k][i])
    <3>1. CASE k = l
      <4>1. taskQ'[k] = Tail(q)
        BY <2>1, <3>1 DEF TypeOK
      <4>2. QED
        BY <2>2, <2>6, <3>1, <4>1 DEF Routed
    <3>2. CASE k # l
      BY <2>1, <2>6, <3>2 DEF Routed, TypeOK
    <3>3. QED
      BY <3>1, <3>2
  <2>7. ASSUME NEW k \in Lane
        PROVE  /\ cur'[k] # NoItem => Fits(k, cur'[k]) /\ Handler(k, cur'[k].tag) # "none"
               /\ pc'[k] \in {"act", "reply"} => cur'[k] # NoItem
    <3> HIDE DEF q
    <3>1. CASE k = l
      BY <2>3, <2>4, <2>5, <3>1 DEF Routed, TypeOK, Exec
    <3>2. CASE k # l
      BY <2>4, <3>2 DEF Routed, TypeOK, Exec
    <3>3. QED
      BY <3>1, <3>2
  <2>8. QED
    BY <1>1, <2>6, <2>7 DEF Routed, Exec, Fits
<1>4. CASE Act(l) \/ Reply(l)
  <2>1. /\ taskQ' = taskQ
        /\ pc[l] \in {"act", "reply"}
        /\ \/ cur' = cur /\ \E p \in {"act", "reply"} : pc' = [pc EXCEPT ![l] = p]
           \/ cur' = [cur EXCEPT ![l] = NoItem] /\ pc' = [pc EXCEPT ![l] = "check"]
    BY <1>4 DEF Act, Reply
  <2>2. ASSUME NEW k \in Lane
        PROVE  /\ cur'[k] # NoItem => Fits(k, cur'[k]) /\ Handler(k, cur'[k].tag) # "none"
               /\ pc'[k] \in {"act", "reply"} => cur'[k] # NoItem
    BY <2>1 DEF Routed, TypeOK, Exec
  <2>3. QED
    BY <1>1, <2>1, <2>2 DEF Routed, Exec, Fits
<1>5. QED
  BY <1>2, <1>3, <1>4 DEF Executor

-----------------------------------------------------------------------------
(* The theorems                                                            *)

\* TypeOK and Routed, which need each other: a reply names a message id because
\* the thread that sends it has an item in hand.
LEMMA Inductive == Spec => [](TypeOK /\ Routed)
<1>1. Init => TypeOK /\ Routed
  <2> SUFFICES ASSUME Init PROVE TypeOK /\ Routed
    OBVIOUS
  <2>1. TypeOK
    BY CommandsAssumption DEF Init, TypeOK, NoItem, Lane
  <2>2. Routed
    BY DEF Init, Routed, Lane
  <2>3. QED
    BY <2>1, <2>2
<1>2. TypeOK /\ Routed /\ [Next]_vars => TypeOK' /\ Routed'
  <2> SUFFICES ASSUME TypeOK, Routed, [Next]_vars PROVE Routed'
    BY TypeStep
  <2>1. CASE LinkUp \/ LinkDown \/ InterCheck \/ StatusQueried \/ \E m \in Mid : Arrive(m)
    <3>1. UNCHANGED <<asked, taskQ, cur>> /\ \A l \in Lane : pc'[l] = pc[l]
      BY <2>1 DEF LinkUp, LinkDown, InterCheck, StatusQueried, NextMessage, Arrive,
         outside, threads, Lane, TypeOK
    <3>2. QED
      BY <3>1 DEF Routed, Exec, Fits
  <2>2. CASE RouteCommand
    BY <2>2, RouteKeeps
  <2>3. CASE \E l \in Lane : Executor(l)
    BY <2>3, ExecutorKeeps
  <2>4. CASE UNCHANGED vars
    BY <2>4 DEF vars, outside, threads, Routed, Exec, Fits
  <2>5. QED
    BY <2>1, <2>2, <2>3, <2>4 DEF Next, Inter
<1>3. QED
  BY <1>1, <1>2, PTL DEF Spec

\* Every queue keeps its depth and every variable its type (Push and the threads
\* of thread_task_exe.c).
THEOREM TypeCorrect == Spec => []TypeOK
  BY Inductive, PTL

\* An item in a thread's queue, or in its hand, that came by the tables leads to
\* the handler of its command's type.
LEMMA FitsHandler ==
  ASSUME TypeOK, NEW l \in Lane, NEW item \in Item, Fits(l, item)
  PROVE  Handler(l, item.tag)
           = IF Belongs(asked[item.mid]) THEN asked[item.mid].type ELSE "none"
<1>1. asked[item.mid] \in [topic : Lane, type : AllTypes, param : BOOLEAN]
  BY AskedType DEF Item
<1>2. QED
  BY <1>1, TablesAgree DEF Fits

\* A command reaches the handler of its type or none, over the tables of
\* sg_topic_data_unpack and of the three executing threads.
THEOREM RightHandlerAlways == Spec => []RightHandler
<1>1. TypeOK /\ Routed => RightHandler
  <2> SUFFICES ASSUME TypeOK, Routed, NEW l \in Lane
               PROVE  /\ \A i \in DOMAIN taskQ[l] :
                           LET item == taskQ[l][i]
                               r    == asked[item.mid]
                           IN  Handler(l, item.tag) = IF Belongs(r) THEN r.type ELSE "none"
                      /\ cur[l] # NoItem => Exec(l) = asked[cur[l].mid].type
    BY DEF RightHandler
  <2>1. \A i \in DOMAIN taskQ[l] : taskQ[l][i] \in Item /\ Fits(l, taskQ[l][i])
    BY DEF TypeOK, Routed
  <2>2. cur[l] # NoItem => cur[l] \in Item /\ Fits(l, cur[l]) /\ Exec(l) # "none"
    BY DEF TypeOK, Routed
  <2>3. QED
    BY <2>1, <2>2, FitsHandler DEF Exec
<1>2. QED
  BY <1>1, Inductive, PTL

\* Every reply goes to the reply topic of its command's topic, under its
\* command's type, over the topics and headers of all handlers.
THEOREM RightReplyAlways == Spec => []RightReply
<1>1. Init => RightReply
  BY DEF Init, RightReply
<1>2. TypeOK /\ Routed /\ RightReply /\ [Next]_vars => RightReply'
  <2> SUFFICES ASSUME TypeOK, Routed, RightReply, [Next]_vars
               PROVE  RightReply'
    OBVIOUS
  <2>1. ASSUME NEW l \in Lane, Reply(l)
        PROVE  RightReply'
    <3> DEFINE m == cur[l].mid
    <3>1. PICK c \in Codes(Exec(l), outcome[l]) :
            sent' = IF c = "none" THEN sent
                    ELSE Append(sent, ReplyMessage(m, Exec(l), c))
      BY <2>1 DEF Reply
    <3>2. cur[l] \in Item /\ Fits(l, cur[l]) /\ Exec(l) # "none"
      BY <2>1 DEF Reply, Routed, TypeOK
    <3>3. Belongs(asked[m]) /\ Exec(l) = asked[m].type
      BY <3>2, FitsHandler DEF Exec
    <3>4. asked[m] \in [topic : Lane, type : AllTypes, param : BOOLEAN]
      BY <3>2, AskedType DEF Item
    <3>5. ReplyTopic(Exec(l)) = asked[m].topic
      BY <3>3, <3>4, TopicAgrees
    <3>6. asked' = asked /\ sent \in Seq(Message)
      BY <2>1 DEF Reply, outside, TypeOK, Message
    <3> DEFINE r == ReplyMessage(m, Exec(l), c)
    <3>7. r.mid = m /\ r.topic = asked[m].topic /\ r.type = asked[m].type
      BY <3>3, <3>5 DEF ReplyMessage
    <3>8. \A i \in DOMAIN sent' : sent'[i] = r \/ (i \in DOMAIN sent /\ sent'[i] = sent[i])
      <4> HIDE DEF r
      <4>1. sent' = sent \/ sent' = Append(sent, r)
        BY <3>1 DEF r
      <4>2. QED
        BY <3>6, <4>1
    <3> HIDE DEF r, m
    <3>9. QED
      BY <3>6, <3>7, <3>8 DEF RightReply
  <2>2. CASE UNCHANGED <<asked, sent>>
    BY <2>2 DEF RightReply
  <2>3. CASE \E l \in Lane : ExecCheck(l) \/ Take(l) \/ Act(l)
    BY <2>2, <2>3 DEF ExecCheck, Take, Act, outside
  <2>4. CASE Inter \/ LinkUp \/ LinkDown \/ \E m \in Mid : Arrive(m)
    BY <2>2, <2>4 DEF Inter, InterCheck, RouteCommand, StatusQueried, LinkUp, LinkDown,
       Arrive, outside
  <2>5. CASE UNCHANGED vars
    BY <2>2, <2>5 DEF vars, outside
  <2>6. QED
    BY <2>1, <2>3, <2>4, <2>5 DEF Next, Executor
<1>3. QED
  BY <1>1, <1>2, Inductive, PTL DEF Spec
-----------------------------------------------------------------------------
(* The lanes                                                               *)

\* The message ids of a list of things that have one.
LEMMA MidsOf ==
  ASSUME NEW S, \A x \in S : x.mid \in Mid, NEW q \in Seq(S)
  PROVE  /\ Mids(q) \in Seq(Mid) /\ Len(Mids(q)) = Len(q)
         /\ \A i \in 1 .. Len(q) : Mids(q)[i] = q[i].mid
         /\ \A x \in S : Mids(Append(q, x)) = Append(Mids(q), x.mid)
         /\ q # <<>> => /\ Mids(q) # <<>> /\ Head(Mids(q)) = Head(q).mid
                        /\ Mids(Tail(q)) = Tail(Mids(q))
<1>0. ASSUME NEW p \in Seq(S)
      PROVE  /\ Mids(p) \in Seq(Mid) /\ Len(Mids(p)) = Len(p)
             /\ \A i \in 1 .. Len(p) : Mids(p)[i] = p[i].mid
  <2>1. /\ DOMAIN p = 1 .. Len(p) /\ Len(p) \in Nat
        /\ \A i \in 1 .. Len(p) : p[i] \in S
    OBVIOUS
  <2>2. Mids(p) = [i \in 1 .. Len(p) |-> p[i].mid]
    BY <2>1 DEF Mids
  <2> QED
    BY <2>1, <2>2
<1>1. ASSUME NEW x \in S PROVE Mids(Append(q, x)) = Append(Mids(q), x.mid)
  <2>1. /\ Append(q, x) \in Seq(S) /\ Len(Append(q, x)) = Len(q) + 1
        /\ \A i \in 1 .. Len(q) : Append(q, x)[i] = q[i]
        /\ Append(q, x)[Len(q) + 1] = x
    OBVIOUS
  <2>2. /\ Mids(Append(q, x)) \in Seq(Mid) /\ Len(Mids(Append(q, x))) = Len(q) + 1
        /\ \A i \in 1 .. Len(q) + 1 : Mids(Append(q, x))[i] = Append(q, x)[i].mid
    BY <1>0, <2>1
  <2>3. /\ Append(Mids(q), x.mid) \in Seq(Mid) /\ Len(Append(Mids(q), x.mid)) = Len(q) + 1
        /\ \A i \in 1 .. Len(q) : Append(Mids(q), x.mid)[i] = q[i].mid
        /\ Append(Mids(q), x.mid)[Len(q) + 1] = x.mid
    BY <1>0
  <2>4. ASSUME NEW i \in 1 .. Len(q) + 1
        PROVE  Mids(Append(q, x))[i] = Append(Mids(q), x.mid)[i]
    BY <2>1, <2>2, <2>3
  <2> QED
    BY <2>2, <2>3, <2>4, SeqEqual
<1>2. ASSUME q # <<>>
      PROVE  Mids(q) # <<>> /\ Head(Mids(q)) = Head(q).mid /\ Mids(Tail(q)) = Tail(Mids(q))
  <2>1. /\ Tail(q) \in Seq(S) /\ Len(Tail(q)) = Len(q) - 1 /\ Len(q) > 0 /\ Head(q) = q[1]
        /\ \A i \in 1 .. Len(q) - 1 : Tail(q)[i] = q[i + 1]
    BY <1>2
  <2>2. Mids(q) # <<>> /\ Head(Mids(q)) = Head(q).mid
    BY <1>0, <2>1
  <2>3. /\ Mids(Tail(q)) \in Seq(Mid) /\ Len(Mids(Tail(q))) = Len(q) - 1
        /\ \A i \in 1 .. Len(q) - 1 : Mids(Tail(q))[i] = Tail(q)[i].mid
    BY <1>0, <2>1
  <2>4. /\ Tail(Mids(q)) \in Seq(Mid) /\ Len(Tail(Mids(q))) = Len(q) - 1
        /\ \A i \in 1 .. Len(q) - 1 : Tail(Mids(q))[i] = q[i + 1].mid
    BY <1>0, <2>2
  <2>5. ASSUME NEW i \in 1 .. Len(q) - 1
        PROVE  Mids(Tail(q))[i] = Tail(Mids(q))[i]
    BY <2>1, <2>3, <2>4
  <2> QED
    BY <2>2, <2>3, <2>4, <2>5, SeqEqual
<1> QED
  BY <1>0, <1>1, <1>2

\* A thread's lane: what it has in hand, and what waits for it.
LineOf(c, q) == (IF c = NoItem THEN <<>> ELSE <<c.mid>>) \o Mids(q)
Line    == [l \in Lane |-> LineOf(cur[l], taskQ[l])]
Answers == Mids(sent)

\* What becomes of a lane when an item is queued, taken in hand, and done with.
LEMMA LineChanges ==
  ASSUME NEW c \in Item \union {NoItem}, NEW q \in Seq(Item)
  PROVE  /\ LineOf(c, q) \in Seq(Mid)
         /\ \A x \in Item : LineOf(c, Append(q, x)) = Append(LineOf(c, q), x.mid)
         /\ c # NoItem => /\ LineOf(c, q) # <<>> /\ Head(LineOf(c, q)) = c.mid
                          /\ LineOf(NoItem, q) = Tail(LineOf(c, q))
         /\ q # <<>> => /\ LineOf(NoItem, q) # <<>>
                        /\ LineOf(NoItem, Tail(q)) = Tail(LineOf(NoItem, q))
                        /\ Head(q) # NoItem => LineOf(Head(q), Tail(q)) = LineOf(NoItem, q)
<1>0. \A x \in Item : x.mid \in Mid
  BY DEF Item
<1>1. /\ Mids(q) \in Seq(Mid)
      /\ \A x \in Item : Mids(Append(q, x)) = Append(Mids(q), x.mid)
      /\ q # <<>> => /\ Mids(q) # <<>> /\ Head(Mids(q)) = Head(q).mid
                     /\ Mids(Tail(q)) = Tail(Mids(q)) /\ Tail(q) \in Seq(Item)
  BY <1>0, MidsOf
<1>2. ASSUME NEW p \in Seq(Item) PROVE LineOf(NoItem, p) = Mids(p)
  <2>1. Mids(p) \in Seq(Mid)
    BY <1>0, MidsOf
  <2> QED
    BY <2>1 DEF LineOf
<1>3. ASSUME NEW s \in Seq(Mid), NEW m \in Mid
      PROVE  /\ <<m>> \o s \in Seq(Mid) /\ <<m>> \o s # <<>>
             /\ Head(<<m>> \o s) = m /\ Tail(<<m>> \o s) = s
             /\ s # <<>> => s = <<Head(s)>> \o Tail(s)
             /\ \A n \in Mid : <<m>> \o Append(s, n) = Append(<<m>> \o s, n)
  OBVIOUS
<1>4. ASSUME q # <<>>
      PROVE  /\ LineOf(NoItem, q) # <<>>
             /\ LineOf(NoItem, Tail(q)) = Tail(LineOf(NoItem, q))
             /\ Head(q) # NoItem => LineOf(Head(q), Tail(q)) = LineOf(NoItem, q)
  <2>1. LineOf(NoItem, q) = Mids(q) /\ LineOf(NoItem, Tail(q)) = Tail(Mids(q)) /\ Mids(q) # <<>>
    BY <1>1, <1>2, <1>4
  <2>2. ASSUME Head(q) # NoItem PROVE LineOf(Head(q), Tail(q)) = Mids(q)
    <3>1. LineOf(Head(q), Tail(q)) = <<Head(Mids(q))>> \o Tail(Mids(q))
      BY <1>1, <1>4, <2>2 DEF LineOf
    <3>2. \A s \in Seq(Mid) : s # <<>> => s = <<Head(s)>> \o Tail(s)
      OBVIOUS
    <3> QED
      BY <1>1, <1>4, <3>1, <3>2
  <2> QED
    BY <2>1, <2>2
<1>5. CASE c = NoItem
  <2>1. ASSUME NEW x \in Item PROVE LineOf(c, Append(q, x)) = Append(LineOf(c, q), x.mid)
    <3>1. Append(q, x) \in Seq(Item)
      OBVIOUS
    <3>2. LineOf(NoItem, Append(q, x)) = Mids(Append(q, x)) /\ LineOf(NoItem, q) = Mids(q)
      BY <1>2, <3>1
    <3> QED
      BY ONLY <1>1, <1>5, <3>2, x \in Item
  <2> QED
    BY <1>1, <1>2, <1>4, <1>5, <2>1
<1>6. CASE c # NoItem
  <2>1. c.mid \in Mid /\ \A p : LineOf(c, p) = <<c.mid>> \o Mids(p)
    BY <1>0, <1>6 DEF LineOf
  <2> DEFINE s == Mids(q)
  <2>2. ASSUME NEW x \in Item PROVE LineOf(c, Append(q, x)) = Append(LineOf(c, q), x.mid)
    <3>1. LineOf(c, Append(q, x)) = <<c.mid>> \o Append(s, x.mid) /\ LineOf(c, q) = <<c.mid>> \o s
      BY <1>1, <2>1
    <3>2. s \in Seq(Mid) /\ x.mid \in Mid /\ c.mid \in Mid
      BY <1>0, <1>1, <2>1
    <3> HIDE DEF s
    <3> QED
      BY ONLY <1>3, <3>1, <3>2
  <2>3. /\ LineOf(c, q) \in Seq(Mid) /\ LineOf(c, q) # <<>> /\ Head(LineOf(c, q)) = c.mid
        /\ LineOf(NoItem, q) = Tail(LineOf(c, q))
    <3>1. LineOf(c, q) = <<c.mid>> \o s /\ LineOf(NoItem, q) = s
      BY <1>2, <2>1
    <3>2. s \in Seq(Mid) /\ c.mid \in Mid
      BY <1>1, <2>1
    <3> HIDE DEF s
    <3> QED
      BY ONLY <1>3, <3>1, <3>2
  <2> QED
    BY <1>4, <2>2, <2>3
<1> QED
  BY <1>5, <1>6

\* The handler has replied, and is about to act.
Acked(l) == pc[l] = "act" /\ Exec(l) \in AckFirst

\* A thread that waits has nothing in hand.
Idle == \A l \in Lane : pc[l] \in {"check", "read"} => cur[l] = NoItem

\* What a step may do to the messages, the lanes and the answers: a message
\* arrives, ...
Arrives ==
  /\ UNCHANGED <<Line, Answers>> /\ \A l \in Lane : Acked(l)' = Acked(l)
  /\ \E m \in Mid \ arrived : /\ arrived' = arrived \union {m}
                              /\ unpackQ' \in {unpackQ, Append(unpackQ, m)}

\* ... it is handled, and queued or not, ...
Handled ==
  /\ UNCHANGED <<arrived, Answers>> /\ \A l \in Lane : Acked(l)' = Acked(l)
  /\ unpackQ # <<>> /\ unpackQ' = Tail(unpackQ)
  /\ \/ Line' = Line
     \/ \E l \in Lane : Line' = [Line EXCEPT ![l] = Append(Line[l], Head(unpackQ))]

\* ... or a lane goes on, with or without an answer to its first, which may leave, ...
Served(l) ==
  /\ UNCHANGED <<arrived, unpackQ>> /\ \A k \in Lane \ {l} : Acked(k)' = Acked(k)
  /\ \/ Line' = Line /\ Answers' = Answers /\ (Acked(l) => Acked(l)')
     \/ /\ Line[l] # <<>> /\ Line' = [Line EXCEPT ![l] = Tail(Line[l])]
        /\ Answers' = Answers
     \/ /\ Line[l] # <<>> /\ ~Acked(l) /\ Answers' = Append(Answers, Head(Line[l]))
        /\ \/ Line' = Line /\ Acked(l)'
           \/ Line' = [Line EXCEPT ![l] = Tail(Line[l])]

\* ... or none of this.
Rests == /\ UNCHANGED <<arrived, unpackQ, Line, Answers>>
         /\ \A l \in Lane : Acked(l)' = Acked(l)

Shape == Arrives \/ Handled \/ Rests \/ \E l \in Lane : Served(l)

\* Nothing happens if nothing is taken, queued, executed or answered.
LEMMA Resting ==
  ASSUME UNCHANGED <<arrived, unpackQ, taskQ, sent, cur>>, \A l \in Lane : pc'[l] = pc[l]
  PROVE  Rests
BY DEF Rests, Line, Answers, Acked, Exec

\* A lane that nothing happens to stays as it is, and so does what is acknowledged.
LEMMA Untouched ==
  ASSUME TypeOK, NEW l \in Lane, cur'[l] = cur[l], taskQ'[l] = taskQ[l], pc'[l] = pc[l]
  PROVE  LineOf(cur'[l], taskQ'[l]) = LineOf(cur[l], taskQ[l]) /\ Acked(l)' = Acked(l)
BY DEF Acked, Exec

\* A step of a thread changes its lane only.
LEMMA OneLane ==
  ASSUME TypeOK, NEW l \in Lane, NEW line,
         \A k \in Lane \ {l} : cur'[k] = cur[k] /\ taskQ'[k] = taskQ[k],
         LineOf(cur'[l], taskQ'[l]) = line
  PROVE  Line' = [Line EXCEPT ![l] = line]
<1>1. Line' = [k \in Lane |-> LineOf(cur'[k], taskQ'[k])]
  BY DEF Line
<1>2. \A k \in Lane : LineOf(cur'[k], taskQ'[k]) = IF k = l THEN line ELSE LineOf(cur[k], taskQ[k])
  OBVIOUS
<1> QED
  BY <1>1, <1>2 DEF Line

\* A lane that is given what it has stays as it is.
LEMMA SameLane ==
  ASSUME NEW l \in Lane, NEW line, line = Line[l]
  PROVE  [Line EXCEPT ![l] = line] = Line
BY DEF Line

\* Platform, session and sg_bus_inter_thread have one of the shapes.
LEMMA InterShape ==
  ASSUME TypeOK, Inter \/ LinkUp \/ LinkDown \/ \E m \in Mid : Arrive(m)
  PROVE  Shape
<1>1. \A l \in Lane : l # "inter"
  BY DEF Lane
<1>2. CASE \E m \in Mid : Arrive(m)
  <2>1. UNCHANGED <<taskQ, sent, cur, pc>>
    BY <1>2 DEF Arrive, threads
  <2>2. UNCHANGED <<Line, Answers>> /\ \A l \in Lane : Acked(l)' = Acked(l)
    BY <2>1 DEF Line, Answers, Acked, Exec
  <2>3. \E m \in Mid \ arrived : /\ arrived' = arrived \union {m}
                                 /\ unpackQ' \in {unpackQ, Append(unpackQ, m)}
    BY <1>2 DEF Arrive, Push
  <2> QED
    BY <2>2, <2>3 DEF Shape, Arrives
<1>3. CASE RouteCommand
  <2> DEFINE m    == Head(unpackQ)
             lane == RouteLane(asked[m].topic, asked[m].type)
             item == [mid |-> m, tag |-> RouteTag(asked[m].topic, asked[m].type)]
  <2>1. /\ unpackQ # <<>> /\ unpackQ' = Tail(unpackQ) /\ UNCHANGED <<arrived, cur, sent>>
        /\ taskQ' = [taskQ EXCEPT ![lane] = Push(taskQ[lane], item)]
        /\ pc' = [pc EXCEPT !["inter"] = "check"]
    BY <1>3 DEF RouteCommand, NextMessage, outside
  <2>2. m \in Mid
    BY <2>1, PopType DEF TypeOK
  <2>3. lane \in Lane /\ item \in Item /\ item.mid = m
    BY <2>2, AskedType, RouteType DEF Item
  <2> HIDE DEF lane, item
  <2>4. \A l \in Lane : pc'[l] = pc[l]
    BY <1>1, <2>1 DEF TypeOK
  <2>5. \A l \in Lane : Acked(l)' = Acked(l)
    BY <2>1, <2>4 DEF Acked, Exec
  <2>6. \A k \in Lane \ {lane} : cur'[k] = cur[k] /\ taskQ'[k] = taskQ[k]
    BY <2>1, <2>3 DEF TypeOK
  <2>7. taskQ'[lane] \in {taskQ[lane], Append(taskQ[lane], item)} /\ cur'[lane] = cur[lane]
    BY <2>1, <2>3 DEF TypeOK, Push
  <2>8. /\ taskQ[lane] \in Seq(Item) /\ cur[lane] \in Item \union {NoItem}
        /\ Line[lane] = LineOf(cur[lane], taskQ[lane])
    BY <2>3 DEF TypeOK, Line
  <2>9. LineOf(cur'[lane], taskQ'[lane]) \in {Line[lane], Append(Line[lane], m)}
    <3>1. LineOf(cur[lane], Append(taskQ[lane], item)) = Append(Line[lane], m)
      <4>1. \A x \in Item : LineOf(cur[lane], Append(taskQ[lane], x))
                             = Append(LineOf(cur[lane], taskQ[lane]), x.mid)
        BY ONLY <2>8, LineChanges
      <4> QED
        BY ONLY <2>3, <2>8, <4>1
    <3> QED
      BY <2>7, <2>8, <3>1
  <2>10. Line' = Line \/ Line' = [Line EXCEPT ![lane] = Append(Line[lane], m)]
    BY <2>3, <2>6, <2>9, OneLane, SameLane
  <2>11. Answers' = Answers
    BY <2>1 DEF Answers
  <2> QED
    BY <2>1, <2>3, <2>5, <2>10, <2>11 DEF Shape, Handled
<1>4. CASE StatusQueried
  <2>1. /\ unpackQ # <<>> /\ unpackQ' = Tail(unpackQ) /\ UNCHANGED <<arrived, taskQ, cur, sent>>
        /\ pc' = [pc EXCEPT !["inter"] = "check"]
    BY <1>4 DEF StatusQueried, NextMessage, outside
  <2>2. \A l \in Lane : pc'[l] = pc[l]
    BY <1>1, <2>1 DEF TypeOK
  <2>3. UNCHANGED <<Line, Answers>> /\ \A l \in Lane : Acked(l)' = Acked(l)
    BY <2>1, <2>2 DEF Line, Answers, Acked, Exec
  <2> QED
    BY <2>1, <2>3 DEF Shape, Handled
<1>5. CASE InterCheck \/ LinkUp \/ LinkDown
  <2>1. UNCHANGED <<arrived, unpackQ, taskQ, sent, cur>> /\ \A l \in Lane : pc'[l] = pc[l]
    BY <1>1, <1>5 DEF InterCheck, LinkUp, LinkDown, outside, threads, TypeOK
  <2> QED
    BY <2>1, Resting DEF Shape
<1> QED
  BY <1>2, <1>3, <1>4, <1>5 DEF Inter

\* The executing threads do.
LEMMA ExecutorShape ==
  ASSUME TypeOK, Routed, Idle, NEW l \in Lane, Executor(l)
  PROVE  Served(l)
<1>1. /\ UNCHANGED <<arrived, unpackQ>>
      /\ taskQ[l] \in Seq(Item) /\ cur[l] \in Item \union {NoItem}
      /\ Line[l] = LineOf(cur[l], taskQ[l]) /\ pc \in [Lane \union {"inter"} -> {"check", "read", "act", "reply"}]
      /\ cur \in [Lane -> Item \union {NoItem}] /\ taskQ \in [Lane -> Seq(Item)]
  BY DEF Executor, ExecCheck, Take, Act, Reply, outside, TypeOK, Line
<1>2. CASE ExecCheck(l)
  <2>1. /\ UNCHANGED <<taskQ, cur, sent>> /\ pc[l] = "check" /\ pc' = [pc EXCEPT ![l] = "read"]
    BY <1>2 DEF ExecCheck
  <2>2. Line' = Line /\ Answers' = Answers /\ ~Acked(l)
    BY <2>1 DEF Line, Answers, Acked
  <2>3. \A k \in Lane \ {l} : Acked(k)' = Acked(k)
    BY <1>1, <2>1 DEF Acked, Exec
  <2> QED
    BY <1>1, <2>2, <2>3 DEF Served
<1>3. CASE Take(l)
  <2> DEFINE q == taskQ[l]
             h == Handler(l, Head(q).tag)
  <2>1. /\ pc[l] = "read" /\ q # <<>> /\ taskQ' = [taskQ EXCEPT ![l] = Tail(q)] /\ sent' = sent
        /\ \/ cur' = cur /\ pc' = [pc EXCEPT ![l] = "check"]
           \/ /\ cur' = [cur EXCEPT ![l] = Head(q)] /\ h # "none"
              /\ \E p \in {"act", "reply"} : pc' = [pc EXCEPT ![l] = p]
    <3>1. /\ pc[l] = "read" /\ q # <<>> /\ taskQ' = [taskQ EXCEPT ![l] = Tail(q)] /\ sent' = sent
      BY <1>3 DEF Take
    <3>2. \/ cur' = cur /\ pc' = [pc EXCEPT ![l] = "check"]
          \/ /\ cur' = [cur EXCEPT ![l] = Head(q)] /\ h # "none"
             /\ pc' = [pc EXCEPT ![l] = IF h \in AckFirst THEN "reply" ELSE "act"]
      BY <1>3 DEF Take
    <3> HIDE DEF h
    <3> QED
      BY <3>1, <3>2
  <2>2. cur[l] = NoItem /\ ~Acked(l)
    BY <2>1 DEF Idle, Acked
  <2>3. h # "none" => Head(q) # NoItem
    BY DEF NoItem, Handler, sg_task_pro_dev, sg_task_pro_container, sg_task_pro_app,
       DevTypes, ConQueries, ConTypes, AppQueries, AppTypes
  <2> HIDE DEF h, q
  <2>4. \A k \in Lane \ {l} : cur'[k] = cur[k] /\ taskQ'[k] = taskQ[k] /\ pc'[k] = pc[k]
    BY <1>1, <2>1
  <2>5. \A k \in Lane \ {l} : Acked(k)' = Acked(k)
    BY <2>4 DEF Acked, Exec
  <2>6. Answers' = Answers
    BY <2>1 DEF Answers
  <2>7. taskQ'[l] = Tail(q) /\ (cur'[l] # NoItem => cur'[l] = Head(q))
    BY <1>1, <2>1, <2>2, <2>3
  <2>8. /\ Line[l] # <<>>
        /\ \/ LineOf(cur'[l], taskQ'[l]) = Tail(Line[l])
           \/ LineOf(cur'[l], taskQ'[l]) = Line[l]
    <3>1. /\ q \in Seq(Item) /\ q # <<>> /\ NoItem \in Item \union {NoItem}
          /\ Line[l] = LineOf(NoItem, q)
      BY <1>1, <2>1, <2>2 DEF q
    <3>2. /\ LineOf(NoItem, q) # <<>>
          /\ LineOf(NoItem, Tail(q)) = Tail(LineOf(NoItem, q))
          /\ Head(q) # NoItem => LineOf(Head(q), Tail(q)) = LineOf(NoItem, q)
      BY <3>1, LineChanges
    <3> QED
      <4>1. CASE cur'[l] = NoItem
        BY <2>7, <3>1, <3>2, <4>1
      <4>2. CASE cur'[l] # NoItem
        BY <2>7, <3>1, <3>2, <4>2
      <4> QED
        BY <4>1, <4>2
  <2>9. Line' = [Line EXCEPT ![l] = Tail(Line[l])] \/ Line' = Line
    <3> DEFINE line == LineOf(cur'[l], taskQ'[l])
    <3>1. Line' = [Line EXCEPT ![l] = line]
      BY <2>4, OneLane
    <3> HIDE DEF line
    <3>2. line = Tail(Line[l]) \/ line = Line[l]
      BY <2>8 DEF line
    <3>3. line = Line[l] => [Line EXCEPT ![l] = line] = Line
      BY SameLane
    <3> QED
      BY <3>1, <3>2, <3>3
  <2> QED
    BY <1>1, <2>2, <2>5, <2>6, <2>8, <2>9 DEF Served
<1>4. CASE Act(l)
  <2>1. /\ pc[l] = "act" /\ UNCHANGED <<taskQ, sent>> /\ cur[l] # NoItem
        /\ \/ Exec(l) \in AckFirst /\ cur' = [cur EXCEPT ![l] = NoItem] /\ pc' = [pc EXCEPT ![l] = "check"]
           \/ ~(Exec(l) \in AckFirst) /\ cur' = cur /\ pc' = [pc EXCEPT ![l] = "reply"]
    BY <1>4 DEF Act, Routed
  <2>2. \A k \in Lane \ {l} : cur'[k] = cur[k] /\ taskQ'[k] = taskQ[k] /\ pc'[k] = pc[k]
    BY <1>1, <2>1
  <2>3. \A k \in Lane \ {l} : Acked(k)' = Acked(k)
    BY <2>2 DEF Acked, Exec
  <2>4. Answers' = Answers
    BY <2>1 DEF Answers
  <2>5. CASE cur' = cur
    <3>1. Line' = Line /\ ~Acked(l)
      BY <1>1, <2>1, <2>5 DEF Line, Acked
    <3> QED
      BY <1>1, <2>3, <2>4, <3>1 DEF Served
  <2>6. CASE cur' = [cur EXCEPT ![l] = NoItem]
    <3>1. cur'[l] = NoItem /\ taskQ'[l] = taskQ[l]
      BY <1>1, <2>1, <2>6
    <3>2. Line[l] # <<>> /\ LineOf(cur'[l], taskQ'[l]) = Tail(Line[l])
      BY <1>1, <2>1, <3>1, LineChanges
    <3>3. Line' = [Line EXCEPT ![l] = Tail(Line[l])]
      BY <2>2, <3>2, OneLane
    <3> QED
      BY <1>1, <2>3, <2>4, <3>2, <3>3 DEF Served
  <2> QED
    BY <2>1, <2>5, <2>6
<1>5. CASE Reply(l)
  <2>1. /\ pc[l] = "reply" /\ taskQ' = taskQ /\ cur[l] # NoItem
        /\ \/ Exec(l) \in AckFirst /\ cur' = cur /\ pc' = [pc EXCEPT ![l] = "act"]
           \/ cur' = [cur EXCEPT ![l] = NoItem] /\ pc' = [pc EXCEPT ![l] = "check"]
    BY <1>5 DEF Reply, Routed
  <2>2. \A k \in Lane \ {l} : cur'[k] = cur[k] /\ taskQ'[k] = taskQ[k] /\ pc'[k] = pc[k]
    BY <1>1, <2>1
  <2>3. \A k \in Lane \ {l} : Acked(k)' = Acked(k)
    BY <2>2 DEF Acked, Exec
  <2>4. ~Acked(l) /\ Line[l] # <<>> /\ Head(Line[l]) = cur[l].mid
    BY <1>1, <2>1, LineChanges DEF Acked
  <2>5. Answers' = Answers \/ Answers' = Append(Answers, Head(Line[l]))
    <3>1. PICK c \in Codes(Exec(l), outcome[l]) :
            sent' = IF c = "none" THEN sent
                    ELSE Append(sent, ReplyMessage(cur[l].mid, Exec(l), c))
      BY <1>5 DEF Reply
    <3> DEFINE r == ReplyMessage(cur[l].mid, Exec(l), c)
    <3>2. CASE c = "none"
      BY <3>1, <3>2 DEF Answers
    <3>3. CASE c # "none"
      <4>1. sent \in Seq(Message) /\ \A x \in Message : x.mid \in Mid
        BY DEF TypeOK, Message
      <4>2. r \in Message /\ r.mid = cur[l].mid
        <5>1. Exec(l) \in AllTypes
          BY <2>1, HandlerType DEF Routed, Exec
        <5>2. c \in Code
          BY DEF Codes
        <5>3. cur[l] \in Item
          BY <1>1, <2>1
        <5> QED
          BY <3>3, <5>1, <5>2, <5>3 DEF Item, Message, ReplyMessage, ReplyTopic, Lane
      <4>3. sent' = Append(sent, r)
        BY <3>1, <3>3
      <4> HIDE DEF r
      <4>4. Mids(Append(sent, r)) = Append(Mids(sent), r.mid)
        BY <4>1, <4>2, MidsOf
      <4> QED
        BY <2>4, <4>2, <4>3, <4>4 DEF Answers
    <3> QED
      BY <3>2, <3>3
  <2>6. CASE Exec(l) \in AckFirst /\ cur' = cur /\ pc' = [pc EXCEPT ![l] = "act"]
    <3>1. Line' = Line /\ Acked(l)'
      BY <1>1, <2>1, <2>6 DEF Line, Acked, Exec
    <3> QED
      BY <1>1, <2>3, <2>4, <2>5, <3>1 DEF Served
  <2>7. CASE cur' = [cur EXCEPT ![l] = NoItem] /\ pc' = [pc EXCEPT ![l] = "check"]
    <3>1. cur'[l] = NoItem /\ taskQ'[l] = taskQ[l]
      BY <1>1, <2>1, <2>7
    <3>2. LineOf(cur'[l], taskQ'[l]) = Tail(Line[l])
      BY <1>1, <2>1, <3>1, LineChanges
    <3>3. Line' = [Line EXCEPT ![l] = Tail(Line[l])]
      BY <2>2, <3>2, OneLane
    <3> QED
      BY <1>1, <2>3, <2>4, <2>5, <3>3 DEF Served
  <2> QED
    BY <2>1, <2>6, <2>7
<1> QED
  BY <1>2, <1>3, <1>4, <1>5 DEF Executor

\* Every step has one of the shapes.
LEMMA StepShape ==
  ASSUME TypeOK, Routed, Idle, [Next]_vars
  PROVE  Shape
<1>1. CASE UNCHANGED vars
  BY <1>1, Resting DEF vars, outside, threads, Shape
<1>2. CASE \E l \in Lane : Executor(l)
  BY <1>2, ExecutorShape DEF Shape
<1>3. CASE Inter \/ LinkUp \/ LinkDown \/ \E m \in Mid : Arrive(m)
  BY <1>3, InterShape
<1> QED
  BY <1>1, <1>2, <1>3 DEF Next

-----------------------------------------------------------------------------
(* A command is in one place at most                                       *)

Done == {Answers[i] : i \in DOMAIN Answers}

\* A message waits to be handled once, has arrived, and is not answered.
Fresh ==
  /\ \A i \in DOMAIN unpackQ : unpackQ[i] \in arrived \ Done
  /\ \A i, j \in DOMAIN unpackQ : unpackQ[i] = unpackQ[j] => i = j

\* A command is in one lane at most, once, and no longer waits to be handled; it is
\* answered only if it has been acknowledged and is still in hand.
InLane ==
  /\ \A l \in Lane : \A i \in DOMAIN Line[l] :
       /\ Line[l][i] \in arrived
       /\ \A j \in DOMAIN unpackQ : unpackQ[j] # Line[l][i]
       /\ Line[l][i] \in Done => i = 1 /\ Acked(l)
  /\ \A k, l \in Lane : \A i \in DOMAIN Line[k], j \in DOMAIN Line[l] :
       Line[k][i] = Line[l][j] => k = l /\ i = j

Once == Fresh /\ InLane /\ Done \subseteq arrived

\* The messages, the lanes and the answers are lists of message ids.
LEMMA LineType ==
  ASSUME TypeOK
  PROVE  Line \in [Lane -> Seq(Mid)] /\ Answers \in Seq(Mid) /\ unpackQ \in Seq(Mid)
<1>1. \A l \in Lane : LineOf(cur[l], taskQ[l]) \in Seq(Mid)
  BY LineChanges DEF TypeOK
<1>2. Answers \in Seq(Mid)
  <2>1. sent \in Seq(Message) /\ \A x \in Message : x.mid \in Mid
    BY DEF TypeOK, Message
  <2> QED
    BY <2>1, MidsOf DEF Answers
<1> QED
  BY <1>1, <1>2 DEF Line, TypeOK

\* Idle is kept.
LEMMA IdleStep ==
  ASSUME TypeOK, Idle, [Next]_vars
  PROVE  Idle'
<1>1. CASE Inter \/ LinkUp \/ LinkDown \/ \E m \in Mid : Arrive(m)
  <2>1. cur' = cur /\ \A l \in Lane : pc'[l] = pc[l]
    BY <1>1 DEF Inter, InterCheck, RouteCommand, StatusQueried, NextMessage, LinkUp, LinkDown,
       Arrive, threads, Lane, TypeOK
  <2> QED
    BY <2>1 DEF Idle
<1>2. ASSUME NEW l \in Lane, Executor(l) PROVE Idle'
  <2>1. \/ /\ cur' = cur
           /\ \/ pc[l] \in {"check", "read"}
              \/ pc'[l] \in {"act", "reply"}
        \/ cur' = [cur EXCEPT ![l] = NoItem]
        \/ /\ \E c : cur' = [cur EXCEPT ![l] = c]
           /\ pc'[l] \in {"act", "reply"}
    BY <1>2 DEF Executor, ExecCheck, Take, Act, Reply, TypeOK
  <2>2. \A k \in Lane \ {l} : pc'[k] = pc[k]
    BY <1>2 DEF Executor, ExecCheck, Take, Act, Reply, TypeOK
  <2>3. ASSUME NEW k \in Lane, pc'[k] \in {"check", "read"} PROVE cur'[k] = NoItem
    BY <2>1, <2>2, <2>3 DEF Idle, TypeOK
  <2> QED
    BY <2>3 DEF Idle
<1>3. CASE UNCHANGED vars
  BY <1>3 DEF vars, threads, Idle
<1> QED
  BY <1>1, <1>2, <1>3 DEF Next

\* Lists of message ids, by their elements.
LEMMA ListOps ==
  ASSUME NEW s \in Seq(Mid)
  PROVE  /\ \A i \in DOMAIN s : i \in Nat \ {0} /\ s[i] \in Mid
         /\ s # <<>> =>
              /\ 1 \in DOMAIN s /\ Head(s) = s[1] /\ Tail(s) \in Seq(Mid)
              /\ \A i \in DOMAIN Tail(s) : i \in Nat \ {0} /\ i + 1 \in DOMAIN s /\ Tail(s)[i] = s[i + 1]
         /\ \A x \in Mid : /\ Append(s, x) \in Seq(Mid)
                           /\ \A i \in DOMAIN Append(s, x) :
                                IF i = Len(s) + 1 THEN Append(s, x)[i] = x
                                ELSE i \in DOMAIN s /\ Append(s, x)[i] = s[i]
OBVIOUS

\* What is answered grows by the answer.
LEMMA DoneGrows ==
  ASSUME TypeOK, NEW m \in Mid, Answers' = Append(Answers, m)
  PROVE  Done' = Done \union {m}
<1>1. /\ Answers \in Seq(Mid) /\ Len(Answers) \in Nat /\ DOMAIN Answers = 1 .. Len(Answers)
      /\ DOMAIN Answers' = 1 .. Len(Answers) + 1 /\ Answers'[Len(Answers) + 1] = m
      /\ \A i \in 1 .. Len(Answers) : Answers'[i] = Answers[i]
  BY LineType
<1>2. \A i \in 1 .. Len(Answers) + 1 : i \in 1 .. Len(Answers) \/ i = Len(Answers) + 1
  BY <1>1
<1>3. 1 .. Len(Answers) \subseteq 1 .. Len(Answers) + 1 /\ Len(Answers) + 1 \in 1 .. Len(Answers) + 1
  BY <1>1
<1>4. Done' = {Answers'[i] : i \in DOMAIN Answers'}
  BY DEF Done
<1> QED
  BY <1>1, <1>2, <1>3, <1>4 DEF Done

\* A message that arrives is new.
LEMMA ArrivesKeeps ==
  ASSUME TypeOK, Once, Arrives
  PROVE  Once'
<1>1. PICK m \in Mid \ arrived : /\ arrived' = arrived \union {m}
                                 /\ unpackQ' \in {unpackQ, Append(unpackQ, m)}
  BY DEF Arrives
<1>2. Line' = Line /\ Done' = Done /\ \A l \in Lane : Acked(l)' = Acked(l)
  BY DEF Arrives, Done
<1>3. unpackQ \in Seq(Mid)
  BY LineType
<1>4. \A i \in DOMAIN unpackQ' : \/ unpackQ'[i] = m /\ (unpackQ' # unpackQ => i = Len(unpackQ) + 1)
                                 \/ i \in DOMAIN unpackQ /\ unpackQ'[i] = unpackQ[i]
  BY <1>1, <1>3, ListOps
<1>5. \A i \in DOMAIN unpackQ : unpackQ[i] # m /\ unpackQ[i] \in arrived \ Done
  BY <1>1 DEF Once, Fresh
<1>6. m \notin Done /\ \A l \in Lane : \A i \in DOMAIN Line[l] : Line[l][i] # m
  BY <1>1 DEF Once, InLane
<1>7. Fresh'
  <2>1. \A i \in DOMAIN unpackQ' : unpackQ'[i] \in arrived' \ Done'
    BY <1>1, <1>2, <1>4, <1>5, <1>6
  <2>2. \A i, j \in DOMAIN unpackQ' : unpackQ'[i] = unpackQ'[j] => i = j
    BY <1>4, <1>5 DEF Once, Fresh
  <2> QED
    BY <2>1, <2>2 DEF Fresh
<1>8. InLane'
  <2>1. ASSUME NEW l \in Lane, NEW i \in DOMAIN Line[l]
        PROVE  /\ Line[l][i] \in arrived'
               /\ \A j \in DOMAIN unpackQ' : unpackQ'[j] # Line[l][i]
               /\ Line[l][i] \in Done => i = 1 /\ Acked(l)
    BY <1>1, <1>4, <1>6 DEF Once, InLane
  <2> QED
    BY <1>2, <2>1 DEF Once, InLane
<1>9. Done' \subseteq arrived'
  BY <1>1, <1>2 DEF Once
<1> QED
  BY <1>7, <1>8, <1>9 DEF Once

\* A message that is handled leaves the list of messages for a lane, or for good.
LEMMA HandledKeeps ==
  ASSUME TypeOK, Once, Handled
  PROVE  Once'
<1> DEFINE m == Head(unpackQ)
<1>1. /\ arrived' = arrived /\ Done' = Done /\ \A l \in Lane : Acked(l)' = Acked(l)
      /\ unpackQ # <<>> /\ unpackQ' = Tail(unpackQ)
  BY DEF Handled, Done
<1>2. /\ 1 \in DOMAIN unpackQ /\ m = unpackQ[1] /\ m \in Mid
      /\ \A i \in DOMAIN unpackQ' : /\ i \in Nat \ {0} /\ i + 1 \in DOMAIN unpackQ
                                    /\ unpackQ'[i] = unpackQ[i + 1]
  BY <1>1, LineType, ListOps
<1> HIDE DEF m
<1>3. Fresh'
  <2>1. \A i \in DOMAIN unpackQ' : unpackQ'[i] \in arrived' \ Done'
    BY <1>1, <1>2 DEF Once, Fresh
  <2>2. \A i, j \in DOMAIN unpackQ' : unpackQ'[i] = unpackQ'[j] => i = j
    BY <1>2 DEF Once, Fresh
  <2> QED
    BY <2>1, <2>2 DEF Fresh
<1>4. m \in arrived /\ m \notin Done /\ \A j \in DOMAIN unpackQ' : unpackQ'[j] # m
  BY <1>2 DEF Once, Fresh
<1>5. \A l \in Lane : \A i \in DOMAIN Line[l] :
         /\ Line[l][i] # m /\ Line[l][i] \in arrived
         /\ \A j \in DOMAIN unpackQ' : unpackQ'[j] # Line[l][i]
         /\ Line[l][i] \in Done => i = 1 /\ Acked(l)
  BY <1>2 DEF Once, InLane
<1>6. CASE Line' = Line
  <2>1. InLane'
    BY <1>1, <1>5, <1>6 DEF Once, InLane
  <2> QED
    BY <1>1, <1>3, <2>1 DEF Once
<1>7. ASSUME NEW k \in Lane, Line' = [Line EXCEPT ![k] = Append(Line[k], m)]
      PROVE  Once'
  <2>1. Line \in [Lane -> Seq(Mid)]
    BY LineType
  <2>2. ASSUME NEW l \in Lane, NEW i \in DOMAIN Line'[l]
        PROVE  IF l = k /\ i = Len(Line[k]) + 1 THEN Line'[l][i] = m
               ELSE i \in DOMAIN Line[l] /\ Line'[l][i] = Line[l][i]
    <3>1. CASE l = k
      <4>1. Line'[l] = Append(Line[k], m) /\ Line[k] \in Seq(Mid)
        BY <1>7, <2>1, <3>1
      <4> QED
        BY <1>2, <2>2, <3>1, <4>1, ListOps
    <3>2. CASE l # k
      BY <1>7, <2>1, <2>2, <3>2
    <3> QED
      BY <3>1, <3>2
  <2>3. ASSUME NEW l \in Lane, NEW i \in DOMAIN Line'[l]
        PROVE  /\ Line'[l][i] \in arrived'
               /\ \A j \in DOMAIN unpackQ' : unpackQ'[j] # Line'[l][i]
               /\ Line'[l][i] \in Done' => i = 1 /\ Acked(l)'
    BY <1>1, <1>4, <1>5, <2>2
  <2>4. ASSUME NEW j \in Lane, NEW l \in Lane, NEW a \in DOMAIN Line'[j], NEW b \in DOMAIN Line'[l],
               Line'[j][a] = Line'[l][b]
        PROVE  j = l /\ a = b
    BY <1>5, <2>2, <2>4 DEF Once, InLane
  <2>5. InLane'
    BY <2>3, <2>4 DEF InLane
  <2> QED
    BY <1>1, <1>3, <2>5 DEF Once
<1> QED
  BY <1>6, <1>7 DEF Handled, m

\* A lane goes on: only what is first in it is answered.
LEMMA ServedKeeps ==
  ASSUME TypeOK, Once, NEW l \in Lane, Served(l)
  PROVE  Once'
<1> DEFINE h == Line[l][1]
<1>1. Line \in [Lane -> Seq(Mid)] /\ arrived' = arrived /\ unpackQ' = unpackQ
  BY LineType DEF Served
<1>2. \A k \in Lane \ {l} : Acked(k)' = Acked(k)
  BY DEF Served
<1>3. Line[l] \in Seq(Mid)
  BY <1>1
<1>4. Line[l] # <<>> => 1 \in DOMAIN Line[l] /\ Head(Line[l]) = h /\ h \in Mid
  BY <1>3, ListOps
\* By how much the lane is moved on.
<1>5. PICK t \in {0, 1} :
        /\ IF t = 0 THEN Line' = Line
           ELSE Line[l] # <<>> /\ Line' = [Line EXCEPT ![l] = Tail(Line[l])]
        /\ \/ Done' = Done /\ (t = 0 /\ Acked(l) => Acked(l)')
           \/ /\ 1 \in DOMAIN Line[l] /\ ~Acked(l) /\ Done' = Done \union {h}
              /\ t = 0 => Acked(l)'
  <2>1. Answers' = Answers => Done' = Done
    BY DEF Done
  <2>2. Line[l] # <<>> /\ Answers' = Append(Answers, Head(Line[l])) => Done' = Done \union {h}
    BY <1>4, DoneGrows
  <2> HIDE DEF h
  <2>3. CASE Line' = Line /\ Answers' = Answers /\ (Acked(l) => Acked(l)')
    BY <2>1, <2>3
  <2>4. CASE /\ Line[l] # <<>> /\ Line' = [Line EXCEPT ![l] = Tail(Line[l])]
             /\ Answers' = Answers
    BY <2>1, <2>4
  <2>5. CASE /\ Line[l] # <<>> /\ ~Acked(l) /\ Answers' = Append(Answers, Head(Line[l]))
             /\ Line' = Line /\ Acked(l)'
    BY <1>4, <2>2, <2>5
  <2>6. CASE /\ Line[l] # <<>> /\ ~Acked(l) /\ Answers' = Append(Answers, Head(Line[l]))
             /\ Line' = [Line EXCEPT ![l] = Tail(Line[l])]
    BY <1>4, <2>2, <2>6
  <2> QED
    BY <2>3, <2>4, <2>5, <2>6 DEF Served
<1>6. ASSUME NEW k \in Lane, NEW i \in DOMAIN Line'[k]
      PROVE  /\ i \in Nat \ {0}
             /\ IF k = l /\ t = 1 THEN i + 1 \in DOMAIN Line[l] /\ Line'[l][i] = Line[l][i + 1]
                ELSE i \in DOMAIN Line[k] /\ Line'[k][i] = Line[k][i]
  <2>1. CASE k = l /\ t = 1
    <3>1. Line'[l] = Tail(Line[l]) /\ Line[l] # <<>>
      BY <1>1, <1>5, <2>1
    <3> QED
      BY <1>3, <1>6, <2>1, <3>1, ListOps
  <2>2. CASE ~(k = l /\ t = 1)
    <3>1. Line'[k] = Line[k] /\ Line[k] \in Seq(Mid)
      BY <1>1, <1>5, <2>2
    <3> QED
      BY <1>6, <2>2, <3>1, ListOps
  <2> QED
    BY <2>1, <2>2
<1> HIDE DEF h
<1>7. \A k \in Lane : \A i \in DOMAIN Line[k] : 1 \in DOMAIN Line[l] =>
         (Line[k][i] = h => k = l /\ i = 1)
  BY DEF Once, InLane, h
<1>8. Done' \subseteq arrived' /\ \A j \in DOMAIN unpackQ : unpackQ[j] \notin Done'
  <2>1. 1 \in DOMAIN Line[l] => h \in arrived /\ \A j \in DOMAIN unpackQ : unpackQ[j] # h
    BY DEF Once, InLane, h
  <2> QED
    BY <1>1, <1>5, <2>1 DEF Once, Fresh
<1>9. Fresh'
  BY <1>1, <1>8 DEF Once, Fresh
<1>10. ASSUME NEW k \in Lane, NEW i \in DOMAIN Line'[k]
       PROVE  /\ Line'[k][i] \in arrived
              /\ \A j \in DOMAIN unpackQ : unpackQ[j] # Line'[k][i]
  BY <1>6 DEF Once, InLane
<1>11. ASSUME NEW k \in Lane, NEW i \in DOMAIN Line'[k], Line'[k][i] \in Done'
       PROVE  i = 1 /\ Acked(k)'
  <2>1. CASE k = l /\ t = 1
    <3>1. i + 1 # 1 /\ i + 1 \in DOMAIN Line[l] /\ Line'[l][i] = Line[l][i + 1]
      BY <1>6, <2>1
    <3>2. Line[l][i + 1] \notin Done
      BY <3>1 DEF Once, InLane
    <3> QED
      BY <1>5, <1>7, <1>11, <2>1, <3>1, <3>2
  <2>2. CASE k = l /\ t = 0
    <3>1. i \in DOMAIN Line[l] /\ Line'[l][i] = Line[l][i]
      BY <1>6, <2>2
    <3>2. Line[l][i] \in Done => i = 1 /\ Acked(l)
      BY <3>1 DEF Once, InLane
    <3> QED
      BY <1>5, <1>7, <1>11, <2>2, <3>1, <3>2
  <2>3. CASE k # l
    <3>1. i \in DOMAIN Line[k] /\ Line'[k][i] = Line[k][i]
      BY <1>6, <2>3
    <3>2. Line[k][i] \in Done => i = 1 /\ Acked(k)
      BY <3>1 DEF Once, InLane
    <3> QED
      BY <1>2, <1>5, <1>7, <1>11, <2>3, <3>1, <3>2
  <2> QED
    BY <2>1, <2>2, <2>3
<1>12. ASSUME NEW j \in Lane, NEW k \in Lane, NEW a \in DOMAIN Line'[j], NEW b \in DOMAIN Line'[k],
              Line'[j][a] = Line'[k][b]
       PROVE  j = k /\ a = b
  <2> DEFINE x == IF j = l /\ t = 1 THEN a + 1 ELSE a
             y == IF k = l /\ t = 1 THEN b + 1 ELSE b
  <2>1. /\ x \in DOMAIN Line[j] /\ Line'[j][a] = Line[j][x]
        /\ y \in DOMAIN Line[k] /\ Line'[k][b] = Line[k][y]
        /\ a \in Nat \ {0} /\ b \in Nat \ {0}
    BY <1>6
  <2>2. j = k /\ x = y
    <3>1. \A u, v \in Lane : \A p \in DOMAIN Line[u], q \in DOMAIN Line[v] :
            Line[u][p] = Line[v][q] => u = v /\ p = q
      BY DEF Once, InLane
    <3>2. x \in DOMAIN Line[j] /\ y \in DOMAIN Line[k] /\ Line[j][x] = Line[k][y]
      BY <1>12, <2>1
    <3> HIDE DEF x, y
    <3> QED
      BY ONLY <3>1, <3>2, j \in Lane, k \in Lane
  <2> QED
    BY <2>1, <2>2
<1>13. InLane'
  BY <1>1, <1>10, <1>11, <1>12 DEF InLane
<1> QED
  BY <1>8, <1>9, <1>13 DEF Once

\* A command is in one place always.
LEMMA OnceStep ==
  ASSUME TypeOK, Once, Shape
  PROVE  Once'
<1>1. CASE Rests
  <2>1. Line' = Line /\ Done' = Done /\ arrived' = arrived /\ unpackQ' = unpackQ
        /\ \A l \in Lane : Acked(l)' = Acked(l)
    BY <1>1 DEF Rests, Done
  <2> QED
    BY <2>1 DEF Once, Fresh, InLane
<1> QED
  BY <1>1, ArrivesKeeps, HandledKeeps, ServedKeeps DEF Shape

-----------------------------------------------------------------------------
(* The lanes are implemented                                               *)

\* What has one of the shapes is a step of the lanes, or none.
LEMMA LanesStep ==
  ASSUME TypeOK, Once, Shape
  PROVE  [Lanes!Next]_(Lanes!vars)
<1>1. Line \in [Lane -> Seq(Mid)] /\ Answers \in Seq(Mid)
  BY LineType
<1>2. /\ Lanes!Answered = {m \in Mid : \E i \in DOMAIN Answers : Answers[i] = m}
      /\ Lanes!Waiting = {m \in Mid : \E l \in Lane : \E i \in DOMAIN Line[l] : Line[l][i] = m}
      /\ Lanes!vars = <<Line, Answers>>
  BY DEF Lanes!Answered, Lanes!Waiting, Lanes!vars, Line, LineOf, Answers
<1>3. CASE Line' = Line /\ Answers' = Answers
  BY <1>3 DEF Lanes!vars, Line, LineOf, Answers
<1>4. CASE Handled /\ ~(Line' = Line)
  <2>1. PICK l \in Lane : Line' = [Line EXCEPT ![l] = Append(Line[l], Head(unpackQ))]
    BY <1>4 DEF Handled
  <2>2. /\ Head(unpackQ) \in Mid /\ 1 \in DOMAIN unpackQ /\ Head(unpackQ) = unpackQ[1]
        /\ Answers' = Answers
    BY <1>4, LineType, ListOps DEF Handled
  <2>3. Head(unpackQ) \notin Lanes!Waiting \union Lanes!Answered
    BY <1>2, <2>2 DEF Once, Fresh, InLane, Done
  <2>4. Lanes!Admit(Head(unpackQ), l)
    BY <2>1, <2>2, <2>3 DEF Lanes!Admit, Line, LineOf, Answers
  <2> QED
    BY <2>2, <2>4 DEF Lanes!Next
<1>5. ASSUME NEW l \in Lane, Served(l), ~(Line' = Line /\ Answers' = Answers)
      PROVE  Lanes!Next
  <2>1. /\ Line[l] # <<>> /\ Line' \in {Line, [Line EXCEPT ![l] = Tail(Line[l])]}
        /\ \/ Answers' = Answers /\ Line' # Line
           \/ ~Acked(l) /\ Answers' = Append(Answers, Head(Line[l]))
    BY <1>5 DEF Served
  <2>2. CASE Answers' = Answers /\ Line' # Line
    <3>1. Lanes!Finish(l)
      BY <2>1, <2>2 DEF Lanes!Finish, Line, LineOf, Answers
    <3> QED
      BY <3>1 DEF Lanes!Next
  <2>3. CASE ~Acked(l) /\ Answers' = Append(Answers, Head(Line[l]))
    <3>1. Head(Line[l]) = Line[l][1] /\ 1 \in DOMAIN Line[l] /\ Line[l] \in Seq(Mid)
      BY <1>1, <2>1, ListOps
    <3>2. Head(Line[l]) \notin Lanes!Answered
      BY <1>2, <2>3, <3>1 DEF Once, InLane, Done
    <3>3. Lanes!Answer(l)
      BY <2>1, <2>3, <3>2 DEF Lanes!Answer, Line, LineOf, Answers
    <3> QED
      BY <3>3 DEF Lanes!Next
  <2> QED
    BY <2>1, <2>2, <2>3
<1> QED
  BY <1>3, <1>4, <1>5 DEF Shape, Arrives, Handled, Rests

\* Nothing is anywhere at the start.
LEMMA InitOnce == ASSUME Init PROVE Idle /\ Once /\ Lanes!Init
<1>1. Mids(<<>>) = <<>>
  BY DEF Mids
<1>2. LineOf(NoItem, <<>>) = <<>>
  BY <1>1 DEF LineOf
<1>3. \A l \in Lane : cur[l] = NoItem /\ taskQ[l] = <<>>
  BY DEF Init
<1>4. Line = [l \in Lane |-> <<>>] /\ Answers = <<>>
  BY <1>1, <1>2, <1>3 DEF Init, Line, Answers
<1>5. DOMAIN unpackQ = {} /\ DOMAIN Answers = {} /\ \A l \in Lane : DOMAIN Line[l] = {}
  BY <1>4 DEF Init
<1>6. Done = {}
  BY <1>5 DEF Done
<1>7. Once
  BY <1>5, <1>6 DEF Once, Fresh, InLane
<1>8. Idle
  BY <1>3 DEF Idle
<1>9. Lanes!Init
  BY <1>4 DEF Lanes!Init, Line, LineOf, Answers
<1> QED
  BY <1>7, <1>8, <1>9

\* The three threads serve their lanes in order, one command at a time, and answer
\* each at most once, only while it is in service: sg_bus_inter_thread, the queues
\* and the executing threads implement the lanes.
THEOREM LanesImplemented == Spec => ImplementsLanes
<1>1. Init => Idle /\ Once /\ Lanes!Init
  BY InitOnce
<1>2. TypeOK /\ Routed /\ Idle /\ Once /\ [Next]_vars => Idle' /\ Once' /\ [Lanes!Next]_(Lanes!vars)
  BY StepShape, IdleStep, OnceStep, LanesStep
<1> QED
  BY <1>1, <1>2, Inductive, PTL DEF Spec, ImplementsLanes, Lanes!Spec
=============================================================================
