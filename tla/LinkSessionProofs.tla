-------------------------- MODULE LinkSessionProofs --------------------------
(***************************************************************************)
(* Theorems about LinkSession, for every value of its constants.           *)
(***************************************************************************)
EXTENDS LinkSession, SequenceTheorems, FiniteSetTheorems, FunctionTheorems, TLAPS

\* A push keeps a queue a queue of requests within its depth.
LEMMA PushType ==
  ASSUME NEW q \in Seq(Request), Len(q) <= QUEUE_DEPTH_LEN, NEW x \in Request
  PROVE  Push(q, x) \in Seq(Request) /\ Len(Push(q, x)) <= QUEUE_DEPTH_LEN
<1>1. QUEUE_DEPTH_LEN \in Nat
  BY LinkAssumption
<1>2. QED
  BY <1>1 DEF Push

\* What is taken off a queue was a request, and what remains is a queue.
LEMMA PopType ==
  ASSUME NEW q \in Seq(Request), q # <<>>
  PROVE  /\ Head(q) \in Request
         /\ Tail(q) \in Seq(Request)
         /\ Len(Tail(q)) = Len(q) - 1
  OBVIOUS

\* The queues and channels start, and the channels end, empty.
LEMMA EmptyType == <<>> \in Seq(Request) /\ Len(<<>>) = 0
  OBVIOUS

\* A connection that ends leaves the channels well typed.
LEMMA ClearAirType ==
  ASSUME ClearAir
  PROVE  /\ uplink' \in Seq(Request) /\ downlink' \in Seq(Request)
         /\ (Len(uplink) + Len(downlink) <= AirCap)'
         /\ accepted' \in BOOLEAN
<1>1. uplink' = <<>> /\ downlink' = <<>> /\ accepted' = FALSE
  BY DEF ClearAir
<1>2. uplink' \in Seq(Request) /\ downlink' \in Seq(Request)
  BY ONLY <1>1, EmptyType
<1>3. (Len(uplink) + Len(downlink) <= AirCap)'
  BY ONLY <1>1, EmptyType, LinkAssumption
<1>4. QED
  BY <1>1, <1>2, <1>3

-----------------------------------------------------------------------------
(* Type correctness, one lemma per thread.                                 *)

\* The main thread keeps the types.
LEMMA MainTyped ==
  ASSUME TypeOK, MainStep \/ MainReboot
  PROVE  TypeOK'
<1> USE LinkAssumption DEF TypeOK, Places, At, Goto, Threads, Main, Insert, Inter, Pub, Heart,
        Paho, flags, heart, queues, outside, air, SetOffline,
        DEVICE_OFFLINE, DEVICE_ONLINE
<1>1. CASE MainInit            BY <1>1 DEF MainInit
<1>2. CASE MainConnected       BY <1>2, ClearAirType DEF MainConnected
<1>3. CASE MainRefused         BY <1>3 DEF MainRefused
<1>4. CASE MainOnline          BY <1>4 DEF MainOnline
<1>5. CASE MainSubscribed      BY <1>5 DEF MainSubscribed
<1>6. CASE MainSubscribeFailed BY <1>6 DEF MainSubscribeFailed
<1>7. CASE MainConfirm         BY <1>7 DEF MainConfirm
<1>8. CASE MainReconnect       BY <1>8 DEF MainReconnect
<1>9. CASE MainExit            BY <1>9, ClearAirType DEF MainExit
<1>10. CASE MainReboot         BY <1>10 DEF MainReboot
<1>11. QED
  BY <1>1, <1>2, <1>3, <1>4, <1>5, <1>6, <1>7, <1>8, <1>9, <1>10 DEF MainStep

\* The poll of the connection flag, by any of the four threads that loop.
LEMMA PollTyped ==
  ASSUME TypeOK,
         \/ InsertCheck \/ InsertDemote \/ HeartCheck \/ HeartDemote
         \/ InterCheck \/ InterDemote \/ PubCheck \/ PubDemote
  PROVE  TypeOK'
<1> USE LinkAssumption DEF TypeOK, Places, At, Goto, Threads, Main, Insert, Inter, Pub, Heart,
        Paho, heart, queues, outside, air, GetConnectFlag, DemoteFlag,
        DEVICE_OFFLINE, DEVICE_ONLINE
<1>1. CASE InsertCheck  BY <1>1 DEF InsertCheck
<1>2. CASE InsertDemote BY <1>2 DEF InsertDemote
<1>3. CASE HeartCheck   BY <1>3 DEF HeartCheck
<1>4. CASE HeartDemote  BY <1>4 DEF HeartDemote
<1>5. CASE InterCheck   BY <1>5 DEF InterCheck
<1>6. CASE InterDemote  BY <1>6 DEF InterDemote
<1>7. CASE PubCheck     BY <1>7 DEF PubCheck
<1>8. CASE PubDemote    BY <1>8 DEF PubDemote
<1>9. QED
  BY <1>1, <1>2, <1>3, <1>4, <1>5, <1>6, <1>7, <1>8

\* What the four threads do between two polls keeps the types.
LEMMA WorkTyped ==
  ASSUME TypeOK,
         \/ InsertTest \/ InsertAnnounce \/ InsertGiveUp
         \/ HeartSkip \/ HeartCount \/ HeartSend
         \/ InterHandle \/ PubPublish
  PROVE  TypeOK'
<1> USE LinkAssumption DEF TypeOK, Places, At, Goto, Threads, Main, Insert, Inter, Pub, Heart,
        Paho, flags, heart, queues, outside, air,
        DEVICE_OFFLINE, DEVICE_ONLINE
<1>1. CASE InsertTest BY <1>1 DEF InsertTest
<1>2. CASE InsertAnnounce
  <2>1. packQ' \in Seq(Request) /\ Len(packQ') <= QUEUE_DEPTH_LEN
    BY <1>2, PushType DEF InsertAnnounce, sg_push_pack_item, Request
  <2>2. QED
    BY <1>2, <2>1 DEF InsertAnnounce, sg_push_pack_item
<1>3. CASE InsertGiveUp BY <1>3 DEF InsertGiveUp
<1>4. CASE HeartSkip    BY <1>4 DEF HeartSkip
<1>5. CASE HeartCount   BY <1>5 DEF HeartCount
<1>6. CASE HeartSend
  <2>1. packQ' \in Seq(Request) /\ Len(packQ') <= QUEUE_DEPTH_LEN
    BY <1>6, PushType DEF HeartSend, sg_push_pack_item, Request
  <2>2. QED
    BY <1>6, <2>1 DEF HeartSend, sg_push_pack_item
<1>7. CASE InterHandle
  <2>1. unpackQ' \in Seq(Request) /\ Len(unpackQ') <= QUEUE_DEPTH_LEN
    BY <1>7, PopType DEF InterHandle
  <2>2. QED
    <3>1. /\ g_dev_access_flag' \in {DEVICE_OFFLINE, DEVICE_ONLINE}
          /\ g_heart_flag' \in {0, 1} /\ silent' \in Nat /\ g_heart_send_count' \in Nat
      BY <1>7 DEF InterHandle
    <3>2. /\ pc' \in [Threads -> Places]
          /\ pc'[Inter] = "check" /\ \A t \in Threads \ {Inter} : pc'[t] = pc[t]
      BY <1>7 DEF InterHandle
    <3>3. QED
      BY <1>7, <2>1, <3>1, <3>2 DEF InterHandle
<1>8. CASE PubPublish
  <2>1. packQ' \in Seq(Request) /\ Len(packQ') <= QUEUE_DEPTH_LEN
    BY <1>8, PopType DEF PubPublish
  <2>2. uplink' \in Seq(Request) /\ Len(uplink') + Len(downlink) <= AirCap
    <3>1. /\ Head(packQ) \in Request
          /\ uplink \in Seq(Request) /\ downlink \in Seq(Request)
          /\ AirCap \in Nat
      BY <1>8, PopType DEF PubPublish
    <3>2. CASE /\ uplink' = Append(uplink, Head(packQ))
               /\ Len(uplink) + Len(downlink) < AirCap
      BY ONLY <3>1, <3>2
    <3>3. CASE uplink' = uplink
      BY <3>3
    <3>4. QED
      BY <1>8, <3>2, <3>3 DEF PubPublish
  <2>3. QED
    BY <1>8, <2>1, <2>2 DEF PubPublish
<1>9. QED
  BY <1>1, <1>2, <1>3, <1>4, <1>5, <1>6, <1>7, <1>8

\* Callbacks, network and platform keep the types.
LEMMA OutsideTyped ==
  ASSUME TypeOK, PahoStep \/ Environment
  PROVE  TypeOK'
<1> USE LinkAssumption DEF TypeOK, Places, At, Goto, Threads, Main, Insert, Inter, Pub, Heart,
        Paho, flags, heart, queues, outside, air,
        DEVICE_OFFLINE, DEVICE_ONLINE
<1>1. CASE MsgArrvd
  <2>1. /\ Head(downlink) \in Request
        /\ downlink' \in Seq(Request)
        /\ Len(downlink') <= Len(downlink)
    BY <1>1, PopType DEF MsgArrvd
  <2>2. unpackQ' \in Seq(Request) /\ Len(unpackQ') <= QUEUE_DEPTH_LEN
    <3>1. /\ unpackQ \in Seq(Request) /\ Len(unpackQ) <= QUEUE_DEPTH_LEN
          /\ Head(downlink) \in Request
      BY <2>1
    <3>2. \/ unpackQ' = unpackQ
          \/ unpackQ' = Push(unpackQ, Head(downlink))
      BY <1>1 DEF MsgArrvd, sg_push_unpack_item
    <3>3. QED
      BY ONLY <3>1, <3>2, PushType
  <2>3. QED
    BY <1>1, <2>1, <2>2 DEF MsgArrvd, sg_push_unpack_item
<1>2. CASE ConnLost      BY <1>2 DEF ConnLost
<1>3. CASE ConnLostClear BY <1>3 DEF ConnLostClear
<1>4. CASE LinkDrop      BY <1>4, ClearAirType DEF LinkDrop
<1>5. CASE PlatformAnswer
  <2>1. /\ uplink' \in Seq(Request) /\ downlink' \in Seq(Request)
        /\ Len(uplink') + Len(downlink') <= AirCap
    BY <1>5, PopType DEF PlatformAnswer
  <2>2. accepted' \in BOOLEAN
    BY <1>5 DEF PlatformAnswer
  <2>3. QED
    BY <1>5, <2>1, <2>2 DEF PlatformAnswer
<1>6. CASE PlatformSilent
  <2>1. uplink' \in Seq(Request) /\ Len(uplink') + Len(downlink) <= AirCap
    BY <1>6, PopType DEF PlatformSilent
  <2>2. accepted' \in BOOLEAN
    BY <1>6 DEF PlatformSilent
  <2>3. QED
    BY <1>6, <2>1, <2>2 DEF PlatformSilent
<1>7. CASE Settle BY <1>7 DEF Settle
<1>8. QED
  BY <1>1, <1>2, <1>3, <1>4, <1>5, <1>6, <1>7 DEF PahoStep, Environment

\* The variables keep their types, and the queues their depth, whatever the
\* threads, the callbacks and the network do (all of LinkSession).
THEOREM TypeCorrect == Spec => []TypeOK
<1>1. Init => TypeOK
  <2> SUFFICES ASSUME Init PROVE TypeOK
    OBVIOUS
  <2> USE LinkAssumption, EmptyType DEF Init, Places, Threads, Main, Insert, Inter,
          Pub, Heart, Paho, DEVICE_OFFLINE, DEVICE_ONLINE
  <2>1. pc \in [Threads -> Places]
    OBVIOUS
  <2>2. /\ pc[Main] = "init" /\ pc[Paho] = "idle"
        /\ \A t \in {Insert, Inter, Pub, Heart} : pc[t] = "check"
    OBVIOUS
  <2>3. /\ uplink \in Seq(Request) /\ downlink \in Seq(Request)
        /\ Len(uplink) + Len(downlink) <= AirCap
    OBVIOUS
  <2>4. /\ packQ \in Seq(Request) /\ Len(packQ) <= QUEUE_DEPTH_LEN
        /\ unpackQ \in Seq(Request) /\ Len(unpackQ) <= QUEUE_DEPTH_LEN
    OBVIOUS
  <2>5. QED
    BY <2>1, <2>2, <2>3, <2>4 DEF TypeOK
<1>2. TypeOK /\ [Next]_vars => TypeOK'
  <2> SUFFICES ASSUME TypeOK, [Next]_vars PROVE TypeOK'
    OBVIOUS
  <2>1. CASE MainStep \/ MainReboot
    BY <2>1, MainTyped
  <2>2. CASE InsertStep \/ InsertGiveUp
    BY <2>2, PollTyped, WorkTyped DEF InsertStep
  <2>3. CASE HeartStep
    BY <2>3, PollTyped, WorkTyped DEF HeartStep
  <2>4. CASE InterStep
    BY <2>4, PollTyped, WorkTyped DEF InterStep
  <2>5. CASE PubStep
    BY <2>5, PollTyped, WorkTyped DEF PubStep
  <2>6. CASE PahoStep \/ Environment
    BY <2>6, OutsideTyped
  <2>7. CASE UNCHANGED vars
    BY <2>7 DEF vars, flags, heart, queues, outside, air, TypeOK
  <2>8. QED
    BY <2>1, <2>2, <2>3, <2>4, <2>5, <2>6, <2>7 DEF Next
<1>3. QED
  BY <1>1, <1>2, PTL DEF Spec

-----------------------------------------------------------------------------
(* The bound on heartbeats sent into silence.                              *)

\* Why it holds.  The count never passes HEART_MAX_COUNT + 1, and not even
\* HEART_MAX_COUNT while a heartbeat is about to be queued.  The count lags
\* behind the silence by at most the one heartbeat that was about to be queued
\* when the last answer came in; until the timer has seen that answer, no
\* other can have been queued.
CountInv ==
  /\ g_heart_send_count <= HEART_MAX_COUNT + 1
  /\ At(Heart, "send") => g_heart_send_count <= HEART_MAX_COUNT
  /\ g_heart_flag = 0 => silent <= g_heart_send_count + 1
  /\ g_heart_flag = 1 => silent <= (IF At(Heart, "send") THEN 0 ELSE 1)

\* Only the timer and the answer handler touch what CountInv speaks of.
LEMMA CountInvStep ==
  ASSUME TypeOK, CountInv, [Next]_vars
  PROVE  CountInv'
<1> USE LinkAssumption DEF TypeOK, Places, CountInv, At, Goto, Threads, Main, Insert, Inter,
        Pub, Heart, Paho, flags, heart
<1>1. CASE MainStep \/ MainReboot
  <2>1. UNCHANGED heart /\ pc'[Heart] = pc[Heart]
    <3>1. CASE MainInit \/ MainConnected \/ MainRefused
      BY <3>1 DEF MainInit, MainConnected, MainRefused
    <3>2. CASE MainOnline \/ MainSubscribed \/ MainSubscribeFailed
      BY <3>2 DEF MainOnline, MainSubscribed, MainSubscribeFailed
    <3>3. CASE MainConfirm \/ MainReconnect
      BY <3>3 DEF MainConfirm, MainReconnect
    <3>4. CASE MainExit \/ MainReboot
      BY <3>4 DEF MainExit, MainReboot
    <3>5. QED
      BY <1>1, <3>1, <3>2, <3>3, <3>4 DEF MainStep
  <2>2. QED
    BY <2>1
<1>2. CASE InsertStep \/ InsertGiveUp
  BY <1>2 DEF InsertStep, InsertCheck, InsertDemote, InsertTest, InsertAnnounce,
     InsertGiveUp, GetConnectFlag, DemoteFlag
<1>3. CASE HeartStep
  <2>1. CASE HeartCheck  BY <2>1 DEF HeartCheck, GetConnectFlag
  <2>2. CASE HeartDemote BY <2>2 DEF HeartDemote, DemoteFlag
  <2>3. CASE HeartSkip   BY <2>3 DEF HeartSkip
  <2>4. CASE HeartCount  BY <2>4 DEF HeartCount
  <2>5. CASE HeartSend   BY <2>5 DEF HeartSend
  <2>6. QED
    BY <1>3, <2>1, <2>2, <2>3, <2>4, <2>5 DEF HeartStep
<1>4. CASE InterStep
  BY <1>4 DEF InterStep, InterCheck, InterDemote, InterHandle, GetConnectFlag,
     DemoteFlag
<1>5. CASE PubStep
  BY <1>5 DEF PubStep, PubCheck, PubDemote, PubPublish, GetConnectFlag, DemoteFlag
<1>6. CASE PahoStep \/ Environment
  BY <1>6 DEF PahoStep, MsgArrvd, ConnLost, ConnLostClear, Environment, LinkDrop,
     PlatformAnswer, PlatformSilent, Settle
<1>7. CASE UNCHANGED vars
  BY <1>7 DEF vars
<1>8. QED
  BY <1>1, <1>2, <1>3, <1>4, <1>5, <1>6, <1>7 DEF Next

\* The device queues at most HEART_MAX_COUNT + 2 heartbeats after the last
\* answer it was given (the counter of sg_timer_heart_callback against the
\* flag that sg_dev_res_data_unpack sets).
THEOREM SilenceIsBounded == Spec => []SilenceBounded
<1>1. Init => CountInv
  BY LinkAssumption DEF Init, CountInv, At, Heart, Threads
<1>2. TypeOK /\ CountInv /\ [Next]_vars => CountInv'
  BY CountInvStep
<1>3. TypeOK /\ CountInv => SilenceBounded
  BY LinkAssumption DEF TypeOK, CountInv, SilenceBounded
<1>4. QED
  BY <1>1, <1>2, <1>3, TypeCorrect, PTL DEF Spec
-----------------------------------------------------------------------------
(* How often a message occurs in a queue                                   *)

\* In two queues together a message occurs as often as in each.
LEMMA OccursConcat ==
  ASSUME NEW s \in Seq(Request), NEW t \in Seq(Request), NEW m
  PROVE  /\ Occurrences(s, m) \in Nat
         /\ Occurrences(s \o t, m) = Occurrences(s, m) + Occurrences(t, m)
<1> DEFINE I == {i \in 1 .. Len(s) : s[i] = m}
           J == {i \in 1 .. Len(t) : t[i] = m}
           shifted == {i \in Len(s) + 1 .. Len(s) + Len(t) : t[i - Len(s)] = m}
           shift   == [j \in J |-> Len(s) + j]
<1>1. Len(s) \in Nat /\ Len(t) \in Nat /\ DOMAIN s = 1 .. Len(s) /\ DOMAIN t = 1 .. Len(t)
  OBVIOUS
<1>2. /\ DOMAIN (s \o t) = 1 .. Len(s) + Len(t)
      /\ \A i \in 1 .. Len(s) + Len(t) :
           (s \o t)[i] = IF i <= Len(s) THEN s[i] ELSE t[i - Len(s)]
  BY ConcatProperties
<1>3. {i \in DOMAIN (s \o t) : (s \o t)[i] = m} = I \union shifted
  BY <1>1, <1>2
<1>4. IsFiniteSet(I) /\ IsFiniteSet(J) /\ IsFiniteSet(shifted)
  <2>1. /\ I \subseteq 1 .. Len(s) /\ J \subseteq 1 .. Len(t)
        /\ shifted \subseteq Len(s) + 1 .. Len(s) + Len(t)
    OBVIOUS
  <2>2. /\ IsFiniteSet(1 .. Len(s)) /\ IsFiniteSet(1 .. Len(t))
        /\ IsFiniteSet(Len(s) + 1 .. Len(s) + Len(t))
    BY <1>1, FS_Interval
  <2> HIDE DEF I, J, shifted
  <2> QED
    BY <2>1, <2>2, FS_Subset
<1>5. Cardinality(shifted) = Cardinality(J)
  <2>1. shift \in Bijection(J, shifted)
    <3>1. shift \in [J -> shifted]
      BY <1>1
    <3>2. \A a, b \in J : shift[a] = shift[b] => a = b
      BY <1>1
    <3>3. \A i \in shifted : i - Len(s) \in J /\ shift[i - Len(s)] = i
      BY <1>1
    <3> HIDE DEF J, shifted, shift
    <3>4. \A i \in shifted : \E a \in J : shift[a] = i
      BY <3>3
    <3> QED
      BY <3>1, <3>2, <3>4, Fun_IsBij
  <2> QED
    BY <1>4, <2>1, FS_Bijection DEF ExistsBijection
<1>6. I \intersect shifted = {}
  BY <1>1
<1>7. Cardinality(I) \in Nat /\ Cardinality(shifted) \in Nat
  BY <1>4, FS_CardinalityType
<1> HIDE DEF I, J, shifted, shift
<1>8. Cardinality(I \union shifted) = Cardinality(I) + Cardinality(shifted)
  <2>1. Cardinality(I \union shifted)
          = Cardinality(I) + Cardinality(shifted) - Cardinality(I \intersect shifted)
    BY <1>4, FS_Union
  <2>2. Cardinality(I \intersect shifted) = 0
    BY <1>6, FS_EmptySet
  <2> QED
    BY <1>7, <2>1, <2>2
<1>9. Occurrences(s, m) = Cardinality(I) /\ Occurrences(t, m) = Cardinality(J)
  BY <1>1 DEF Occurrences, I, J
<1> QED
  BY <1>3, <1>5, <1>7, <1>8, <1>9 DEF Occurrences

\* In a queue of one.
LEMMA OccursOne ==
  ASSUME NEW x \in Request, NEW m
  PROVE  Occurrences(<<x>>, m) = IF x = m THEN 1 ELSE 0
<1>1. DOMAIN <<x>> = {1} /\ <<x>>[1] = x
  OBVIOUS
<1>2. {i \in DOMAIN <<x>> : <<x>>[i] = m} = IF x = m THEN {1} ELSE {}
  BY <1>1
<1> QED
  BY <1>2, FS_EmptySet, FS_Singleton DEF Occurrences

\* In an empty queue.
LEMMA OccursNone == ASSUME NEW m PROVE Occurrences(<<>>, m) = 0
<1>1. {i \in DOMAIN <<>> : <<>>[i] = m} = {}
  OBVIOUS
<1> QED
  BY <1>1, FS_EmptySet DEF Occurrences

Linkups(q) == Occurrences(q, "linkup")
Counts(x)  == IF x = "linkup" THEN 1 ELSE 0

\* What is put in a queue, and what is taken out, is counted.
LEMMA LinkupsCounted ==
  ASSUME NEW q \in Seq(Request)
  PROVE  /\ Linkups(q) \in Nat
         /\ \A x \in Request : Linkups(Append(q, x)) = Linkups(q) + Counts(x)
         /\ \A x \in Request : Linkups(Push(q, x)) \in {Linkups(q), Linkups(q) + Counts(x)}
         /\ q # <<>> => Linkups(Tail(q)) = Linkups(q) - Counts(Head(q))
<1>1. Linkups(q) \in Nat
  BY OccursConcat DEF Linkups
<1>2. ASSUME NEW x \in Request PROVE Linkups(Append(q, x)) = Linkups(q) + Counts(x)
  <2>1. Append(q, x) = q \o <<x>> /\ <<x>> \in Seq(Request)
    BY AppendIsConcat
  <2>2. Occurrences(q \o <<x>>, "linkup") = Occurrences(q, "linkup") + Occurrences(<<x>>, "linkup")
    BY <2>1, OccursConcat
  <2>3. Occurrences(<<x>>, "linkup") = Counts(x)
    BY OccursOne DEF Counts
  <2> QED
    BY <2>1, <2>2, <2>3 DEF Linkups
<1>3. ASSUME q # <<>> PROVE Linkups(Tail(q)) = Linkups(q) - Counts(Head(q))
  <2>1. Head(q) \in Request /\ Tail(q) \in Seq(Request) /\ <<Head(q)>> \in Seq(Request)
    BY <1>3
  <2>2. q = <<Head(q)>> \o Tail(q)
    BY <1>3, <2>1
  <2>3. Linkups(<<Head(q)>> \o Tail(q)) = Counts(Head(q)) + Linkups(Tail(q))
    <3>1. Occurrences(<<Head(q)>> \o Tail(q), "linkup")
            = Occurrences(<<Head(q)>>, "linkup") + Occurrences(Tail(q), "linkup")
      BY <2>1, OccursConcat
    <3>2. Occurrences(<<Head(q)>>, "linkup") = Counts(Head(q))
      BY <2>1, OccursOne DEF Counts
    <3> QED
      BY <3>1, <3>2 DEF Linkups
  <2>4. Linkups(Tail(q)) \in Nat /\ Counts(Head(q)) \in Nat
    BY <2>1, OccursConcat DEF Linkups, Counts
  <2>5. Linkups(q) = Counts(Head(q)) + Linkups(Tail(q))
    BY <2>2, <2>3
  <2> QED
    BY <2>4, <2>5
<1> QED
  BY <1>1, <1>2, <1>3 DEF Push

-----------------------------------------------------------------------------
(* The access protocol is implemented                                      *)

Online  == g_dev_access_flag = DEVICE_ONLINE
Asked   == Linkups(packQ) + Linkups(uplink)
Replied == Linkups(unpackQ) + Linkups(downlink)

\* What the session may do to the access protocol's variables in a step.
Allowed ==
  \/ Online' = Online /\ Asked' = Asked + 1 /\ Replied' = Replied
  \/ Online' = Online /\ Asked > 0 /\ Asked' = Asked - 1 /\ Replied' = Replied + 1
  \/ Online' = TRUE /\ Asked' = Asked /\ Replied > 0 /\ Replied' = Replied - 1
  \/ (Online' => Online) /\ Asked' \in 0 .. Asked /\ Replied' \in 0 .. Replied

\* Those are the protocol's steps.
LEMMA AllowedIsProtocol ==
  ASSUME TypeOK, TypeOK', Allowed
  PROVE  [Access!Next]_(Access!vars)
<1>1. /\ Asked = Occurrences(packQ \o uplink, "linkup")
      /\ Replied = Occurrences(unpackQ \o downlink, "linkup")
  BY OccursConcat DEF TypeOK, Asked, Replied, Linkups
<1>2. /\ Asked' = Occurrences(packQ' \o uplink', "linkup")
      /\ Replied' = Occurrences(unpackQ' \o downlink', "linkup")
  BY OccursConcat DEF TypeOK, Asked, Replied, Linkups
<1>3. (Online' => Online) => Online' \in {Online, FALSE}
  BY DEF Online
<1> QED
  BY <1>1, <1>2, <1>3 DEF Allowed, Online, Access!Next, Access!Ask, Access!Grant, Access!Accept, Access!Lose

\* The queues and the ways as natural numbers.
LEMMA AskedType ==
  ASSUME TypeOK
  PROVE  /\ Linkups(packQ) \in Nat /\ Linkups(uplink) \in Nat
         /\ Linkups(unpackQ) \in Nat /\ Linkups(downlink) \in Nat
         /\ Asked \in Nat /\ Replied \in Nat
BY LinkupsCounted DEF TypeOK, Asked, Replied

\* A thread or a callback that queues nothing and only takes the device offline.
LEMMA FlagsOnly ==
  ASSUME TypeOK, UNCHANGED <<queues, uplink, downlink>>, Online' => Online
  PROVE  Allowed
<1>1. Asked' = Asked /\ Replied' = Replied
  BY DEF Asked, Replied, queues
<1> QED
  BY <1>1, AskedType DEF Allowed

\* A connection that ends takes with it what is on the way.
LEMMA AirCleared ==
  ASSUME TypeOK, ClearAir, UNCHANGED queues, Online' => Online
  PROVE  Allowed
<1>1. Linkups(uplink') = 0 /\ Linkups(downlink') = 0
  BY OccursNone DEF ClearAir, Linkups
<1>2. Asked' \in 0 .. Asked /\ Replied' \in 0 .. Replied
  BY <1>1, AskedType DEF Asked, Replied, queues
<1> QED
  BY <1>2 DEF Allowed

\* Every step of the session is one of the protocol, or none.
LEMMA AccessStep ==
  ASSUME TypeOK, [Next]_vars
  PROVE  Allowed
<1> USE DEF flags, heart, queues, outside, air, Online, SetOffline, DEVICE_OFFLINE, DEVICE_ONLINE
<1>1. CASE MainConnected \/ MainExit
  BY <1>1, AirCleared DEF MainConnected, MainExit
<1>2. CASE \/ MainInit \/ MainRefused \/ MainOnline \/ MainSubscribed \/ MainSubscribeFailed
           \/ MainConfirm \/ MainReconnect \/ MainReboot
  <2>1. UNCHANGED <<queues, uplink, downlink>>
    BY <1>2 DEF MainInit, MainRefused, MainOnline, MainSubscribed, MainSubscribeFailed,
       MainConfirm, MainReconnect, MainReboot
  <2>2. g_dev_access_flag' \in {g_dev_access_flag, DEVICE_OFFLINE}
    BY <1>2 DEF MainInit, MainRefused, MainOnline, MainSubscribed, MainSubscribeFailed,
       MainConfirm, MainReconnect, MainReboot
  <2> QED
    BY <2>1, <2>2, FlagsOnly
<1>3. CASE \/ InsertCheck \/ InsertDemote \/ HeartCheck \/ HeartDemote
           \/ InterCheck \/ InterDemote \/ PubCheck \/ PubDemote
  BY <1>3, FlagsOnly DEF InsertCheck, InsertDemote, HeartCheck, HeartDemote, InterCheck,
     InterDemote, PubCheck, PubDemote, GetConnectFlag, DemoteFlag
<1>4. CASE InsertTest \/ InsertGiveUp \/ HeartSkip \/ HeartCount
  BY <1>4, FlagsOnly DEF InsertTest, InsertGiveUp, HeartSkip, HeartCount
<1>5. CASE InsertAnnounce \/ HeartSend
  <2>1. UNCHANGED <<unpackQ, uplink, downlink, g_dev_access_flag>>
    BY <1>5 DEF InsertAnnounce, HeartSend, sg_push_pack_item
  <2>2. packQ' \in {packQ, Push(packQ, "linkup"), Push(packQ, "heartbeat")}
    BY <1>5 DEF InsertAnnounce, HeartSend, sg_push_pack_item
  <2>3. Linkups(packQ') \in {Linkups(packQ), Linkups(packQ) + 1}
    BY <2>2, LinkupsCounted, AskedType DEF TypeOK, Request, Counts
  <2>4. Asked' \in {Asked, Asked + 1} /\ Replied' = Replied
    BY <2>1, <2>3, AskedType DEF Asked, Replied
  <2> QED
    BY <2>1, <2>4, AskedType DEF Allowed
<1>6. CASE InterHandle
  <2>1. /\ unpackQ # <<>> /\ unpackQ' = Tail(unpackQ) /\ UNCHANGED <<packQ, uplink, downlink>>
        /\ \/ Head(unpackQ) = "linkup" /\ Online'
           \/ Head(unpackQ) = "heartbeat" /\ Online' = Online
    BY <1>6 DEF InterHandle
  <2>2. Linkups(unpackQ') = Linkups(unpackQ) - Counts(Head(unpackQ)) /\ Linkups(unpackQ') \in Nat
    BY <2>1, LinkupsCounted, PopType DEF TypeOK
  <2>3. Asked' = Asked
    BY <2>1 DEF Asked
  <2>4. CASE Head(unpackQ) = "linkup" /\ Online'
    <3>1. Replied > 0 /\ Replied' = Replied - 1
      BY <2>1, <2>2, <2>4, AskedType DEF Replied, Counts
    <3> QED
      BY <2>3, <2>4, <3>1 DEF Allowed
  <2>5. CASE Head(unpackQ) = "heartbeat" /\ Online' = Online
    <3>1. Replied' = Replied
      BY <2>1, <2>2, <2>5, AskedType DEF Replied, Counts
    <3> QED
      BY <2>3, <2>5, <3>1, AskedType DEF Allowed
  <2> QED
    BY <2>1, <2>4, <2>5
<1>7. CASE PubPublish
  <2>1. /\ packQ # <<>> /\ packQ' = Tail(packQ) /\ UNCHANGED <<unpackQ, downlink, g_dev_access_flag>>
        /\ uplink' \in {uplink, Append(uplink, Head(packQ))}
    BY <1>7 DEF PubPublish
  <2>2. Head(packQ) \in Request /\ Counts(Head(packQ)) \in {0, 1}
    BY <2>1, PopType DEF TypeOK, Counts
  <2>3. /\ Linkups(packQ') = Linkups(packQ) - Counts(Head(packQ)) /\ Linkups(packQ') \in Nat
        /\ Linkups(uplink') \in {Linkups(uplink), Linkups(uplink) + Counts(Head(packQ))}
    BY <2>1, <2>2, LinkupsCounted, PopType DEF TypeOK
  <2>4. Asked' \in 0 .. Asked /\ Replied' = Replied
    BY <2>1, <2>2, <2>3, AskedType DEF Asked, Replied
  <2> QED
    BY <2>1, <2>4, AskedType DEF Allowed
<1>8. CASE MsgArrvd
  <2>1. /\ downlink # <<>> /\ downlink' = Tail(downlink)
        /\ UNCHANGED <<packQ, uplink, g_dev_access_flag>>
        /\ unpackQ' \in {unpackQ, Push(unpackQ, Head(downlink))}
    BY <1>8 DEF MsgArrvd, sg_push_unpack_item
  <2>2. Head(downlink) \in Request /\ Counts(Head(downlink)) \in {0, 1}
    BY <2>1, PopType DEF TypeOK, Counts
  <2>3. /\ Linkups(downlink') = Linkups(downlink) - Counts(Head(downlink))
        /\ Linkups(downlink') \in Nat
        /\ Linkups(unpackQ') \in {Linkups(unpackQ), Linkups(unpackQ) + Counts(Head(downlink))}
    BY <2>1, <2>2, LinkupsCounted, PopType DEF TypeOK
  <2>4. Replied' \in 0 .. Replied /\ Asked' = Asked
    BY <2>1, <2>2, <2>3, AskedType DEF Asked, Replied
  <2> QED
    BY <2>1, <2>4, AskedType DEF Allowed
<1>9. CASE ConnLost \/ ConnLostClear \/ Settle
  BY <1>9, FlagsOnly DEF ConnLost, ConnLostClear, Settle
<1>10. CASE LinkDrop
  BY <1>10, AirCleared DEF LinkDrop
<1>11. CASE PlatformAnswer \/ PlatformSilent
  <2>1. /\ uplink # <<>> /\ uplink' = Tail(uplink)
        /\ UNCHANGED <<packQ, unpackQ, g_dev_access_flag>>
        /\ \/ downlink' = downlink
           \/ downlink' = Append(downlink, Head(uplink))
    BY <1>11 DEF PlatformAnswer, PlatformSilent
  <2>2. Head(uplink) \in Request /\ Counts(Head(uplink)) \in {0, 1}
    BY <2>1, PopType DEF TypeOK, Counts
  <2>3. /\ Linkups(uplink') = Linkups(uplink) - Counts(Head(uplink)) /\ Linkups(uplink') \in Nat
        /\ Linkups(downlink') \in {Linkups(downlink), Linkups(downlink) + Counts(Head(uplink))}
    BY <2>1, <2>2, LinkupsCounted, PopType DEF TypeOK
  <2>4. Online' = Online /\ Linkups(packQ') = Linkups(packQ) /\ Linkups(unpackQ') = Linkups(unpackQ)
    BY <2>1
  <2>5. CASE Linkups(downlink') = Linkups(downlink)
    <3>1. Asked' \in 0 .. Asked /\ Replied' = Replied
      BY <2>2, <2>3, <2>4, <2>5, AskedType DEF Asked, Replied
    <3> QED
      BY <2>4, <3>1, AskedType DEF Allowed
  <2>6. CASE Counts(Head(uplink)) = 1 /\ Linkups(downlink') = Linkups(downlink) + 1
    <3>1. Asked > 0 /\ Asked' = Asked - 1 /\ Replied' = Replied + 1
      BY <2>3, <2>4, <2>6, AskedType DEF Asked, Replied
    <3> QED
      BY <2>4, <3>1 DEF Allowed
  <2> QED
    BY <2>2, <2>3, <2>5, <2>6, AskedType
<1>12. CASE UNCHANGED vars
  BY <1>12, FlagsOnly DEF vars
<1> QED
  BY <1>1, <1>2, <1>3, <1>4, <1>5, <1>6, <1>7, <1>8, <1>9, <1>10, <1>11, <1>12
     DEF Next, MainStep, InsertStep, HeartStep, InterStep, PubStep, PahoStep, Environment

\* The session implements the access protocol: whatever the threads, the callbacks
\* and the network do, the flag goes online only on an answer to a linkup that was
\* queued, and none counts twice.
THEOREM AccessImplemented == Spec => ImplementsAccess
<1>1. Init => Access!Init
  <2> SUFFICES ASSUME Init PROVE Access!Init
    OBVIOUS
  <2>1. /\ Occurrences(packQ \o uplink, "linkup") = 0
        /\ Occurrences(unpackQ \o downlink, "linkup") = 0
    BY EmptyType, OccursConcat, OccursNone DEF Init
  <2> QED
    BY <2>1 DEF Init, Access!Init, DEVICE_OFFLINE, DEVICE_ONLINE
<1>2. TypeOK /\ TypeOK' /\ [Next]_vars => [Access!Next]_(Access!vars)
  BY AccessStep, AllowedIsProtocol
<1> QED
  BY <1>1, <1>2, TypeCorrect, PTL DEF Spec, ImplementsAccess, Access!Spec
=============================================================================
