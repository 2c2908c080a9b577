--------------------------- MODULE LifecycleProofs ---------------------------
(***************************************************************************)
(* Theorems about Lifecycle, for any number of failures, of errors and of  *)
(* commands.                                                               *)
(***************************************************************************)
EXTENDS Lifecycle, SequenceTheorems, TLAPS

-----------------------------------------------------------------------------
(* Lists                                                                   *)

\* What two lists hold together.
LEMMA ToSetConcat ==
  ASSUME NEW S, NEW s \in Seq(S), NEW t \in Seq(S)
  PROVE  ToSet(s \o t) = ToSet(s) \union ToSet(t)
<1>1. /\ s \o t \in Seq(S) /\ Len(s \o t) = Len(s) + Len(t)
      /\ \A i \in 1 .. Len(s) + Len(t) :
           (s \o t)[i] = IF i <= Len(s) THEN s[i] ELSE t[i - Len(s)]
  BY ConcatProperties
<1>2. DOMAIN (s \o t) = 1 .. Len(s) + Len(t) /\ DOMAIN s = 1 .. Len(s) /\ DOMAIN t = 1 .. Len(t)
  BY <1>1
<1>3. ASSUME NEW i \in 1 .. Len(t) PROVE (s \o t)[Len(s) + i] = t[i]
  BY <1>1
<1>4. ASSUME NEW i \in 1 .. Len(s) PROVE (s \o t)[i] = s[i]
  BY <1>1
<1>5. ToSet(s) \subseteq ToSet(s \o t)
  BY <1>2, <1>4 DEF ToSet
<1>6. ToSet(t) \subseteq ToSet(s \o t)
  <2>1. ASSUME NEW i \in 1 .. Len(t) PROVE t[i] \in ToSet(s \o t)
    <3>1. Len(s) + i \in 1 .. Len(s) + Len(t)
      OBVIOUS
    <3> QED
      BY <1>2, <1>3, <3>1 DEF ToSet
  <2> QED
    BY <1>2, <2>1 DEF ToSet
<1>7. ToSet(s \o t) \subseteq ToSet(s) \union ToSet(t)
  <2>1. ASSUME NEW i \in 1 .. Len(s) + Len(t) PROVE (s \o t)[i] \in ToSet(s) \union ToSet(t)
    <3>1. CASE i <= Len(s)
      BY <1>1, <1>2, <3>1 DEF ToSet
    <3>2. CASE ~(i <= Len(s))
      <4>1. i - Len(s) \in 1 .. Len(t) /\ (s \o t)[i] = t[i - Len(s)]
        BY <1>1, <3>2
      <4> QED
        BY <1>2, <4>1 DEF ToSet
    <3> QED
      BY <3>1, <3>2
  <2> QED
    BY <1>2, <2>1 DEF ToSet
<1> QED
  BY <1>5, <1>6, <1>7

\* In a list, x comes before everything that is not of a set.
Ahead(s, set, x) ==
  /\ x \in ToSet(s)
  /\ \A i \in 1 .. Len(s) : s[i] \notin set => \E j \in 1 .. i - 1 : s[j] = x

\* It does if there is nothing else in the list.
LEMMA AheadOfNone ==
  ASSUME NEW S, NEW s \in Seq(S), NEW x \in ToSet(s), NEW set, ToSet(s) \subseteq set
  PROVE  Ahead(s, set, x)
BY DEF Ahead, ToSet

\* It does so still if the list goes on.
LEMMA AheadConcat ==
  ASSUME NEW S, NEW s \in Seq(S), NEW t \in Seq(S), NEW set, NEW x, Ahead(s, set, x)
  PROVE  Ahead(s \o t, set, x)
<1>1. /\ s \o t \in Seq(S) /\ Len(s \o t) = Len(s) + Len(t)
      /\ \A i \in 1 .. Len(s) + Len(t) :
           (s \o t)[i] = IF i <= Len(s) THEN s[i] ELSE t[i - Len(s)]
  BY ConcatProperties
<1>2. x \in ToSet(s \o t)
  BY ToSetConcat DEF Ahead
<1>3. PICK n \in 1 .. Len(s) : s[n] = x
  BY DEF Ahead, ToSet
<1>4. ASSUME NEW i \in 1 .. Len(s \o t), (s \o t)[i] \notin set
      PROVE  \E j \in 1 .. i - 1 : (s \o t)[j] = x
  <2>1. CASE i <= Len(s)
    <3>1. i \in 1 .. Len(s) /\ s[i] \notin set
      BY <1>1, <1>4, <2>1
    <3>2. PICK j \in 1 .. i - 1 : s[j] = x
      BY <3>1 DEF Ahead
    <3> QED
      BY <1>1, <2>1, <3>2
  <2>2. CASE ~(i <= Len(s))
    BY <1>1, <1>3, <2>2
  <2> QED
    BY <2>1, <2>2
<1> QED
  BY <1>2, <1>4 DEF Ahead

\* The queues, the threads and the timers, as sets.
QueueSet      == {"unpack", "pack", "dev", "container", "app", "result"}
TimerSet      == {"heart", "dev_timer", "container_timer", "app_timer"}
TaskSet(mode) == {"insert", "poly", "interact", "exe_dev", "exe_con", "exe_app", "event"}
                   \union ToSet(Link(mode))
Names == QueueSet \union TimerSet \union AtOnce
           \union {"insert", "poly", "interact", "exe_dev", "exe_con", "exe_app", "event"}
           \union {"rpc_read", "rpc_write", "mqtt_pub"}

\* What a list of four holds, of six, and of seven.
LEMMA SetOfList ==
  ASSUME NEW s
  PROVE  /\ DOMAIN s = 1 .. 4 => ToSet(s) = {s[1], s[2], s[3], s[4]}
         /\ DOMAIN s = 1 .. 6 => ToSet(s) = {s[1], s[2], s[3], s[4], s[5], s[6]}
         /\ DOMAIN s = 1 .. 7 => ToSet(s) = {s[1], s[2], s[3], s[4], s[5], s[6], s[7]}
<1>1. /\ 1 .. 4 = {1, 2, 3, 4} /\ 1 .. 6 = {1, 2, 3, 4, 5, 6}
      /\ 1 .. 7 = {1, 2, 3, 4, 5, 6, 7}
  OBVIOUS
<1> QED
  BY <1>1 DEF ToSet

\* What is in the lists, and that they are lists.
LEMMA ListSets ==
  /\ ToSet(Queues) = QueueSet /\ ToSet(Timers) = TimerSet
  /\ Queues \in Seq(Names) /\ Timers \in Seq(Names)
  /\ \A mode \in Mode :
       /\ CreateTasks(mode) \in Seq(Names) /\ DestroyTasks(mode) \in Seq(Names)
       /\ ToSet(CreateTasks(mode)) = TaskSet(mode)
       /\ ToSet(DestroyTasks(mode)) = TaskSet(mode)
       /\ ToSet(Link(mode)) \subseteq {"rpc_read", "rpc_write", "mqtt_pub"}
       /\ InitList(mode) \in Seq(Names) /\ ExitList(mode) \in Seq(Names)
       /\ ToSet(InitList(mode)) = QueueSet \union TaskSet(mode) \union AtOnce \union TimerSet
       /\ ToSet(ExitList(mode)) = QueueSet \union TaskSet(mode) \union TimerSet
<1>0. /\ "unpack" \in Names /\ "pack" \in Names /\ "dev" \in Names
      /\ "container" \in Names /\ "app" \in Names /\ "result" \in Names
      /\ "heart" \in Names /\ "dev_timer" \in Names
      /\ "container_timer" \in Names /\ "app_timer" \in Names
      /\ "insert" \in Names /\ "poly" \in Names /\ "interact" \in Names /\ "exe_dev" \in Names
      /\ "exe_con" \in Names /\ "exe_app" \in Names /\ "event" \in Names
      /\ "rpc_read" \in Names /\ "rpc_write" \in Names /\ "mqtt_pub" \in Names
      /\ "timer_task" \in Names /\ "timer_queue" \in Names
  BY DEF Names, AtOnce, QueueSet, TimerSet
<1>1. ToSet(Queues) = QueueSet /\ Queues \in Seq(Names)
  <2>1. Queues \in Seq(Names)
    BY ONLY <1>0 DEF Queues
  <2>2. /\ DOMAIN Queues = 1 .. 6
        /\ Queues[1] = "unpack" /\ Queues[2] = "pack" /\ Queues[3] = "dev"
        /\ Queues[4] = "container" /\ Queues[5] = "app" /\ Queues[6] = "result"
    BY ONLY DEF Queues
  <2>3. ToSet(Queues) = {Queues[1], Queues[2], Queues[3], Queues[4], Queues[5], Queues[6]}
    BY ONLY <2>2, SetOfList
  <2> QED
    BY ONLY <2>1, <2>2, <2>3 DEF QueueSet
<1>2. ToSet(Timers) = TimerSet /\ Timers \in Seq(Names)
  <2>1. Timers \in Seq(Names)
    BY ONLY <1>0 DEF Timers
  <2>2. /\ DOMAIN Timers = 1 .. 4
        /\ Timers[1] = "heart" /\ Timers[2] = "dev_timer"
        /\ Timers[3] = "container_timer" /\ Timers[4] = "app_timer"
    BY ONLY DEF Timers
  <2>3. ToSet(Timers) = {Timers[1], Timers[2], Timers[3], Timers[4]}
    BY ONLY <2>2, SetOfList
  <2> QED
    BY ONLY <2>1, <2>2, <2>3 DEF TimerSet
<1>3. ASSUME NEW mode \in Mode
      PROVE  Link(mode) \in Seq(Names) /\ ToSet(Link(mode)) \subseteq {"rpc_read", "rpc_write", "mqtt_pub"}
  <2>1. /\ <<"rpc_read", "rpc_write">> \in Seq(Names) /\ <<"mqtt_pub">> \in Seq(Names)
        /\ ToSet(<<"rpc_read", "rpc_write">>) = {"rpc_read", "rpc_write"}
        /\ ToSet(<<"mqtt_pub">>) = {"mqtt_pub"}
    BY <1>0 DEF ToSet
  <2> QED
    BY <2>1 DEF Link
<1> DEFINE created   == <<"insert", "poly", "interact", "exe_dev", "exe_con", "exe_app", "event">>
           destroyed == <<"interact", "insert", "poly", "event", "exe_dev", "exe_con", "exe_app">>
           atOnce    == <<"timer_task", "timer_queue">>
<1>4. /\ created \in Seq(Names)
      /\ ToSet(created) = {"insert", "poly", "interact", "exe_dev", "exe_con", "exe_app", "event"}
  <2>1. created \in Seq(Names)
    BY ONLY <1>0
  <2>2. /\ DOMAIN created = 1 .. 7
        /\ created[1] = "insert" /\ created[2] = "poly" /\ created[3] = "interact"
        /\ created[4] = "exe_dev" /\ created[5] = "exe_con" /\ created[6] = "exe_app"
        /\ created[7] = "event"
    OBVIOUS
  <2> HIDE DEF created
  <2>3. ToSet(created) = {created[1], created[2], created[3], created[4], created[5],
                          created[6], created[7]}
    BY ONLY <2>2, SetOfList
  <2> QED
    BY ONLY <2>1, <2>2, <2>3
<1>5. /\ destroyed \in Seq(Names)
      /\ ToSet(destroyed) = {"insert", "poly", "interact", "exe_dev", "exe_con", "exe_app", "event"}
  <2>1. destroyed \in Seq(Names)
    BY ONLY <1>0
  <2>2. /\ DOMAIN destroyed = 1 .. 7
        /\ destroyed[1] = "interact" /\ destroyed[2] = "insert" /\ destroyed[3] = "poly"
        /\ destroyed[4] = "event" /\ destroyed[5] = "exe_dev" /\ destroyed[6] = "exe_con"
        /\ destroyed[7] = "exe_app"
    OBVIOUS
  <2> HIDE DEF destroyed
  <2>3. ToSet(destroyed) = {destroyed[1], destroyed[2], destroyed[3], destroyed[4],
                            destroyed[5], destroyed[6], destroyed[7]}
    BY ONLY <2>2, SetOfList
  <2> QED
    BY ONLY <2>1, <2>2, <2>3
<1>6. atOnce \in Seq(Names) /\ ToSet(atOnce) = AtOnce
  BY <1>0 DEF ToSet, AtOnce
<1>7. \A mode : /\ CreateTasks(mode) = created \o Link(mode)
                /\ DestroyTasks(mode) = destroyed \o Link(mode)
                /\ InitList(mode) = ((Queues \o CreateTasks(mode)) \o atOnce) \o Timers
                /\ ExitList(mode) = (Queues \o Timers) \o DestroyTasks(mode)
  BY DEF CreateTasks, DestroyTasks, InitList, ExitList
<1> HIDE DEF created, destroyed, atOnce
<1>8. \A s, t \in Seq(Names) : s \o t \in Seq(Names) /\ ToSet(s \o t) = ToSet(s) \union ToSet(t)
  BY ToSetConcat, ConcatProperties
<1>9. ASSUME NEW mode \in Mode
      PROVE  /\ CreateTasks(mode) \in Seq(Names) /\ DestroyTasks(mode) \in Seq(Names)
             /\ ToSet(CreateTasks(mode)) = TaskSet(mode)
             /\ ToSet(DestroyTasks(mode)) = TaskSet(mode)
  BY ONLY <1>3, <1>4, <1>5, <1>7, <1>8, mode \in Mode DEF TaskSet
<1>10. ASSUME NEW mode \in Mode
       PROVE  /\ InitList(mode) \in Seq(Names)
              /\ ToSet(InitList(mode)) = QueueSet \union TaskSet(mode) \union AtOnce \union TimerSet
  <2>1. /\ Queues \o CreateTasks(mode) \in Seq(Names)
        /\ ToSet(Queues \o CreateTasks(mode)) = QueueSet \union TaskSet(mode)
    BY ONLY <1>1, <1>8, <1>9, mode \in Mode
  <2>2. /\ (Queues \o CreateTasks(mode)) \o atOnce \in Seq(Names)
        /\ ToSet((Queues \o CreateTasks(mode)) \o atOnce) = QueueSet \union TaskSet(mode) \union AtOnce
    BY ONLY <1>6, <1>8, <2>1
  <2> QED
    BY ONLY <1>2, <1>7, <1>8, <2>2
<1>11. ASSUME NEW mode \in Mode
       PROVE  /\ ExitList(mode) \in Seq(Names)
              /\ ToSet(ExitList(mode)) = QueueSet \union TaskSet(mode) \union TimerSet
  <2>1. /\ Queues \o Timers \in Seq(Names)
        /\ ToSet(Queues \o Timers) = QueueSet \union TimerSet
    BY ONLY <1>1, <1>2, <1>8
  <2>2. ToSet((Queues \o Timers) \o DestroyTasks(mode)) =
          (QueueSet \union TimerSet) \union TaskSet(mode)
    BY ONLY <1>8, <1>9, <2>1, mode \in Mode
  <2> QED
    BY ONLY <1>7, <1>8, <1>9, <2>1, <2>2, mode \in Mode
<1> QED
  BY <1>1, <1>2, <1>3, <1>9, <1>10, <1>11

\* sg_init creates the queue of a thread before the thread, and the timer task and
\* its queue before the timers.
LEMMA InOrder ==
  ASSUME NEW mode \in Mode
  PROVE  /\ \A q \in QueueSet : Ahead(InitList(mode), QueueSet, q)
         /\ \A x \in AtOnce : Ahead(InitList(mode), QueueSet \union TaskSet(mode) \union AtOnce, x)
<1> DEFINE atOnce == <<"timer_task", "timer_queue">>
           first  == Queues \o CreateTasks(mode)
<1>1. /\ Queues \in Seq(Names) /\ CreateTasks(mode) \in Seq(Names) /\ Timers \in Seq(Names)
      /\ ToSet(Queues) = QueueSet /\ ToSet(CreateTasks(mode)) = TaskSet(mode)
  BY ListSets
<1>2. atOnce \in Seq(Names) /\ ToSet(atOnce) = AtOnce
  BY DEF ToSet, AtOnce, Names
<1>3. InitList(mode) = (first \o atOnce) \o Timers
  BY DEF InitList
<1> HIDE DEF atOnce
<1>4. first \in Seq(Names) /\ ToSet(first) = QueueSet \union TaskSet(mode)
  BY <1>1, ToSetConcat, ConcatProperties
<1>5. ASSUME NEW q \in QueueSet PROVE Ahead(InitList(mode), QueueSet, q)
  <2>1. Ahead(Queues, QueueSet, q)
    BY <1>1, AheadOfNone
  <2>2. Ahead(first, QueueSet, q)
    BY <1>1, <2>1, AheadConcat
  <2> HIDE DEF first
  <2>3. Ahead(first \o atOnce, QueueSet, q) /\ first \o atOnce \in Seq(Names)
    BY <1>2, <1>4, <2>2, AheadConcat, ConcatProperties
  <2> QED
    BY <1>1, <1>3, <2>3, AheadConcat
<1>6. ASSUME NEW x \in AtOnce
      PROVE  Ahead(InitList(mode), QueueSet \union TaskSet(mode) \union AtOnce, x)
  <2> DEFINE set == QueueSet \union TaskSet(mode) \union AtOnce
  <2> HIDE DEF first
  <2>1. first \o atOnce \in Seq(Names) /\ ToSet(first \o atOnce) = set
    BY <1>2, <1>4, ToSetConcat, ConcatProperties
  <2>2. Ahead(first \o atOnce, set, x)
    BY <2>1, AheadOfNone
  <2> QED
    BY <1>1, <1>3, <2>1, <2>2, AheadConcat
<1> QED
  BY <1>5, <1>6

-----------------------------------------------------------------------------
(* The inductive invariant                                                 *)

\* What the device thread may have in hand of the four timers.
TimersToSet == {<<>>, <<"app_timer">>, <<"container_timer", "app_timer">>,
             <<"dev_timer", "container_timer", "app_timer">>, Timers}

Typed ==
  /\ startmode \in Mode
  /\ main \in {"init", "mqtt_init", "loop", "test", "exit", "ended", "main_error"}
  /\ step \in Nat \ {0}
  /\ made \subseteq ToSet(InitList(startmode)) /\ failed \subseteq ToSet(InitList(startmode))
  /\ kept \subseteq ToSet(ExitList(startmode))
  /\ g_mqtt_connect_flag \in BOOLEAN /\ edge_reboot_flag \in BOOLEAN
  /\ todo \in TimersToSet
  /\ tt \in {"none", "event", "queue"} /\ event \in BOOLEAN
  /\ g_timer_queue \in Seq(Ticking) /\ IsInjective(g_timer_queue)
  /\ faults \in 0 .. Faults /\ errors \in 0 .. ReadErrors /\ commands \in 0 .. Commands
  /\ raced \in BOOLEAN

\* How far main is in the list it works on.
Place ==
  /\ main \in {"init", "main_error"} => step <= 1 + Len(InitList(startmode))
  /\ main \in {"mqtt_init", "loop", "test"} => step = 1
  /\ main = "exit" => step <= 1 + Len(ExitList(startmode))
  /\ main = "ended" => step = 1 + Len(ExitList(startmode))

\* While main creates: there is what it has created, and what is missing has
\* failed, which main has noticed at once of the timer task and its queue.
Listed(i) == InitList(startmode)[i]
Creation ==
  main = "init" =>
    /\ \A x \in made : \E i \in 1 .. step - 1 : Listed(i) = x
    /\ \A i \in 1 .. step - 1 : Listed(i) \in made \union failed
    /\ \A i \in 1 .. step - 1 : Listed(i) \in AtOnce => Listed(i) \in made

\* No command comes before there is a connection, and one that sets the timers has
\* been counted.
Quiet ==
  /\ main \in {"init", "mqtt_init"} => todo = <<>> /\ ~g_mqtt_connect_flag
  /\ main \in {"init", "mqtt_init"} => commands = Commands
  /\ todo # <<>> => commands # Commands

\* Once main goes on, all is there, and the timer task and its queue are for good.
Complete ==
  /\ main \notin {"init", "main_error"} => AtOnce \subseteq made
  /\ main \in {"mqtt_init", "loop", "test"} => Tasks \subseteq made
  /\ main \in {"mqtt_init", "loop", "test"} /\ commands = Commands => TimerSet \subseteq made
  /\ TimerSet \intersect made # {} => AtOnce \subseteq made

\* While main deletes: what it has been through is gone, but for failures and for
\* timers set meanwhile.
Removal ==
  main \in {"exit", "ended"} =>
    \A i \in 1 .. step - 1 :
      ExitList(startmode)[i] \in made =>
        \/ ExitList(startmode)[i] \in kept
        \/ raced /\ ExitList(startmode)[i] \in TimerSet

IInv == Typed /\ Place /\ Creation /\ Quiet /\ Complete /\ Removal

\* What the lists of the process are, in the terms of the invariant.
LEMMA Lists ==
  ASSUME NEW mode \in Mode
  PROVE  /\ Len(InitList(mode)) \in Nat /\ Len(ExitList(mode)) \in Nat
         /\ \A i \in 1 .. Len(InitList(mode)) : InitList(mode)[i] \in ToSet(InitList(mode))
         /\ \A i \in 1 .. Len(ExitList(mode)) : ExitList(mode)[i] \in ToSet(ExitList(mode))
         /\ \A x \in ToSet(InitList(mode)) : \E i \in 1 .. Len(InitList(mode)) : InitList(mode)[i] = x
         /\ \A x \in ToSet(ExitList(mode)) : \E i \in 1 .. Len(ExitList(mode)) : ExitList(mode)[i] = x
<1>1. InitList(mode) \in Seq(Names) /\ ExitList(mode) \in Seq(Names)
  BY ListSets
<1> DEFINE init == InitList(mode)
           exit == ExitList(mode)
<1> HIDE DEF init, exit
<1>2. /\ Len(init) \in Nat /\ DOMAIN init = 1 .. Len(init)
      /\ Len(exit) \in Nat /\ DOMAIN exit = 1 .. Len(exit)
  BY <1>1 DEF init, exit
<1>3. /\ \A i \in 1 .. Len(init) : init[i] \in ToSet(init)
      /\ \A i \in 1 .. Len(exit) : exit[i] \in ToSet(exit)
      /\ \A x \in ToSet(init) : \E i \in 1 .. Len(init) : init[i] = x
      /\ \A x \in ToSet(exit) : \E i \in 1 .. Len(exit) : exit[i] = x
  BY <1>2 DEF ToSet
<1> QED
  BY <1>2, <1>3 DEF init, exit

\* What is of one sort is not of another.
LEMMA Apart ==
  ASSUME NEW mode \in Mode
  PROVE  /\ ToSet(InitList(mode)) = QueueSet \union TaskSet(mode) \union AtOnce \union TimerSet
         /\ ToSet(ExitList(mode)) = QueueSet \union TaskSet(mode) \union TimerSet
         /\ AtOnce \intersect ToSet(ExitList(mode)) = {}
         /\ TimerSet \intersect (QueueSet \union TaskSet(mode) \union AtOnce) = {}
         /\ QueueSet \intersect (TaskSet(mode) \union AtOnce \union TimerSet) = {}
<1>1. /\ ToSet(InitList(mode)) = QueueSet \union TaskSet(mode) \union AtOnce \union TimerSet
      /\ ToSet(ExitList(mode)) = QueueSet \union TaskSet(mode) \union TimerSet
      /\ ToSet(Link(mode)) \subseteq {"rpc_read", "rpc_write", "mqtt_pub"}
  BY ListSets
<1>2. /\ TaskSet(mode) \intersect (QueueSet \union TimerSet \union AtOnce) = {}
      /\ QueueSet \intersect (TimerSet \union AtOnce) = {} /\ TimerSet \intersect AtOnce = {}
  BY ONLY <1>1 DEF TaskSet, QueueSet, TimerSet, AtOnce
<1> QED
  BY ONLY <1>1, <1>2

\* The next of the timers to set is one, and what remains is some of them.
LEMMA NextTimer ==
  ASSUME NEW list \in TimersToSet, list # <<>>
  PROVE  Head(list) \in TimerSet /\ Tail(list) \in TimersToSet
<1> DEFINE one   == <<"app_timer">>
           two   == <<"container_timer", "app_timer">>
           three == <<"dev_timer", "container_timer", "app_timer">>
<1>1. Head(one) = "app_timer" /\ Tail(one) = <<>>
  OBVIOUS
<1>2. Head(two) = "container_timer" /\ Tail(two) = one
  OBVIOUS
<1>3. Head(three) = "dev_timer" /\ Tail(three) = two
  OBVIOUS
<1>4. Head(Timers) = "heart" /\ Tail(Timers) = three
  BY DEF Timers
<1>5. TimersToSet = {<<>>, one, two, three, Timers}
  BY DEF TimersToSet
<1> HIDE DEF one, two, three
<1> QED
  BY ONLY <1>1, <1>2, <1>3, <1>4, <1>5, list \in TimersToSet, list # <<>> DEF TimerSet

\* A timer is created after the timer task and its queue.
LEMMA TaskFirst ==
  ASSUME NEW mode \in Mode, NEW set, NEW n \in Nat, n <= Len(InitList(mode)),
         \A x \in set : \E i \in 1 .. n : InitList(mode)[i] = x,
         \A i \in 1 .. n : InitList(mode)[i] \in AtOnce => InitList(mode)[i] \in set,
         TimerSet \intersect set # {}
  PROVE  AtOnce \subseteq set
<1>1. PICK i \in 1 .. n : InitList(mode)[i] \in TimerSet
  OBVIOUS
<1>2. InitList(mode)[i] \notin QueueSet \union TaskSet(mode) \union AtOnce
  BY <1>1, Apart
<1>3. i \in 1 .. Len(InitList(mode))
  BY Lists
<1>4. ASSUME NEW x \in AtOnce PROVE x \in set
  <2>1. PICK j \in 1 .. i - 1 : InitList(mode)[j] = x
    BY <1>2, <1>3, InOrder DEF Ahead
  <2> QED
    BY <2>1
<1> QED
  BY <1>4

-----------------------------------------------------------------------------
(* Every step keeps the invariant                                          *)

\* The process begins with nothing.
LEMMA InitIInv == ASSUME Init PROVE IInv
<1>1. Len(InitList(startmode)) \in Nat
  BY Lists DEF Init
<1>2. Typed
  <2>1. Faults \in 0 .. Faults /\ ReadErrors \in 0 .. ReadErrors /\ Commands \in 0 .. Commands
    BY LifeAssumption
  <2>2. <<>> \in TimersToSet
    BY DEF TimersToSet
  <2>3. <<>> \in Seq(Ticking) /\ IsInjective(<<>>)
    BY DEF IsInjective
  <2>4. /\ startmode \in Mode /\ main = "init" /\ step \in Nat \ {0}
        /\ made = {} /\ failed = {} /\ kept = {} /\ tt = "none" /\ todo = <<>>
        /\ g_mqtt_connect_flag = FALSE /\ edge_reboot_flag = FALSE /\ event = FALSE
        /\ raced = FALSE /\ g_timer_queue = <<>>
        /\ faults = Faults /\ errors = ReadErrors /\ commands = Commands
    BY DEF Init
  <2>5. /\ todo \in TimersToSet /\ g_timer_queue \in Seq(Ticking) /\ IsInjective(g_timer_queue)
        /\ faults \in 0 .. Faults /\ errors \in 0 .. ReadErrors /\ commands \in 0 .. Commands
    BY ONLY <2>1, <2>2, <2>3, <2>4, Zenon
  <2> QED
    BY ONLY <2>4, <2>5 DEF Typed
<1> QED
  BY <1>1, <1>2 DEF Init, IInv, Place, Creation, Quiet, Complete, Removal

\* Creating.
LEMMA CreationKeeps ==
  ASSUME IInv, Create \/ CreateFails
  PROVE  IInv'
<1> DEFINE x == Listed(step)
<1>0. Typed /\ Place /\ Creation /\ Quiet /\ Complete
  BY DEF IInv
<1>1. /\ startmode \in Mode /\ startmode' = startmode /\ step \in Nat \ {0} /\ step' = step + 1
      /\ main = "init" /\ step <= Len(InitList(startmode)) /\ Len(InitList(startmode)) \in Nat
  BY <1>0, Lists DEF Typed, Create, CreateFails, Creating
<1>2. x \in ToSet(InitList(startmode))
  BY <1>1, Lists DEF Listed
<1>3. \A i : Listed(i)' = Listed(i)
  BY <1>1 DEF Listed
<1>4. \A i \in 1 .. step : i \in 1 .. step - 1 \/ i = step
  BY <1>1
<1>5. /\ \A y \in made : \E i \in 1 .. step - 1 : Listed(i) = y
      /\ \A i \in 1 .. step - 1 : Listed(i) \in made \union failed
      /\ \A i \in 1 .. step - 1 : Listed(i) \in AtOnce => Listed(i) \in made
  BY <1>0, <1>1 DEF Creation
<1> HIDE DEF x
<1>6. CASE Create
  <2>1. /\ made' = made \union {x} /\ UNCHANGED <<main, failed, kept>>
        /\ tt' \in {"event", tt}
    BY <1>6 DEF Create, x, Listed
  <2>2. Typed'
    BY <1>0, <1>1, <1>2, <1>6, <2>1 DEF Create, Typed, device
  <2>3. Creation'
    BY <1>1, <1>3, <1>4, <1>5, <2>1 DEF Creation, x
  <2>4. TimerSet \intersect made' # {} => AtOnce \subseteq made'
    <3>1. /\ \A y \in made' : \E i \in 1 .. step : InitList(startmode)[i] = y
          /\ \A i \in 1 .. step : InitList(startmode)[i] \in AtOnce => InitList(startmode)[i] \in made'
      BY <1>1, <1>4, <1>5, <2>1 DEF Listed, x
    <3> QED
      BY <1>1, <3>1, TaskFirst
  <2> QED
    BY <1>0, <1>1, <1>6, <2>1, <2>2, <2>3, <2>4
       DEF Create, device, IInv, Place, Quiet, Complete, Removal
<1>7. CASE CreateFails
  <2>1. /\ failed' = failed \union {x} /\ UNCHANGED <<made, kept>>
        /\ main' = (IF x \in AtOnce THEN "main_error" ELSE "init")
        /\ faults > 0 /\ faults' = faults - 1
    BY <1>1, <1>7 DEF CreateFails, x, Listed
  <2>2. Typed'
    BY <1>0, <1>1, <1>2, <1>7, <2>1, LifeAssumption DEF CreateFails, Typed, device, timing
  <2>3. Creation'
    BY <1>1, <1>3, <1>4, <1>5, <2>1 DEF Creation, x
  <2> QED
    BY <1>0, <1>1, <1>7, <2>1, <2>2, <2>3
       DEF CreateFails, device, IInv, Place, Quiet, Complete, Removal
<1> QED
  BY <1>6, <1>7

\* When sg_init returns without a failure that counts, all but the queues is there.
LEMMA StartedKeeps ==
  ASSUME IInv, Started
  PROVE  IInv'
<1>0. Typed /\ Place /\ Creation /\ Quiet /\ Complete
  BY DEF IInv
<1>1. /\ startmode \in Mode /\ startmode' = startmode /\ step' = 1
      /\ main = "init" /\ Len(InitList(startmode)) \in Nat
      /\ step = 1 + Len(InitList(startmode))
      /\ main' \in {"main_error", "exit", "mqtt_init"}
      /\ UNCHANGED <<made, failed, kept, g_mqtt_connect_flag, timing, device, faults>>
  BY <1>0, Lists DEF Typed, Place, Started
<1>2. Len(ExitList(startmode)) \in Nat
  BY <1>1, Lists
<1>3. main' # "main_error" => TaskSet(startmode) \union AtOnce \union TimerSet \subseteq made
  <2>1. SUFFICES ASSUME main' # "main_error",
                        NEW x \in TaskSet(startmode) \union AtOnce \union TimerSet
                 PROVE  x \in made
    OBVIOUS
  <2>2. \A y \in failed : y \in QueueSet
    BY <2>1, ListSets DEF Started, Counts
  <2>3. x \in ToSet(InitList(startmode)) /\ x \notin QueueSet
    BY <1>1, <2>1, Apart
  <2>4. PICK i \in 1 .. Len(InitList(startmode)) : InitList(startmode)[i] = x
    BY <1>1, <2>3, Lists
  <2>5. x \in made \union failed
    BY <1>0, <1>1, <2>4 DEF Creation, Listed
  <2> QED
    BY <2>2, <2>3, <2>5
<1>4. Tasks = TaskSet(startmode) /\ Tasks' = Tasks
  BY <1>1, ListSets DEF Tasks
<1>5. Typed'
  BY <1>0, <1>1 DEF Typed, device, timing
<1>6. Complete'
  BY <1>0, <1>1, <1>3, <1>4 DEF Complete, device
<1> QED
  BY <1>0, <1>1, <1>2, <1>5, <1>6 DEF device, IInv, Place, Creation, Quiet, Removal

\* The connection comes and goes: nothing is created and nothing deleted.
LEMMA ConnectionKeeps ==
  ASSUME IInv, MqttInit \/ Connected \/ SubscribeFails \/ TestReboot \/ Lost
  PROVE  IInv'
<1>0. Typed /\ Place /\ Creation /\ Quiet /\ Complete
  BY DEF IInv
<1>1. /\ UNCHANGED <<startmode, step, made, failed, kept, timing, device, faults>>
      /\ main \in {"mqtt_init", "loop", "test"} /\ main' \in {"loop", "test", "exit"}
      /\ g_mqtt_connect_flag' \in BOOLEAN
  BY <1>0 DEF MqttInit, Connected, SubscribeFails, TestReboot, Lost, made_by, Typed
<1>2. startmode \in Mode /\ step = 1 /\ Len(ExitList(startmode)) \in Nat
  BY <1>0, <1>1, Lists DEF Typed, Place
<1>3. Tasks' = Tasks
  BY <1>1 DEF Tasks
<1>4. Typed'
  BY <1>0, <1>1 DEF Typed, timing, device
<1> QED
  BY <1>0, <1>1, <1>2, <1>3, <1>4 DEF device, IInv, Place, Creation, Quiet, Complete, Removal

\* Deleting.
LEMMA RemovalKeeps ==
  ASSUME IInv, Delete \/ DeleteFails \/ Exited
  PROVE  IInv'
<1>0. Typed /\ Place /\ Quiet /\ Complete /\ Removal
  BY DEF IInv
<1> DEFINE exit == ExitList(startmode)
<1>1. /\ startmode \in Mode /\ startmode' = startmode /\ step \in Nat \ {0}
      /\ main = "exit" /\ step <= 1 + Len(exit) /\ Len(exit) \in Nat
      /\ UNCHANGED <<failed, g_mqtt_connect_flag, timing, device>>
  BY <1>0, Lists DEF Typed, Place, Delete, DeleteFails, Exited, Deleting, made_by
<1>2. \A i \in 1 .. Len(exit) : exit[i] \in ToSet(exit) /\ exit[i] \notin AtOnce
  BY <1>1, Lists, Apart
<1>3. \A i \in 1 .. step - 1 : exit[i] \in made => exit[i] \in kept \/ (raced /\ exit[i] \in TimerSet)
  BY <1>0, <1>1 DEF Removal
<1>4. \A i \in 1 .. step : i \in 1 .. step - 1 \/ i = step
  BY <1>1
<1>5. AtOnce \subseteq made
  BY <1>0, <1>1 DEF Complete
<1> HIDE DEF exit
<1>6. CASE Delete \/ DeleteFails
  <2>1. /\ step <= Len(exit) /\ step' = step + 1 /\ main' = "exit"
        /\ \/ made' = made \ {exit[step]} /\ kept' = kept
           \/ made' = made /\ kept' = kept \union {exit[step]}
        /\ faults' \in 0 .. Faults
    BY <1>0, <1>1, <1>6, LifeAssumption DEF Delete, DeleteFails, Deleting, Typed, exit
  <2>2. exit[step] \in ToSet(exit) /\ exit[step] \notin AtOnce
    BY <1>1, <1>2, <2>1
  <2>3. Typed'
    <3>1. made' \subseteq made /\ kept' \subseteq ToSet(exit)
      BY <1>0, <2>1, <2>2 DEF Typed, exit
    <3> QED
      BY <1>0, <1>1, <2>1, <3>1 DEF Typed, timing, device, exit
  <2>4. Complete'
    BY <1>1, <1>5, <2>1, <2>2 DEF Complete
  <2>5. \A i \in 1 .. step : exit[i] \in made' => exit[i] \in kept' \/ (raced /\ exit[i] \in TimerSet)
    BY <1>3, <1>4, <2>1
  <2>6. Removal'
    BY <1>1, <2>1, <2>5 DEF Removal, device, exit
  <2> QED
    BY <1>0, <1>1, <2>1, <2>3, <2>4, <2>6 DEF device, IInv, Place, Creation, Quiet, exit
<1>7. CASE Exited
  <2>1. /\ step = 1 + Len(exit) /\ main' = "ended" /\ UNCHANGED <<step, made, kept, faults>>
    BY <1>1, <1>7 DEF Exited, made_by, exit
  <2>2. Typed'
    BY <1>0, <1>1, <2>1 DEF Typed, timing, device
  <2> QED
    BY <1>0, <1>1, <1>3, <1>5, <2>1, <2>2
       DEF device, IInv, Place, Creation, Quiet, Complete, Removal, exit
<1> QED
  BY <1>6, <1>7

\* The device thread: the timers come and go, and nothing else.
LEMMA DeviceKeeps ==
  ASSUME IInv, TakeParameters \/ TakeReboot \/ Device
  PROVE  IInv'
<1>0. Typed /\ Place /\ Creation /\ Quiet /\ Complete /\ Removal
  BY DEF IInv
<1>1. UNCHANGED <<startmode, main, step, failed, kept, g_mqtt_connect_flag, timing>>
  BY DEF TakeParameters, TakeReboot, Device, DeleteTimer, CreateTimer, made_by
<1>2. startmode \in Mode /\ main \in {"loop", "test", "exit"}
  BY <1>0 DEF TakeParameters, TakeReboot, Device, DeleteTimer, CreateTimer, Takes, Replaces,
              Runs, Typed, Quiet
<1>3. Tasks' = Tasks /\ Tasks = TaskSet(startmode) /\ commands \in Int
  BY <1>0, <1>1, <1>2, ListSets, LifeAssumption DEF Tasks, Typed
<1>4. CASE TakeParameters \/ TakeReboot
  <2>1. /\ made' = made /\ raced' = raced /\ faults' = faults /\ edge_reboot_flag' \in BOOLEAN
        /\ \/ commands' = commands /\ todo' = todo
           \/ todo' = Timers /\ commands' = commands - 1 /\ commands > 0
    BY <1>0, <1>4 DEF TakeParameters, TakeReboot, made_by, Typed
  <2>2. commands' \in 0 .. Commands /\ todo' \in TimersToSet
    BY <1>0, <2>1, LifeAssumption DEF Typed, TimersToSet
  <2>3. commands' = Commands => commands = Commands
    BY <1>0, <2>1, LifeAssumption DEF Typed
  <2>4. todo' # <<>> => commands' # Commands
    BY <1>0, <2>1, LifeAssumption DEF Typed, Quiet
  <2>5. Typed'
    BY <1>0, <1>1, <2>1, <2>2 DEF Typed, timing
  <2> QED
    BY <1>0, <1>1, <1>2, <1>3, <2>1, <2>3, <2>4, <2>5
       DEF IInv, Place, Creation, Quiet, Complete, Removal
<1>5. CASE Device
  <2> DEFINE k == Head(todo)
  <2>1. /\ todo # <<>> /\ UNCHANGED <<edge_reboot_flag, commands>>
        /\ \/ made' = made \ {k} /\ UNCHANGED <<todo, raced, faults>>
           \/ /\ made' = made \union {k} /\ todo' = Tail(todo) /\ faults' = faults
              /\ raced' = (raced \/ main = "exit")
           \/ /\ made' = made /\ todo' = <<>> /\ raced' = raced
              /\ faults > 0 /\ faults' = faults - 1
    BY <1>5 DEF Device, DeleteTimer, CreateTimer, Replaces, device
  <2>2. k \in TimerSet /\ todo' \in TimersToSet
    BY <1>0, <2>1, NextTimer DEF Typed, TimersToSet
  <2> HIDE DEF k
  <2>3. made' \subseteq made \union {k} /\ made \subseteq made' \union {k}
    BY <2>1
  <2>4. k \in ToSet(InitList(startmode)) /\ k \notin AtOnce /\ k \notin Tasks
    BY <1>2, <1>3, <2>2, Apart
  <2>5. Typed'
    <3>1. faults' \in 0 .. Faults /\ raced' \in BOOLEAN
      <4>1. faults' = faults \/ (faults > 0 /\ faults' = faults - 1)
        BY <2>1
      <4>2. faults' \in 0 .. Faults
        BY <1>0, <4>1, LifeAssumption DEF Typed
      <4>3. raced' = raced \/ raced' = (raced \/ main = "exit")
        BY <2>1
      <4>4. raced' \in BOOLEAN
        BY <1>0, <4>3, Zenon DEF Typed
      <4> QED
        BY <4>2, <4>4
    <3> QED
      BY <1>0, <1>1, <2>1, <2>2, <2>3, <2>4, <3>1 DEF Typed, timing
  <2>6. commands # Commands
    BY <1>0, <2>1 DEF Quiet
  <2>7. Complete'
    BY <1>0, <1>1, <1>2, <1>3, <2>1, <2>3, <2>4, <2>6 DEF Complete
  <2>8. Removal'
    <3>1. SUFFICES ASSUME main = "exit", NEW i \in 1 .. step - 1, ExitList(startmode)[i] \in made'
                   PROVE  \/ ExitList(startmode)[i] \in kept
                          \/ raced' /\ ExitList(startmode)[i] \in TimerSet
      BY <1>1, <1>2 DEF Removal
    <3>2. CASE ExitList(startmode)[i] \in made
      <4>1. raced => raced'
        BY <2>1
      <4> QED
        BY <1>0, <3>1, <3>2, <4>1 DEF Removal
    <3>3. CASE ExitList(startmode)[i] \notin made
      <4>1. made' = made \union {k} /\ raced' = (raced \/ main = "exit")
        BY <2>1, <3>1, <3>3
      <4> QED
        BY <2>2, <3>1, <3>3, <4>1
    <3> QED
      BY <3>2, <3>3
  <2> QED
    BY <1>0, <1>1, <1>2, <2>1, <2>5, <2>6, <2>7, <2>8 DEF IInv, Place, Creation, Quiet
<1> QED
  BY <1>4, <1>5

\* The timers' expiry and the timer task.
LEMMA TimingKeeps ==
  ASSUME IInv, (\E k \in Ticking : Expire(k)) \/ TaskEvent \/ TaskRead \/ TaskError
  PROVE  IInv'
<1>0. Typed /\ Place /\ Creation /\ Quiet /\ Complete /\ Removal
  BY DEF IInv
<1>1. UNCHANGED <<startmode, main, step, made, failed, kept, g_mqtt_connect_flag, device, faults>>
  BY DEF Expire, TaskEvent, TaskRead, TaskError, made_by
<1>2. g_timer_queue' \in Seq(Ticking) /\ IsInjective(g_timer_queue')
  <2>0. g_timer_queue \in Seq(Ticking) /\ IsInjective(g_timer_queue)
    BY <1>0 DEF Typed
  <2>1. ASSUME NEW k \in Ticking, Expire(k)
        PROVE  g_timer_queue' \in Seq(Ticking) /\ IsInjective(g_timer_queue')
    BY <2>0, <2>1 DEF Expire, Waits, Contains, IsInjective
  <2>2. CASE TaskRead
    BY <2>0, <2>2 DEF TaskRead, IsInjective
  <2>3. CASE TaskEvent \/ TaskError
    BY <2>0, <2>3 DEF TaskEvent, TaskError
  <2> QED
    BY <2>1, <2>2, <2>3
<1>3. tt' \in {"none", "event", "queue"} /\ event' \in BOOLEAN /\ errors' \in 0 .. ReadErrors
  <2>1. CASE \E k \in Ticking : Expire(k)
    BY <1>0, <2>1 DEF Expire, Typed
  <2>2. CASE TaskEvent
    BY <1>0, <2>2 DEF TaskEvent, Typed
  <2>3. CASE TaskRead
    BY <1>0, <2>3 DEF TaskRead, Typed
  <2>4. CASE TaskError
    BY <1>0, <2>4, LifeAssumption DEF TaskError, Typed
  <2> QED
    BY <2>1, <2>2, <2>3, <2>4
<1>4. Typed'
  BY <1>0, <1>1, <1>2, <1>3 DEF Typed, device
<1>5. Tasks' = Tasks
  BY <1>1 DEF Tasks
<1> QED
  BY <1>0, <1>1, <1>4, <1>5 DEF device, IInv, Place, Creation, Listed, Quiet, Complete, Removal

\* Every step keeps the invariant.
LEMMA NextKeeps == ASSUME IInv, [Next]_vars PROVE IInv'
<1>1. CASE UNCHANGED vars
  <2>1. UNCHANGED <<startmode, main, step, made, failed, kept, g_mqtt_connect_flag, tt, event,
                    g_timer_queue, errors, edge_reboot_flag, todo, commands, raced, faults>>
    BY <1>1 DEF vars, made_by, timing, device
  <2>2. Tasks' = Tasks
    BY <2>1 DEF Tasks
  <2>3. Typed'
    BY <2>1 DEF IInv, Typed
  <2> QED
    BY <2>1, <2>2, <2>3 DEF IInv, Place, Creation, Listed, Quiet, Complete, Removal
<1>2. CASE Next
  BY <1>2, CreationKeeps, StartedKeeps, ConnectionKeeps, RemovalKeeps, DeviceKeeps, TimingKeeps
     DEF Next, Main
<1> QED
  BY <1>1, <1>2

\* The invariant holds always.
LEMMA Invariance == Spec => []IInv
BY InitIInv, NextKeeps, PTL DEF Spec

-----------------------------------------------------------------------------
(* Theorems                                                                *)

\* Every variable has its type, and main is never beyond the end of its lists.
THEOREM TypeCorrect == Spec => []TypeOK
<1>1. IInv => TypeOK
  <2>1. SUFFICES ASSUME Typed, Place PROVE TypeOK
    BY DEF IInv
  <2>2. IsSuffix(todo, Timers)
    <3>1. /\ IsSuffix(<<>>, Timers) /\ IsSuffix(<<"app_timer">>, Timers)
          /\ IsSuffix(<<"container_timer", "app_timer">>, Timers)
      BY DEF IsSuffix, IsPrefix, Reverse, Timers
    <3>2. IsSuffix(<<"dev_timer", "container_timer", "app_timer">>, Timers)
      BY DEF IsSuffix, IsPrefix, Reverse, Timers
    <3>3. IsSuffix(Timers, Timers)
      BY DEF IsSuffix, IsPrefix, Reverse, Timers
    <3> QED
      BY <2>1, <3>1, <3>2, <3>3 DEF Typed, TimersToSet
  <2>3. made \subseteq Thing /\ failed \subseteq Thing /\ kept \subseteq Thing
    BY <2>1, Apart DEF Typed, Thing, Mode
  <2>4. step \in 1 .. 1 + Len(IF main \in {"init", "main_error"} THEN InitList(startmode)
                               ELSE ExitList(startmode))
    BY <2>1, Lists DEF Typed, Place
  <2> QED
    BY <2>1, <2>2, <2>3, <2>4 DEF Typed, TypeOK
<1> QED
  BY <1>1, Invariance, PTL

\* However early a thread runs, and however late, the id it reads is its queue's,
\* unless that queue could not be created; and no timer is without its task.
THEOREM ThreadsFindTheirOwn == Spec => []FindsItsOwn
<1>1. IInv => FindsItsOwn
  <2>1. SUFFICES ASSUME IInv PROVE FindsItsOwn
    OBVIOUS
  <2>2. startmode \in Mode /\ step \in Nat
    BY <2>1 DEF IInv, Typed
  <2>3. ASSUME NEW t \in DOMAIN QueueOf, t \in made, QueueOf[t] \notin failed
        PROVE  IdSet(QueueOf[t])
    <3>1. QueueOf[t] \in QueueSet /\ t \notin QueueSet
      BY DEF QueueOf, QueueSet
    <3>2. SUFFICES ASSUME main = "init"
                   PROVE  \E i \in 1 .. step - 1 : InitList(startmode)[i] = QueueOf[t]
      BY <2>3 DEF IdSet
    <3>3. PICK i \in 1 .. step - 1 : InitList(startmode)[i] = t
      BY <2>1, <2>3, <3>2 DEF IInv, Creation, Listed
    <3>4. i \in 1 .. Len(InitList(startmode))
      BY <2>1, <2>2, <3>2, Lists DEF IInv, Place
    <3>5. PICK j \in 1 .. i - 1 : InitList(startmode)[j] = QueueOf[t]
      BY <2>2, <3>1, <3>3, <3>4, InOrder DEF Ahead
    <3> QED
      BY <2>2, <3>5
  <2>4. (\E k \in ToSet(Timers) : k \in made) => AtOnce \subseteq made
    BY <2>1, ListSets DEF IInv, Complete
  <2> QED
    BY <2>3, <2>4 DEF FindsItsOwn
<1> QED
  BY <1>1, Invariance, PTL

\* main goes on to the connection only with every thread and the timer task, and
\* with every timer that no command has touched.
THEOREM StartsWhole == Spec => []WholeOrNot
<1>1. IInv => WholeOrNot
  BY ListSets DEF IInv, Complete, WholeOrNot
<1> QED
  BY <1>1, Invariance, PTL

\* sg_exit leaves only what nothing deletes, what could not be deleted, and timers
\* if the device thread was setting them.
THEOREM LeavesLittle == Spec => []LeftAtExit
<1>1. IInv => LeftAtExit
  <2>1. SUFFICES ASSUME IInv, main = "ended", NEW x \in made, x \notin AtOnce
                 PROVE  x \in kept \/ (raced /\ x \in TimerSet)
    BY ListSets DEF LeftAtExit
  <2>2. startmode \in Mode
    BY <2>1 DEF IInv, Typed
  <2>3. x \in ToSet(ExitList(startmode))
    BY <2>1, <2>2, Apart DEF IInv, Typed
  <2>4. PICK i \in 1 .. Len(ExitList(startmode)) : ExitList(startmode)[i] = x
    BY <2>2, <2>3, Lists
  <2>5. step = 1 + Len(ExitList(startmode)) /\ Len(ExitList(startmode)) \in Nat
    BY <2>1, <2>2, Lists DEF IInv, Place
  <2> QED
    BY <2>1, <2>4, <2>5 DEF IInv, Removal
<1> QED
  BY <1>1, Invariance, PTL
=============================================================================
