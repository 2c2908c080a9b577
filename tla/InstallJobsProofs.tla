--------------------------- MODULE InstallJobsProofs ---------------------------
(***************************************************************************)
(* Theorems about InstallJobs, for any number of jobs, file names and      *)
(* restarts.                                                               *)
(***************************************************************************)
EXTENDS InstallJobs, TLAPS

\* The steps in which a thread has a job, and those past the downloads.
Working == {"ack", "file", "fetch", "image", "imagefetch", "create", "hash", "call",
            "report"}
Late    == {"create", "hash", "call", "report"}

\* A thread that is not idle has a job of its own lane, which waits no longer and
\* which, once its downloads are over, is not deferred.
InHand ==
  \A l \in Lane :
    /\ pc[l] \in Working =>
         cur[l] \in Job /\ cur[l] \notin waiting /\ LaneOf(asked[cur[l]]) = l
    /\ pc[l] \in Late => ~asked[cur[l]].deferred

Codes    == {"none", "SUCCESS", "WAIT", "NOTEXITS", "REFUSE", "FAILED"}
Messages == [what : {"ack", "result"}, job : Job \union {NoJob}, of : Job, code : Codes]
Records  == [job : Job \union {NoJob}, state : State]
Files    == [of : Job \union {NoJob}, complete : BOOLEAN]

-----------------------------------------------------------------------------
(* The states of a job, and their order                                    *)

\* What the sequence of the states is.
LEMMA StatesAre ==
  /\ DOMAIN States = 1 .. 6
  /\ States[1] = "NULL" /\ States[2] = "PRE_DOWNLOAD" /\ States[3] = "EXE_DOWNLOAD"
  /\ States[4] = "PRE_INSTALL" /\ States[5] = "EXE_INSTALL"
  /\ States[6] = "FINISH_INSTALL"
<1>1. DOMAIN States = 1 .. 6
  BY DEF States
<1>2. States[1] = "NULL" /\ States[2] = "PRE_DOWNLOAD" /\ States[3] = "EXE_DOWNLOAD"
  BY DEF States
<1>3. States[4] = "PRE_INSTALL" /\ States[5] = "EXE_INSTALL" /\ States[6] = "FINISH_INSTALL"
  BY DEF States
<1>4. QED
  BY <1>1, <1>2, <1>3

\* Every state that is ever shown is one of them.
LEMMA StateIs ==
  State = {"NULL", "PRE_DOWNLOAD", "EXE_DOWNLOAD", "PRE_INSTALL", "EXE_INSTALL",
           "FINISH_INSTALL"}
<1>1. State = {States[i] : i \in 1 .. 6}
  BY StatesAre DEF State
<1>2. 1 .. 6 = {1, 2, 3, 4, 5, 6}
  OBVIOUS
<1>3. QED
  BY <1>1, <1>2, StatesAre

\* A state's rank is its place in the sequence.
LEMMA RankIs ==
  /\ Rank("NULL") = 1 /\ Rank("PRE_DOWNLOAD") = 2 /\ Rank("EXE_DOWNLOAD") = 3
  /\ Rank("PRE_INSTALL") = 4 /\ Rank("EXE_INSTALL") = 5 /\ Rank("FINISH_INSTALL") = 6
<1>1. ASSUME NEW i \in 1 .. 6
      PROVE  Rank(States[i]) = i
  <2>1. \A k \in 1 .. 6 : States[k] = States[i] => k = i
    BY StatesAre
  <2>2. Rank(States[i]) = CHOOSE k \in DOMAIN States : States[k] = States[i]
    BY DEF Rank
  <2>3. QED
    BY <2>1, <2>2, StatesAre
<1>2. QED
  BY <1>1, StatesAre

-----------------------------------------------------------------------------
(* Types                                                                   *)

\* A job shows its status in a record of its own kind, and has a lane.
LEMMA OwnStatusType ==
  ASSUME NEW o \in Order
  PROVE  OwnStatus(o) \in Status /\ LaneOf(o) \in Lane
  BY DEF Order, Kinds, OwnStatus, Status, LaneOf, Lane

\* A record that is shown is a status.
LEMMA ShowType ==
  ASSUME TypeOK, NEW s \in Status, NEW j \in Job \union {NoJob}, NEW state \in State,
         Show(s, j, state)
  PROVE  status' \in [Status -> Records]
  BY DEF Show, TypeOK, Records

\* What is reported is a message about a job.
LEMMA SayType ==
  ASSUME TypeOK, NEW what \in {"ack", "result"}, NEW j \in Job, NEW code \in Codes,
         Say(what, j, code)
  PROVE  sent' \subseteq Messages
  BY DEF Say, JobId, TypeOK, Messages, Codes

\* The job that a thread has in hand is one, and is of the types it should be.
LEMMA InHandType ==
  ASSUME TypeOK, InHand, NEW l \in Lane, pc[l] \in Working
  PROVE  /\ cur[l] \in Job /\ Mine(l) \in Order /\ Mine(l).file \in Name
         /\ JobId(cur[l]) \in Job \union {NoJob}
         /\ OwnStatus(Mine(l)) \in Status
<1>1. cur[l] \in Job
  BY DEF InHand
<1>2. Mine(l) \in Order
  BY <1>1 DEF Mine, TypeOK
<1>3. Mine(l).file \in Name
  BY <1>2 DEF Order
<1>4. QED
  BY <1>1, <1>2, <1>3, OwnStatusType DEF JobId

\* The outcome of a step is the outcome so far, or one that a call has.
LEMMA ResultType ==
  ASSUME TypeOK, NEW l \in Lane, NEW x \in {"none", "NOTEXITS", "REFUSE", "FAILED"}
  PROVE  /\ [result EXCEPT ![l] = x] \in [Lane -> {"none", "NOTEXITS", "REFUSE", "FAILED"}]
         /\ result[l] \in {"none", "NOTEXITS", "REFUSE", "FAILED"}
BY DEF TypeOK

\* Each step of a thread keeps the types.
LEMMA StepTyped ==
  ASSUME TypeOK, InHand, NEW l \in Lane, Step(l)
  PROVE  TypeOK'
<1> USE DEF Working
<1>1. CASE Begin(l)
  <2>1. PICK j \in waiting : /\ LaneOf(asked[j]) = l
                             /\ waiting' = waiting \ {j}
                             /\ cur' = [cur EXCEPT ![l] = j]
                             /\ Show(OwnStatus(asked[j]), JobId(j), "PRE_DOWNLOAD")
                             /\ Goto(l, IF l = "app" \/ asked[j].withAPP THEN "ack" ELSE "image")
    BY <1>1 DEF Begin
  <2>2. j \in Job /\ asked[j] \in Order /\ JobId(j) \in Job \union {NoJob}
    BY DEF TypeOK, JobId
  <2>3. status' \in [Status -> Records]
    BY <2>1, <2>2, OwnStatusType, ShowType, StateIs
  <2>4. QED
    BY <1>1, <2>1, <2>2, <2>3 DEF Begin, Goto, TypeOK, outside, Records
<1>2. CASE Acknowledge(l)
  <2>1. sent' \subseteq Messages
    BY <1>2, InHandType, SayType DEF Acknowledge, Codes
  <2>2. QED
    BY <1>2, <2>1 DEF Acknowledge, Goto, TypeOK, outside, Messages, Codes
<1>3. CASE FetchStart(l)
  <2>1. status' \in [Status -> Records]
    BY <1>3, InHandType, ShowType, StateIs DEF FetchStart
  <2>2. file' \in [Name -> Files]
    <3>1. /\ file \in [Name -> Files] /\ Mine(l).file \in Name
          /\ [of |-> cur[l], complete |-> FALSE] \in Files
      BY <1>3, InHandType DEF FetchStart, TypeOK, Files
    <3>2. \/ file' = [file EXCEPT ![Mine(l).file] = file[Mine(l).file]]
          \/ file' = [file EXCEPT ![Mine(l).file] = [of |-> cur[l], complete |-> FALSE]]
          \/ file' = file
      BY <1>3 DEF FetchStart
    <3>3. QED
      BY <3>1, <3>2
  <2>3. QED
    BY <1>3, <2>1, <2>2 DEF FetchStart, Goto, TypeOK, outside, Records, Files
<1>4. CASE FetchEnd(l)
  <2>1. status' \in [Status -> Records]
    <3>1. CASE l = "container"
      BY <1>4, <3>1 DEF FetchEnd, AfterFetch, TypeOK, Records
    <3>2. CASE l # "container"
      BY <1>4, <3>2, InHandType, ShowType, StateIs DEF FetchEnd, AfterFetch
    <3>3. QED
      BY <3>1, <3>2
  <2>2. /\ pc' \in [Lane -> Working \union {"idle"}]
        /\ cur' \in [Lane -> Job \union {NoJob}]
    <3>1. AfterFetch(l)
      BY <1>4 DEF FetchEnd
    <3>2. CASE l = "container"
      BY <3>1, <3>2 DEF AfterFetch, Goto, TypeOK
    <3>3. CASE l # "container" /\ Mine(l).deferred
      <4>1. pc' = [pc EXCEPT ![l] = "idle"]
        BY <3>1, <3>3 DEF AfterFetch, Goto
      <4>2. cur' = [cur EXCEPT ![l] = NoJob]
        BY <3>1, <3>3 DEF AfterFetch
      <4>3. QED
        BY <4>1, <4>2 DEF TypeOK
    <3>4. CASE l # "container" /\ ~Mine(l).deferred
      BY <3>1, <3>4 DEF AfterFetch, Goto, TypeOK
    <3>5. QED
      BY <3>2, <3>3, <3>4
  <2>3. [file EXCEPT ![Mine(l).file].complete = TRUE] \in [Name -> Files]
    <3>1. file \in [Name -> Files] /\ Mine(l).file \in Name
      BY <1>4, InHandType DEF FetchEnd, TypeOK, Files
    <3>2. [file[Mine(l).file] EXCEPT !.complete = TRUE] \in Files
      BY <3>1 DEF Files
    <3>3. QED
      BY <3>1, <3>2
  <2>4. file' \in [Name -> Files]
    BY <1>4, <2>3 DEF FetchEnd, TypeOK, Files
  <2>5. /\ result' \in [Lane -> {"none", "NOTEXITS", "REFUSE", "FAILED"}]
        /\ refused' \subseteq Job
    BY <1>4, InHandType DEF FetchEnd, TypeOK
  <2>6. QED
    BY <1>4, <2>1, <2>2, <2>4, <2>5 DEF FetchEnd, TypeOK, Records, Files
<1>5. CASE ImageStart(l)
  <2>1. status' \in [Status -> Records]
    BY <1>5, ShowType, StateIs DEF ImageStart, Status
  <2>2. QED
    BY <1>5, <2>1 DEF ImageStart, Goto, TypeOK, outside, Records
<1>6. CASE ImageEnd(l)
  <2>1. /\ result' \in [Lane -> {"none", "NOTEXITS", "REFUSE", "FAILED"}]
        /\ refused' \subseteq Job
    <3>1. /\ cur[l] \in Job
          /\ \/ result' = [result EXCEPT ![l] = result[l]]
             \/ result' = [result EXCEPT ![l] = "NOTEXITS"]
          /\ refused' = refused \/ refused' = refused \union {cur[l]}
      BY <1>6, InHandType DEF ImageEnd
    <3>2. QED
      BY <3>1, ResultType DEF TypeOK
  <2>2. QED
    <3>1. \/ /\ pc' = [pc EXCEPT ![l] = "idle"]
             /\ cur' = [cur EXCEPT ![l] = NoJob]
          \/ /\ pc' = [pc EXCEPT ![l] = "create"]
             /\ cur' = cur
      BY <1>6 DEF ImageEnd, Goto
    <3>2. /\ pc' \in [Lane -> Working \union {"idle"}]
          /\ cur' \in [Lane -> Job \union {NoJob}]
      BY <3>1 DEF TypeOK
    <3>3. QED
      BY <1>6, <2>1, <3>2 DEF ImageEnd, TypeOK
<1>7. CASE Create(l)
  <2>1. /\ result' \in [Lane -> {"none", "NOTEXITS", "REFUSE", "FAILED"}]
        /\ refused' \subseteq Job
    <3>1. /\ cur[l] \in Job
          /\ \/ result' = [result EXCEPT ![l] = result[l]]
             \/ result' = [result EXCEPT ![l] = "FAILED"]
          /\ refused' = refused \/ refused' = refused \union {cur[l]}
      BY <1>7, InHandType DEF Create
    <3>2. QED
      BY <3>1, ResultType DEF TypeOK
  <2>2. QED
    BY <1>7, <2>1 DEF Create, Goto, TypeOK
<1>8. CASE Hash(l)
  <2>1. status' \in [Status -> Records]
    BY <1>8, InHandType, ShowType, StateIs DEF Hash, Status
  <2>2. file[Mine(l).file] \in Files
    BY <1>8, InHandType DEF Hash, TypeOK, Files
  <2>3. /\ result' \in [Lane -> {"none", "NOTEXITS", "REFUSE", "FAILED"}]
        /\ refused' \subseteq Job
    <3>1. /\ cur[l] \in Job
          /\ result' = result \/ result' = [result EXCEPT ![l] = Denied(l)]
          /\ refused' = refused \/ refused' = refused \union {cur[l]}
      BY <1>8, InHandType DEF Hash
    <3>2. QED
      BY <3>1, ResultType DEF TypeOK, Denied
  <2>4. hashed' \in [Lane -> Files]
    BY <1>8, <2>2 DEF Hash, TypeOK, Files
  <2>5. pc' \in [Lane -> Working \union {"idle"}]
    <3>1. \/ pc' = [pc EXCEPT ![l] = "report"]
          \/ pc' = [pc EXCEPT ![l] = "call"]
      BY <1>8 DEF Hash, Goto
    <3>2. QED
      BY <3>1 DEF TypeOK
  <2>6. QED
    BY <1>8, <2>1, <2>3, <2>4, <2>5 DEF Hash, TypeOK, Records, Files
<1>9. CASE Call(l)
  <2>1. file[Mine(l).file] \in Files
    BY <1>9, InHandType DEF Call, TypeOK, Files
  <2>2. /\ result' \in [Lane -> {"none", "NOTEXITS", "REFUSE", "FAILED"}]
        /\ refused' \subseteq Job
    <3>1. /\ cur[l] \in Job
          /\ \/ result' = [result EXCEPT ![l] = result[l]]
             \/ result' = [result EXCEPT ![l] = Denied(l)]
          /\ refused' = refused \/ refused' = refused \union {cur[l]}
      BY <1>9, InHandType DEF Call
    <3>2. QED
      BY <3>1, ResultType DEF TypeOK, Denied
  <2>3. installed' \in [Job -> Job \union {NoJob}]
    BY <1>9, <2>1, InHandType DEF Call, TypeOK, Files
  <2>4. QED
    BY <1>9, <2>2, <2>3 DEF Call, Goto, TypeOK
<1>10. CASE Report(l)
  <2>1. status' \in [Status -> Records]
    <3>1. CASE l = "app"
      BY <1>10, <3>1, InHandType, ShowType, StateIs DEF Report, Status
    <3>2. CASE l # "app"
      BY <1>10, <3>2 DEF Report, TypeOK, Records
    <3>3. QED
      BY <3>1, <3>2
  <2>2. result[l] \in Codes
    BY DEF TypeOK, Codes
  <2>3. sent' \subseteq Messages
    BY <1>10, <2>2, InHandType, SayType DEF Report
  <2>4. QED
    BY <1>10, <2>1, <2>3 DEF Report, Goto, TypeOK, outside, Records, Messages, Codes
<1>11. QED
  BY <1>1, <1>2, <1>3, <1>4, <1>5, <1>6, <1>7, <1>8, <1>9, <1>10 DEF Step

-----------------------------------------------------------------------------
(* What a thread has in hand                                               *)

\* A thread that goes on with its job keeps it in hand, if it does not come past
\* the downloads with a deferred one.
LEMMA GoesOn ==
  ASSUME TypeOK, InHand, NEW l \in Lane, NEW p \in Working, pc[l] \in Working,
         Goto(l, p), UNCHANGED <<asked, waiting, cur>>,
         p \in Late => (pc[l] \in Late \/ ~Mine(l).deferred)
  PROVE  InHand'
<1>1. ASSUME NEW k \in Lane
      PROVE  /\ pc'[k] \in Working =>
                  cur[k] \in Job /\ cur[k] \notin waiting /\ LaneOf(asked[cur[k]]) = k
             /\ pc'[k] \in Late => ~asked[cur[k]].deferred
  <2>1. CASE k = l
    BY <2>1 DEF Goto, InHand, Mine, TypeOK
  <2>2. CASE k # l
    BY <2>2 DEF Goto, InHand, TypeOK
  <2>3. QED
    BY <2>1, <2>2
<1>2. \A j : LaneOf(asked[j])' = LaneOf(asked[j])
  BY DEF LaneOf
<1>3. QED
  BY <1>1, <1>2 DEF InHand, LaneOf

\* So does every other thread when one has done with its job.
LEMMA LetsGo ==
  ASSUME TypeOK, InHand, NEW l \in Lane, Goto(l, "idle"),
         cur' = [cur EXCEPT ![l] = NoJob], UNCHANGED <<asked, waiting>>
  PROVE  InHand'
<1>1. pc'[l] = "idle"
  BY DEF Goto, TypeOK
<1>2. \A k \in Lane : k # l => pc'[k] = pc[k] /\ cur'[k] = cur[k]
  BY DEF Goto, TypeOK
<1>3. QED
  BY <1>1, <1>2 DEF InHand, LaneOf, Working, Late

\* Each step of a thread keeps the jobs in hand.
LEMMA StepInHand ==
  ASSUME TypeOK, InHand, NEW l \in Lane, Step(l)
  PROVE  InHand'
<1>1. CASE Begin(l)
  <2>1. PICK j \in waiting :
               /\ LaneOf(asked[j]) = l
               /\ waiting' = waiting \ {j}
               /\ cur' = [cur EXCEPT ![l] = j]
               /\ Goto(l, IF l = "app" \/ asked[j].withAPP THEN "ack" ELSE "image")
    BY <1>1 DEF Begin
  <2>2. j \in Job /\ asked' = asked
    BY <1>1 DEF Begin, outside, TypeOK
  <2>3. pc'[l] \in {"ack", "image"} /\ cur'[l] = j
    BY <2>1 DEF Goto, TypeOK
  <2>4. \A k \in Lane : k # l => pc'[k] = pc[k] /\ cur'[k] = cur[k]
    BY <2>1 DEF Goto, TypeOK
  <2>5. QED
    BY <2>1, <2>2, <2>3, <2>4 DEF InHand, LaneOf, Working, Late
<1>2. CASE Acknowledge(l)
  BY <1>2, GoesOn DEF Acknowledge, outside, Working, Late
<1>3. CASE FetchStart(l)
  BY <1>3, GoesOn DEF FetchStart, outside, Working, Late
<1>4. CASE FetchEnd(l)
  <2>1. AfterFetch(l) /\ UNCHANGED <<asked, waiting>> /\ pc[l] = "fetch"
    BY <1>4 DEF FetchEnd
  <2>2. CASE l = "container"
    BY <2>1, <2>2, GoesOn DEF AfterFetch, Working, Late
  <2>3. CASE l # "container" /\ Mine(l).deferred
    BY <2>1, <2>3, LetsGo DEF AfterFetch
  <2>4. CASE l # "container" /\ ~Mine(l).deferred
    BY <2>1, <2>4, GoesOn DEF AfterFetch, Working, Late
  <2>5. QED
    BY <2>2, <2>3, <2>4
<1>5. CASE ImageStart(l)
  BY <1>5, GoesOn DEF ImageStart, outside, Working, Late
<1>6. CASE ImageEnd(l)
  <2>1. UNCHANGED <<asked, waiting>> /\ pc[l] = "imagefetch"
    BY <1>6 DEF ImageEnd
  <2>2. CASE Mine(l).deferred
    BY <1>6, <2>1, <2>2, LetsGo DEF ImageEnd
  <2>3. CASE ~Mine(l).deferred
    BY <1>6, <2>1, <2>3, GoesOn DEF ImageEnd, Working, Late
  <2>4. QED
    BY <2>2, <2>3
<1>7. CASE Create(l)
  BY <1>7, GoesOn DEF Create, Working, Late
<1>8. CASE Hash(l)
  <2>1. UNCHANGED <<asked, waiting, cur>> /\ pc[l] = "hash"
    BY <1>8 DEF Hash
  <2>2. Goto(l, "report") \/ Goto(l, "call")
    BY <1>8 DEF Hash
  <2>3. QED
    BY <2>1, <2>2, GoesOn DEF Working, Late
<1>9. CASE Call(l)
  BY <1>9, GoesOn DEF Call, Working, Late
<1>10. CASE Report(l)
  BY <1>10, LetsGo DEF Report, outside
<1>11. QED
  BY <1>1, <1>2, <1>3, <1>4, <1>5, <1>6, <1>7, <1>8, <1>9, <1>10 DEF Step

\* After a restart no thread has a job.
LEMMA RestartTyped ==
  ASSUME TypeOK, Restart
  PROVE  TypeOK' /\ InHand'
<1>1. InHand'
  BY DEF Restart, InHand, Working, Late
<1>2. status' \in [Status -> Records]
  BY StateIs DEF Restart, Records
<1>3. hashed' \in [Lane -> Files]
  BY DEF Restart, NoFile, Files
<1>4. crashes' \in 0 .. Crashes
  BY JobsAssumption DEF Restart, TypeOK
<1>5. TypeOK'
  BY <1>2, <1>3, <1>4 DEF Restart, outside, TypeOK, Records, Files
<1>6. QED
  BY <1>1, <1>5

\* What the other proofs rest on: the types, and the jobs in hand.
LEMMA Inductive == Spec => [](TypeOK /\ InHand)
<1>1. Init => TypeOK /\ InHand
  <2> SUFFICES ASSUME Init
               PROVE  TypeOK /\ InHand
    OBVIOUS
  <2>1. InHand
    BY DEF Init, InHand, Working, Late
  <2>2. status \in [Status -> Records]
    BY StateIs DEF Init, Records
  <2>3. file \in [Name -> Files] /\ hashed \in [Lane -> Files]
    BY DEF Init, NoFile, Files
  <2>4. asked \in [Job -> Order] /\ crashes \in 0 .. Crashes
    BY JobsAssumption DEF Init
  <2>5. QED
    BY <2>1, <2>2, <2>3, <2>4 DEF Init, TypeOK, Records, Files
<1>2. TypeOK /\ InHand /\ [Next]_vars => TypeOK' /\ InHand'
  <2> SUFFICES ASSUME TypeOK, InHand, [Next]_vars
               PROVE  TypeOK' /\ InHand'
    OBVIOUS
  <2>1. CASE Next
    BY <2>1, StepTyped, StepInHand, RestartTyped DEF Next
  <2>2. CASE UNCHANGED vars
    BY <2>2 DEF vars, outside, threads, TypeOK, InHand, LaneOf
  <2>3. QED
    BY <2>1, <2>2
<1>3. QED
  BY <1>1, <1>2, PTL DEF Spec

\* The variables keep their types, whatever the threads do and whenever the
\* process ends.
THEOREM TypeCorrect == Spec => []TypeOK
  BY Inductive, PTL

-----------------------------------------------------------------------------
(* Deferred jobs                                                           *)

Early == {"EXE_INSTALL", "FINISH_INSTALL"}

NoneInstalled == \A j \in Job : asked[j].deferred => installed[j] = NoJob
NoneShown     == \A j \in Job, s \in Status :
                   asked[j].deferred /\ status[s].job = j => status[s].state \notin Early

\* The two halves of the property.
LEMMA Halves == NotTooEarly <=> NoneInstalled /\ NoneShown
  BY DEF NotTooEarly, NoneInstalled, NoneShown, Early

\* What is shown says nothing too early if the state is none of the last ones, or
\* the job is not deferred.
LEMMA ShowsNone ==
  ASSUME TypeOK, NoneShown, asked' = asked, NEW s \in Status, NEW k, NEW state,
         Show(s, k, state), state \in Early => k \in Job /\ ~asked[k].deferred
  PROVE  NoneShown'
<1>1. /\ status'[s] = [job |-> k, state |-> state]
      /\ \A t \in Status : t # s => status'[t] = status[t]
  BY DEF Show, TypeOK
<1>2. QED
  BY <1>1 DEF NoneShown

\* Each step of a thread leaves deferred jobs where they are.
LEMMA StepNotTooEarly ==
  ASSUME TypeOK, InHand, NoneInstalled, NoneShown, NEW l \in Lane, Step(l)
  PROVE  NoneInstalled' /\ NoneShown'
<1> USE DEF Working, Late, Early
<1>1. asked' = asked
  BY DEF Step, Begin, Acknowledge, FetchStart, FetchEnd, ImageStart, ImageEnd, Create,
         Hash, Call, Report, outside
<1>2. ASSUME UNCHANGED installed
      PROVE  NoneInstalled'
  BY <1>1, <1>2 DEF NoneInstalled
<1>3. ASSUME UNCHANGED status
      PROVE  NoneShown'
  BY <1>1, <1>3 DEF NoneShown
<1>4. CASE Begin(l)
  <2>1. PICK j \in waiting : Show(OwnStatus(asked[j]), JobId(j), "PRE_DOWNLOAD")
    BY <1>4 DEF Begin
  <2>2. j \in Job /\ asked[j] \in Order
    BY DEF TypeOK
  <2>3. QED
    BY <1>1, <1>2, <1>4, <2>1, <2>2, OwnStatusType, ShowsNone DEF Begin, outside
<1>5. CASE Acknowledge(l) \/ ImageEnd(l) \/ Create(l)
  BY <1>2, <1>3, <1>5 DEF Acknowledge, ImageEnd, Create, outside
<1>6. CASE FetchStart(l)
  BY <1>1, <1>2, <1>6, InHandType, ShowsNone DEF FetchStart, outside
<1>7. CASE FetchEnd(l)
  <2>1. NoneInstalled'
    BY <1>2, <1>7 DEF FetchEnd
  <2>2. CASE l = "container"
    BY <1>3, <1>7, <2>1, <2>2 DEF FetchEnd, AfterFetch
  <2>3. CASE l # "container"
    BY <1>1, <1>7, <2>1, <2>3, InHandType, ShowsNone DEF FetchEnd, AfterFetch
  <2>4. QED
    BY <2>2, <2>3
<1>8. CASE ImageStart(l)
  BY <1>1, <1>2, <1>8, ShowsNone DEF ImageStart, outside, Status
<1>9. CASE Hash(l)
  <2>1. cur[l] \in Job /\ ~asked[cur[l]].deferred
    BY <1>9 DEF Hash, InHand
  <2>2. QED
    BY <1>1, <1>2, <1>9, <2>1, ShowsNone DEF Hash, Status
<1>10. CASE Call(l)
  <2>1. cur[l] \in Job /\ ~asked[cur[l]].deferred
    BY <1>10 DEF Call, InHand
  <2>2. \A j \in Job : j # cur[l] => installed'[j] = installed[j]
    BY <1>10 DEF Call, TypeOK
  <2>3. NoneInstalled'
    BY <1>1, <2>1, <2>2 DEF NoneInstalled
  <2>4. QED
    BY <1>3, <1>10, <2>3 DEF Call
<1>11. CASE Report(l)
  <2>1. cur[l] \in Job /\ ~asked[cur[l]].deferred
    BY <1>11 DEF Report, InHand
  <2>2. NoneInstalled'
    BY <1>2, <1>11 DEF Report, outside
  <2>3. CASE l = "app"
    BY <1>1, <1>11, <2>1, <2>2, <2>3, ShowsNone DEF Report, Status
  <2>4. CASE l # "app"
    BY <1>3, <1>11, <2>2, <2>4 DEF Report
  <2>5. QED
    BY <2>3, <2>4
<1>12. QED
  BY <1>4, <1>5, <1>6, <1>7, <1>8, <1>9, <1>10, <1>11 DEF Step

\* A deferred job is never installed, and no status says that it is: a thread
\* leaves it before the steps that install and that show these states, and no
\* other job's steps show its jobId.
THEOREM NeverTooEarly == Spec => []NotTooEarly
<1>1. Init => NoneInstalled /\ NoneShown
  BY DEF Init, NoneInstalled, NoneShown, Early
<1>2. ASSUME TypeOK, InHand, NoneInstalled, NoneShown, [Next]_vars
      PROVE  NoneInstalled' /\ NoneShown'
  <2>1. CASE \E l \in Lane : Step(l)
    BY <1>2, <2>1, StepNotTooEarly
  <2>2. CASE Restart
    BY <1>2, <2>2 DEF Restart, outside, NoneInstalled, NoneShown, Early
  <2>3. CASE UNCHANGED vars
    BY <1>2, <2>3 DEF vars, outside, NoneInstalled, NoneShown
  <2>4. QED
    BY <1>2, <2>1, <2>2, <2>3 DEF Next
<1>3. QED
  BY <1>1, <1>2, Inductive, Halves, PTL DEF Spec

-----------------------------------------------------------------------------
(* The order of the states                                                 *)

\* How far a status about the job in hand may have come, by the thread's step.
Top(p) == CASE p \in {"ack", "file"} -> 2
            [] p \in {"fetch", "image", "imagefetch", "create"} -> 3
            [] p = "hash" -> 4
            [] OTHER -> 5

\* No status is about a job that waits, and none is ahead of the job's thread.
NotAhead ==
  /\ \A s \in Status : status[s].job \in Job => status[s].job \notin waiting
  /\ \A s \in Status, l \in Lane :
       pc[l] \in Working /\ status[s].job = cur[l]
         => Rank(status[s].state) <= Top(pc[l])

Forward(s) ==
  (status[s].job # NoJob /\ status'[s].job = status[s].job)
    => Rank(status'[s].state) >= Rank(status[s].state)

\* The ranks are numbers.
LEMMA RankType == \A state \in State : Rank(state) \in 1 .. 6
  BY StateIs, RankIs

\* A step with a job in hand, which either shows nothing or a state of that job that
\* is no less than what the statuses may say before it and no more than what they
\* may say after it, or nothing about any job.
LEMMA Advances ==
  ASSUME TypeOK, InHand, NotAhead, NEW l \in Lane, pc[l] \in Working,
         UNCHANGED <<asked, waiting>>,
         \A k \in Lane : k # l => pc'[k] = pc[k] /\ cur'[k] = cur[k],
         pc'[l] \in Working => cur'[l] = cur[l] /\ Top(pc[l]) <= Top(pc'[l]),
         \/ UNCHANGED status
         \/ \E s \in Status, k \in {NoJob, cur[l]}, state \in State :
              /\ Show(s, k, state)
              /\ Top(pc[l]) <= Rank(state)
              /\ pc'[l] \in Working => Rank(state) <= Top(pc'[l])
         \/ \E s \in Status, state \in State : Show(s, NoJob, state)
  PROVE  NotAhead' /\ \A s \in Status : Forward(s)
<1>1. cur[l] \in Job /\ cur[l] \notin waiting /\ cur[l] # NoJob
  BY JobsAssumption DEF InHand
<1>2. \A k \in Lane : k # l /\ pc[k] \in Working =>
                        cur[k] # cur[l] /\ cur[k] \in Job /\ cur[k] # NoJob
  BY JobsAssumption DEF InHand
<1>3. \A s \in Status : /\ status[s].state \in State
                        /\ Rank(status[s].state) \in Int
  BY RankType DEF TypeOK
<1>4. Top(pc[l]) \in Int /\ Top(pc'[l]) \in Int
  BY DEF Top
<1>5. CASE UNCHANGED status
  <2>1. \A s \in Status : Forward(s)
    BY <1>3, <1>5 DEF Forward
  <2>2. \A s \in Status, k \in Lane :
          pc'[k] \in Working /\ status'[s].job = cur'[k]
            => Rank(status'[s].state) <= Top(pc'[k])
    <3>1. TAKE s \in Status, k \in Lane
    <3>2. CASE k = l
      BY <1>3, <1>4, <1>5, <3>2 DEF NotAhead
    <3>3. CASE k # l
      BY <1>5, <3>3 DEF NotAhead
    <3>4. QED
      BY <3>2, <3>3
  <2>3. QED
    BY <1>5, <2>1, <2>2 DEF NotAhead
<1>6. ASSUME NEW s \in Status, NEW j \in {NoJob, cur[l]}, NEW state \in State,
             Show(s, j, state),
             j = cur[l] => /\ Top(pc[l]) <= Rank(state)
                           /\ pc'[l] \in Working => Rank(state) <= Top(pc'[l])
      PROVE  NotAhead' /\ \A t \in Status : Forward(t)
  <2>1. /\ status'[s] = [job |-> j, state |-> state]
        /\ \A t \in Status : t # s => status'[t] = status[t]
    BY <1>6 DEF Show, TypeOK
  <2>2. Rank(state) \in Int
    BY RankType
  <2>3. Forward(s)
    <3>1. CASE j = NoJob
      BY <2>1, <3>1 DEF Forward
    <3>2. CASE j = cur[l]
      BY <1>3, <1>4, <1>6, <2>1, <2>2, <3>2 DEF Forward, NotAhead
    <3>3. QED
      BY <3>1, <3>2
  <2>4. \A t \in Status : Forward(t)
    BY <1>3, <2>1, <2>3 DEF Forward
  <2>5. \A t \in Status : status'[t].job \in Job => status'[t].job \notin waiting
    BY <1>1, <2>1, JobsAssumption DEF NotAhead
  <2>6. \A t \in Status, k \in Lane :
          pc'[k] \in Working /\ status'[t].job = cur'[k]
            => Rank(status'[t].state) <= Top(pc'[k])
    <3>1. SUFFICES ASSUME NEW t \in Status, NEW k \in Lane, pc'[k] \in Working,
                          status'[t].job = cur'[k]
                   PROVE  Rank(status'[t].state) <= Top(pc'[k])
      OBVIOUS
    <3>2. CASE t = s /\ k = l
      BY <1>1, <1>6, <2>1, <3>1, <3>2
    <3>3. CASE t = s /\ k # l
      BY <1>2, <2>1, <3>1, <3>3
    <3>4. CASE t # s /\ k = l
      BY <1>3, <1>4, <2>1, <3>1, <3>4 DEF NotAhead
    <3>5. CASE t # s /\ k # l
      BY <2>1, <3>1, <3>5 DEF NotAhead
    <3>6. QED
      BY <3>2, <3>3, <3>4, <3>5
  <2>7. QED
    BY <2>4, <2>5, <2>6 DEF NotAhead
<1>7. QED
  BY <1>1, <1>5, <1>6

\* A thread that takes up a job shows its first state in a record, and no record
\* was about that job before.
LEMMA BeginAdvances ==
  ASSUME TypeOK, InHand, NotAhead, NEW l \in Lane, Begin(l)
  PROVE  NotAhead' /\ \A s \in Status : Forward(s)
<1>1. PICK j \in waiting :
             /\ waiting' = waiting \ {j}
             /\ cur' = [cur EXCEPT ![l] = j]
             /\ Show(OwnStatus(asked[j]), JobId(j), "PRE_DOWNLOAD")
             /\ Goto(l, IF l = "app" \/ asked[j].withAPP THEN "ack" ELSE "image")
  BY DEF Begin
<1>2. j \in Job /\ j # NoJob /\ OwnStatus(asked[j]) \in Status
  BY JobsAssumption, OwnStatusType DEF TypeOK
<1>3. /\ pc'[l] \in {"ack", "image"} /\ cur'[l] = j
      /\ \A k \in Lane : k # l => pc'[k] = pc[k] /\ cur'[k] = cur[k]
  BY <1>1 DEF Goto, TypeOK
<1>4. /\ status'[OwnStatus(asked[j])] = [job |-> JobId(j), state |-> "PRE_DOWNLOAD"]
      /\ \A t \in Status : t # OwnStatus(asked[j]) => status'[t] = status[t]
  BY <1>1, <1>2 DEF Show, TypeOK
<1>5. JobId(j) \in {NoJob, j}
  BY DEF JobId
<1>6. \A t \in Status : status[t].job # j /\ Rank(status[t].state) \in Int
  BY <1>2, RankType DEF NotAhead, TypeOK
<1>7. \A k \in Lane : pc[k] \in Working => cur[k] # j /\ cur[k] \in Job
  BY DEF InHand
<1>8. \A t \in Status : Forward(t)
  BY <1>4, <1>5, <1>6 DEF Forward
<1>9. \A t \in Status : status'[t].job \in Job => status'[t].job \notin waiting'
  BY <1>1, <1>4, <1>5, JobsAssumption DEF NotAhead
<1>10. \A t \in Status, k \in Lane :
         pc'[k] \in Working /\ status'[t].job = cur'[k]
           => Rank(status'[t].state) <= Top(pc'[k])
  <2>1. SUFFICES ASSUME NEW t \in Status, NEW k \in Lane, pc'[k] \in Working,
                        status'[t].job = cur'[k]
                 PROVE  Rank(status'[t].state) <= Top(pc'[k])
    OBVIOUS
  <2>2. CASE k = l
    <3>1. status'[t].state = "PRE_DOWNLOAD"
      BY <1>3, <1>4, <1>6, <2>1, <2>2
    <3>2. QED
      BY <1>3, <2>2, <3>1, RankIs DEF Top
  <2>3. CASE k # l
    <3>1. t # OwnStatus(asked[j])
      BY <1>3, <1>4, <1>5, <1>7, <2>1, <2>3, JobsAssumption
    <3>2. QED
      BY <1>3, <1>4, <2>1, <2>3, <3>1 DEF NotAhead
  <2>4. QED
    BY <2>2, <2>3
<1>11. QED
  BY <1>8, <1>9, <1>10 DEF NotAhead

\* Each step of a thread takes the statuses forward.
LEMMA StepForward ==
  ASSUME TypeOK, InHand, NotAhead, NEW l \in Lane, Step(l)
  PROVE  NotAhead' /\ \A s \in Status : Forward(s)
<1> USE StateIs, RankIs DEF Working, Top, Status
<1>1. CASE Begin(l)
  BY <1>1, BeginAdvances
<1>2. ASSUME NEW p, Goto(l, p), cur' = cur \/ cur' = [cur EXCEPT ![l] = NoJob]
      PROVE  /\ pc'[l] = p
             /\ \A k \in Lane : k # l => pc'[k] = pc[k] /\ cur'[k] = cur[k]
  BY <1>2 DEF Goto, TypeOK
<1>3. ASSUME pc[l] \in Working
      PROVE  JobId(cur[l]) \in {NoJob, cur[l]} /\ OwnStatus(Mine(l)) \in Status
  BY <1>3, InHandType DEF JobId
<1>4. CASE Acknowledge(l)
  BY <1>2, <1>4, Advances DEF Acknowledge, outside
<1>5. CASE FetchStart(l)
  BY <1>2, <1>3, <1>5, Advances DEF FetchStart, outside
<1>6. CASE FetchEnd(l)
  <2>1. AfterFetch(l) /\ UNCHANGED <<asked, waiting>> /\ pc[l] = "fetch"
    BY <1>6 DEF FetchEnd
  <2>2. CASE l = "container"
    BY <1>2, <2>1, <2>2, Advances DEF AfterFetch
  <2>3. CASE l # "container" /\ Mine(l).deferred
    BY <1>2, <1>3, <2>1, <2>3, Advances DEF AfterFetch
  <2>4. CASE l # "container" /\ ~Mine(l).deferred
    BY <1>2, <1>3, <2>1, <2>4, Advances DEF AfterFetch
  <2>5. QED
    BY <2>2, <2>3, <2>4
<1>7. CASE ImageStart(l)
  BY <1>2, <1>7, Advances DEF ImageStart, outside
<1>8. CASE ImageEnd(l)
  <2>1. UNCHANGED <<asked, waiting, status>> /\ pc[l] = "imagefetch"
    BY <1>8 DEF ImageEnd
  <2>2. CASE Mine(l).deferred
    BY <1>2, <1>8, <2>1, <2>2, Advances DEF ImageEnd
  <2>3. CASE ~Mine(l).deferred
    BY <1>2, <1>8, <2>1, <2>3, Advances DEF ImageEnd
  <2>4. QED
    BY <2>2, <2>3
<1>9. CASE Create(l)
  BY <1>2, <1>9, Advances DEF Create
<1>10. CASE Hash(l)
  <2>1. /\ Goto(l, "report") \/ Goto(l, "call")
        /\ Show("app_install", cur[l], "EXE_INSTALL")
        /\ UNCHANGED <<asked, waiting, cur>> /\ pc[l] = "hash"
    BY <1>10 DEF Hash
  <2>2. QED
    BY <1>2, <2>1, Advances
<1>11. CASE Call(l)
  BY <1>2, <1>11, Advances DEF Call
<1>12. CASE Report(l)
  <2>1. /\ Goto(l, "idle") /\ cur' = [cur EXCEPT ![l] = NoJob]
        /\ UNCHANGED <<asked, waiting>> /\ pc[l] = "report"
        /\ UNCHANGED status \/ Show("app_install", cur[l], "FINISH_INSTALL")
    BY <1>12 DEF Report, outside
  <2>2. QED
    BY <1>2, <2>1, Advances
<1>13. QED
  BY <1>1, <1>4, <1>5, <1>6, <1>7, <1>8, <1>9, <1>10, <1>11, <1>12 DEF Step

\* While a status is about one job its state never goes back, though two threads
\* write app_install_status: the job is in one thread's hands only, and what the
\* status says of it was said at an earlier step of that thread.
THEOREM StatesAdvance == Spec => StatusForward
<1>1. Init => NotAhead
  BY JobsAssumption DEF Init, NotAhead, Working
<1>2. ASSUME TypeOK, InHand, NotAhead, [Next]_vars
      PROVE  NotAhead' /\ [\A s \in Status : Forward(s)]_vars
  <2>1. CASE \E l \in Lane : Step(l)
    BY <1>2, <2>1, StepForward
  <2>2. CASE Restart
    BY <1>2, <2>2, JobsAssumption DEF Restart, NotAhead, Working, Forward
  <2>3. CASE UNCHANGED vars
    BY <1>2, <2>3 DEF vars, threads, outside, NotAhead
  <2>4. QED
    BY <1>2, <2>1, <2>2, <2>3 DEF Next
<1>3. StatusForward <=> [][\A s \in Status : Forward(s)]_vars
  BY DEF StatusForward, Forward
<1>4. QED
  BY <1>1, <1>2, <1>3, Inductive, PTL DEF Spec

-----------------------------------------------------------------------------
(* What a result says                                                      *)

\* A job that is to install a file it downloads, under a name that no job of the
\* other thread writes to.
Alone(j)  == ~ \E k \in Job : LaneOf(asked[k]) # LaneOf(asked[j]) /\ Installs(k) /\ SameFile(j, k)
Sought(j) == Installs(j) /\ asked[j].url /\ Alone(j)

\* The steps that only a job with an application comes to, those it comes to when
\* its file is there, and those of a container.
Applying == {"ack", "file", "fetch", "hash", "call"}
Fetched  == {"image", "imagefetch", "create", "hash", "call"}
Imaging  == {"image", "imagefetch", "create"}

\* Each thread takes the steps that are its own.
OwnSteps(l) == /\ pc[l] \in Applying => Installs(cur[l])
               /\ pc[l] \in Imaging  => l = "container"

\* No result is out about a job that waits or is in hand.
NotReported ==
  /\ \A j \in waiting : j \notin refused /\ Results(j) = {}
  /\ \A l \in Lane : pc[l] \in Working => Results(cur[l]) = {}

\* While a job has no error, no call for it failed, its own file is there once it
\* has been fetched, and is what was installed.
NoError(l) ==
  pc[l] \in Working /\ result[l] = "none" =>
    /\ cur[l] \notin refused
    /\ Sought(cur[l]) =>
         /\ pc[l] \in Fetched  => file[Mine(l).file].of = cur[l]
         /\ pc[l] = "report" => installed[cur[l]] = cur[l]

Faithful ==
  /\ NotReported
  /\ \A l \in Lane : OwnSteps(l)
  /\ \A l \in Lane : NoError(l)
  /\ \A j \in Job : \A m \in Results(j) : m.code = "none" =>
       j \notin refused /\ (Sought(j) => installed[j] = j)

\* What a step of a thread may touch: its own job and, in the steps only jobs with
\* an application come to, its own file.
LEMMA StepTouches ==
  ASSUME TypeOK, InHand, NEW l \in Lane, Step(l)
  PROVE  /\ asked' = asked /\ waiting' \subseteq waiting
         /\ \A k \in Lane : k # l => pc'[k] = pc[k] /\ cur'[k] = cur[k] /\ result'[k] = result[k]
         /\ refused \subseteq refused'
         /\ refused' # refused => pc[l] \in Working /\ refused' = refused \union {cur[l]}
         /\ \A j \in Job : installed'[j] # installed[j] => pc[l] = "call" /\ j = cur[l]
         /\ \A n \in Name : file'[n] # file[n] => pc[l] \in Applying /\ n = Mine(l).file
<1> USE DEF Working, Applying, outside
<1>1. ASSUME NEW p, Goto(l, p)
      PROVE  \A k \in Lane : k # l => pc'[k] = pc[k]
  BY <1>1 DEF Goto, TypeOK
<1>2. pc[l] \in Working => cur[l] \in Job /\ Mine(l).file \in Name
  BY InHandType
<1>3. CASE Begin(l)
  BY <1>1, <1>3 DEF Begin, TypeOK
<1>4. CASE Acknowledge(l)
  BY <1>1, <1>4 DEF Acknowledge
<1>5. CASE FetchStart(l)
  BY <1>1, <1>2, <1>5 DEF FetchStart, TypeOK
<1>6. CASE FetchEnd(l)
  <2>1. pc[l] = "fetch" /\ AfterFetch(l) /\ UNCHANGED <<asked, installed, waiting>>
    BY <1>6 DEF FetchEnd
  <2>2. \A k \in Lane : k # l => pc'[k] = pc[k] /\ cur'[k] = cur[k]
    BY <1>1, <2>1 DEF AfterFetch, TypeOK
  <2>3. file' = file \/ file' = [file EXCEPT ![Mine(l).file].complete = TRUE]
    BY <1>6 DEF FetchEnd
  <2>4. \A n \in Name : n # Mine(l).file => file'[n] = file[n]
    BY <2>3 DEF TypeOK
  <2>5. /\ \A k \in Lane : k # l => result'[k] = result[k]
        /\ refused' = refused \/ refused' = refused \union {cur[l]}
    BY <1>6 DEF FetchEnd, TypeOK
  <2> QED
    BY <2>1, <2>2, <2>4, <2>5
<1>7. CASE ImageStart(l)
  BY <1>1, <1>7 DEF ImageStart
<1>8. CASE ImageEnd(l)
  BY <1>1, <1>8 DEF ImageEnd, TypeOK
<1>9. CASE Create(l)
  BY <1>1, <1>9 DEF Create, TypeOK
<1>10. CASE Hash(l)
  BY <1>1, <1>10 DEF Hash, TypeOK
<1>11. CASE Call(l)
  BY <1>1, <1>2, <1>11 DEF Call, TypeOK
<1>12. CASE Report(l)
  BY <1>1, <1>12 DEF Report, TypeOK
<1> QED
  BY <1>3, <1>4, <1>5, <1>6, <1>7, <1>8, <1>9, <1>10, <1>11, <1>12 DEF Step

\* A thread leaves what the other one knows of its job alone: the two have
\* different jobs, and the file of a job that is alone is written by none else.
LEMMA OthersKeep ==
  ASSUME TypeOK, InHand, Faithful, NEW l \in Lane, Step(l), NEW k \in Lane, k # l
  PROVE  NoError(k)' /\ OwnSteps(k)'
<1>1. /\ asked' = asked
      /\ pc'[k] = pc[k] /\ cur'[k] = cur[k] /\ result'[k] = result[k]
      /\ refused' # refused => pc[l] \in Working /\ refused' = refused \union {cur[l]}
      /\ \A j \in Job : installed'[j] # installed[j] => pc[l] = "call" /\ j = cur[l]
      /\ \A n \in Name : file'[n] # file[n] => pc[l] \in Applying /\ n = Mine(l).file
  BY StepTouches
<1>2. Sought(cur[k])' <=> Sought(cur[k])
  BY <1>1 DEF Installs, Sought, Alone, SameFile, LaneOf
<1>3. OwnSteps(k)'
  BY <1>1 DEF Faithful, OwnSteps, Installs
<1>4. SUFFICES ASSUME pc[k] \in Working, result[k] = "none"
               PROVE  /\ cur[k] \notin refused'
                      /\ Sought(cur[k]) =>
                           /\ pc[k] \in Fetched  => file'[Mine(k).file].of = cur[k]
                           /\ pc[k] = "report" => installed'[cur[k]] = cur[k]
  BY <1>1, <1>2, <1>3 DEF NoError, Mine
<1>5. /\ cur[k] \in Job /\ LaneOf(asked[cur[k]]) = k /\ Mine(k).file \in Name
      /\ pc[l] \in Working => cur[l] \in Job /\ LaneOf(asked[cur[l]]) = l
  BY <1>4, InHandType DEF InHand
<1>6. NoError(k)
  BY DEF Faithful
<1>7. cur[k] \notin refused'
  BY <1>1, <1>4, <1>5, <1>6 DEF NoError
<1>8. installed'[cur[k]] = installed[cur[k]]
  BY <1>1, <1>5 DEF Working
<1>9. ASSUME Sought(cur[k]) PROVE file'[Mine(k).file] = file[Mine(k).file]
  <2>1. SUFFICES ASSUME pc[l] \in Applying, Mine(k).file = Mine(l).file PROVE FALSE
    BY <1>1, <1>5
  <2>2. Installs(cur[l]) /\ cur[l] \in Job /\ LaneOf(asked[cur[l]]) = l
    BY <1>5, <2>1 DEF Faithful, OwnSteps, Applying, Working
  <2> QED
    BY <1>5, <1>9, <2>1, <2>2 DEF Sought, Alone, SameFile, Mine
<1> QED
  BY <1>4, <1>6, <1>7, <1>8, <1>9 DEF NoError

\* A thread that takes up a job knows nothing against it yet.
LEMMA BeginFaithful ==
  ASSUME TypeOK, InHand, Faithful, NEW l \in Lane, Begin(l)
  PROVE  Faithful'
<1>1. PICK j \in waiting :
             /\ LaneOf(asked[j]) = l
             /\ waiting' = waiting \ {j}
             /\ cur' = [cur EXCEPT ![l] = j]
             /\ Goto(l, IF l = "app" \/ asked[j].withAPP THEN "ack" ELSE "image")
  BY DEF Begin
<1>2. /\ pc'[l] = (IF l = "app" \/ asked[j].withAPP THEN "ack" ELSE "image") /\ cur'[l] = j
      /\ \A k \in Lane : k # l => pc'[k] = pc[k] /\ cur'[k] = cur[k]
  BY <1>1 DEF Goto, TypeOK
<1>3. UNCHANGED <<asked, installed, refused, file, sent>>
  BY DEF Begin, outside
<1>4. \A i : /\ Results(i)' = Results(i) /\ (Installs(i)' <=> Installs(i))
             /\ (Sought(i)' <=> Sought(i))
  BY <1>3 DEF Results, Installs, Sought, Alone, SameFile, LaneOf
<1>5. NotReported'
  BY <1>1, <1>2, <1>3, <1>4 DEF Faithful, NotReported
<1>6. Installs(j) <=> l = "app" \/ asked[j].withAPP
  BY <1>1 DEF Installs, LaneOf
<1>7. NoError(l)'
  <2>1. j \notin refused' /\ pc'[l] # "report"
    BY <1>2, <1>3 DEF Faithful, NotReported
  <2>2. ~Installs(j) \/ pc'[l] \notin Fetched
    BY <1>2, <1>6 DEF Fetched
  <2>3. Sought(cur[l])' => Installs(j)
    BY <1>2, <1>3 DEF Sought, Installs
  <2> QED
    BY <1>2, <2>1, <2>2, <2>3 DEF NoError
<1>8. OwnSteps(l)'
  BY <1>2, <1>3, <1>6 DEF OwnSteps, Imaging, Applying, Installs, Lane
<1>9. Step(l)
  BY DEF Step
<1>10. \A i \in Job : \A m \in Results(i)' : m.code = "none" =>
          i \notin refused' /\ (Sought(i)' => installed'[i] = i)
  BY <1>3, <1>4 DEF Faithful
<1>11. \A k \in Lane : NoError(k)' /\ OwnSteps(k)'
  <2>1. ASSUME NEW k \in Lane
        PROVE  NoError(k)' /\ OwnSteps(k)'
    <3>1. CASE k = l
      BY <3>1, <1>7, <1>8
    <3>2. CASE k # l
      BY <3>2, <1>9, OthersKeep
    <3> QED
      BY <3>1, <3>2
  <2> QED
    BY <2>1
<1> QED
  BY <1>5, <1>10, <1>11 DEF Faithful

\* A step that is about a job in hand, and reports nothing, keeps the invariant if
\* it keeps what is known of that job.
LEMMA OwnSuffices ==
  ASSUME TypeOK, InHand, Faithful, NEW l \in Lane, Step(l), pc[l] \in Working,
         UNCHANGED waiting, cur'[l] = cur[l] \/ pc'[l] = "idle",
         \A j : Results(j)' = Results(j),
         NoError(l)', pc'[l] \in Applying => Installs(cur[l]), pc'[l] \in Imaging => l = "container"
  PROVE  Faithful'
<1>1. /\ asked' = asked
      /\ \A k \in Lane : k # l => pc'[k] = pc[k] /\ cur'[k] = cur[k]
      /\ refused' # refused => refused' = refused \union {cur[l]}
      /\ \A j \in Job : installed'[j] # installed[j] => pc[l] = "call" /\ j = cur[l]
  BY StepTouches
<1>2. cur[l] \in Job /\ cur[l] \notin waiting /\ Results(cur[l]) = {}
  BY DEF InHand, Faithful, NotReported
<1>3. \A i : (Installs(i)' <=> Installs(i)) /\ (Sought(i)' <=> Sought(i))
  BY <1>1 DEF Installs, Sought, Alone, SameFile, LaneOf
<1>4. NotReported'
  <2>1. \A j \in waiting' : j \notin refused' /\ Results(j)' = {}
    BY <1>1, <1>2 DEF Faithful, NotReported
  <2>2. \A k \in Lane : pc'[k] \in Working => Results(cur[k]) = {} /\ cur'[k] = cur[k]
    BY <1>1, <1>2 DEF Faithful, NotReported, Working
  <2>3. \A j : {m \in sent' : m.what = "result" /\ m.of = j} = Results(j)
    BY DEF Results
  <2>4. \A k \in Lane : pc'[k] \in Working => Results(cur[k])' = {}
    BY <2>2, <2>3 DEF Results
  <2> QED
    BY <2>1, <2>4 DEF NotReported
<1>5. \A j \in Job : \A m \in Results(j)' : m.code = "none" =>
        j \notin refused' /\ (Sought(j)' => installed'[j] = j)
  BY <1>1, <1>2, <1>3 DEF Faithful
<1>6. \A k \in Lane : NoError(k)' /\ OwnSteps(k)'
  <2>1. ASSUME NEW k \in Lane
        PROVE  NoError(k)' /\ OwnSteps(k)'
    <3>1. CASE k = l
      BY <3>1, <1>1 DEF OwnSteps, Imaging, Applying, Installs, Lane
    <3>2. CASE k # l
      BY <3>2, OthersKeep
    <3> QED
      BY <3>1, <3>2
  <2> QED
    BY <2>1
<1> QED
  BY <1>4, <1>5, <1>6 DEF Faithful

\* The downloads: an error is remembered, and without one the job's own file is there.
LEMMA FetchFaithful ==
  ASSUME TypeOK, InHand, Faithful, NEW l \in Lane, Step(l),
         Acknowledge(l) \/ FetchStart(l) \/ FetchEnd(l)
  PROVE  Faithful'
<1> DEFINE name == Mine(l).file
<1>1. pc[l] \in Working /\ pc[l] \in Applying /\ asked' = asked /\ waiting' = waiting
  BY DEF Acknowledge, FetchStart, FetchEnd, outside, Working, Applying
<1>2. cur[l] \in Job /\ name \in Name /\ Installs(cur[l])
  BY <1>1, InHandType DEF Faithful, OwnSteps
<1>3. \A j : Results(j)' = Results(j)
  BY DEF Acknowledge, FetchStart, FetchEnd, Say, Results
<1>4. ASSUME result[l] = "none" PROVE cur[l] \notin refused
  BY <1>1, <1>4 DEF Faithful, NoError
<1>5. CASE Acknowledge(l) \/ FetchStart(l)
  <2>1. /\ pc'[l] \in {"file", "fetch"} /\ cur' = cur
        /\ UNCHANGED <<result, refused>>
    BY <1>5 DEF Acknowledge, FetchStart, Goto, TypeOK, outside
  <2>2. NoError(l)'
    BY <1>4, <2>1 DEF NoError, Fetched
  <2> QED
    BY <1>1, <1>2, <1>3, <2>1, <2>2, OwnSuffices DEF Imaging
<1>6. CASE FetchEnd(l)
  <2>1. pc[l] = "fetch" /\ AfterFetch(l)
    BY <1>6 DEF FetchEnd
  <2>2. \/ pc'[l] = "idle"
        \/ pc'[l] = "image" /\ l = "container" /\ cur' = cur
        \/ pc'[l] = "hash" /\ cur' = cur
    BY <2>1 DEF AfterFetch, Goto, TypeOK
  <2>3. CASE /\ Mine(l).url => file[name] = [of |-> cur[l], complete |-> FALSE]
             /\ file' = IF Mine(l).url THEN [file EXCEPT ![name].complete = TRUE] ELSE file
             /\ UNCHANGED <<result, refused>>
    <3>1. Mine(l).url => file'[name].of = cur[l]
      BY <1>2, <2>3 DEF TypeOK
    <3>2. pc'[l] # "idle" => (Sought(cur[l])' => file'[name].of = cur[l])
      BY <1>1, <2>2, <3>1 DEF Sought, Mine
    <3>3. NoError(l)'
      BY <1>1, <1>4, <2>2, <2>3, <3>2 DEF NoError, Mine, Working
    <3> QED
      BY <1>1, <1>2, <1>3, <2>2, <3>3, OwnSuffices DEF Imaging, Applying
  <2>4. CASE result' = [result EXCEPT ![l] = "NOTEXITS"]
    <3>1. NoError(l)'
      BY <2>4 DEF NoError, TypeOK
    <3> QED
      BY <1>1, <1>2, <1>3, <2>2, <3>1, OwnSuffices DEF Imaging, Applying
  <2> QED
    BY <1>6, <2>3, <2>4 DEF FetchEnd
<1> QED
  BY <1>5, <1>6

\* The container, with its image: nothing of this concerns the application's file.
LEMMA ContainerFaithful ==
  ASSUME TypeOK, InHand, Faithful, NEW l \in Lane, Step(l),
         ImageStart(l) \/ ImageEnd(l) \/ Create(l)
  PROVE  Faithful'
<1>1. /\ pc[l] \in {"image", "imagefetch", "create"} /\ asked' = asked
      /\ UNCHANGED <<waiting, file, sent>>
  BY DEF ImageStart, ImageEnd, Create, outside
<1>2. \A j : Results(j)' = Results(j)
  BY <1>1 DEF Results
<1>3. \/ pc'[l] = "idle"
      \/ /\ cur' = cur
         /\ pc'[l] \in {"imagefetch", "create", "report", "hash"}
         /\ pc'[l] = "hash" => Mine(l).withAPP
         /\ pc'[l] = "report" => ~Mine(l).withAPP
  <2>1. ASSUME NEW p, Goto(l, p) PROVE pc'[l] = p
    BY <2>1 DEF Goto, TypeOK
  <2>2. CASE ImageStart(l)
    BY <2>1, <2>2 DEF ImageStart
  <2>3. CASE ImageEnd(l)
    BY <2>1, <2>3 DEF ImageEnd
  <2>4. CASE Create(l)
    BY <2>1, <2>4 DEF Create
  <2> QED
    BY <2>2, <2>3, <2>4
<1>4. result'[l] = "none" => result[l] = "none" /\ refused' = refused
  <2>1. CASE ImageStart(l)
    BY <2>1 DEF ImageStart, outside
  <2>2. ASSUME NEW ok \in BOOLEAN, NEW code \in {"NOTEXITS", "FAILED"},
               refused' = IF ok THEN refused ELSE refused \union {cur[l]},
               result' = [result EXCEPT ![l] = IF ok THEN @ ELSE code]
        PROVE  result'[l] = "none" => result[l] = "none" /\ refused' = refused
    BY <2>2 DEF TypeOK
  <2>3. CASE ImageEnd(l)
    BY <2>2, <2>3 DEF ImageEnd
  <2>4. CASE Create(l)
    BY <2>2, <2>4 DEF Create
  <2> QED
    BY <2>1, <2>3, <2>4
<1>5. pc[l] \in Working /\ cur[l] \in Job /\ l = "container"
  BY <1>1, InHandType DEF Faithful, OwnSteps, Imaging, Working
<1>6. Installs(cur[l]) <=> Mine(l).withAPP
  BY <1>5 DEF InHand, Installs, Mine, LaneOf
<1>7. NoError(l)'
  <2>1. SUFFICES ASSUME pc'[l] # "idle", result'[l] = "none"
                 PROVE  /\ cur[l] \notin refused'
                        /\ Sought(cur[l])' =>
                             /\ pc'[l] \in Fetched  => file[Mine(l).file].of = cur[l]
                             /\ pc'[l] = "report" => installed'[cur[l]] = cur[l]
    BY <1>1, <1>3 DEF NoError, Mine, Working
  <2>2. NoError(l)
    BY DEF Faithful
  <2>3. Sought(cur[l])' <=> Sought(cur[l])
    BY <1>1, <1>3, <2>1 DEF Sought, Installs, Alone, SameFile, LaneOf
  <2> QED
    BY <1>1, <1>3, <1>4, <1>5, <1>6, <2>1, <2>2, <2>3 DEF NoError, Sought, Fetched
<1> QED
  BY <1>1, <1>2, <1>3, <1>5, <1>6, <1>7, OwnSuffices DEF Applying

\* The middleware: a job has no error only if its own file was installed and no
\* call failed.
LEMMA InstallFaithful ==
  ASSUME TypeOK, InHand, Faithful, NEW l \in Lane, Step(l), Hash(l) \/ Call(l)
  PROVE  Faithful'
<1> DEFINE name == Mine(l).file
<1>1. /\ pc[l] \in {"hash", "call"} /\ pc'[l] \in {"call", "report"}
      /\ UNCHANGED <<asked, waiting, cur, file, sent>>
  BY DEF Hash, Call, Goto, TypeOK
<1>2. \A j : Results(j)' = Results(j)
  BY <1>1 DEF Results
<1>3. /\ cur[l] \in Job /\ name \in Name /\ pc[l] \in Working
      /\ Installs(cur[l])
  BY <1>1, InHandType DEF Faithful, OwnSteps, Working, Applying
<1>4. Denied(l) \in {"REFUSE", "FAILED"}
  BY DEF Denied
<1>5. result'[l] = "none" => /\ result[l] = "none" /\ refused' = refused
                             /\ pc'[l] = "report" => installed'[cur[l]] = file[name].of
  <2>1. CASE Hash(l)
    BY <1>3, <1>4, <2>1 DEF Hash, Goto, TypeOK
  <2>2. CASE Call(l)
    <3>1. ASSUME NEW ok \in BOOLEAN, NEW calls \in BOOLEAN, ok => calls,
                 result' = [result EXCEPT ![l] = IF ok THEN @ ELSE Denied(l)],
                 refused' = IF calls THEN refused ELSE refused \union {cur[l]}
          PROVE  result'[l] = "none" => ok /\ result[l] = "none" /\ refused' = refused
      BY <1>4, <3>1 DEF TypeOK
    <3>2. CASE result' = [result EXCEPT ![l] = Denied(l)]
      BY <1>4, <3>2 DEF TypeOK
    <3>3. CASE /\ installed' = [installed EXCEPT ![cur[l]] = file[name].of]
               /\ \E ok, calls \in BOOLEAN :
                    /\ ok => calls
                    /\ result' = [result EXCEPT ![l] = IF ok THEN @ ELSE Denied(l)]
                    /\ refused' = IF calls THEN refused ELSE refused \union {cur[l]}
      BY <1>3, <3>1, <3>3 DEF TypeOK
    <3>4. Mine(l).enable \in BOOLEAN
      BY <1>3, InHandType DEF Order
    <3> QED
      BY <2>2, <3>2, <3>3, <3>4 DEF Call
  <2> QED
    BY <2>1, <2>2
<1>6. NoError(l)'
  <2>1. SUFFICES ASSUME result'[l] = "none"
                 PROVE  /\ cur[l] \notin refused'
                        /\ Sought(cur[l])' =>
                             /\ pc'[l] \in Fetched  => file[name].of = cur[l]
                             /\ pc'[l] = "report" => installed'[cur[l]] = cur[l]
    BY <1>1 DEF NoError, Mine, Working
  <2>2. NoError(l)
    BY DEF Faithful
  <2>3. Sought(cur[l])' <=> Sought(cur[l])
    BY <1>1 DEF Sought, Installs, Alone, SameFile, LaneOf
  <2> QED
    BY <1>1, <1>3, <1>5, <2>1, <2>2, <2>3 DEF NoError, Fetched
<1> QED
  BY <1>1, <1>2, <1>3, <1>6, OwnSuffices DEF Imaging

\* The result is out, and the thread is done with the job for good.
LEMMA ReportFaithful ==
  ASSUME TypeOK, InHand, Faithful, NEW l \in Lane, Step(l), Report(l)
  PROVE  Faithful'
<1>1. /\ pc[l] = "report" /\ UNCHANGED <<asked, installed, refused, waiting>>
      /\ sent' = sent \union {[what |-> "result", job |-> JobId(cur[l]), of |-> cur[l],
                               code |-> result[l]]}
      /\ pc'[l] = "idle"
      /\ \A k \in Lane : k # l => pc'[k] = pc[k] /\ cur'[k] = cur[k]
  BY DEF Report, outside, Say, Goto, TypeOK
<1>2. cur[l] \in Job /\ cur[l] \notin waiting /\ LaneOf(asked[cur[l]]) = l
  BY <1>1 DEF InHand, Working
<1>3. \A j : j # cur[l] => Results(j)' = Results(j)
  BY <1>1 DEF Results
<1>4. Results(cur[l]) = {}
  BY <1>1 DEF Faithful, NotReported, Working
<1>5. \A j : j = cur[l] => \A m \in Results(j)' : m.code = result[l]
  BY <1>1, <1>4 DEF Results
<1>6. \A i : Sought(i)' <=> Sought(i)
  BY <1>1 DEF Installs, Sought, Alone, SameFile, LaneOf
<1>7. NotReported'
  <2>1. \A j \in waiting' : j \notin refused' /\ Results(j)' = {}
    BY <1>1, <1>2, <1>3 DEF Faithful, NotReported
  <2>2. \A k \in Lane : pc'[k] \in Working => k # l /\ Results(cur[k]) = {} /\ cur[k] # cur[l]
    BY <1>1, <1>2 DEF Faithful, NotReported, Working, InHand
  <2>3. \A k \in Lane : pc'[k] \in Working => Results(cur[k])' = {}
    BY <1>1, <2>2 DEF Results
  <2> QED
    BY <2>1, <2>3 DEF NotReported
<1>8. \A j \in Job : \A m \in Results(j)' : m.code = "none" =>
        j \notin refused' /\ (Sought(j)' => installed'[j] = j)
  <2>1. NoError(l)
    BY DEF Faithful
  <2>2. ASSUME NEW j \in Job, NEW m \in Results(j)', m.code = "none"
        PROVE  j \notin refused' /\ (Sought(j)' => installed'[j] = j)
    <3>1. CASE j = cur[l]
      BY <1>1, <1>5, <1>6, <2>1, <2>2, <3>1 DEF NoError, Working
    <3>2. CASE j # cur[l]
      BY <1>1, <1>3, <1>6, <2>2, <3>2 DEF Faithful
    <3> QED
      BY <3>1, <3>2
  <2> QED
    BY <2>2
<1>9. \A k \in Lane : NoError(k)' /\ OwnSteps(k)'
  <2>1. ASSUME NEW k \in Lane PROVE NoError(k)' /\ OwnSteps(k)'
    <3>1. CASE k = l
      BY <1>1, <3>1 DEF NoError, OwnSteps, Working, Applying, Imaging
    <3>2. CASE k # l
      BY <3>2, OthersKeep
    <3> QED
      BY <3>1, <3>2
  <2> QED
    BY <2>1
<1> QED
  BY <1>7, <1>8, <1>9 DEF Faithful

\* A restart forgets every job that has not been reported.
LEMMA RestartFaithful ==
  ASSUME TypeOK, InHand, Faithful, Restart
  PROVE  Faithful'
<1>1. /\ UNCHANGED <<asked, installed, refused, file, sent>>
      /\ waiting' = {} /\ \A l \in Lane : pc'[l] = "idle"
  BY DEF Restart, outside
<1>2. \A j : Results(j)' = Results(j) /\ (Sought(j)' <=> Sought(j))
  BY <1>1 DEF Results, Installs, Sought, Alone, SameFile, LaneOf
<1>3. NotReported' /\ \A l \in Lane : NoError(l)' /\ OwnSteps(l)'
  BY <1>1 DEF NotReported, NoError, OwnSteps, Working, Applying, Imaging
<1> QED
  BY <1>1, <1>2, <1>3 DEF Faithful

\* A result without an error tells the truth, over failed downloads, stale files
\* and restarts: no call for the job failed, and what the middleware installed is
\* the file the job downloaded, unless a job of the other thread has a file of
\* the same name.
THEOREM ResultsTellTheTruth == Spec => []ResultHonest
<1>1. Init => Faithful
  BY DEF Init, Faithful, NotReported, NoError, OwnSteps, Results, Working, Applying, Imaging
<1>2. ASSUME TypeOK, InHand, Faithful, [Next]_vars
      PROVE  Faithful'
  <2>1. ASSUME NEW l \in Lane, Step(l) PROVE Faithful'
    BY <1>2, <2>1, BeginFaithful, FetchFaithful, ContainerFaithful, InstallFaithful,
       ReportFaithful DEF Step
  <2>2. CASE Restart
    BY <1>2, <2>2, RestartFaithful
  <2>3. CASE UNCHANGED vars
    <3>1. UNCHANGED <<asked, installed, refused, waiting, pc, cur, result, file, sent>>
      BY <2>3 DEF vars, outside, threads
    <3>2. \A j : Results(j)' = Results(j) /\ (Sought(j)' <=> Sought(j))
      BY <3>1 DEF Results, Installs, Sought, Alone, SameFile, LaneOf
    <3>3. NotReported' /\ \A l \in Lane : NoError(l)' /\ OwnSteps(l)'
      BY <1>2, <3>1 DEF Faithful, NotReported, Results, NoError, OwnSteps, Sought, Installs,
                        Alone, SameFile, LaneOf, Mine
    <3> QED
      BY <1>2, <3>1, <3>2, <3>3 DEF Faithful
  <2> QED
    BY <1>2, <2>1, <2>2, <2>3 DEF Next
<1>3. Faithful => ResultHonest
  BY DEF Faithful, ResultHonest, Sought, Alone
<1> QED
  BY <1>1, <1>2, <1>3, Inductive, PTL DEF Spec
=============================================================================
