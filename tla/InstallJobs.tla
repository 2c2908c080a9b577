----------------------------- MODULE InstallJobs ------------------------------
(***************************************************************************)
(* The jobs that go on after their command was taken: the installation of  *)
(* a container, with or without an application in it, in the container     *)
(* thread, and the installation and the upgrade of an application in the   *)
(* application thread.  A job downloads its files, hands them to the       *)
(* middleware, keeps a status for the platform's queries, and reports its  *)
(* result.  The two threads share the download directory and, since the    *)
(* container thread also installs applications, app_install_status.        *)
(*                                                                         *)
(* The server the files come from and the middleware are external.  That a *)
(* push to the queue of messages may find it full is left to LinkSession.  *)
(***************************************************************************)
EXTENDS Integers, Sequences, FiniteSets

CONSTANTS
  Job,       \* the jobs, by jobId
  Name,      \* names of the files of applications
  Orders,    \* bound: what the platform may order, a subset of Order
  Crashes    \* bound: how often the process ends in the middle

Kinds == {"CON_INSTALL", "APP_INSTALL", "APP_UPGRADE"}

\* What a command orders: withAPP tells whether a container gets an application,
\* file is the application's file and url whether it has to be downloaded;
\* deferred stands for policy > 0.
Order == [kind : Kinds, withAPP : BOOLEAN, file : Name, url : BOOLEAN,
          enable : BOOLEAN, deferred : BOOLEAN]

\* The jobId of a status that no job has set; what platforms give is not 0.
NoJob == "0"

ASSUME JobsAssumption ==
  /\ Orders \subseteq Order
  /\ NoJob \notin Job
  /\ Crashes \in Nat

Lane == {"container", "app"}
LaneOf(order) == IF order.kind = "CON_INSTALL" THEN "container" ELSE "app"

\* The records platform queries are answered from.
Status == {"container_install", "app_install", "app_upgrade"}

\* up_status_tag_t, in the order a job goes through it
States == <<"NULL", "PRE_DOWNLOAD", "EXE_DOWNLOAD", "PRE_INSTALL", "EXE_INSTALL",
            "FINISH_INSTALL">>
State  == {States[i] : i \in DOMAIN States}
Rank(state) == CHOOSE i \in DOMAIN States : States[i] = state

VARIABLES
  asked,       \* external: what each job is
  waiting,     \* jobs whose commands wait for their thread
  pc, cur,     \* where each thread is, and its job
  result,      \* statusobj.code of that job
  status,      \* container_install_status and its like
  file,        \* the file of each name: whose it is, and is it complete?
  hashed,      \* app_hash: the file the hash was taken of
  installed,   \* external: whose file the middleware installed for a job
  refused,     \* external: the jobs for which some call failed
  sent,        \* history: the acknowledgements and results queued
  crashes

threads == <<pc, cur, result>>
outside == <<asked, installed, refused>>
vars    == <<outside, waiting, threads, status, file, hashed, sent, crashes>>

NoFile == [of |-> NoJob, complete |-> FALSE]

Mine(l)    == asked[cur[l]]
Goto(l, p) == pc' = [pc EXCEPT ![l] = p]

\* The status a job shows while it downloads.
OwnStatus(order) == CASE order.kind = "CON_INSTALL" -> "container_install"
                      [] order.kind = "APP_INSTALL" -> "app_install"
                      [] order.kind = "APP_UPGRADE" -> "app_upgrade"

\* set_container_install_status and its like, with the jobId a handler gives.
Show(s, j, state) == status' = [status EXCEPT ![s] = [job |-> j, state |-> state]]

\* The handler of container installations leaves the jobId of its records at 0.
JobId(j) == IF asked[j].kind = "CON_INSTALL" THEN NoJob ELSE j

Say(what, j, code) ==
  sent' = sent \union {[what |-> what, job |-> JobId(j), of |-> j, code |-> code]}

-----------------------------------------------------------------------------
(* The command and its acknowledgement                                     *)

Begin(l) ==
  /\ pc[l] = "idle"
  /\ \E j \in waiting :
       /\ LaneOf(asked[j]) = l
       /\ waiting' = waiting \ {j}
       /\ cur' = [cur EXCEPT ![l] = j]
       /\ Show(OwnStatus(asked[j]), JobId(j), "PRE_DOWNLOAD")
       /\ Goto(l, IF l = "app" \/ asked[j].withAPP THEN "ack" ELSE "image")
  /\ result' = [result EXCEPT ![l] = "none"]
  /\ UNCHANGED <<outside, file, hashed, sent, crashes>>

\* A container without an application is not acknowledged.
Acknowledge(l) ==
  /\ pc[l] = "ack"
  /\ Say("ack", cur[l], IF l = "app" THEN "WAIT" ELSE "SUCCESS")
  /\ Goto(l, "file")
  /\ UNCHANGED <<outside, waiting, cur, result, status, file, hashed, crashes>>

-----------------------------------------------------------------------------
(* sg_file_download, for the file of the application                       *)

\* Downloading overwrites what is there under the name; without a url the file
\* there is used.
FetchStart(l) ==
  /\ pc[l] = "file"
  /\ Show(OwnStatus(Mine(l)), JobId(cur[l]), "EXE_DOWNLOAD")
  /\ IF Mine(l).url
     THEN \E f \in {file[Mine(l).file], [of |-> cur[l], complete |-> FALSE]} :
            file' = [file EXCEPT ![Mine(l).file] = f]
     ELSE UNCHANGED file
  /\ Goto(l, "fetch")
  /\ UNCHANGED <<outside, waiting, cur, result, hashed, sent, crashes>>

\* A variant of AfterFetch that is wrong: a deferred job is not left.
AfterFetchAtOnce(l) ==
  IF l = "container" THEN UNCHANGED status /\ Goto(l, "image") /\ UNCHANGED cur
  ELSE /\ Show(OwnStatus(Mine(l)), JobId(cur[l]), "PRE_INSTALL")
       /\ Goto(l, "hash") /\ UNCHANGED cur

\* Where the thread goes when the files are there, an application's job with
\* its status first: a deferred job is left at that.
AfterFetch(l) ==
  IF l = "container" THEN UNCHANGED status /\ Goto(l, "image") /\ UNCHANGED cur
  ELSE /\ Show(OwnStatus(Mine(l)), JobId(cur[l]), "PRE_INSTALL")
       /\ IF Mine(l).deferred
          THEN Goto(l, "idle") /\ cur' = [cur EXCEPT ![l] = NoJob]
          ELSE Goto(l, "hash") /\ UNCHANGED cur

\* A variant of FetchEnd that is wrong: what failed is tried again at once.
FetchEndRetry(l) ==
  /\ pc[l] = "fetch"
  /\ \/ /\ Mine(l).url => file[Mine(l).file] = [of |-> cur[l], complete |-> FALSE]
        /\ file' = IF Mine(l).url THEN [file EXCEPT ![Mine(l).file].complete = TRUE]
                   ELSE file
        /\ AfterFetch(l)
     \/ Mine(l).url /\ Goto(l, "file") /\ UNCHANGED <<cur, status, file>>
  /\ UNCHANGED <<outside, result, waiting, hashed, sent, crashes>>

\* The file is complete and passes the checks, unless another thread has written
\* to it meanwhile.  A failure, of the download or of a check after it, only
\* leaves a code.
FetchEnd(l) ==
  /\ pc[l] = "fetch"
  /\ \/ /\ Mine(l).url => file[Mine(l).file] = [of |-> cur[l], complete |-> FALSE]
        /\ file' = IF Mine(l).url THEN [file EXCEPT ![Mine(l).file].complete = TRUE]
                   ELSE file
        /\ UNCHANGED <<result, refused>>
     \/ /\ Mine(l).url
        /\ result' = [result EXCEPT ![l] = "NOTEXITS"]
        /\ refused' = refused \union {cur[l]}
        /\ file' \in {file, [file EXCEPT ![Mine(l).file].complete = TRUE]}
  /\ AfterFetch(l)
  /\ UNCHANGED <<asked, installed, waiting, hashed, sent, crashes>>

-----------------------------------------------------------------------------
(* sg_container_install, with the download of the image                    *)

ImageStart(l) ==
  /\ pc[l] = "image"
  /\ Show("container_install", NoJob, "EXE_DOWNLOAD")
  /\ Goto(l, "imagefetch")
  /\ UNCHANGED <<outside, waiting, cur, result, file, hashed, sent, crashes>>

ImageEnd(l) ==
  /\ pc[l] = "imagefetch"
  /\ \E ok \in BOOLEAN :
       /\ refused' = IF ok THEN refused ELSE refused \union {cur[l]}
       /\ result' = [result EXCEPT ![l] = IF ok THEN @ ELSE "NOTEXITS"]
  /\ IF Mine(l).deferred
     THEN Goto(l, "idle") /\ cur' = [cur EXCEPT ![l] = NoJob]
     ELSE Goto(l, "create") /\ UNCHANGED cur
  /\ UNCHANGED <<asked, installed, waiting, status, file, hashed, sent, crashes>>

\* The middleware creates the container, whatever became of the downloads.
Create(l) ==
  /\ pc[l] = "create"
  /\ \E ok \in BOOLEAN :
       /\ refused' = IF ok THEN refused ELSE refused \union {cur[l]}
       /\ result' = [result EXCEPT ![l] = IF ok THEN @ ELSE "FAILED"]
  /\ Goto(l, IF Mine(l).withAPP THEN "hash" ELSE "report")
  /\ UNCHANGED <<asked, installed, waiting, cur, status, file, hashed, sent, crashes>>

-----------------------------------------------------------------------------
(* sg_app_install, sg_app_update and sg_container_with_app_install         *)

Denied(l) == IF l = "app" THEN "REFUSE" ELSE "FAILED"

\* All three show the state in app_install_status, and take the hash of the
\* file that is there.
Hash(l) ==
  /\ pc[l] = "hash"
  /\ Show("app_install", cur[l], "EXE_INSTALL")
  /\ LET f == file[Mine(l).file]
     IN  IF f = NoFile
         THEN /\ result' = [result EXCEPT ![l] = Denied(l)]
              /\ refused' = refused \union {cur[l]}
              /\ Goto(l, "report")
              /\ UNCHANGED hashed
         ELSE /\ hashed' = [hashed EXCEPT ![l] = f]
              /\ Goto(l, "call")
              /\ UNCHANGED <<result, refused>>
  /\ UNCHANGED <<asked, installed, waiting, cur, file, sent, crashes>>

\* A variant of Call that is wrong: the answer of the middleware is not looked at.
CallUnchecked(l) ==
  /\ pc[l] = "call"
  /\ \/ UNCHANGED installed
     \/ installed' = [installed EXCEPT ![cur[l]] = hashed[l].of]
  /\ Goto(l, "report")
  /\ UNCHANGED <<asked, waiting, cur, result, refused, status, file, hashed, sent, crashes>>

\* app_management_action_call_app_install: the middleware, which checks the file
\* against the hash, refuses or installs it.  After an installation follows the
\* call to enable or to disable the application; an application to be disabled
\* counts as failed whatever that call returns.
Call(l) ==
  LET name == Mine(l).file
      fail(ok, calls) ==
        /\ result' = [result EXCEPT ![l] = IF ok THEN @ ELSE Denied(l)]
        /\ refused' = IF calls THEN refused ELSE refused \union {cur[l]}
  IN  /\ pc[l] = "call"
      /\ \/ fail(FALSE, FALSE) /\ UNCHANGED installed
         \/ /\ file[name] = hashed[l]
            /\ installed' = [installed EXCEPT ![cur[l]] = file[name].of]
            /\ \/ /\ Mine(l).kind = "APP_UPGRADE"
                  /\ fail(TRUE, TRUE)
               \/ /\ Mine(l).kind # "APP_UPGRADE"
                  /\ \E ok \in BOOLEAN : fail(ok /\ Mine(l).enable, ok)
      /\ Goto(l, "report")
      /\ UNCHANGED <<asked, waiting, cur, status, file, hashed, sent, crashes>>

\* A variant of Report that is wrong: the state is not advanced before it is shown.
ReportStale(l) ==
  /\ pc[l] = "report"
  /\ IF l = "app" THEN Show("app_install", cur[l], "PRE_INSTALL") ELSE UNCHANGED status
  /\ Say("result", cur[l], result[l])
  /\ Goto(l, "idle")
  /\ cur' = [cur EXCEPT ![l] = NoJob]
  /\ UNCHANGED <<outside, waiting, result, file, hashed, crashes>>

\* A variant of Report that is wrong: the job is cleared before it is reported.
ReportCleared(l) ==
  /\ pc[l] = "report"
  /\ sent' = sent \union {[what |-> "result", job |-> NoJob, of |-> NoJob,
                          code |-> result[l]]}
  /\ Goto(l, "idle")
  /\ cur' = [cur EXCEPT ![l] = NoJob]
  /\ UNCHANGED <<outside, waiting, result, status, file, hashed, crashes>>

\* The application's thread shows the end of an installation and of an upgrade
\* in app_install_status, the container's thread shows none.
Report(l) ==
  /\ pc[l] = "report"
  /\ IF l = "app" THEN Show("app_install", cur[l], "FINISH_INSTALL")
     ELSE UNCHANGED status
  /\ Say("result", cur[l], result[l])
  /\ Goto(l, "idle")
  /\ cur' = [cur EXCEPT ![l] = NoJob]
  /\ UNCHANGED <<outside, waiting, result, file, hashed, crashes>>

-----------------------------------------------------------------------------
(* External: the process ends, and is started again.  Only files are kept. *)

Restart ==
  /\ crashes < Crashes /\ crashes' = crashes + 1
  /\ waiting' = {}
  /\ pc' = [l \in Lane |-> "idle"]
  /\ cur' = [l \in Lane |-> NoJob]
  /\ result' = [l \in Lane |-> "none"]
  /\ status' = [s \in Status |-> [job |-> NoJob, state |-> "NULL"]]
  /\ hashed' = [l \in Lane |-> NoFile]
  /\ UNCHANGED <<outside, file, sent>>

-----------------------------------------------------------------------------
Init ==
  /\ asked \in [Job -> Orders]
  /\ waiting = Job
  /\ pc = [l \in Lane |-> "idle"]
  /\ cur = [l \in Lane |-> NoJob]
  /\ result = [l \in Lane |-> "none"]
  /\ status = [s \in Status |-> [job |-> NoJob, state |-> "NULL"]]
  /\ file = [n \in Name |-> NoFile]
  /\ hashed = [l \in Lane |-> NoFile]
  /\ installed = [j \in Job |-> NoJob]
  /\ refused = {} /\ sent = {} /\ crashes = 0

Step(l) ==
  \/ Begin(l) \/ Acknowledge(l) \/ FetchStart(l) \/ FetchEnd(l)
  \/ ImageStart(l) \/ ImageEnd(l) \/ Create(l) \/ Hash(l) \/ Call(l) \/ Report(l)

Next == (\E l \in Lane : Step(l)) \/ Restart

Spec == Init /\ [][Next]_vars

\* The threads are scheduled, and every download and every call returns.
FairSpec == Spec /\ \A l \in Lane : WF_vars(Step(l))

-----------------------------------------------------------------------------
(* Properties                                                              *)

\* The type of every variable.
TypeOK ==
  /\ asked \in [Job -> Order]
  /\ waiting \subseteq Job /\ refused \subseteq Job
  /\ pc \in [Lane -> {"idle", "ack", "file", "fetch", "image", "imagefetch",
                      "create", "hash", "call", "report"}]
  /\ cur \in [Lane -> Job \union {NoJob}]
  /\ result \in [Lane -> {"none", "NOTEXITS", "REFUSE", "FAILED"}]
  /\ status \in [Status -> [job : Job \union {NoJob}, state : State]]
  /\ file \in [Name -> [of : Job \union {NoJob}, complete : BOOLEAN]]
  /\ hashed \in [Lane -> [of : Job \union {NoJob}, complete : BOOLEAN]]
  /\ installed \in [Job -> Job \union {NoJob}]
  /\ sent \subseteq [what : {"ack", "result"}, job : Job \union {NoJob}, of : Job,
                     code : {"none", "SUCCESS", "WAIT", "NOTEXITS", "REFUSE", "FAILED"}]
  /\ crashes \in 0 .. Crashes

Installs(j)    == asked[j].kind # "CON_INSTALL" \/ asked[j].withAPP
SameFile(j, k) == asked[j].file = asked[k].file
Results(j)     == {m \in sent : m.what = "result" /\ m.of = j}

\* A result without an error tells the truth, through failed downloads, stale
\* files and restarts: no call for the job failed, and the package installed is
\* the one it downloaded, unless a job of the other thread writes to a file of
\* the same name.
ResultHonest ==
  \A j \in Job : \A m \in Results(j) : m.code = "none" =>
    /\ j \notin refused
    /\ \/ ~Installs(j) \/ ~asked[j].url
       \/ installed[j] = j
       \/ \E k \in Job : /\ LaneOf(asked[k]) # LaneOf(asked[j])
                         /\ Installs(k) /\ SameFile(j, k)

\* A deferred job is never installed, so that it is not installed too early, and
\* no status says it is finished, or being installed.
NotTooEarly ==
  \A j \in Job : asked[j].deferred =>
    /\ installed[j] = NoJob
    /\ \A s \in Status :
         status[s].job = j => status[s].state \notin {"EXE_INSTALL", "FINISH_INSTALL"}

\* While a status is about one job its state never goes back, whichever of the
\* two threads writes it.
StatusForward ==
  [][\A s \in Status :
       (status[s].job # NoJob /\ status'[s].job = status[s].job)
         => Rank(status'[s].state) >= Rank(status[s].state)]_vars

\* Every job comes to its end: its result, or its deferral, or the restart.
EveryJobEnds ==
  \A j \in Job : (j \in waiting \/ \E l \in Lane : cur[l] = j)
                   ~> (j \notin waiting /\ \A l \in Lane : cur[l] # j)

\* A deferred job is installed in the end.
DeferredRuns ==
  \A j \in Job : (asked[j].deferred /\ \E m \in sent : m.of = j /\ m.what = "ack")
                   ~> Results(j) # {}

\* When the result of an upgrade is out, its status says that it is finished.
UpgradeFinishes ==
  \A j \in Job :
    (Results(j) # {} /\ status["app_upgrade"].job = j)
      => status["app_upgrade"].state = "FINISH_INSTALL"
=============================================================================
