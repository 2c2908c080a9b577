----------------------------- MODULE DeviceConfig -----------------------------
(***************************************************************************)
(* The command that changes the parameters of the device, in the device's  *)
(* executing thread: its numbers, some of them left out, into fields of    *)
(* some width; thresholds into the middleware, the periods into their      *)
(* file, and the four timers that report at these periods; and the start   *)
(* of the process, which takes the periods from the file again.  The       *)
(* process may end between any two steps; thresholds and file stay, timers *)
(* do not.                                                                 *)
(*                                                                         *)
(* One period stands for the four of a command, one temperature for two.   *)
(* The middleware, the timer service of the platform library and whoever   *)
(* starts the process again are external.                                  *)
(***************************************************************************)
EXTENDS Integers, Sequences, FiniteSets

CONSTANTS
  Orders,        \* bound: the commands the platform may send
  Absent,        \* what a command leaves out
  Half,          \* a temperature that has but one of its two numbers
  FirstPeriod,   \* the period in the file to begin with
  Alert,         \* the middleware's alert threshold, for each resource
  Milli, Word,   \* seconds are multiplied by Milli (1000) modulo Word (2^32)
  Byte,          \* 2^8: a threshold's field
  CreateFails,   \* whether a timer may fail to be created
  Leaks,         \* bound: how often a timer may fail to be deleted
  Crashes        \* bound: how often the process ends on the way

Resource == {"cpu", "mem", "disk"}
Kind     == {"heart", "dev", "container", "app"}

ASSUME ConfigAssumption ==
  /\ LET Number == Nat \union {Absent}
     IN  Orders \subseteq [cpu : Number, mem : Number, disk : Number, period : Number,
                          temp : Int \union {Absent, Half}]
  /\ Absent \notin Int /\ Half \notin Int
  /\ FirstPeriod \in Nat
  /\ Alert \in [Resource -> Nat]
  /\ Milli \in Nat \ {0} /\ Word \in Nat \ {0} /\ Byte \in Nat \ {0}
  /\ CreateFails \in BOOLEAN
  /\ Leaks \in Nat /\ Crashes \in Nat

\* sg_handle_dev_set_para_cmd, down to the parts of sg_set_period
Path == <<"cpu", "mem", "disk", "temp", "truncate", "write",
          "heart", "dev", "container", "app", "reply">>
Places == {Path[i] : i \in DOMAIN Path}

\* The step that follows; the start of the process ends with the last timer.
After(p, starting) ==
  IF p = "app" /\ starting THEN "idle"
  ELSE IF p = "reply" THEN "idle"
  ELSE LET i == CHOOSE n \in DOMAIN Path : Path[n] = p IN Path[i + 1]

\* The kinds whose timers are created from kind k on.
KindsFrom(k) == {Path[i] : i \in {n \in DOMAIN Path : \E m \in DOMAIN Path :
                                   m <= n /\ Path[m] = k /\ Path[n] \in Kind}}

VARIABLES
  pc,          \* "down", "idle", or the step of Path that is next
  starting,    \* main is creating the timers for the first time
  cmd,         \* the command in hand
  file,        \* the period in sg_period_params, or Empty
  m_devperiod, \* the period read from it at the start
  limit,       \* external: the thresholds in the middleware
  timers,      \* external: the timers that run, [id, kind, ms]
  timer_id,    \* g_create_time_heart_id and its like; 0: VOS_NULL_LONG
  stale,       \* history: the kinds whose timers could not be replaced when the
               \* file changed
  replied,     \* history: the last command answered with success, until the
               \* next one comes
  leaks,       \* deletions that failed since the start
  crashes

process == <<pc, starting, cmd, m_devperiod>>
vars    == <<process, file, limit, timers, timer_id, stale, replied, leaks, crashes>>

Empty == -1

NoCommand == [cpu |-> 0, mem |-> 0, disk |-> 0, temp |-> 0, period |-> 0]

\* sg_unpack_dev_set_para_cmd: the part of a number that its field holds, and 0
\* for what is left out.  (The fields of the thresholds are written in four
\* bytes, each over the next, and the last one into the temperature: that makes
\* no difference to a command with a temperature, or of numbers below 2^16.)
Field(n, width) == IF n = Absent THEN 0 ELSE n % width

\* Of a temperature below zero, too, only the lowest byte is written.
Threshold(c, r) == Field(c[r], Byte)
Period(c)       == Field(c.period, Word)

\* What a timer is created with: the product is computed in 32 bits.
Ms(period) == (period * Milli) % Word

Advance == pc' = After(pc, starting)

-----------------------------------------------------------------------------
(* The command                                                             *)

\* With half a temperature the command is dropped: nothing changes.
Begin ==
  /\ pc = "idle"
  /\ cmd' \in {o \in Orders : o.temp # Half}
  /\ replied' = NoCommand
  /\ pc' = Path[1]
  /\ UNCHANGED <<starting, file, m_devperiod, limit, timers, timer_id, stale, leaks, crashes>>

\* A variant of GiveUp that is wrong: it begins again.
GiveUpAgain ==
  /\ pc \in Resource \union {"temp"}
  /\ pc' = "cpu"
  /\ UNCHANGED <<starting, cmd, file, m_devperiod, limit, timers, timer_id, stale, replied,
                 leaks, crashes>>

\* The middleware cannot be reached at some step: the handler returns, without
\* a reply, and with what it has changed so far.
GiveUp ==
  /\ pc \in Resource \union {"temp"}
  /\ pc' = "idle" /\ cmd' = NoCommand
  /\ UNCHANGED <<starting, file, m_devperiod, limit, timers, timer_id, stale, replied,
                 leaks, crashes>>

\* A variant of SetLimit that is wrong: the least threshold is forgotten.
SetAnyLimit ==
  /\ pc \in Resource
  /\ limit' \in IF Threshold(cmd, pc) <= Alert[pc] - 1
                THEN {limit, [limit EXCEPT ![pc] = Threshold(cmd, pc)]} ELSE {limit}
  /\ Advance
  /\ UNCHANGED <<starting, cmd, file, m_devperiod, timers, timer_id, stale, replied,
                 leaks, crashes>>

\* A threshold is passed on if it is at least 50 and below the alert threshold
\* just read; the result of the call is not looked at.
SetLimit ==
  /\ pc \in Resource
  /\ limit' \in IF Threshold(cmd, pc) \in 50 .. Alert[pc] - 1
                THEN {limit, [limit EXCEPT ![pc] = Threshold(cmd, pc)]} ELSE {limit}
  /\ Advance
  /\ UNCHANGED <<starting, cmd, file, m_devperiod, timers, timer_id, stale, replied,
                 leaks, crashes>>

\* A temperature that is left out is set to 0.
SetTemperature ==
  /\ pc = "temp"
  /\ limit' \in {limit, [limit EXCEPT !["temp"] = Threshold(cmd, "temp")]}
  /\ Advance
  /\ UNCHANGED <<starting, cmd, file, m_devperiod, timers, timer_id, stale, replied,
                 leaks, crashes>>

\* sg_write_period_file: opening the file empties it (that it cannot be opened
\* goes unnoticed and ends the process: see Crash), ...
Truncate ==
  /\ pc = "truncate"
  /\ file' = Empty
  /\ Advance
  /\ UNCHANGED <<starting, cmd, m_devperiod, limit, timers, timer_id, stale, replied,
                 leaks, crashes>>

\* A variant of Write that is wrong: it writes what was read at the start.
WriteOld ==
  /\ pc = "write"
  /\ file' = m_devperiod
  /\ Advance
  /\ UNCHANGED <<starting, cmd, m_devperiod, limit, timers, timer_id, stale, replied,
                 leaks, crashes>>

\* ... then the periods are written.  m_devperiod is not.
Write ==
  /\ pc = "write"
  /\ file' = Period(cmd)
  /\ Advance
  /\ UNCHANGED <<starting, cmd, m_devperiod, limit, timers, timer_id, stale, replied,
                 leaks, crashes>>

\* A variant of Reply that is wrong: the command is no longer whole.
ReplyCleared ==
  /\ pc = "reply"
  /\ replied' = [cmd EXCEPT !.period = Empty]
  /\ cmd' = NoCommand
  /\ Advance
  /\ UNCHANGED <<starting, file, m_devperiod, limit, timers, timer_id, stale, leaks, crashes>>

\* The reply says success whatever happened to thresholds, file and timers.
Reply ==
  /\ pc = "reply"
  /\ replied' = cmd
  /\ cmd' = NoCommand
  /\ Advance
  /\ UNCHANGED <<starting, file, m_devperiod, limit, timers, timer_id, stale, leaks, crashes>>

-----------------------------------------------------------------------------
(* sg_timer_heart_create and its like                                      *)

\* A variant of Deleted that is wrong: the id is kept.
DeletedStale(k) == [timers |-> {t \in timers : t.id # timer_id[k]},
                    id |-> timer_id[k], leaked |-> 0]

\* What is left of the timers of kind k, and of its id, when the old one has
\* been deleted, or could not be.
Deleted(k)   == [timers |-> {t \in timers : t.id # timer_id[k]}, id |-> 0, leaked |-> 0]
Undeleted(k) == [timers |-> timers, id |-> timer_id[k], leaked |-> 1]

\* A variant of DeleteTimer that is wrong: the timer is left to run.
KeepTimer(k) == {[timers |-> timers, id |-> 0, leaked |-> 0]}

DeleteTimer(k) ==
  IF timer_id[k] = 0 THEN {[timers |-> timers, id |-> 0, leaked |-> 0]}
  ELSE {Deleted(k)} \union (IF leaks < Leaks THEN {Undeleted(k)} ELSE {})

\* The id the platform library gives a timer: one that no running timer has.
FreshId(running) ==
  CHOOSE i \in 1 .. Cardinality(running) + 1 : \A t \in running : t.id # i

\* A timer that could not be deleted runs on, and its id is overwritten.
ReplaceTimer(k, period) ==
  \E d \in DeleteTimer(k) :
    LET n == FreshId(d.timers)
    IN  /\ timers' = d.timers \union {[id |-> n, kind |-> k, ms |-> Ms(period)]}
        /\ timer_id' = [timer_id EXCEPT ![k] = n]
        /\ leaks' = leaks + d.leaked

\* sg_creat_timer and, with starting, sg_init: the next timer is created, at the
\* command's period or at the one read from the file.
CreateTimer ==
  /\ pc \in Kind
  /\ ReplaceTimer(pc, IF starting THEN m_devperiod ELSE Period(cmd))
  /\ Advance
  /\ starting' = (starting /\ pc # "app")
  /\ stale' = stale \ {pc}
  /\ UNCHANGED <<cmd, file, m_devperiod, limit, replied, crashes>>

\* The timer is deleted, but not created: sg_creat_timer leaves out the others,
\* and its caller goes on.
CreateFailed ==
  /\ CreateFails
  /\ pc \in Kind /\ ~starting
  /\ \E d \in DeleteTimer(pc) :
       /\ timers' = d.timers
       /\ timer_id' = [timer_id EXCEPT ![pc] = d.id]
       /\ leaks' = leaks + d.leaked
  /\ stale' = stale \union KindsFrom(pc)
  /\ pc' = "reply"
  /\ UNCHANGED <<starting, cmd, file, m_devperiod, limit, replied, crashes>>

-----------------------------------------------------------------------------
(* The process ends, and is started                                        *)

Gone ==
  /\ pc' = "down" /\ starting' = FALSE /\ cmd' = NoCommand
  /\ m_devperiod' = Empty /\ stale' = {}
  /\ timers' = {} /\ timer_id' = [k \in Kind |-> 0] /\ leaks' = 0

Crash ==
  /\ pc # "down"
  /\ crashes < Crashes /\ crashes' = crashes + 1
  /\ Gone
  /\ UNCHANGED <<file, limit, replied>>

\* main, as far as read_period_file: with an empty file it ends at once.
Start ==
  /\ pc = "down"
  /\ file # Empty
  /\ m_devperiod' = file
  /\ starting' = TRUE
  /\ pc' = "heart"
  /\ UNCHANGED <<cmd, file, limit, timers, timer_id, stale, replied, leaks, crashes>>

\* A timer cannot be created at the start: main ends.
StartFailed ==
  /\ CreateFails
  /\ starting
  /\ Gone
  /\ UNCHANGED <<file, limit, replied, crashes>>

-----------------------------------------------------------------------------
Init ==
  /\ pc = "down" /\ starting = FALSE /\ cmd = NoCommand
  /\ file = FirstPeriod /\ m_devperiod = Empty
  /\ limit = [r \in Resource \union {"temp"} |-> 0]
  /\ timers = {} /\ timer_id = [k \in Kind |-> 0]
  /\ stale = {} /\ replied = NoCommand /\ leaks = 0 /\ crashes = 0

Work == \/ GiveUp \/ SetLimit \/ SetTemperature \/ Truncate \/ Write
        \/ CreateTimer \/ CreateFailed \/ Reply \/ Start

Next == Begin \/ Work \/ Crash \/ StartFailed

Spec == Init /\ [][Next]_vars

\* The process is started again, and goes on with what it has begun.
FairSpec == Spec /\ WF_vars(Work)

-----------------------------------------------------------------------------
(* Properties                                                              *)

\* The type of every variable.
TypeOK ==
  /\ pc \in Places \union {"down", "idle"}
  /\ starting \in BOOLEAN
  /\ cmd \in Orders \union {NoCommand}
  /\ file \in Nat \union {Empty} /\ m_devperiod \in Nat \union {Empty}
  /\ limit \in [Resource \union {"temp"} -> Nat]
  /\ timers \subseteq [id : Nat \ {0}, kind : Kind, ms : 0 .. Word - 1]
  /\ timer_id \in [Kind -> Nat]
  /\ stale \subseteq Kind
  /\ replied \in Orders \union {NoCommand}
  /\ leaks \in 0 .. Leaks /\ crashes \in 0 .. Crashes

\* If timers can be created, then between commands each kind has the timer its
\* id names, and that timer runs at the period of the file, so that a restart
\* changes nothing: after commands given up halfway, failed deletions and
\* crashes at any step.
TimersFollowFile ==
  pc = "idle" =>
    \A k \in Kind \ stale :
      \E t \in timers : t.id = timer_id[k] /\ t.kind = k /\ t.ms = Ms(file)

\* There is never more than one timer of a kind, but for one for each deletion
\* that failed since the start.
NoStrayTimers ==
  \A k \in Kind : Cardinality({t \in timers : t.kind = k}) <= 1 + leaks

\* A threshold changes only if the command in hand names it, and then to between
\* 50 and the alert threshold: neither a number that is left out nor one that is
\* cut to its field sets another.
LimitsAsAsked ==
  [][\A r \in Resource : limit'[r] # limit[r] =>
       cmd[r] # Absent /\ 50 <= limit'[r] /\ limit'[r] < Alert[r]]_vars

\* No two timers share an id, and no id names a timer of another kind, so that
\* replacing a timer never stops another one.
IdsApart ==
  /\ \A t, u \in timers : t.id = u.id => t = u
  /\ \A k \in Kind : \A t \in timers : t.id = timer_id[k] => t.kind = k

\* The process always comes back to serve commands, unless it once ended
\* between the two steps of writing the file.
ComesBack ==
  \/ []<>(pc = "idle")
  \/ <>[](pc = "down" /\ file = Empty)
  \/ []<><<StartFailed>>_vars

\* What was acknowledged is kept: until the next command, the file holds the
\* period of the command that was answered with success, over every crash.
AcknowledgedKept == replied # NoCommand => file = Period(replied)

\* The periods are there when the process starts, whenever it ended.
PeriodsStored == pc = "down" => file # Empty
=============================================================================
