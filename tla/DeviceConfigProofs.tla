------------------------- MODULE DeviceConfigProofs -------------------------
(***************************************************************************)
(* Theorems about DeviceConfig, for every value of its constants: any set  *)
(* of commands, any number of crashes and of deletions that fail.          *)
(***************************************************************************)
EXTENDS DeviceConfig, FiniteSetTheorems, TLAPS

-----------------------------------------------------------------------------
(* The path of a command                                                   *)

\* What comes after each step of the path, worked out once.
LEMMA PathSteps ==
  /\ Places = Resource \union {"temp", "truncate", "write", "reply"} \union Kind
  /\ \A s \in BOOLEAN :
       /\ After("cpu", s) = "mem" /\ After("mem", s) = "disk"
       /\ After("disk", s) = "temp" /\ After("temp", s) = "truncate"
       /\ After("truncate", s) = "write" /\ After("write", s) = "heart"
       /\ After("heart", s) = "dev" /\ After("dev", s) = "container"
       /\ After("container", s) = "app"
       /\ After("app", s) = (IF s THEN "idle" ELSE "reply")
       /\ After("reply", s) = "idle"
  /\ Path[1] = "cpu"
<1>1. /\ DOMAIN Path = 1 .. 11
      /\ Path[1] = "cpu" /\ Path[2] = "mem" /\ Path[3] = "disk" /\ Path[4] = "temp"
      /\ Path[5] = "truncate" /\ Path[6] = "write" /\ Path[7] = "heart" /\ Path[8] = "dev"
      /\ Path[9] = "container" /\ Path[10] = "app" /\ Path[11] = "reply"
  BY DEF Path
<1>2. Places = Resource \union {"temp", "truncate", "write", "reply"} \union Kind
  BY <1>1 DEF Places, Resource, Kind
<1>3. ASSUME NEW j \in 1 .. 10
      PROVE  (CHOOSE n \in DOMAIN Path : Path[n] = Path[j]) = j
  <2>1. \A n \in DOMAIN Path : Path[n] = Path[j] => n = j
    BY <1>1
  <2> QED
    BY <1>1, <2>1
<1>4. ASSUME NEW j \in 1 .. 10, NEW s \in BOOLEAN, ~(j = 10 /\ s)
      PROVE  After(Path[j], s) = Path[j + 1]
  BY <1>1, <1>3, <1>4 DEF After
<1>5. ASSUME NEW s \in BOOLEAN
      PROVE  /\ After("cpu", s) = "mem" /\ After("mem", s) = "disk"
             /\ After("disk", s) = "temp" /\ After("temp", s) = "truncate"
             /\ After("truncate", s) = "write" /\ After("write", s) = "heart"
             /\ After("heart", s) = "dev" /\ After("dev", s) = "container"
             /\ After("container", s) = "app"
             /\ (~s => After("app", s) = "reply")
  <2>1. /\ After(Path[1], s) = Path[2] /\ After(Path[2], s) = Path[3]
        /\ After(Path[3], s) = Path[4] /\ After(Path[4], s) = Path[5]
        /\ After(Path[5], s) = Path[6] /\ After(Path[6], s) = Path[7]
        /\ After(Path[7], s) = Path[8] /\ After(Path[8], s) = Path[9]
        /\ After(Path[9], s) = Path[10] /\ (~s => After(Path[10], s) = Path[11])
    BY <1>4
  <2> QED
    BY <1>1, <2>1
<1>6. After("app", TRUE) = "idle" /\ \A s \in BOOLEAN : After("reply", s) = "idle"
  BY DEF After
<1>7. \A s \in BOOLEAN : After("app", s) = (IF s THEN "idle" ELSE "reply")
  BY <1>5, <1>6
<1> QED
  BY ONLY <1>1, <1>2, <1>5, <1>6, <1>7

-----------------------------------------------------------------------------
(* The timers                                                              *)

\* The id of a new timer is none that a running timer has.
LEMMA FreshIdNew ==
  ASSUME NEW running, IsFiniteSet(running)
  PROVE  /\ FreshId(running) \in Nat \ {0}
         /\ \A t \in running : t.id # FreshId(running)
<1> DEFINE Ids == 1 .. Cardinality(running) + 1
<1>1. Cardinality(running) \in Nat
  BY FS_CardinalityType
<1>2. IsFiniteSet(Ids) /\ Cardinality(Ids) = Cardinality(running) + 1
  <2>1. /\ IsFiniteSet(1 .. (Cardinality(running) + 1))
        /\ Cardinality(1 .. (Cardinality(running) + 1)) =
             IF 1 > Cardinality(running) + 1 THEN 0 ELSE (Cardinality(running) + 1) - 1 + 1
    BY <1>1, FS_Interval
  <2> QED
    BY <1>1, <2>1
<1>3. \E i \in Ids : \A t \in running : t.id # i
  <2>1. SUFFICES ASSUME \A i \in Ids : \E t \in running : t.id = i
                 PROVE  FALSE
    OBVIOUS
  <2> DEFINE owner == [i \in Ids |-> CHOOSE t \in running : t.id = i]
  <2>2. \A i \in Ids : owner[i] \in running /\ owner[i].id = i
    BY <2>1
  <2>3. owner \in [Ids -> running]
    BY <2>2
  <2>4. Cardinality(running) < Cardinality(Ids)
    BY <1>1, <1>2
  <2> HIDE DEF owner, Ids
  <2>5. \E x, y \in Ids : x # y /\ owner[x] = owner[y]
    BY <2>3, <2>4, <1>2, FS_PigeonHole
  <2> QED
    BY <2>2, <2>5
<1>4. FreshId(running) \in Ids /\ \A t \in running : t.id # FreshId(running)
  BY <1>3 DEF FreshId
<1> QED
  BY <1>1, <1>4

\* The timers of a kind.
Of(running, k) == {t \in running : t.kind = k}

\* A timer that an id names runs still.
NamesLive == \A k \in Kind : timer_id[k] # 0 => \E t \in timers : t.id = timer_id[k]

\* Of each kind there is the timer its id names, and those that could not be deleted.
FewOfEach ==
  \A k \in Kind :
    Cardinality(Of(timers, k)) <= leaks + (IF timer_id[k] = 0 THEN 0 ELSE 1)

TimersApart == IsFiniteSet(timers) /\ IdsApart /\ NamesLive /\ FewOfEach

\* What deleting a timer leaves: the timers of other kinds, and of its own kind no
\* more than there were failures.
LEMMA DeleteLeaves ==
  ASSUME TypeOK, TimersApart, NEW k \in Kind, NEW d \in DeleteTimer(k)
  PROVE  /\ d.timers \subseteq timers /\ IsFiniteSet(d.timers)
         /\ d.leaked \in {0, 1} /\ leaks + d.leaked \in 0 .. Leaks
         /\ \A t \in timers : t.kind # k => t \in d.timers
         /\ Cardinality(Of(d.timers, k)) <= leaks + d.leaked
         /\ d.id # 0 => d.id = timer_id[k] /\ d.timers = timers
         /\ d.id \in Nat
<1>0. /\ leaks \in 0 .. Leaks /\ Leaks \in Nat /\ timer_id[k] \in Nat
      /\ IsFiniteSet(timers)
  BY ConfigAssumption DEF TypeOK, TimersApart
<1>1. IsFiniteSet(Of(timers, k)) /\ Cardinality(Of(timers, k)) \in Nat
  BY <1>0, FS_Subset, FS_CardinalityType DEF Of
<1>2. CASE timer_id[k] = 0
  <2>1. d = [timers |-> timers, id |-> 0, leaked |-> 0]
    BY <1>2 DEF DeleteTimer
  <2>2. Cardinality(Of(timers, k)) <= leaks + 0
    BY <1>0, <1>2 DEF TimersApart, FewOfEach
  <2> QED
    BY <1>0, <2>1, <2>2
<1>3. CASE timer_id[k] # 0 /\ d = Deleted(k)
  <2>1. /\ d.timers = {t \in timers : t.id # timer_id[k]}
        /\ d.id = 0 /\ d.leaked = 0
    BY <1>3 DEF Deleted
  <2>2. d.timers \subseteq timers /\ IsFiniteSet(d.timers)
    BY <1>0, <2>1, FS_Subset
  <2>3. \A t \in timers : t.kind # k => t \in d.timers
    BY <2>1 DEF TimersApart, IdsApart
  <2>4. Cardinality(Of(d.timers, k)) <= leaks
    <3>1. PICK t \in timers : t.id = timer_id[k]
      BY <1>3 DEF TimersApart, NamesLive
    <3>2. t \in Of(timers, k)
      BY <3>1 DEF Of, TimersApart, IdsApart
    <3>3. \A u \in timers : u.id = timer_id[k] => u = t
      BY <3>1 DEF TimersApart, IdsApart
    <3>4. Of(d.timers, k) = Of(timers, k) \ {t}
      BY <2>1, <3>1, <3>3 DEF Of
    <3>5. Cardinality(Of(timers, k) \ {t}) = Cardinality(Of(timers, k)) - 1
      BY <1>1, <3>2, FS_RemoveElement
    <3>6. Cardinality(Of(timers, k)) <= leaks + 1
      BY <1>3 DEF TimersApart, FewOfEach
    <3> QED
      BY <1>0, <1>1, <3>4, <3>5, <3>6
  <2> QED
    BY <1>0, <2>1, <2>2, <2>3, <2>4
<1>4. CASE timer_id[k] # 0 /\ leaks < Leaks /\ d = Undeleted(k)
  <2>1. d.timers = timers /\ d.id = timer_id[k] /\ d.leaked = 1
    BY <1>4 DEF Undeleted
  <2>2. Cardinality(Of(timers, k)) <= leaks + 1
    BY <1>4 DEF TimersApart, FewOfEach
  <2> QED
    BY <1>0, <1>4, <2>1, <2>2
<1> QED
  BY <1>2, <1>3, <1>4 DEF DeleteTimer

-----------------------------------------------------------------------------
(* The inductive invariant                                                 *)

\* While the process starts, its timers are created at the period of the file;
\* a command's, once the file has the command's period; and what was answered
\* with success is still in the file.
Underway ==
  /\ cmd.temp # Half
  /\ starting => pc \in Kind /\ m_devperiod = file /\ file # Empty
  /\ ~starting /\ pc \in Kind \union {"reply"} => file = Period(cmd)
  /\ replied # NoCommand => (starting \/ pc \in {"idle", "down"}) /\ file = Period(replied)

\* The kinds whose timers are still to be created, at step p, before they run at
\* the period of the file.
Awaited(p) ==
  CASE p \in {"down", "write", "heart"} -> Kind
    [] p = "dev"                       -> {"dev", "container", "app"}
    [] p = "container"                 -> {"container", "app"}
    [] p = "app"                       -> {"app"}
    [] OTHER                           -> {}

Follows(k) == \E t \in timers : t.id = timer_id[k] /\ t.kind = k /\ t.ms = Ms(file)
Following  == \A k \in Kind \ (stale \union Awaited(pc)) : Follows(k)

IInv == TypeOK /\ TimersApart /\ Underway /\ Following

\* The timers created from a kind on are those that are awaited there.
LEMMA KindsAwaited == \A k \in Kind : KindsFrom(k) = Awaited(k)
<1>1. /\ DOMAIN Path = 1 .. 11
      /\ Path[1] = "cpu" /\ Path[2] = "mem" /\ Path[3] = "disk" /\ Path[4] = "temp"
      /\ Path[5] = "truncate" /\ Path[6] = "write" /\ Path[7] = "heart" /\ Path[8] = "dev"
      /\ Path[9] = "container" /\ Path[10] = "app" /\ Path[11] = "reply"
  BY DEF Path
<1>2. \A n \in DOMAIN Path : Path[n] \in Kind <=> n \in 7 .. 10
  BY <1>1 DEF Kind
<1>3. ASSUME NEW j \in 7 .. 10
      PROVE  {n \in DOMAIN Path : \E m \in DOMAIN Path :
                m <= n /\ Path[m] = Path[j] /\ Path[n] \in Kind} = j .. 10
  <2>1. \A m \in DOMAIN Path : Path[m] = Path[j] <=> m = j
    BY <1>1
  <2> QED
    BY <1>1, <1>2, <2>1
<1>4. ASSUME NEW j \in 7 .. 10
      PROVE  KindsFrom(Path[j]) = {Path[i] : i \in j .. 10}
  BY <1>3 DEF KindsFrom
<1>5. KindsFrom("heart") = Kind
  BY <1>1, <1>4 DEF Kind
<1>6. KindsFrom("dev") = {"dev", "container", "app"}
  BY <1>1, <1>4
<1>7. KindsFrom("container") = {"container", "app"}
  BY <1>1, <1>4
<1>8. KindsFrom("app") = {"app"}
  BY <1>1, <1>4
<1> QED
  BY <1>5, <1>6, <1>7, <1>8 DEF Awaited, Kind

\* The numbers of a command: what its fields hold.
LEMMA FieldType ==
  /\ \A c \in Orders \union {NoCommand} :
       /\ Period(c) \in Nat
       /\ \A r \in Resource : Threshold(c, r) \in Nat
       /\ c.temp # Half => Threshold(c, "temp") \in Nat
  /\ \A p \in Nat : Ms(p) \in 0 .. Word - 1
  /\ NoCommand.temp # Half
<1> DEFINE Number == Nat \union {Absent}
<1>1. \A n \in Int \union {Absent}, w \in Nat \ {0} : Field(n, w) \in Nat
  BY ConfigAssumption DEF Field
<1>2. ASSUME NEW c \in Orders \union {NoCommand}
      PROVE  /\ c.period \in Number /\ c.temp \in Int \union {Absent, Half}
             /\ \A r \in Resource : c[r] \in Number
  BY ConfigAssumption DEF NoCommand, Resource
<1>3. \A p \in Nat : Ms(p) \in 0 .. Word - 1
  BY ConfigAssumption DEF Ms
<1>4. Word \in Nat \ {0} /\ Byte \in Nat \ {0} /\ Half \notin Int
  BY ConfigAssumption
<1>5. NoCommand.temp # Half
  BY <1>4 DEF NoCommand
<1>6. ASSUME NEW c \in Orders \union {NoCommand}
      PROVE  /\ Period(c) \in Nat
             /\ \A r \in Resource : Threshold(c, r) \in Nat
             /\ c.temp # Half => Threshold(c, "temp") \in Nat
  <2>1. /\ c.period \in Int \union {Absent} /\ \A r \in Resource : c[r] \in Int \union {Absent}
        /\ c.temp # Half => c["temp"] \in Int \union {Absent}
    BY ONLY <1>2
  <2> HIDE DEF Number
  <2>2. Period(c) \in Nat
    BY ONLY <2>1, <1>1, <1>4 DEF Period
  <2>3. ASSUME NEW r \in Resource PROVE Threshold(c, r) \in Nat
    BY ONLY <2>1, <1>1, <1>4, r \in Resource DEF Threshold
  <2>4. c.temp # Half => Threshold(c, "temp") \in Nat
    BY ONLY <2>1, <1>1, <1>4 DEF Threshold
  <2> QED
    BY ONLY <2>2, <2>3, <2>4
<1> QED
  BY ONLY <1>3, <1>5, <1>6

\* Replacing the timer of a kind keeps the timers apart and typed, starts one that
\* the kind's id names, and stops none of another kind.
LEMMA Replaced ==
  ASSUME TypeOK, TimersApart, NEW k \in Kind, NEW period \in Nat, ReplaceTimer(k, period)
  PROVE  /\ TimersApart'
         /\ timers' \subseteq [id : Nat \ {0}, kind : Kind, ms : 0 .. Word - 1]
         /\ timer_id' \in [Kind -> Nat] /\ leaks' \in 0 .. Leaks
         /\ \E t \in timers' : t.id = timer_id'[k] /\ t.kind = k /\ t.ms = Ms(period)
         /\ \A j \in Kind \ {k} : timer_id'[j] = timer_id[j]
         /\ \A t \in timers : t.kind # k => t \in timers'
<1>1. PICK d \in DeleteTimer(k) :
        /\ timers' = d.timers \union {[id |-> FreshId(d.timers), kind |-> k, ms |-> Ms(period)]}
        /\ timer_id' = [timer_id EXCEPT ![k] = FreshId(d.timers)]
        /\ leaks' = leaks + d.leaked
  BY DEF ReplaceTimer
<1> DEFINE n == FreshId(d.timers)
           new == [id |-> n, kind |-> k, ms |-> Ms(period)]
<1>2. /\ d.timers \subseteq timers /\ IsFiniteSet(d.timers)
      /\ d.leaked \in {0, 1} /\ leaks + d.leaked \in 0 .. Leaks
      /\ \A t \in timers : t.kind # k => t \in d.timers
      /\ Cardinality(Of(d.timers, k)) <= leaks + d.leaked
  BY DeleteLeaves
<1>3. n \in Nat \ {0} /\ \A t \in d.timers : t.id # n
  BY <1>2, FreshIdNew
<1>4. /\ timers \subseteq [id : Nat \ {0}, kind : Kind, ms : 0 .. Word - 1]
      /\ timer_id \in [Kind -> Nat] /\ leaks \in 0 .. Leaks /\ Leaks \in Nat
  BY ConfigAssumption DEF TypeOK
<1>5. Ms(period) \in 0 .. Word - 1
  BY FieldType
<1>6. timers' = d.timers \union {new} /\ timer_id' = [timer_id EXCEPT ![k] = n]
  BY <1>1
<1>7. new.id = n /\ new.kind = k /\ new.ms = Ms(period)
  OBVIOUS
<1>8. /\ timer_id'[k] = n /\ timer_id' \in [Kind -> Nat]
      /\ \A j \in Kind \ {k} : timer_id'[j] = timer_id[j]
  BY <1>3, <1>4, <1>6
<1>9. timers' \subseteq [id : Nat \ {0}, kind : Kind, ms : 0 .. Word - 1]
  BY <1>2, <1>3, <1>4, <1>5, <1>6
<1> HIDE DEF n, new
<1>10. IsFiniteSet(timers')
  BY <1>2, <1>6, FS_AddElement
<1>11. \A j \in Kind \ {k} : timer_id[j] # n
  <2>1. SUFFICES ASSUME NEW j \in Kind \ {k}, timer_id[j] = n PROVE FALSE
    OBVIOUS
  <2>2. PICK t \in timers : t.id = timer_id[j]
    BY <2>1, <1>3 DEF TimersApart, NamesLive
  <2>3. t.kind = j
    BY <2>2 DEF TimersApart, IdsApart
  <2> QED
    BY <2>1, <2>2, <2>3, <1>2, <1>3
<1>12. IdsApart'
  <2>1. ASSUME NEW t \in timers', NEW u \in timers', t.id = u.id PROVE t = u
    BY <2>1, <1>2, <1>3, <1>6, <1>7 DEF TimersApart, IdsApart
  <2>2. ASSUME NEW j \in Kind, NEW t \in timers', t.id = timer_id'[j] PROVE t.kind = j
    <3>1. CASE t = new
      BY <3>1, <2>2, <1>7, <1>8, <1>11
    <3>2. CASE t \in d.timers
      <4>1. j # k
        BY <3>2, <2>2, <1>3, <1>8
      <4> QED
        BY <4>1, <3>2, <2>2, <1>2, <1>8 DEF TimersApart, IdsApart
    <3> QED
      BY <3>1, <3>2, <1>6
  <2> QED
    BY <2>1, <2>2 DEF IdsApart
<1>13. NamesLive'
  <2>1. SUFFICES ASSUME NEW j \in Kind, timer_id'[j] # 0
                 PROVE  \E t \in timers' : t.id = timer_id'[j]
    BY DEF NamesLive
  <2>2. CASE j = k
    BY <2>2, <1>6, <1>7, <1>8
  <2>3. CASE j # k
    <3>1. PICK t \in timers : t.id = timer_id[j]
      BY <2>1, <2>3, <1>8 DEF TimersApart, NamesLive
    <3>2. t.kind = j
      BY <3>1 DEF TimersApart, IdsApart
    <3> QED
      BY <2>3, <3>1, <3>2, <1>2, <1>6, <1>8
  <2> QED
    BY <2>2, <2>3
<1>14. FewOfEach'
  <2>1. SUFFICES ASSUME NEW j \in Kind
                 PROVE  Cardinality(Of(timers', j)) <= leaks' + (IF timer_id'[j] = 0 THEN 0 ELSE 1)
    BY DEF FewOfEach
  <2>2. leaks' = leaks + d.leaked
    BY <1>1
  <2>3. CASE j = k
    <3>1. Of(timers', j) = Of(d.timers, k) \union {new}
      BY <2>3, <1>6, <1>7 DEF Of
    <3>2. IsFiniteSet(Of(d.timers, k)) /\ Cardinality(Of(d.timers, k)) \in Nat
      BY <1>2, FS_Subset, FS_CardinalityType DEF Of
    <3> DEFINE old == Of(d.timers, k)
               now == Of(timers', j)
    <3> HIDE DEF old, now
    <3>3. Cardinality(now) <= Cardinality(old) + 1 /\ Cardinality(now) \in Nat
      <4>1. now = old \union {new} /\ IsFiniteSet(old) /\ Cardinality(old) \in Nat
        BY <3>1, <3>2 DEF old, now
      <4>2. Cardinality(old \union {new}) = IF new \in old THEN Cardinality(old)
                                            ELSE Cardinality(old) + 1
        BY <4>1, FS_AddElement
      <4> QED
        BY <4>1, <4>2
    <3>4. Cardinality(old) = Cardinality(Of(d.timers, k)) /\ now = Of(timers', j)
      BY DEF old, now
    <3>5. timer_id'[j] # 0
      BY <2>3, <1>3, <1>8
    <3>6. Cardinality(Of(d.timers, k)) <= leaks + d.leaked /\ leaks + d.leaked \in Nat
      BY <1>2, <1>4
    <3> QED
      BY <2>2, <3>2, <3>3, <3>4, <3>5, <3>6
  <2>4. CASE j # k
    <3>1. Of(timers', j) = Of(timers, j)
      BY <2>4, <1>2, <1>6, <1>7 DEF Of
    <3>2. Cardinality(Of(timers, j)) <= leaks + (IF timer_id[j] = 0 THEN 0 ELSE 1)
      BY DEF TimersApart, FewOfEach
    <3>3. Cardinality(Of(timers, j)) \in Nat
      BY FS_Subset, FS_CardinalityType DEF Of, TimersApart
    <3> QED
      BY <2>2, <2>4, <3>1, <3>2, <3>3, <1>2, <1>4, <1>8
  <2> QED
    BY <2>3, <2>4
<1>15. \E t \in timers' : t.id = timer_id'[k] /\ t.kind = k /\ t.ms = Ms(period)
  BY <1>6, <1>7, <1>8
<1>16. \A t \in timers : t.kind # k => t \in timers'
  BY <1>2, <1>6
<1> QED
  BY <1>1, <1>2, <1>8, <1>9, <1>10, <1>12, <1>13, <1>14, <1>15, <1>16 DEF TimersApart

\* A timer that is deleted, or could not be, and has no successor: the same.
LEMMA Stopped ==
  ASSUME TypeOK, TimersApart, NEW k \in Kind, NEW d \in DeleteTimer(k),
         timers' = d.timers, timer_id' = [timer_id EXCEPT ![k] = d.id],
         leaks' = leaks + d.leaked
  PROVE  /\ TimersApart'
         /\ timers' \subseteq timers
         /\ timer_id' \in [Kind -> Nat] /\ leaks' \in 0 .. Leaks
         /\ \A j \in Kind \ {k} : timer_id'[j] = timer_id[j]
         /\ \A t \in timers : t.kind # k => t \in timers'
<1>1. /\ d.timers \subseteq timers /\ IsFiniteSet(d.timers)
      /\ d.leaked \in {0, 1} /\ leaks + d.leaked \in 0 .. Leaks
      /\ \A t \in timers : t.kind # k => t \in d.timers
      /\ Cardinality(Of(d.timers, k)) <= leaks + d.leaked
      /\ d.id # 0 => d.id = timer_id[k] /\ d.timers = timers
      /\ d.id \in Nat
  BY DeleteLeaves
<1>2. /\ timers \subseteq [id : Nat \ {0}, kind : Kind, ms : 0 .. Word - 1]
      /\ timer_id \in [Kind -> Nat] /\ leaks \in 0 .. Leaks /\ Leaks \in Nat
  BY ConfigAssumption DEF TypeOK
<1>3. /\ timer_id'[k] = d.id /\ timer_id' \in [Kind -> Nat]
      /\ \A j \in Kind \ {k} : timer_id'[j] = timer_id[j]
  BY <1>1, <1>2
<1>4. IdsApart'
  BY <1>1, <1>2, <1>3 DEF TimersApart, IdsApart
<1>5. NamesLive'
  <2>1. SUFFICES ASSUME NEW j \in Kind, timer_id'[j] # 0
                 PROVE  \E t \in timers' : t.id = timer_id'[j]
    BY DEF NamesLive
  <2>2. timer_id[j] = timer_id'[j]
    BY <2>1, <1>1, <1>3
  <2>3. PICK t \in timers : t.id = timer_id[j] /\ t.kind = j
    BY <2>1, <2>2 DEF TimersApart, NamesLive, IdsApart
  <2> QED
    BY <2>1, <2>2, <2>3, <1>1, <1>3
<1>6. FewOfEach'
  <2>1. SUFFICES ASSUME NEW j \in Kind
                 PROVE  Cardinality(Of(timers', j)) <= leaks' + (IF timer_id'[j] = 0 THEN 0 ELSE 1)
    BY DEF FewOfEach
  <2>2. Cardinality(Of(timers, j)) \in Nat /\ Cardinality(Of(timers', j)) \in Nat
    BY <1>1, FS_Subset, FS_CardinalityType DEF Of, TimersApart
  <2>3. CASE j = k
    BY <2>2, <2>3, <1>1, <1>2
  <2>4. CASE j # k
    <3>1. Of(timers', j) = Of(timers, j)
      BY <2>4, <1>1 DEF Of
    <3>2. Cardinality(Of(timers, j)) <= leaks + (IF timer_id[j] = 0 THEN 0 ELSE 1)
      BY DEF TimersApart, FewOfEach
    <3> QED
      BY <2>2, <2>4, <3>1, <3>2, <1>1, <1>2, <1>3
  <2> QED
    BY <2>3, <2>4
<1> QED
  BY <1>1, <1>3, <1>4, <1>5, <1>6 DEF TimersApart

-----------------------------------------------------------------------------
(* Every step keeps the invariant                                          *)

\* The process starts, for the first time, without a timer.
LEMMA InitIInv == ASSUME Init PROVE IInv
<1>0. FirstPeriod \in Nat /\ Leaks \in Nat /\ Crashes \in Nat
  BY ConfigAssumption
<1>1. TypeOK
  <2>1. limit \in [Resource \union {"temp"} -> Nat] /\ timer_id \in [Kind -> Nat]
    BY DEF Init
  <2>2. 0 \in 0 .. Leaks /\ 0 \in 0 .. Crashes
    BY <1>0
  <2> QED
    BY <2>1, <2>2, <1>0 DEF Init, TypeOK
<1>2. TimersApart
  <2>1. \A k : Of({}, k) = {}
    BY DEF Of
  <2> QED
    BY <2>1, FS_EmptySet DEF Init, TimersApart, IdsApart, NamesLive, FewOfEach
<1>3. Underway
  BY FieldType DEF Init, Underway, Kind
<1>4. Following
  BY DEF Init, Following, Awaited
<1> QED
  BY <1>1, <1>2, <1>3, <1>4 DEF IInv

\* Steps of the path that leave the timers alone: they stay apart.
LEMMA TimersLeft ==
  ASSUME TimersApart, UNCHANGED <<timers, timer_id, leaks>>
  PROVE  TimersApart'
BY DEF TimersApart, IdsApart, NamesLive, FewOfEach

\* The thresholds and the replies keep the invariant.
LEMMA PathKeeps ==
  ASSUME IInv, Begin \/ GiveUp \/ SetLimit \/ SetTemperature \/ Reply
  PROVE  IInv'
<1>1. TimersApart'
  BY TimersLeft DEF IInv, Begin, GiveUp, SetLimit, SetTemperature, Reply
<1>2. TypeOK /\ Underway /\ Following
  BY DEF IInv
<1>3. pc \in Resource \union {"temp"} => After(pc, starting) \in {"mem", "disk", "temp", "truncate"}
  BY <1>2, PathSteps DEF TypeOK, Resource
<1>4. Path[1] = "cpu" /\ \A s \in BOOLEAN : After("reply", s) = "idle"
  BY PathSteps
<1>5. TypeOK'
  <2>1. CASE Begin
    BY <2>1, <1>2, <1>4, PathSteps DEF Begin, TypeOK, Resource
  <2>2. CASE GiveUp
    BY <2>2, <1>2 DEF GiveUp, TypeOK
  <2>3. CASE SetLimit
    <3>1. limit' \in [Resource \union {"temp"} -> Nat]
      BY <2>3, <1>2, FieldType DEF SetLimit, TypeOK
    <3>2. pc' \in Places
      BY <2>3, <1>3, PathSteps DEF SetLimit, Advance, Resource
    <3> QED
      BY <2>3, <3>1, <3>2, <1>2 DEF SetLimit, TypeOK
  <2>4. CASE SetTemperature
    <3>1. limit' \in [Resource \union {"temp"} -> Nat]
      <4>1. Threshold(cmd, "temp") \in Nat
        BY <1>2, FieldType DEF TypeOK, Underway
      <4> QED
        BY <2>4, <1>2, <4>1 DEF SetTemperature, TypeOK
    <3>2. pc' \in Places
      BY <2>4, <1>3, PathSteps DEF SetTemperature, Advance, Resource
    <3> QED
      BY <2>4, <3>1, <3>2, <1>2 DEF SetTemperature, TypeOK
  <2>5. CASE Reply
    BY <2>5, <1>2, <1>4 DEF Reply, Advance, TypeOK
  <2> QED
    BY <2>1, <2>2, <2>3, <2>4, <2>5
<1>6. Underway'
  <2>1. CASE Begin
    BY <2>1, <1>2, <1>4 DEF Begin, Underway, Kind
  <2>2. CASE GiveUp
    BY <2>2, <1>2, FieldType DEF GiveUp, Underway, Kind, Resource
  <2>3. CASE SetLimit \/ SetTemperature
    <3>1. /\ pc' \in {"mem", "disk", "temp", "truncate"} /\ pc \in Resource \union {"temp"}
          /\ UNCHANGED <<starting, cmd, file, m_devperiod, replied>>
      BY <2>3, <1>3 DEF SetLimit, SetTemperature, Advance
    <3> QED
      BY <3>1, <1>2 DEF Underway, Kind, Resource
  <2>4. CASE Reply
    BY <2>4, <1>2, <1>4, FieldType DEF Reply, Advance, Underway, Kind, TypeOK
  <2> QED
    BY <2>1, <2>2, <2>3, <2>4
<1>7. Following'
  <2>1. /\ Awaited(pc') = {} /\ Awaited(pc) = {}
        /\ UNCHANGED <<timers, timer_id, file, stale>>
    <3>1. CASE Begin \/ Reply
      BY <3>1, <1>2, <1>4 DEF Begin, Reply, Advance, Awaited, TypeOK
    <3>2. CASE GiveUp
      BY <3>2 DEF GiveUp, Awaited, Resource
    <3>3. CASE SetLimit \/ SetTemperature
      BY <3>3, <1>3 DEF SetLimit, SetTemperature, Advance, Awaited, Resource
    <3> QED
      BY <3>1, <3>2, <3>3
  <2> QED
    BY <2>1, <1>2 DEF Following, Follows
<1> QED
  BY <1>1, <1>5, <1>6, <1>7 DEF IInv

\* So do the two steps of writing the file: the timers are then to follow.
LEMMA FileKeeps ==
  ASSUME IInv, Truncate \/ Write
  PROVE  IInv'
<1>1. TimersApart'
  BY TimersLeft DEF IInv, Truncate, Write
<1>2. TypeOK /\ Underway
  BY DEF IInv
<1>3. \/ pc = "truncate" /\ pc' = "write" /\ file' = Empty
      \/ pc = "write" /\ pc' = "heart" /\ file' = Period(cmd)
  BY <1>2, PathSteps DEF Truncate, Write, Advance, TypeOK
<1>4. UNCHANGED <<starting, cmd, m_devperiod, limit, timers, timer_id, stale, replied, leaks, crashes>>
  BY DEF Truncate, Write
<1>5. Period(cmd) \in Nat /\ pc' \in Places
  BY <1>2, <1>3, FieldType, PathSteps DEF TypeOK, Kind
<1>6. TypeOK'
  BY <1>2, <1>3, <1>4, <1>5 DEF TypeOK
<1>7. Underway'
  BY <1>2, <1>3, <1>4 DEF Underway, Kind, Period
<1>8. Following'
  BY <1>3 DEF Following, Awaited
<1> QED
  BY <1>1, <1>6, <1>7, <1>8 DEF IInv

\* A new timer follows the file, and those that were set before it do still.
LEMMA CreateKeeps ==
  ASSUME IInv, CreateTimer
  PROVE  IInv'
<1> DEFINE period == IF starting THEN m_devperiod ELSE Period(cmd)
<1>1. TypeOK /\ TimersApart /\ Underway /\ Following
  BY DEF IInv
<1>2. /\ pc \in Kind /\ ReplaceTimer(pc, period)
      /\ pc' = After(pc, starting)
      /\ starting' = (starting /\ pc # "app")
      /\ stale' = stale \ {pc}
      /\ UNCHANGED <<cmd, file, m_devperiod, limit, replied, crashes>>
  BY DEF CreateTimer, Advance
<1>3. period \in Nat /\ period = file
  BY <1>1, <1>2, FieldType DEF TypeOK, Underway
<1>4. /\ TimersApart'
      /\ timers' \subseteq [id : Nat \ {0}, kind : Kind, ms : 0 .. Word - 1]
      /\ timer_id' \in [Kind -> Nat] /\ leaks' \in 0 .. Leaks
      /\ \E t \in timers' : t.id = timer_id'[pc] /\ t.kind = pc /\ t.ms = Ms(period)
      /\ \A j \in Kind \ {pc} : timer_id'[j] = timer_id[j]
      /\ \A t \in timers : t.kind # pc => t \in timers'
  BY <1>1, <1>2, <1>3, Replaced
<1> HIDE DEF period
<1>5. /\ pc = "heart" => pc' = "dev"
      /\ pc = "dev" => pc' = "container"
      /\ pc = "container" => pc' = "app"
      /\ pc = "app" => pc' = IF starting THEN "idle" ELSE "reply"
  BY <1>1, <1>2, PathSteps DEF TypeOK
<1>6. pc' \in Places \union {"idle"}
  BY <1>2, <1>5, PathSteps DEF Kind
<1>7. TypeOK'
  BY <1>1, <1>2, <1>4, <1>6 DEF TypeOK
<1>8. Underway'
  <2>1. starting' => pc' \in Kind
    BY <1>2, <1>5 DEF Kind
  <2>2. /\ ~starting' /\ pc' \in Kind \union {"reply"} => ~starting
        /\ starting => starting' \/ pc' \in {"idle", "down"}
    BY <1>2, <1>5 DEF Kind
  <2> QED
    BY <2>1, <2>2, <1>1, <1>2 DEF Underway, Period, Kind
<1>9. Following'
  <2>1. SUFFICES ASSUME NEW k \in Kind, k \notin stale', k \notin Awaited(pc')
                 PROVE  Follows(k)'
    BY DEF Following
  <2>2. CASE k = pc
    BY <2>2, <1>2, <1>3, <1>4 DEF Follows, Ms
  <2>3. CASE k # pc
    <3>1. k \notin stale /\ k \notin Awaited(pc)
      BY <2>1, <2>3, <1>2, <1>5 DEF Awaited, Kind
    <3> QED
      BY <2>3, <3>1, <1>1, <1>2, <1>4 DEF Following, Follows, Ms
  <2> QED
    BY <2>2, <2>3
<1> QED
  BY <1>4, <1>7, <1>8, <1>9 DEF IInv

\* A timer that cannot be created leaves it, and those behind it, stale.
LEMMA CreateFailedKeeps ==
  ASSUME IInv, CreateFailed
  PROVE  IInv'
<1>1. TypeOK /\ TimersApart /\ Underway /\ Following
  BY DEF IInv
<1>2. PICK d \in DeleteTimer(pc) :
        /\ timers' = d.timers
        /\ timer_id' = [timer_id EXCEPT ![pc] = d.id]
        /\ leaks' = leaks + d.leaked
  BY DEF CreateFailed
<1>3. /\ pc \in Kind /\ ~starting /\ pc' = "reply"
      /\ stale' = stale \union Awaited(pc)
      /\ UNCHANGED <<starting, cmd, file, m_devperiod, limit, replied, crashes>>
  BY KindsAwaited DEF CreateFailed
<1>4. /\ TimersApart' /\ timers' \subseteq timers
      /\ timer_id' \in [Kind -> Nat] /\ leaks' \in 0 .. Leaks
      /\ \A j \in Kind \ {pc} : timer_id'[j] = timer_id[j]
      /\ \A t \in timers : t.kind # pc => t \in timers'
  BY <1>1, <1>2, <1>3, Stopped
<1>5. TypeOK'
  <2>1. Awaited(pc) \subseteq Kind /\ "reply" \in Places
    BY <1>3, PathSteps DEF Awaited, Kind
  <2> QED
    BY <2>1, <1>1, <1>3, <1>4 DEF TypeOK
<1>6. Underway'
  BY <1>1, <1>3 DEF Underway, Kind, Period
<1>7. Following'
  <2>1. SUFFICES ASSUME NEW k \in Kind, k \notin stale'
                 PROVE  Follows(k)'
    BY DEF Following
  <2>2. k # pc /\ k \notin stale /\ k \notin Awaited(pc)
    BY <2>1, <1>3 DEF Awaited, Kind
  <2> QED
    BY <2>2, <1>1, <1>3, <1>4 DEF Following, Follows, Ms
<1> QED
  BY <1>4, <1>5, <1>6, <1>7 DEF IInv

\* A process that ends takes its timers along, and nothing else that counts.
LEMMA GoneKeeps ==
  ASSUME IInv, Crash \/ StartFailed
  PROVE  IInv'
<1>1. TypeOK /\ Underway
  BY DEF IInv
<1>2. Gone /\ UNCHANGED <<file, limit, replied>> /\ crashes' \in 0 .. Crashes
  BY <1>1, ConfigAssumption DEF Crash, StartFailed, TypeOK
<1>3. TypeOK'
  <2>1. timer_id' \in [Kind -> Nat]
    BY <1>2 DEF Gone
  <2>2. 0 \in 0 .. Leaks
    BY ConfigAssumption
  <2> QED
    BY <2>1, <2>2, <1>1, <1>2 DEF Gone, TypeOK
<1>4. TimersApart'
  <2>1. \A k : Of({}, k) = {}
    BY DEF Of
  <2> QED
    BY <1>2, <2>1, FS_EmptySet DEF Gone, TimersApart, IdsApart, NamesLive, FewOfEach
<1>5. Underway'
  BY <1>1, <1>2, FieldType DEF Gone, Underway, Kind, Period
<1>6. Following'
  BY <1>2 DEF Gone, Following, Awaited
<1> QED
  BY <1>3, <1>4, <1>5, <1>6 DEF IInv

\* The process that starts reads the period before it creates a timer.
LEMMA StartKeeps ==
  ASSUME IInv, Start
  PROVE  IInv'
<1>1. TypeOK /\ Underway /\ TimersApart
  BY DEF IInv
<1>2. TypeOK'
  BY <1>1, PathSteps DEF Start, TypeOK, Kind
<1>3. TimersApart'
  BY <1>1, TimersLeft DEF Start
<1>4. Underway'
  BY <1>1 DEF Start, Underway, Kind, Period
<1>5. Following'
  BY DEF Start, Following, Awaited
<1> QED
  BY <1>2, <1>3, <1>4, <1>5 DEF IInv

\* Every step keeps the invariant.
LEMMA NextKeeps ==
  ASSUME IInv, [Next]_vars
  PROVE  IInv'
<1>1. CASE UNCHANGED vars
  <2>1. UNCHANGED <<pc, starting, cmd, m_devperiod, file, limit, timers, timer_id, stale,
                    replied, leaks, crashes>>
    BY <1>1 DEF vars, process
  <2>2. TimersApart'
    BY <2>1, TimersLeft DEF IInv
  <2> QED
    BY <2>1, <2>2 DEF IInv, TypeOK, Underway, Following, Follows, Period, Ms
<1>2. CASE Next
  BY <1>2, PathKeeps, FileKeeps, CreateKeeps, CreateFailedKeeps, GoneKeeps, StartKeeps
     DEF Next, Work
<1> QED
  BY <1>1, <1>2

\* The invariant holds always.
LEMMA Invariance == Spec => []IInv
BY InitIInv, NextKeeps, PTL DEF Spec

-----------------------------------------------------------------------------
(* Theorems                                                                *)

\* Every variable has its type: no number of a command leaves its field, and no
\* timer is created at more milliseconds than a word holds.
THEOREM TypeCorrect == Spec => []TypeOK
BY Invariance, PTL DEF IInv

\* The ids of the timers that sg_timer_heart_create and its like keep never name
\* a timer of another kind, so replacing a timer stops no other.
THEOREM IdsStayApart == Spec => []IdsApart
<1>1. IInv => IdsApart
  BY DEF IInv, TimersApart
<1> QED
  BY <1>1, Invariance, PTL

\* However often the periods change and the process ends, no kind has a second
\* timer but for a deletion that failed.
THEOREM FewTimers == Spec => []NoStrayTimers
<1>1. IInv => NoStrayTimers
  <2>1. SUFFICES ASSUME IInv, NEW k \in Kind
                 PROVE  Cardinality({t \in timers : t.kind = k}) <= 1 + leaks
    BY DEF NoStrayTimers
  <2>2. Cardinality(Of(timers, k)) <= leaks + (IF timer_id[k] = 0 THEN 0 ELSE 1)
    BY <2>1 DEF IInv, TimersApart, FewOfEach
  <2>3. Cardinality(Of(timers, k)) \in Nat
    BY <2>1, FS_Subset, FS_CardinalityType DEF IInv, TimersApart, Of
  <2>4. leaks \in Nat
    BY <2>1, ConfigAssumption DEF IInv, TypeOK
  <2> QED
    BY <2>2, <2>3, <2>4 DEF Of
<1> QED
  BY <1>1, Invariance, PTL

\* Between commands every timer runs at the period of the file, unless it, or one
\* before it, could not be created.
THEOREM TimersRunAsStored == Spec => []TimersFollowFile
<1>1. IInv => TimersFollowFile
  <2>1. SUFFICES ASSUME IInv, pc = "idle", NEW k \in Kind \ stale
                 PROVE  \E t \in timers : t.id = timer_id[k] /\ t.kind = k /\ t.ms = Ms(file)
    BY DEF TimersFollowFile
  <2>2. Awaited(pc) = {}
    BY <2>1 DEF Awaited
  <2> QED
    BY <2>1, <2>2 DEF IInv, Following, Follows
<1> QED
  BY <1>1, Invariance, PTL

\* The period that was acknowledged stays in the file over every crash, until the
\* next command.
THEOREM PeriodsAreKept == Spec => []AcknowledgedKept
<1>1. IInv => AcknowledgedKept
  BY DEF IInv, Underway, AcknowledgedKept
<1> QED
  BY <1>1, Invariance, PTL

\* No step sets a threshold that the command in hand does not name, or sets one
\* outside of 50 and the alert threshold.
THEOREM LimitsSetAsAsked == Spec => LimitsAsAsked
<1> DEFINE Asked == \A r \in Resource : limit'[r] # limit[r] =>
                      cmd[r] # Absent /\ 50 <= limit'[r] /\ limit'[r] < Alert[r]
<1>1. IInv /\ [Next]_vars => [Asked]_vars
  <2>1. SUFFICES ASSUME IInv, Next, NEW r \in Resource, limit'[r] # limit[r]
                 PROVE  cmd[r] # Absent /\ 50 <= limit'[r] /\ limit'[r] < Alert[r]
    OBVIOUS
  <2>2. limit \in [Resource \union {"temp"} -> Nat] /\ Alert[r] \in Nat
    BY <2>1, ConfigAssumption DEF IInv, TypeOK
  <2>3. CASE SetLimit
    <3>1. /\ pc = r /\ Threshold(cmd, r) \in 50 .. Alert[r] - 1
          /\ limit' = [limit EXCEPT ![r] = Threshold(cmd, r)]
      BY <2>1, <2>2, <2>3 DEF SetLimit
    <3>2. limit'[r] = Threshold(cmd, r)
      BY <3>1, <2>2
    <3>3. cmd[r] # Absent
      BY <3>1 DEF Threshold, Field
    <3> QED
      BY <3>1, <3>2, <3>3, <2>2
  <2>4. CASE SetTemperature
    <3>1. limit'[r] = limit[r]
      BY <2>2, <2>4 DEF SetTemperature, Resource
    <3> QED
      BY <2>1, <3>1
  <2>5. CASE UNCHANGED limit
    BY <2>1, <2>5
  <2> QED
    BY <2>1, <2>3, <2>4, <2>5
       DEF Next, Work, Begin, GiveUp, Truncate, Write, CreateTimer, CreateFailed, Reply, Start,
           Crash, StartFailed
<1> QED
  BY <1>1, Invariance, PTL DEF Spec, LimitsAsAsked
=============================================================================
