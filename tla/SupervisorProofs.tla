-------------------------- MODULE SupervisorProofs --------------------------
(***************************************************************************)
(* Theorems of Supervisor, for every set of children, strategy and limit,  *)
(* and for every bound of the model.                                       *)
(*                                                                         *)
(* First the restart intensity.  RestartIntensity looks back over all      *)
(* restarts ever admitted, the code only at restart_times, from which      *)
(* retain() drops what it takes to be out of the period.  The invariant    *)
(* says why that suffices: whatever is inside the period that ends now is  *)
(* still in restart_times.                                                 *)
(*                                                                         *)
(* Then the tables of children and the order of stops and starts.  A       *)
(* supervisor works off the rest of a plan, so what keeps its tables in    *)
(* step is a statement about every job that is still to be done, and not   *)
(* about the tables alone: TablesInv states both.                          *)
(***************************************************************************)
EXTENDS Supervisor, FiniteSetTheorems, SequenceTheorems, TLAPS

Remembered ==
    \A i \in DOMAIN restartAt : restartAt[i] > now - MaxSeconds => i \in counted

IntensityInv ==
    /\ now \in Nat
    /\ restartAt \in Seq(Nat)
    /\ counted \subseteq DOMAIN restartAt
    /\ Remembered
    /\ RestartIntensity

-----------------------------------------------------------------------------
(* Only HandleChildExit looks at the record of restarts: any other step    *)
(* keeps it, and at most lets time go by.                                  *)
LEMMA OnlyExitsCount ==
    ASSUME Next, ~HandleChildExit, now \in Nat
    PROVE  UNCHANGED <<restartAt, counted>> /\ (now' = now \/ now' = now + 1)
<1>1. CASE Loop
    BY <1>1 DEF Loop, StartChild, StartFails, MonitorChild, StopChild, Terminated,
         TimedOut, IgnoreDown, HandleExit, HandleTerminate, HandleDelete,
         HandleRestart, HandlerDone
<1>2. CASE \E p \in Pid :
             \/ \E reason \in Leaves : Leave(p, reason)
             \/ ExitBegin(p) \/ ExitEnd(p) \/ Panic(p) \/ Struck(p)
    BY <1>2 DEF Leave, ExitBegin, ExitEnd, Panic, Struck, loopVars
<1>3. CASE SendExit
    BY <1>3 DEF SendExit, loopVars
<1>4. CASE \E kind \in CommandKinds, c \in Child : SendCommand(kind, c)
    BY <1>4 DEF SendCommand, loopVars
<1>5. CASE Tick
    BY <1>5 DEF Tick, loopVars
<1>. QED  BY <1>1, <1>2, <1>3, <1>4, <1>5 DEF Next

(* The restarts counted after retain() are finitely many. *)
LEMMA RecentFinite ==
    ASSUME restartAt \in Seq(Nat), counted \subseteq DOMAIN restartAt
    PROVE  /\ IsFiniteSet(Recent) /\ Cardinality(Recent) \in Nat
           /\ Recent \subseteq 1 .. Len(restartAt)
<1>1. /\ Len(restartAt) \in Nat
      /\ DOMAIN restartAt = 1 .. Len(restartAt)
    OBVIOUS
<1>2. Recent \subseteq 1 .. Len(restartAt)
    BY <1>1 DEF Recent
<1>3. IsFiniteSet(1 .. Len(restartAt))
    BY <1>1, FS_Interval
<1>4. IsFiniteSet(Recent)
    BY <1>2, <1>3, FS_Subset
<1>. QED  BY <1>2, <1>4, FS_CardinalityType

(* An admission keeps the limit: a period that ends before it does not     *)
(* contain it, and one that ends later contains, besides it, only restarts *)
(* that retain() kept.                                                     *)
LEMMA Admission ==
    ASSUME IntensityInv,
           Cardinality(Recent) < MaxRestarts,
           now' = now,
           restartAt' = Append(restartAt, now),
           counted' = Recent \cup {Len(restartAt) + 1}
    PROVE  IntensityInv'
<1> DEFINE n == Len(restartAt)
<1>1. /\ now \in Nat /\ restartAt \in Seq(Nat)
      /\ counted \subseteq DOMAIN restartAt
      /\ n \in Nat
      /\ DOMAIN restartAt = 1 .. n
      /\ MaxSeconds \in Nat /\ MaxRestarts \in Nat /\ MaxTime \in Nat
    BY FlagsAssumption, BoundsAssumption DEF IntensityInv
<1>2. /\ restartAt' \in Seq(Nat)
      /\ DOMAIN restartAt' = 1 .. (n + 1)
      /\ \A i \in 1 .. n : restartAt'[i] = restartAt[i]
      /\ restartAt'[n + 1] = now
    BY <1>1, AppendProperties
<1>3. \A i \in 1 .. n : restartAt[i] \in Nat
    BY <1>1
<1>4. /\ IsFiniteSet(Recent) /\ Cardinality(Recent) \in Nat
      /\ Recent \subseteq 1 .. n
    BY <1>1, RecentFinite
<1>5. \A i \in 1 .. n : restartAt[i] > now - MaxSeconds => i \in Recent
    BY <1>1 DEF IntensityInv, Remembered, Recent
<1>6. counted' \subseteq DOMAIN restartAt'
    <2>1. Recent \subseteq 1 .. (n + 1) /\ n + 1 \in 1 .. (n + 1)
        BY <1>1, <1>4
    <2>. QED  BY <2>1, <1>2
<1>7. Remembered'
    <2>1. SUFFICES ASSUME NEW i \in 1 .. (n + 1), restartAt'[i] > now - MaxSeconds
                   PROVE  i \in counted'
        BY <1>2 DEF Remembered
    <2>2. CASE i = n + 1
        BY <2>2
    <2>3. CASE i \in 1 .. n
        BY <2>1, <2>3, <1>2, <1>5
    <2>. QED  BY <2>2, <2>3, <1>1
<1>8. RestartIntensity'
    <2>1. SUFFICES ASSUME NEW t \in 0 .. MaxTime
                   PROVE  Cardinality(Window(t)') <= MaxRestarts
        BY DEF RestartIntensity
    <2>2. t \in Nat
        BY <1>1
    <2>3. CASE t < now
        <3>1. Window(t)' = Window(t)
            BY <1>1, <1>2, <1>3, <2>2, <2>3 DEF Window
        <3>. QED  BY <3>1 DEF IntensityInv, RestartIntensity
    <2>4. CASE t >= now
        <3> DEFINE Most == Recent \cup {n + 1}
        <3>1. Window(t)' \subseteq Most
            <4>1. SUFFICES ASSUME NEW i \in 1 .. n, t - MaxSeconds < restartAt[i]
                           PROVE  i \in Recent
                BY <1>1, <1>2 DEF Window
            <4>. QED  BY <4>1, <1>1, <1>3, <1>5, <2>2, <2>4
        <3>2. n + 1 \notin Recent
            BY <1>1, <1>4
        <3>3. IsFiniteSet(Most) /\ Cardinality(Most) = Cardinality(Recent) + 1
            BY <1>4, <3>2, FS_AddElement
        <3>4. Cardinality(Window(t)') <= Cardinality(Most)
            BY <3>1, <3>3, FS_Subset
        <3>5. Cardinality(Window(t)') \in Nat
            BY <3>1, <3>3, FS_Subset, FS_CardinalityType
        <3>. QED  BY <3>3, <3>4, <3>5, <1>1, <1>4
    <2>. QED  BY <2>2, <2>3, <2>4, <1>1
<1>. QED  BY <1>1, <1>2, <1>6, <1>7, <1>8 DEF IntensityInv

-----------------------------------------------------------------------------
LEMMA IntensityInit == Init => IntensityInv
<1>1. SUFFICES ASSUME Init PROVE IntensityInv
    OBVIOUS
<1>2. now = 0 /\ restartAt = <<>> /\ counted = {}
    BY <1>1 DEF Init
<1>3. restartAt \in Seq(Nat) /\ DOMAIN restartAt = {}
    BY <1>2
<1>4. \A t \in 0 .. MaxTime : Window(t) = {}
    BY <1>3 DEF Window
<1>5. RestartIntensity
    BY <1>4, FS_EmptySet, FlagsAssumption DEF RestartIntensity
<1>. QED  BY <1>2, <1>3, <1>5 DEF IntensityInv, Remembered

LEMMA IntensityStep == IntensityInv /\ [Next]_vars => IntensityInv'
<1>1. SUFFICES ASSUME IntensityInv, [Next]_vars PROVE IntensityInv'
    OBVIOUS
<1>2. /\ now \in Nat /\ restartAt \in Seq(Nat)
      /\ counted \subseteq DOMAIN restartAt
      /\ MaxSeconds \in Nat
      /\ \A i \in DOMAIN restartAt : restartAt[i] \in Nat
    BY <1>1, FlagsAssumption DEF IntensityInv
<1>3. ASSUME UNCHANGED <<restartAt, counted>>, now' = now \/ now' = now + 1
      PROVE  IntensityInv'
    <2>1. now' \in Nat
        BY <1>2, <1>3
    <2>2. Remembered'
        BY <1>1, <1>2, <1>3 DEF IntensityInv, Remembered
    <2>3. RestartIntensity'
        BY <1>1, <1>3 DEF IntensityInv, RestartIntensity, Window
    <2>. QED  BY <1>2, <1>3, <2>1, <2>2, <2>3 DEF IntensityInv
<1>4. CASE UNCHANGED vars
    BY <1>3, <1>4 DEF vars, loopVars
<1>5. CASE Next /\ ~HandleChildExit
    BY <1>2, <1>3, <1>5, OnlyExitsCount
<1>6. CASE HandleChildExit
    <2>1. \/ UNCHANGED <<now, restartAt, counted>>
          \/ UNCHANGED <<now, restartAt>> /\ counted' = Recent
          \/ /\ Cardinality(Recent) < MaxRestarts
             /\ now' = now
             /\ restartAt' = Append(restartAt, now)
             /\ counted' = Recent \cup {Len(restartAt) + 1}
        BY <1>6 DEF HandleChildExit
    <2>2. CASE UNCHANGED <<now, restartAt, counted>>
        BY <2>2, <1>3
    <2>3. CASE UNCHANGED <<now, restartAt>> /\ counted' = Recent
        <3>1. counted' \subseteq DOMAIN restartAt'
            BY <2>3, <1>2 DEF Recent
        <3>2. Remembered'
            BY <2>3, <1>1 DEF IntensityInv, Remembered, Recent
        <3>3. RestartIntensity'
            BY <2>3, <1>1 DEF IntensityInv, RestartIntensity, Window
        <3>. QED  BY <2>3, <1>2, <3>1, <3>2, <3>3 DEF IntensityInv
    <2>4. CASE /\ Cardinality(Recent) < MaxRestarts
               /\ now' = now
               /\ restartAt' = Append(restartAt, now)
               /\ counted' = Recent \cup {Len(restartAt) + 1}
        BY <2>4, <1>1, Admission
    <2>. QED  BY <2>1, <2>2, <2>3, <2>4
<1>. QED  BY <1>1, <1>4, <1>5, <1>6

(* No period of max_seconds sees more than max_restarts restarts, however  *)
(* children fail and however late the supervisor hears of it.              *)
THEOREM IntensityCorrect == Spec => []RestartIntensity
<1>1. IntensityInv => RestartIntensity
    BY DEF IntensityInv
<1>. QED  BY IntensityInit, IntensityStep, <1>1, PTL DEF Spec

-----------------------------------------------------------------------------
(* Orders and plans as sequences: where an id is, and the plans that the   *)
(* handlers make.                                                          *)

Once(ord) ==
    /\ ord \in Seq(Child)
    /\ \A i, j \in DOMAIN ord : ord[i] = ord[j] => i = j
HasId(ord, c) == \E i \in DOMAIN ord : ord[i] = c
Place(ord, c) == CHOOSE i \in DOMAIN ord : ord[i] = c
Earlier(ord, c, d) == Place(ord, c) < Place(ord, d)
InPlan(pl, op, c) == \E i \in DOMAIN pl : pl[i] = Job(op, c)

(* First stops, the last child first, then starts, the first child first.  *)
Sorted(pl, ord) ==
    \A i, j \in DOMAIN pl : i < j =>
        /\ pl[i].op = "start" => pl[j].op = "start"
        /\ pl[i].op = "start" /\ pl[j].op = "start" => Earlier(ord, pl[i].id, pl[j].id)
        /\ pl[i].op = "stop" /\ pl[j].op = "stop" => Earlier(ord, pl[j].id, pl[i].id)

Shape(pl, ord) ==
    /\ pl \in Seq(JobSet)
    /\ \A i \in DOMAIN pl : HasId(ord, pl[i].id)
    /\ Sorted(pl, ord)

LEMMA Places ==
    ASSUME NEW ord, Once(ord)
    PROVE  /\ \A i \in 1 .. Len(ord) :
                 Place(ord, ord[i]) = i /\ HasId(ord, ord[i]) /\ ord[i] \in Child
           /\ \A c : HasId(ord, c) =>
                 Place(ord, c) \in 1 .. Len(ord) /\ ord[Place(ord, c)] = c
<1>1. DOMAIN ord = 1 .. Len(ord) /\ ord \in Seq(Child)
  BY DEF Once
<1>2. ASSUME NEW i \in 1 .. Len(ord)
      PROVE  Place(ord, ord[i]) = i /\ HasId(ord, ord[i]) /\ ord[i] \in Child
  <2>1. HasId(ord, ord[i]) /\ ord[i] \in Child
    BY <1>1 DEF HasId
  <2>2. \E j \in DOMAIN ord : ord[j] = ord[i]
    BY <1>1
  <2>3. Place(ord, ord[i]) \in DOMAIN ord /\ ord[Place(ord, ord[i])] = ord[i]
    BY <2>2 DEF Place
  <2>4. Place(ord, ord[i]) = i
    BY <1>1, <2>3 DEF Once
  <2>5. QED BY <2>1, <2>4
<1>3. ASSUME NEW c, HasId(ord, c) PROVE Place(ord, c) \in 1 .. Len(ord) /\ ord[Place(ord, c)] = c
  <2>1. PICK i \in 1 .. Len(ord) : ord[i] = c
    BY <1>1, <1>3 DEF HasId
  <2>2. QED BY <2>1, <1>2
<1>4. QED BY <1>2, <1>3

LEMMA JobFields ==
    \A op, c : Job(op, c).op = op /\ Job(op, c).id = c
  BY DEF Job

(* The ids from position k on. *)
Suffix(ids, ord, k) ==
    /\ ids \in Seq(Child) /\ k \in 1 .. Len(ord) + 1
    /\ Len(ids) = Len(ord) + 1 - k
    /\ \A i \in 1 .. Len(ids) : ids[i] = ord[i + k - 1]

LEMMA Suffixes ==
    ASSUME NEW ord \in Seq(Child)
    PROVE  /\ Suffix(ord, ord, 1)
           /\ \A k \in 1 .. Len(ord) : Suffix(From(k, ord), ord, k)
<1>1. Suffix(ord, ord, 1)
  BY DEF Suffix
<1>2. ASSUME NEW k \in 1 .. Len(ord) PROVE Suffix(From(k, ord), ord, k)
  <2>1. /\ SubSeq(ord, k, Len(ord)) \in Seq(Child)
        /\ Len(SubSeq(ord, k, Len(ord))) = Len(ord) + 1 - k
        /\ \A i \in 1 .. Len(ord) + 1 - k : SubSeq(ord, k, Len(ord))[i] = ord[i + k - 1]
    BY SubSeqProperties
  <2>2. QED BY <2>1 DEF Suffix, From
<1>3. QED BY <1>1, <1>2

StopJobs(ids) == Jobs("stop", Backwards(ids))
StartJobs(ids) == Jobs("start", ids)

LEMMA JobsOf ==
    ASSUME NEW ord \in Seq(Child), NEW ids, NEW k, Suffix(ids, ord, k)
    PROVE  /\ StopJobs(ids) \in Seq(JobSet) /\ StartJobs(ids) \in Seq(JobSet)
           /\ Len(StopJobs(ids)) = Len(ids) /\ Len(StartJobs(ids)) = Len(ids)
           /\ \A i \in 1 .. Len(ids) : StopJobs(ids)[i] = Job("stop", ord[Len(ord) + 1 - i])
           /\ \A i \in 1 .. Len(ids) : StartJobs(ids)[i] = Job("start", ord[i + k - 1])
<1> DEFINE n == Len(ids)
<1>1. /\ n \in Nat /\ DOMAIN ids = 1 .. n /\ ids \in [1 .. n -> Child]
      /\ k \in Nat /\ Len(ord) \in Nat /\ n = Len(ord) + 1 - k
  BY DEF Suffix
<1>2. Backwards(ids) = [i \in 1 .. n |-> ids[n + 1 - i]]
  BY <1>1 DEF Backwards
<1>3. StopJobs(ids) = [i \in 1 .. n |-> Job("stop", ids[n + 1 - i])]
  BY <1>1, <1>2 DEF StopJobs, Jobs
<1>4. StartJobs(ids) = [i \in 1 .. n |-> Job("start", ids[i])]
  BY <1>1 DEF StartJobs, Jobs
<1>5. \A c \in Child : Job("stop", c) \in JobSet /\ Job("start", c) \in JobSet
  BY DEF Job, JobSet
<1>6. \A i \in 1 .. n : ids[n + 1 - i] \in Child /\ ids[i] \in Child
  BY <1>1
<1>7. StopJobs(ids) \in Seq(JobSet) /\ Len(StopJobs(ids)) = n
  BY <1>1, <1>3, <1>5, <1>6
<1>8. StartJobs(ids) \in Seq(JobSet) /\ Len(StartJobs(ids)) = n
  <2>1. \A i \in 1 .. n : Job("start", ids[i]) \in JobSet
    BY <1>5, <1>6
  <2>2. StartJobs(ids) \in [1 .. n -> JobSet]
    BY <1>4, <2>1
  <2>3. QED BY <1>1, <2>2
<1>9. ASSUME NEW i \in 1 .. n PROVE StopJobs(ids)[i] = Job("stop", ord[Len(ord) + 1 - i])
  <2>1. n + 1 - i \in 1 .. n /\ n + 1 - i + k - 1 = Len(ord) + 1 - i
    BY <1>1
  <2>2. ids[n + 1 - i] = ord[Len(ord) + 1 - i]
    BY <2>1 DEF Suffix
  <2>3. QED BY <1>3, <2>2
<1>10. ASSUME NEW i \in 1 .. n PROVE StartJobs(ids)[i] = Job("start", ord[i + k - 1])
  BY <1>4 DEF Suffix
<1>11. QED BY <1>7, <1>8, <1>9, <1>10

(* Stopping the ids from k on, the last one first.                         *)
LEMMA StopPlan ==
    ASSUME NEW ord, Once(ord), NEW ids, NEW k, Suffix(ids, ord, k)
    PROVE  /\ Shape(StopJobs(ids), ord)
           /\ \A i \in DOMAIN StopJobs(ids) : StopJobs(ids)[i].op = "stop"
           /\ \A c : InPlan(StopJobs(ids), "stop", c) <=> HasId(ord, c) /\ Place(ord, c) >= k
<1> DEFINE n == Len(ids)
           pl == StopJobs(ids)
<1>1. ord \in Seq(Child) /\ n \in Nat /\ k \in 1 .. Len(ord) + 1 /\ Len(ord) \in Nat
      /\ n = Len(ord) + 1 - k
  BY DEF Suffix, Once
<1>2. /\ pl \in Seq(JobSet) /\ Len(pl) = n
      /\ \A i \in 1 .. n : pl[i] = Job("stop", ord[Len(ord) + 1 - i])
  BY <1>1, JobsOf
<1>3. DOMAIN pl = 1 .. n
  BY <1>2
<1> HIDE DEF pl
<1>4. \A i \in 1 .. n : Len(ord) + 1 - i \in 1 .. Len(ord)
  BY <1>1
<1>5. ASSUME NEW i \in 1 .. n PROVE pl[i].op = "stop" /\ pl[i].id = ord[Len(ord) + 1 - i]
  <2>1. pl[i] = Job("stop", ord[Len(ord) + 1 - i])
    BY <1>2
  <2>2. QED BY <2>1, JobFields
<1>6. \A i \in 1 .. n : HasId(ord, pl[i].id) /\ Place(ord, pl[i].id) = Len(ord) + 1 - i
  BY <1>4, <1>5, Places
<1>7. Sorted(pl, ord)
  BY <1>1, <1>3, <1>5, <1>6 DEF Sorted, Earlier
<1>8. ASSUME NEW c PROVE InPlan(pl, "stop", c) <=> HasId(ord, c) /\ Place(ord, c) >= k
  <2>1. ASSUME NEW i \in 1 .. n, pl[i] = Job("stop", c) PROVE HasId(ord, c) /\ Place(ord, c) >= k
    <3>1. pl[i].id = c
      BY <2>1 DEF Job
    <3>2. QED BY <1>1, <1>6, <3>1
  <2>2. ASSUME HasId(ord, c), Place(ord, c) >= k PROVE \E i \in 1 .. n : pl[i] = Job("stop", c)
    <3>1. Place(ord, c) \in 1 .. Len(ord) /\ ord[Place(ord, c)] = c
      BY <2>2, Places
    <3>2. /\ Len(ord) + 1 - Place(ord, c) \in 1 .. n
          /\ Len(ord) + 1 - (Len(ord) + 1 - Place(ord, c)) = Place(ord, c)
      BY <1>1, <2>2, <3>1
    <3>3. pl[Len(ord) + 1 - Place(ord, c)] = Job("stop", c)
      BY <1>2, <3>1, <3>2
    <3>4. QED BY <3>2, <3>3
  <2>3. QED BY <1>3, <2>1, <2>2 DEF InPlan
<1>9. Shape(pl, ord)
  BY <1>2, <1>3, <1>6, <1>7 DEF Shape
<1>10. QED BY <1>3, <1>5, <1>8, <1>9 DEF pl

(* Starting the ids from k on. *)
LEMMA StartPlan ==
    ASSUME NEW ord, Once(ord), NEW ids, NEW k, Suffix(ids, ord, k)
    PROVE  /\ Shape(StartJobs(ids), ord)
           /\ \A i \in DOMAIN StartJobs(ids) : StartJobs(ids)[i].op = "start"
           /\ \A c : InPlan(StartJobs(ids), "start", c) => HasId(ord, c) /\ Place(ord, c) >= k
<1> DEFINE n == Len(ids)
           pl == StartJobs(ids)
<1>1. ord \in Seq(Child) /\ n \in Nat /\ k \in 1 .. Len(ord) + 1 /\ Len(ord) \in Nat
      /\ n = Len(ord) + 1 - k
  BY DEF Suffix, Once
<1>2. /\ pl \in Seq(JobSet) /\ Len(pl) = n
      /\ \A i \in 1 .. n : pl[i] = Job("start", ord[i + k - 1])
  <2>1. ord \in Seq(Child)
    BY <1>1
  <2>2. pl \in Seq(JobSet) /\ Len(pl) = n
    BY <2>1, JobsOf
  <2>3. \A i \in 1 .. n : pl[i] = Job("start", ord[i + k - 1])
    BY <2>1, JobsOf
  <2>4. QED BY <2>2, <2>3
<1>3. DOMAIN pl = 1 .. n
  BY <1>2
<1> HIDE DEF pl
<1>4. \A i \in 1 .. n : i + k - 1 \in 1 .. Len(ord)
  BY <1>1
<1>5. ASSUME NEW i \in 1 .. n PROVE pl[i].op = "start" /\ pl[i].id = ord[i + k - 1]
  <2>1. pl[i] = Job("start", ord[i + k - 1])
    BY <1>2
  <2>2. QED BY <2>1, JobFields
<1>6. \A i \in 1 .. n : HasId(ord, pl[i].id) /\ Place(ord, pl[i].id) = i + k - 1
  BY <1>4, <1>5, Places
<1>7. Sorted(pl, ord)
  BY <1>1, <1>3, <1>5, <1>6 DEF Sorted, Earlier
<1>8. Shape(pl, ord)
  BY <1>2, <1>3, <1>6, <1>7 DEF Shape
<1>9. ASSUME NEW c, NEW i \in 1 .. n, pl[i] = Job("start", c)
      PROVE  HasId(ord, c) /\ Place(ord, c) >= k
  <2>1. pl[i].id = c
    BY <1>9 DEF Job
  <2>2. QED BY <1>1, <1>6, <2>1
<1>10. QED BY <1>3, <1>5, <1>8, <1>9 DEF pl, InPlan

(* Stopping the ids from k on and starting them again.                     *)
LEMMA BothPlan ==
    ASSUME NEW ord, Once(ord), NEW ids, NEW k, Suffix(ids, ord, k)
    PROVE  LET pl == StopJobs(ids) \o StartJobs(ids) IN
           /\ Shape(pl, ord)
           /\ \A c : InPlan(pl, "stop", c) <=> HasId(ord, c) /\ Place(ord, c) >= k
           /\ \A c : InPlan(pl, "start", c) => HasId(ord, c) /\ Place(ord, c) >= k
<1> DEFINE a == StopJobs(ids)
           b == StartJobs(ids)
           n == Len(a)
           m == Len(b)
           pl == a \o b
<1>1. ord \in Seq(Child)
  BY DEF Once
<1>2. a \in Seq(JobSet) /\ b \in Seq(JobSet)
  BY <1>1, JobsOf
<1>3. /\ Shape(a, ord) /\ \A i \in DOMAIN a : a[i].op = "stop"
      /\ \A c : InPlan(a, "stop", c) <=> HasId(ord, c) /\ Place(ord, c) >= k
  BY StopPlan
<1>4. /\ Shape(b, ord) /\ \A i \in DOMAIN b : b[i].op = "start"
      /\ \A c : InPlan(b, "start", c) => HasId(ord, c) /\ Place(ord, c) >= k
  BY StartPlan
<1> HIDE DEF a, b
<1>5. n \in Nat /\ m \in Nat /\ DOMAIN a = 1 .. n /\ DOMAIN b = 1 .. m
  BY <1>2
<1>6. pl \in Seq(JobSet) /\ Len(pl) = n + m /\ DOMAIN pl = 1 .. n + m
  BY <1>2
<1>7. /\ \A i \in 1 .. n : pl[i] = a[i]
      /\ \A i \in n + 1 .. n + m : pl[i] = b[i - n] /\ i - n \in 1 .. m
  BY <1>2, <1>5
<1>8. \A i \in 1 .. n + m : i \in 1 .. n \/ i \in n + 1 .. n + m
  BY <1>5
<1> HIDE DEF pl
<1>9. \A i \in DOMAIN pl : HasId(ord, pl[i].id)
  BY <1>3, <1>4, <1>5, <1>6, <1>7, <1>8 DEF Shape
<1>10. ASSUME NEW i \in 1 .. n + m, NEW j \in 1 .. n + m, i < j
       PROVE  /\ pl[i].op = "start" => pl[j].op = "start"
              /\ pl[i].op = "start" /\ pl[j].op = "start" => Earlier(ord, pl[i].id, pl[j].id)
              /\ pl[i].op = "stop" /\ pl[j].op = "stop" => Earlier(ord, pl[j].id, pl[i].id)
  <2>1. CASE i \in 1 .. n /\ j \in 1 .. n
    BY <1>3, <1>5, <1>7, <1>10, <2>1 DEF Shape, Sorted
  <2>2. CASE i \in 1 .. n /\ j \in n + 1 .. n + m
    BY <1>3, <1>4, <1>5, <1>7, <2>2
  <2>3. CASE i \in n + 1 .. n + m /\ j \in n + 1 .. n + m
    <3>1. i - n < j - n
      BY <1>5, <1>10
    <3>2. QED BY <1>4, <1>5, <1>7, <2>3, <3>1 DEF Shape, Sorted
  <2>4. ~(i \in n + 1 .. n + m /\ j \in 1 .. n)
    BY <1>5, <1>10
  <2>5. QED BY <1>8, <2>1, <2>2, <2>3, <2>4
<1>11. Shape(pl, ord)
  BY <1>6, <1>9, <1>10 DEF Shape, Sorted
<1>12. ASSUME NEW c PROVE InPlan(pl, "stop", c) <=> InPlan(a, "stop", c)
  <2>1. \A i \in n + 1 .. n + m : pl[i] # Job("stop", c)
    BY <1>4, <1>5, <1>7, JobFields
  <2>2. \A i \in 1 .. n : i \in 1 .. n + m
    BY <1>5
  <2>3. QED BY <1>5, <1>6, <1>7, <1>8, <2>1, <2>2 DEF InPlan
<1>13. ASSUME NEW c, InPlan(pl, "start", c) PROVE InPlan(b, "start", c)
  <2>1. \A i \in 1 .. n : pl[i] # Job("start", c)
    BY <1>3, <1>5, <1>7, JobFields
  <2>2. QED BY <1>5, <1>6, <1>7, <1>8, <1>13, <2>1 DEF InPlan
<1>14. QED BY <1>3, <1>4, <1>11, <1>12, <1>13 DEF pl, a, b

LEMMA OnePlan ==
    ASSUME NEW ord, NEW op \in {"start", "stop"}, NEW c \in Child, HasId(ord, c)
    PROVE  /\ Shape(<<Job(op, c)>>, ord)
           /\ \A o, d : InPlan(<<Job(op, c)>>, o, d) => o = op /\ d = c
<1> DEFINE pl == <<Job(op, c)>>
<1>1. pl \in Seq(JobSet) /\ DOMAIN pl = {1} /\ pl[1] = Job(op, c)
  BY DEF Job, JobSet
<1> HIDE DEF pl
<1>2. Shape(pl, ord)
  BY <1>1, JobFields DEF Shape, Sorted
<1>3. ASSUME NEW o, NEW d, InPlan(pl, o, d) PROVE o = op /\ d = c
  <2>1. Job(op, c) = Job(o, d)
    BY <1>1, <1>3 DEF InPlan
  <2>2. QED BY <2>1, JobFields
<1>4. QED BY <1>2, <1>3 DEF pl

LEMMA NoPlan ==
    ASSUME NEW ord
    PROVE  Shape(<<>>, ord) /\ \A o, d : ~InPlan(<<>>, o, d)
  BY DEF Shape, Sorted, InPlan

(* A job that is done leaves the others. *)
LEMMA RestOfPlan ==
    ASSUME NEW ord, Once(ord), NEW pl, Shape(pl, ord), pl # <<>>
    PROVE  /\ Shape(Tail(pl), ord)
           /\ 1 \in DOMAIN pl /\ Head(pl) = pl[1] /\ Head(pl) \in JobSet /\ HasId(ord, Head(pl).id)
           /\ InPlan(pl, Head(pl).op, Head(pl).id)
           /\ \A o, d : InPlan(Tail(pl), o, d) <=> InPlan(pl, o, d) /\ Job(o, d) # Head(pl)
           /\ \A i \in DOMAIN Tail(pl) : \E j \in DOMAIN pl : Tail(pl)[i] = pl[j] /\ j # 1
<1> DEFINE n == Len(pl)
           t == Tail(pl)
<1>1. pl \in Seq(JobSet) /\ n \in Nat /\ n > 0 /\ DOMAIN pl = 1 .. n /\ Head(pl) = pl[1]
  BY DEF Shape
<1>2. /\ t \in Seq(JobSet) /\ Len(t) = n - 1 /\ DOMAIN t = 1 .. n - 1
      /\ \A i \in 1 .. n - 1 : t[i] = pl[i + 1]
  BY <1>1
<1> HIDE DEF t
<1>3. \A i \in 1 .. n - 1 : i + 1 \in 2 .. n /\ i + 1 \in 1 .. n
  BY <1>1
<1>4. Sorted(t, ord)
  <2>1. SUFFICES ASSUME NEW i \in 1 .. n - 1, NEW j \in 1 .. n - 1, i < j
        PROVE  /\ t[i].op = "start" => t[j].op = "start"
               /\ t[i].op = "start" /\ t[j].op = "start" => Earlier(ord, t[i].id, t[j].id)
               /\ t[i].op = "stop" /\ t[j].op = "stop" => Earlier(ord, t[j].id, t[i].id)
    BY <1>2 DEF Sorted
  <2>2. i + 1 < j + 1
    BY <2>1
  <2>3. /\ i + 1 \in DOMAIN pl /\ j + 1 \in DOMAIN pl
        /\ t[i] = pl[i + 1] /\ t[j] = pl[j + 1]
    BY <1>1, <1>2, <1>3
  <2>4. Sorted(pl, ord)
    BY DEF Shape
  <2>5. QED BY <2>2, <2>3, <2>4 DEF Sorted
<1>5. Shape(t, ord)
  BY <1>1, <1>2, <1>3, <1>4 DEF Shape
<1>6. ASSUME NEW i \in 2 .. n PROVE pl[i] # pl[1]
  <2>1. HasId(ord, pl[1].id) /\ pl[1] \in JobSet
    BY <1>1 DEF Shape
  <2>2. ~Earlier(ord, pl[1].id, pl[1].id)
    BY <2>1, Places DEF Earlier
  <2>3. i \in 1 .. n /\ 1 \in 1 .. n /\ 1 < i
    BY <1>1
  <2>4. pl[1].op = "start" \/ pl[1].op = "stop"
    BY <2>1 DEF JobSet
  <2>5. QED BY <1>1, <2>2, <2>3, <2>4 DEF Shape, Sorted
<1>7. ASSUME NEW o, NEW d PROVE InPlan(t, o, d) <=> InPlan(pl, o, d) /\ Job(o, d) # Head(pl)
  <2>1. ASSUME NEW i \in 1 .. n - 1, t[i] = Job(o, d)
        PROVE  (\E j \in 1 .. n : pl[j] = Job(o, d)) /\ Job(o, d) # Head(pl)
    BY <1>1, <1>2, <1>3, <1>6, <2>1
  <2>2. ASSUME NEW i \in 1 .. n, pl[i] = Job(o, d), Job(o, d) # Head(pl)
        PROVE  \E j \in 1 .. n - 1 : t[j] = Job(o, d)
    <3>1. i - 1 \in 1 .. n - 1 /\ i - 1 + 1 = i
      BY <1>1, <2>2
    <3>2. QED BY <1>2, <2>2, <3>1
  <2>3. QED BY <1>1, <1>2, <2>1, <2>2 DEF InPlan
<1>8. ASSUME NEW i \in 1 .. n - 1 PROVE \E j \in 1 .. n : t[i] = pl[j] /\ j # 1
  BY <1>2, <1>3
<1>9. 1 \in DOMAIN pl /\ Head(pl) \in JobSet /\ HasId(ord, Head(pl).id)
  BY <1>1 DEF Shape
<1>10. InPlan(pl, Head(pl).op, Head(pl).id)
  <2>1. Head(pl) = Job(Head(pl).op, Head(pl).id)
    BY <1>9 DEF JobSet, Job
  <2>2. QED BY <1>1, <1>9, <2>1 DEF InPlan
<1>11. QED BY <1>1, <1>2, <1>5, <1>7, <1>8, <1>9, <1>10 DEF t

-----------------------------------------------------------------------------
(* The inductive invariant: what the supervisor still has to do fits what  *)
(* its tables say, and the tables fit the processes there are.             *)

ClockType ==
    /\ now \in 0 .. MaxTime /\ commands \in 0 .. MaxCommands
    /\ restartAt \in Seq(0 .. MaxTime) /\ counted \subseteq DOMAIN restartAt

ChildType ==
    /\ nextPid \in 1 .. (MaxPid + 1)
    /\ childOf \in [Pid -> Child \cup {"none"}]
    /\ task \in [Pid -> {"unborn", "running", "leaving", "notifying", "gone", "panicked"}]
    /\ why \in [Pid -> Reason]
    /\ terminated \in [Pid -> BOOLEAN]
    /\ registered \subseteq Pid /\ asked \subseteq Pid
    /\ monitored \subseteq Pid /\ tells \subseteq Pid

LoopType ==
    /\ phase \in Phase
    /\ pidOf \in [Child -> Pid \cup {NoPid}]
    /\ pidToId \subseteq Pid
    /\ current \in Pid \cup {NoPid}
    /\ view \in [Child -> Pid \cup {NoPid}]

(* A DOWN message is about a process that is no longer registered. *)
InboxInv ==
    /\ inbox \in Seq(Message)
    /\ \A i \in DOMAIN inbox : inbox[i].type = "down" =>
          inbox[i].pid < nextPid /\ inbox[i].pid \notin registered

PlanOK == Once(order) /\ Shape(plan, order)

(* Who is to be started has been stopped, or will be before. *)
StartsFit ==
    \A c \in Child : InPlan(plan, "start", c) /\ pidOf[c] # NoPid => InPlan(plan, "stop", c)

(* Who is to be stopped outlives nobody that was started after it. *)
StopsFit ==
    phase \in {"restarting", "stopping"} =>
        \A c, d \in Child :
            /\ InPlan(plan, "stop", c) /\ HasId(order, d) /\ Earlier(order, c, d)
            /\ pidOf[d] # NoPid
            => InPlan(plan, "stop", d)

PhaseFits ==
    /\ phase \in {"idle", "gone", "init_failed"} => plan = <<>>
    /\ phase = "stopping" =>
          /\ \A i \in DOMAIN plan : plan[i].op = "stop"
          /\ \A c \in Child : pidOf[c] # NoPid => InPlan(plan, "stop", c)
    /\ phase = "gone" => \A c \in Child : pidOf[c] = NoPid

JobsInv == PlanOK /\ StartsFit /\ StopsFit /\ PhaseFits

Tables ==
    /\ \A c \in Child : pidOf[c] # NoPid =>
          HasId(order, c) /\ pidOf[c] \in pidToId /\ childOf[pidOf[c]] = c
    /\ \A p \in pidToId : childOf[p] \in Child /\ pidOf[childOf[p]] = p

(* The process that the first job waits for is in no table. *)
Awaited ==
    current # NoPid =>
        /\ plan # <<>> /\ childOf[current] = Head(plan).id
        /\ pidOf[Head(plan).id] = NoPid
        /\ current < nextPid
        /\ Head(plan).op = "start" => nextPid = current + 1

(* Pids are handed out by the supervisor alone, in their order. *)
Known ==
    /\ \A p \in pidToId \cup registered : p < nextPid
    /\ \A p \in Pid : p >= nextPid => task[p] = "unborn"

AliveKnown ==
    \A p \in Pid : IsAlive(p) => p = current \/ (childOf[p] \in Child /\ pidOf[childOf[p]] = p)

Types == ClockType /\ ChildType /\ LoopType
Processes == Tables /\ Awaited /\ Known /\ AliveKnown
TablesInv == Types /\ InboxInv /\ JobsInv /\ Processes

LEMMA TablesType == TablesInv => TypeOK
  BY DEF TablesInv, Types, ClockType, ChildType, LoopType, InboxInv, JobsInv, PlanOK, Once, Shape, TypeOK

-----------------------------------------------------------------------------
(* What each kind of step does to the plan. *)
LEMMA JobsStay ==
    ASSUME JobsInv, UNCHANGED <<order, plan, phase>>,
           \A c \in Child : pidOf'[c] \in {pidOf[c], NoPid}
    PROVE  JobsInv'
<1>1. PlanOK'
  BY DEF JobsInv, PlanOK
<1>2. StartsFit' /\ StopsFit'
  BY DEF JobsInv, StartsFit, StopsFit
<1>3. PhaseFits'
  BY DEF JobsInv, PhaseFits
<1>4. QED BY <1>1, <1>2, <1>3 DEF JobsInv

LEMMA JobStopped ==
    ASSUME JobsInv, plan # <<>>, Head(plan).op = "stop", pidOf'[Head(plan).id] = NoPid,
           \A c \in Child : pidOf'[c] \in {pidOf[c], NoPid},
           plan' = Tail(plan), UNCHANGED <<order, phase>>
    PROVE  JobsInv'
<1>1. /\ Shape(Tail(plan), order) /\ Head(plan) \in JobSet
      /\ \A o, d : InPlan(Tail(plan), o, d) <=> InPlan(plan, o, d) /\ Job(o, d) # Head(plan)
      /\ \A i \in DOMAIN Tail(plan) : \E j \in DOMAIN plan : Tail(plan)[i] = plan[j] /\ j # 1
  BY RestOfPlan DEF JobsInv, PlanOK
<1>2. ASSUME NEW c \in Child, pidOf'[c] # NoPid
      PROVE  pidOf[c] # NoPid /\ (InPlan(plan, "stop", c) => InPlan(plan', "stop", c))
  <2>1. c # Head(plan).id /\ pidOf[c] # NoPid
    BY <1>2
  <2>2. Job("stop", c) # Head(plan)
    BY <2>1, JobFields
  <2>3. QED BY <1>1, <2>1, <2>2
<1>3. \A o, d : InPlan(plan', o, d) => InPlan(plan, o, d)
  BY <1>1
<1>4. PlanOK'
  BY <1>1 DEF JobsInv, PlanOK
<1>5. StartsFit'
  BY <1>2, <1>3 DEF JobsInv, StartsFit
<1>6. StopsFit'
  BY <1>2, <1>3 DEF JobsInv, StopsFit
<1>7. PhaseFits'
  <2>1. phase \notin {"idle", "gone", "init_failed"}
    BY DEF JobsInv, PhaseFits
  <2>2. phase = "stopping" => \A i \in DOMAIN plan' : plan'[i].op = "stop"
    BY <1>1 DEF JobsInv, PhaseFits
  <2>3. phase = "stopping" => \A c \in Child : pidOf'[c] # NoPid => InPlan(plan', "stop", c)
    BY <1>2 DEF JobsInv, PhaseFits
  <2>4. QED BY <2>1, <2>2, <2>3 DEF PhaseFits
<1>8. QED BY <1>4, <1>5, <1>6, <1>7 DEF JobsInv

LEMMA StartFirst ==
    ASSUME JobsInv, plan # <<>>, Head(plan).op = "start"
    PROVE  /\ \A c : ~InPlan(plan, "stop", c)
           /\ \A c \in Child : InPlan(plan, "start", c) => pidOf[c] = NoPid
           /\ \A c : InPlan(Tail(plan), "start", c) =>
                 InPlan(plan, "start", c) /\ Earlier(order, Head(plan).id, c)
<1>1. /\ 1 \in DOMAIN plan /\ Head(plan) = plan[1]
      /\ \A o, d : InPlan(Tail(plan), o, d) <=> InPlan(plan, o, d) /\ Job(o, d) # Head(plan)
  BY RestOfPlan DEF JobsInv, PlanOK
<1>2. DOMAIN plan = 1 .. Len(plan) /\ Len(plan) \in Nat
  BY DEF JobsInv, PlanOK, Shape
<1>3. \A i \in DOMAIN plan : i # 1 => 1 < i
  BY <1>2
<1>4. \A i \in DOMAIN plan : plan[i].op = "start"
  BY <1>1, <1>3 DEF JobsInv, PlanOK, Shape, Sorted
<1>5. \A c : ~InPlan(plan, "stop", c)
  BY <1>4, JobFields DEF InPlan
<1>6. \A c \in Child : InPlan(plan, "start", c) => pidOf[c] = NoPid
  BY <1>5 DEF JobsInv, StartsFit
<1>7. ASSUME NEW c, InPlan(Tail(plan), "start", c)
      PROVE  InPlan(plan, "start", c) /\ Earlier(order, Head(plan).id, c)
  <2>1. InPlan(plan, "start", c) /\ Job("start", c) # plan[1]
    BY <1>1, <1>7
  <2>2. PICK i \in DOMAIN plan : plan[i] = Job("start", c)
    BY <2>1 DEF InPlan
  <2>3. 1 < i /\ plan[i].id = c
    BY <1>3, <2>1, <2>2, JobFields
  <2>4. Earlier(order, plan[1].id, plan[i].id)
    BY <1>1, <1>4, <2>3 DEF JobsInv, PlanOK, Shape, Sorted
  <2>5. QED BY <1>1, <2>1, <2>3, <2>4
<1>8. QED BY <1>5, <1>6, <1>7

LEMMA NotEarlier ==
    ASSUME NEW ord, Once(ord), NEW c, HasId(ord, c)
    PROVE  /\ ~Earlier(ord, c, c)
           /\ \A d : HasId(ord, d) /\ Earlier(ord, c, d) => ~Earlier(ord, d, c)
<1>1. \A d : HasId(ord, d) => Place(ord, d) \in Int
  BY Places
<1>2. QED BY <1>1 DEF Earlier

LEMMA JobStarted ==
    ASSUME JobsInv, pidOf \in [Child -> Pid \cup {NoPid}], NEW p,
           plan # <<>>, Head(plan).op = "start",
           pidOf' = [pidOf EXCEPT ![Head(plan).id] = p],
           plan' = Tail(plan), UNCHANGED <<order, phase>>
    PROVE  JobsInv'
<1> DEFINE c == Head(plan).id
<1>1. /\ Shape(Tail(plan), order) /\ HasId(order, c) /\ Head(plan) \in JobSet
      /\ 1 \in DOMAIN plan /\ Head(plan) = plan[1]
      /\ \A o, d : InPlan(Tail(plan), o, d) <=> InPlan(plan, o, d) /\ Job(o, d) # Head(plan)
  BY RestOfPlan DEF JobsInv, PlanOK
<1>2. /\ \A d : ~InPlan(plan, "stop", d)
      /\ \A d \in Child : InPlan(plan, "start", d) => pidOf[d] = NoPid
      /\ \A d : InPlan(Tail(plan), "start", d) =>
             InPlan(plan, "start", d) /\ Earlier(order, c, d)
  BY StartFirst
<1>3. ~Earlier(order, c, c)
  BY <1>1, NotEarlier DEF JobsInv, PlanOK
<1>4. PlanOK'
  BY <1>1 DEF JobsInv, PlanOK
<1>5. StartsFit'
  <2>1. ASSUME NEW d \in Child, InPlan(plan', "start", d) PROVE pidOf'[d] = NoPid
    BY <1>2, <1>3, <2>1
  <2>2. QED BY <2>1 DEF StartsFit
<1>6. StopsFit'
  BY <1>1, <1>2 DEF StopsFit
<1>7. PhaseFits'
  BY <1>1 DEF JobsInv, PhaseFits
<1>8. QED BY <1>4, <1>5, <1>6, <1>7 DEF JobsInv

LEMMA JobsNone ==
    ASSUME JobsInv, plan' = <<>>, UNCHANGED order,
           phase' \in {"stopping", "gone"} => \A c \in Child : pidOf'[c] = NoPid
    PROVE  JobsInv'
<1>1. PlanOK' /\ \A o, d : ~InPlan(plan', o, d)
  BY NoPlan DEF JobsInv, PlanOK
<1>2. QED BY <1>1 DEF JobsInv, StartsFit, StopsFit, PhaseFits

LEMMA JobsStopAll ==
    ASSUME JobsInv, plan' = StopJobs(order), phase' = "stopping", UNCHANGED order,
           \A c \in Child : pidOf'[c] # NoPid => HasId(order, c)
    PROVE  JobsInv'
<1>1. Once(order) /\ Suffix(order, order, 1)
  BY Suffixes DEF JobsInv, PlanOK, Once
<1>2. /\ Shape(plan', order) /\ \A i \in DOMAIN plan' : plan'[i].op = "stop"
      /\ \A c : InPlan(plan', "stop", c) <=> HasId(order, c) /\ Place(order, c) >= 1
  BY <1>1, StopPlan
<1>3. \A c : InPlan(plan', "stop", c) <=> HasId(order, c)
  BY <1>1, <1>2, Places
<1>4. \A c : ~InPlan(plan', "start", c)
  BY <1>2, JobFields DEF InPlan
<1>5. QED BY <1>1, <1>2, <1>3, <1>4 DEF JobsInv, PlanOK, StartsFit, StopsFit, PhaseFits

LEMMA JobsOne ==
    ASSUME JobsInv, NEW op \in {"start", "stop"}, NEW c \in Child, HasId(order, c),
           plan' = <<Job(op, c)>>, UNCHANGED order,
           phase' \in {"command", "restarting"}, phase' = "restarting" => op = "start",
           op = "start" => pidOf'[c] = NoPid
    PROVE  JobsInv'
<1>1. Shape(plan', order) /\ \A o, d : InPlan(plan', o, d) => o = op /\ d = c
  BY OnePlan
<1>2. QED BY <1>1 DEF JobsInv, PlanOK, StartsFit, StopsFit, PhaseFits

LEMMA JobsBoth ==
    ASSUME JobsInv, NEW ids, NEW k, Suffix(ids, order, k),
           plan' = StopJobs(ids) \o StartJobs(ids), UNCHANGED order, phase' = "restarting"
    PROVE  JobsInv'
<1>1. Once(order)
  BY DEF JobsInv, PlanOK
<1>2. /\ Shape(plan', order)
      /\ \A c : InPlan(plan', "stop", c) <=> HasId(order, c) /\ Place(order, c) >= k
      /\ \A c : InPlan(plan', "start", c) => HasId(order, c) /\ Place(order, c) >= k
  BY <1>1, BothPlan
<1>3. StopsFit'
  <2>1. ASSUME NEW c, NEW d, InPlan(plan', "stop", c), HasId(order, d), Earlier(order, c, d)
        PROVE  InPlan(plan', "stop", d)
    <3>1. Place(order, c) \in Int /\ Place(order, d) \in Int /\ k \in Int
      BY <1>1, <1>2, <2>1, Places DEF Suffix
    <3>2. QED BY <1>2, <2>1, <3>1 DEF Earlier
  <2>2. QED BY <2>1 DEF StopsFit
<1>4. QED BY <1>1, <1>2, <1>3 DEF JobsInv, PlanOK, StartsFit, PhaseFits

(* child_order.retain(): the ids that are left keep their order. *)
LEMMA WithoutOne ==
    ASSUME Once(order), NEW c, HasId(order, c)
    PROVE  /\ Once(Without(c))
           /\ \A d : HasId(order, d) /\ d # c => HasId(Without(c), d)
           /\ \A d, e : /\ HasId(Without(c), d) /\ HasId(Without(c), e)
                        /\ Earlier(Without(c), d, e)
                        => Earlier(order, d, e)
           /\ \A d : HasId(Without(c), d) => HasId(order, d)
<1> DEFINE n == Len(order)
           k == Place(order, c)
           w == Without(c)
<1>1. order \in Seq(Child) /\ n \in Nat /\ DOMAIN order = 1 .. n /\ k \in 1 .. n /\ order[k] = c
  BY Places DEF Once
<1>2. w = [i \in 1 .. n - 1 |-> order[IF i < k THEN i ELSE i + 1]]
  BY DEF Without, Position, Place
<1> HIDE DEF w
<1>3. DOMAIN w = 1 .. n - 1 /\ \A i \in 1 .. n - 1 : w[i] = order[IF i < k THEN i ELSE i + 1]
  BY <1>2
<1>4. \A i \in 1 .. n - 1 : (IF i < k THEN i ELSE i + 1) \in 1 .. n
  BY <1>1
<1>5. w \in Seq(Child) /\ Len(w) = n - 1
  <2>1. \A i \in 1 .. n - 1 : w[i] \in Child
    BY <1>1, <1>3, <1>4
  <2>2. n - 1 \in Nat
    BY <1>1
  <2>3. w \in [1 .. n - 1 -> Child]
    BY <1>2, <1>3, <2>1
  <2>4. QED BY <2>2, <2>3
<1>6. ASSUME NEW i \in 1 .. n - 1, NEW j \in 1 .. n - 1, w[i] = w[j] PROVE i = j
  <2>1. (IF i < k THEN i ELSE i + 1) = (IF j < k THEN j ELSE j + 1)
    BY <1>1, <1>3, <1>4, <1>6 DEF Once
  <2>2. QED BY <1>1, <2>1
<1>7. Once(w)
  BY <1>3, <1>5, <1>6 DEF Once
<1>8. ASSUME NEW d, HasId(order, d), d # c PROVE HasId(w, d)
  <2>1. Place(order, d) \in 1 .. n /\ order[Place(order, d)] = d
    BY <1>8, Places
  <2>2. Place(order, d) # k
    BY <1>1, <1>8, <2>1
  <2>3. CASE Place(order, d) < k
    <3>1. Place(order, d) \in 1 .. n - 1
      BY <1>1, <2>1, <2>3
    <3>2. w[Place(order, d)] = d
      BY <1>3, <2>1, <2>3, <3>1
    <3>3. QED BY <1>3, <3>1, <3>2 DEF HasId
  <2>4. CASE Place(order, d) > k
    <3>1. Place(order, d) - 1 \in 1 .. n - 1 /\ ~(Place(order, d) - 1 < k)
          /\ Place(order, d) - 1 + 1 = Place(order, d)
      BY <1>1, <2>1, <2>4
    <3>2. w[Place(order, d) - 1] = d
      BY <1>3, <2>1, <3>1
    <3>3. QED BY <1>3, <3>1, <3>2 DEF HasId
  <2>5. QED BY <1>1, <2>1, <2>2, <2>3, <2>4
<1>9. ASSUME NEW d, HasId(w, d)
      PROVE  /\ HasId(order, d) /\ Place(w, d) \in 1 .. n - 1
             /\ Place(order, d) = IF Place(w, d) < k THEN Place(w, d) ELSE Place(w, d) + 1
  <2> DEFINE i == Place(w, d)
             j == IF i < k THEN i ELSE i + 1
  <2>1. i \in 1 .. n - 1 /\ w[i] = d
    BY <1>5, <1>7, <1>9, Places
  <2>2. j \in 1 .. n /\ order[j] = d
    BY <1>3, <1>4, <2>1
  <2>3. Place(order, d) = j /\ HasId(order, d)
    BY <2>2, Places
  <2>4. QED BY <2>1, <2>3
<1>10. ASSUME NEW d, NEW e, HasId(w, d), HasId(w, e), Earlier(w, d, e)
       PROVE  Earlier(order, d, e)
  BY <1>1, <1>9, <1>10 DEF Earlier
<1>11. QED BY <1>7, <1>8, <1>9, <1>10 DEF w

-----------------------------------------------------------------------------
(* The mailbox. *)
LEMMA Posted ==
    ASSUME InboxInv, NEW msg \in Message, Post(msg), nextPid \in Nat,
           UNCHANGED nextPid, registered' \subseteq registered,
           msg.type = "down" => msg.pid < nextPid /\ msg.pid \notin registered'
    PROVE  InboxInv'
<1>1. CASE UNCHANGED inbox
  BY <1>1 DEF InboxInv
<1>2. CASE inbox' = Append(inbox, msg)
  <2>1. inbox' \in Seq(Message) /\ DOMAIN inbox' = 1 .. Len(inbox) + 1
    BY <1>2 DEF InboxInv
  <2>2. \A i \in 1 .. Len(inbox) + 1 : (i \in DOMAIN inbox /\ inbox'[i] = inbox[i]) \/ inbox'[i] = msg
    BY <1>2 DEF InboxInv
  <2>3. QED BY <2>1, <2>2 DEF InboxInv
<1>3. QED BY <1>1, <1>2 DEF Post

LEMMA Received ==
    ASSUME InboxInv, NEW type, Receive(type), UNCHANGED <<nextPid, registered>>
    PROVE  InboxInv' /\ Head(inbox) \in Message /\ Head(inbox) = inbox[1] /\ 1 \in DOMAIN inbox
<1>1. inbox \in Seq(Message) /\ inbox # <<>> /\ inbox' = Tail(inbox)
  BY DEF InboxInv, Receive
<1>2. /\ inbox' \in Seq(Message) /\ Len(inbox') = Len(inbox) - 1
      /\ DOMAIN inbox' = 1 .. Len(inbox) - 1 /\ DOMAIN inbox = 1 .. Len(inbox)
      /\ \A i \in 1 .. Len(inbox) - 1 : inbox'[i] = inbox[i + 1] /\ i + 1 \in 1 .. Len(inbox)
  BY <1>1
<1>3. InboxInv'
  BY <1>2 DEF InboxInv
<1>4. QED BY <1>1, <1>3

LEMMA DownMessage ==
    ASSUME NEW msg \in Message, msg.type = "down" PROVE msg.pid \in Pid /\ msg.reason \in Reason
  BY DEF Message, ExitSignal, CommandKinds

LEMMA CommandMessage ==
    ASSUME NEW msg \in Message, msg.type \in CommandKinds PROVE msg.id \in Child
  BY DEF Message, ExitSignal, CommandKinds

-----------------------------------------------------------------------------
(* The children, and everybody else: nothing of it changes the tables.     *)
LEMMA OthersOK ==
    ASSUME TablesInv, UNCHANGED <<loopVars, childOf, nextPid>>,
           ClockType', ChildType', InboxInv', registered' \subseteq registered,
           \A p \in Pid : IsAlive(p)' => IsAlive(p),
           \A p \in Pid : task[p] = "unborn" => task'[p] = "unborn"
    PROVE  TablesInv'
<1> USE DEF TablesInv, loopVars
<1>1. LoopType'
  BY DEF Types, LoopType
<1>2. JobsInv'
  <2>1. \A c \in Child : pidOf'[c] \in {pidOf[c], NoPid}
    OBVIOUS
  <2>2. QED BY <2>1, JobsStay
<1>3. Tables' /\ Awaited'
  BY DEF Processes, Tables, Awaited
<1>4. Known'
  BY DEF Processes, Known
<1>5. AliveKnown'
  BY DEF Processes, AliveKnown
<1>6. QED BY <1>1, <1>2, <1>3, <1>4, <1>5 DEF Types, Processes

LEMMA LeaveOK ==
    ASSUME TablesInv, NEW p \in Pid, NEW reason \in Leaves, Leave(p, reason) PROVE TablesInv'
<1>1. UNCHANGED <<loopVars, childOf, nextPid, inbox, registered, terminated>>
  BY DEF Leave
<1>2. ClockType' /\ ChildType'
  BY BoundsAssumption DEF Leave, TablesInv, Types, ClockType, ChildType, Reason, loopVars
<1>3. InboxInv'
  BY <1>1 DEF TablesInv, InboxInv
<1>4. \A q \in Pid : task[q] = "unborn" => task'[q] = "unborn"
  BY DEF Leave, TablesInv, Types, ChildType
<1>5. QED BY <1>1, <1>2, <1>3, <1>4, OthersOK DEF IsAlive

LEMMA ExitBeginOK == ASSUME TablesInv, NEW p \in Pid, ExitBegin(p) PROVE TablesInv'
<1>1. UNCHANGED <<loopVars, childOf, nextPid, inbox, registered>>
  BY DEF ExitBegin
<1>2. ClockType' /\ ChildType'
  BY DEF ExitBegin, TablesInv, Types, ClockType, ChildType, loopVars
<1>3. InboxInv'
  BY <1>1 DEF TablesInv, InboxInv
<1>4. \A q \in Pid : task[q] = "unborn" => task'[q] = "unborn"
  BY DEF ExitBegin, TablesInv, Types, ChildType
<1>5. \A q \in Pid : IsAlive(q)' => IsAlive(q)
  BY DEF ExitBegin, TablesInv, Types, ChildType, IsAlive
<1>6. QED BY <1>1, <1>2, <1>3, <1>4, <1>5, OthersOK

LEMMA ExitEndOK == ASSUME TablesInv, NEW p \in Pid, ExitEnd(p) PROVE TablesInv'
<1>1. UNCHANGED <<loopVars, childOf, nextPid, terminated>> /\ registered' = registered \ {p}
  BY DEF ExitEnd
<1>2. ClockType' /\ ChildType'
  BY DEF ExitEnd, TablesInv, Types, ClockType, ChildType, loopVars
<1>3. InboxInv'
  <2>1. p < nextPid /\ nextPid \in Nat
    BY DEF ExitEnd, TablesInv, Types, ChildType, Processes, Known, Pid
  <2>2. Down(p, why[p]) \in Message /\ Down(p, why[p]).pid = p
    BY DEF TablesInv, Types, ChildType, Message, Down
  <2>3. CASE UNCHANGED inbox
    BY <1>1, <2>3 DEF TablesInv, InboxInv
  <2>4. CASE Post(Down(p, why[p]))
    BY <1>1, <2>1, <2>2, <2>4, Posted DEF TablesInv
  <2>5. QED BY <2>3, <2>4 DEF ExitEnd
<1>4. \A q \in Pid : task[q] = "unborn" => task'[q] = "unborn"
  BY DEF ExitEnd, TablesInv, Types, ChildType
<1>5. QED BY <1>1, <1>2, <1>3, <1>4, OthersOK DEF IsAlive

LEMMA HarmOK == ASSUME TablesInv, NEW p \in Pid, Panic(p) \/ Struck(p) PROVE TablesInv'
<1>1. UNCHANGED <<loopVars, childOf, nextPid, inbox, registered>>
  BY DEF Panic, Struck
<1>2. ClockType' /\ ChildType'
  BY DEF Panic, Struck, TablesInv, Types, ClockType, ChildType, loopVars
<1>3. InboxInv'
  BY <1>1 DEF TablesInv, InboxInv
<1>4. \A q \in Pid : task[q] = "unborn" => task'[q] = "unborn"
  BY DEF Panic, Struck, TablesInv, Types, ChildType
<1>5. \A q \in Pid : IsAlive(q)' => IsAlive(q)
  BY DEF Panic, Struck, TablesInv, Types, ChildType, IsAlive
<1>6. QED BY <1>1, <1>2, <1>3, <1>4, <1>5, OthersOK

LEMMA OutsideOK ==
    ASSUME TablesInv,
           SendExit \/ Tick \/ \E kind \in CommandKinds, c \in Child : SendCommand(kind, c)
    PROVE  TablesInv'
<1>1. UNCHANGED <<loopVars, childVars, nextPid>>
  BY DEF SendExit, Tick, SendCommand
<1>2. ClockType'
  BY <1>1, BoundsAssumption DEF SendExit, Tick, SendCommand, TablesInv, Types, ClockType, loopVars
<1>3. ChildType'
  BY <1>1 DEF TablesInv, Types, ChildType, childVars
<1>4. InboxInv'
  <2>1. CASE Tick
    BY <1>1, <2>1 DEF Tick, TablesInv, InboxInv, childVars
  <2>2. CASE \E msg \in Message : Post(msg) /\ msg.type # "down"
    BY <1>1, <2>2, Posted DEF TablesInv, Types, ChildType, childVars
  <2>3. CASE SendExit
    BY <2>2, <2>3 DEF SendExit, Message, ExitSignal
  <2>4. ASSUME NEW kind \in CommandKinds, NEW c \in Child, SendCommand(kind, c) PROVE InboxInv'
    BY <2>2, <2>4 DEF SendCommand, Message, Command, CommandKinds
  <2>5. QED BY <2>1, <2>3, <2>4
<1>5. QED BY <1>1, <1>2, <1>3, <1>4, OthersOK DEF IsAlive, childVars

-----------------------------------------------------------------------------
(* The supervisor starts and stops one child. *)
LEMMA AtWork ==
    ASSUME JobsInv, plan # <<>>
    PROVE  Head(plan) \in JobSet /\ Head(plan).id \in Child /\ HasId(order, Head(plan).id)
<1>1. Head(plan) \in JobSet /\ HasId(order, Head(plan).id)
  BY RestOfPlan DEF JobsInv, PlanOK
<1>2. QED BY <1>1 DEF JobSet

LEMMA StartChildOK == ASSUME TablesInv, StartChild PROVE TablesInv'
<1> USE DEF TablesInv, StartChild
<1>1. nextPid \in Pid /\ nextPid' = nextPid + 1 /\ nextPid \in Nat /\ MaxPid \in Nat
  BY BoundsAssumption DEF Pid
<1>2. Head(plan).id \in Child
  BY AtWork
<1>3. Types'
  <2>1. nextPid' \in 1 .. (MaxPid + 1)
    BY <1>1 DEF Pid
  <2>2. ChildType'
    BY <1>1, <1>2, <2>1 DEF Types, ChildType
  <2>3. ClockType' /\ LoopType'
    BY <1>1 DEF Types, ClockType, LoopType
  <2>4. QED BY <2>2, <2>3 DEF Types
<1>4. nextPid \notin pidToId \cup registered /\ NoPid \notin Pid
  BY <1>1 DEF Processes, Known, NoPid, Pid
<1>5. InboxInv'
  BY <1>1 DEF InboxInv, Message, ExitSignal, CommandKinds, Pid
<1>6. JobsInv'
  BY JobsStay
<1>7. \A c \in Child : pidOf[c] # nextPid
  BY <1>1, <1>4 DEF Processes, Tables, NoPid, Pid
<1>8. Tables'
  BY <1>1, <1>4, <1>7 DEF Processes, Tables, Types, ChildType, LoopType
<1>9. Awaited'
  <2>1. pidOf[Head(plan).id] = NoPid
    <3>1. InPlan(plan, "start", Head(plan).id)
      BY RestOfPlan DEF JobsInv, PlanOK
    <3>2. QED BY <1>2, <3>1, StartFirst
  <2>2. QED BY <1>1, <2>1 DEF Awaited, Types, ChildType
<1>10. Known'
  BY <1>1 DEF Processes, Known, Types, ChildType, LoopType, Pid
<1>11. AliveKnown'
  BY <1>1, <1>4 DEF Processes, AliveKnown, IsAlive, Types, ChildType
<1>12. QED BY <1>3, <1>5, <1>6, <1>8, <1>9, <1>10, <1>11 DEF Processes

LEMMA MonitorChildOK == ASSUME TablesInv, MonitorChild PROVE TablesInv'
<1> DEFINE c == Head(plan).id
<1> USE DEF TablesInv
<1>1. /\ c \in Child /\ HasId(order, c) /\ current \in Pid /\ current # NoPid
      /\ childOf[current] = c /\ pidOf[c] = NoPid /\ current < nextPid
  BY AtWork DEF MonitorChild, Processes, Awaited, Types, LoopType
<1>2. /\ pidOf' = [pidOf EXCEPT ![c] = current] /\ pidToId' = pidToId \cup {current}
      /\ plan' = Tail(plan) /\ current' = NoPid /\ plan # <<>> /\ Head(plan).op = "start"
      /\ UNCHANGED <<now, commands, nextPid, childOf, task, why, registered,
                     terminated, asked, tells, phase, order, restartAt, counted, view>>
  BY DEF MonitorChild
<1>3. Types'
  <2>1. ChildType'
    BY <1>1, <1>2 DEF MonitorChild, Types, ChildType
  <2>2. ClockType' /\ LoopType'
    BY <1>1, <1>2 DEF Types, ClockType, LoopType
  <2>3. QED BY <2>1, <2>2 DEF Types
<1>4. InboxInv'
  <2>1. CASE UNCHANGED inbox
    BY <1>2, <2>1 DEF InboxInv
  <2>2. CASE Post(Down(current, "abnormal")) /\ ~Registered(current)
    <3>1. /\ Down(current, "abnormal") \in Message
          /\ Down(current, "abnormal").pid = current
      BY <1>1 DEF Message, Down, Reason
    <3>2. nextPid \in Nat /\ current \notin registered
      BY <2>2 DEF Types, ChildType, Registered
    <3>3. QED BY <1>1, <1>2, <2>2, <3>1, <3>2, Posted
  <2>3. QED BY <2>1, <2>2 DEF MonitorChild
<1>5. JobsInv'
  BY <1>2, JobStarted DEF Types, LoopType
<1>6. Tables'
  <2>1. \A d \in Child : pidOf'[d] = IF d = c THEN current ELSE pidOf[d]
    BY <1>1, <1>2 DEF Types, LoopType
  <2>2. ASSUME NEW d \in Child, pidOf'[d] # NoPid
        PROVE  HasId(order', d) /\ pidOf'[d] \in pidToId' /\ childOf'[pidOf'[d]] = d
    BY <1>1, <1>2, <2>1, <2>2 DEF Processes, Tables
  <2>3. ASSUME NEW p \in pidToId' PROVE childOf'[p] \in Child /\ pidOf'[childOf'[p]] = p
    <3>1. CASE p = current
      BY <1>1, <1>2, <2>1, <3>1
    <3>2. CASE p \in pidToId
      <4>1. childOf[p] \in Child /\ pidOf[childOf[p]] = p /\ p # NoPid
        BY <3>2 DEF Processes, Tables, Types, LoopType, NoPid, Pid
      <4>2. QED BY <1>1, <1>2, <2>1, <4>1
    <3>3. QED BY <1>2, <3>1, <3>2
  <2>4. QED BY <2>2, <2>3 DEF Tables
<1>7. Awaited' /\ Known'
  BY <1>1, <1>2 DEF Processes, Awaited, Known
<1>8. AliveKnown'
  <2>1. ASSUME NEW p \in Pid, IsAlive(p)'
        PROVE  childOf'[p] \in Child /\ pidOf'[childOf'[p]] = p
    <3>1. IsAlive(p)
      BY <1>2, <2>1 DEF IsAlive
    <3>2. CASE p = current
      BY <1>1, <1>2, <3>2 DEF Types, LoopType
    <3>3. CASE p # current
      <4>1. childOf[p] \in Child /\ pidOf[childOf[p]] = p
        BY <3>1, <3>3 DEF Processes, AliveKnown
      <4>2. childOf[p] # c
        BY <1>1, <4>1 DEF NoPid, Pid
      <4>3. QED BY <1>2, <4>1, <4>2 DEF Types, LoopType
    <3>4. QED BY <3>2, <3>3
  <2>2. QED BY <2>1 DEF AliveKnown
<1>9. QED BY <1>3, <1>4, <1>5, <1>6, <1>7, <1>8 DEF Processes

(* Where the child that is stopped is forgotten. *)
LEMMA Forgotten ==
    ASSUME LoopType, ChildType, Tables, NEW c \in Child, UNCHANGED <<order, childOf>>,
           pidOf' = [pidOf EXCEPT ![c] = NoPid], pidToId' = pidToId \ {pidOf[c]}
    PROVE  /\ Tables'
           /\ \A d \in Child : pidOf'[d] \in {pidOf[d], NoPid}
<1>1. \A d \in Child : pidOf'[d] = IF d = c THEN NoPid ELSE pidOf[d]
  BY DEF LoopType
<1>2. ASSUME NEW d \in Child, pidOf'[d] # NoPid
      PROVE  HasId(order', d) /\ pidOf'[d] \in pidToId' /\ childOf'[pidOf'[d]] = d
  <2>1. d # c /\ pidOf'[d] = pidOf[d] /\ pidOf[d] # NoPid
    BY <1>1, <1>2
  <2>2. pidOf[d] # pidOf[c]
    BY <2>1 DEF Tables
  <2>3. QED BY <2>1, <2>2 DEF Tables
<1>3. ASSUME NEW p \in pidToId' PROVE childOf'[p] \in Child /\ pidOf'[childOf'[p]] = p
  <2>1. childOf[p] \in Child /\ pidOf[childOf[p]] = p /\ p # pidOf[c]
    BY DEF Tables
  <2>2. QED BY <1>1, <2>1
<1>4. Tables'
  BY <1>2, <1>3 DEF Tables
<1>5. QED BY <1>1, <1>4

LEMMA StopChildOK == ASSUME TablesInv, StopChild PROVE TablesInv'
<1> DEFINE c == Head(plan).id
           q == pidOf[c]
<1> USE DEF TablesInv
<1>1. c \in Child /\ q \in Pid \cup {NoPid} /\ NoPid \notin Pid /\ current = NoPid
  BY AtWork DEF StopChild, Types, LoopType, NoPid, Pid
<1>2. /\ pidOf' = [pidOf EXCEPT ![c] = NoPid] /\ pidToId' = pidToId \ {q}
      /\ plan # <<>> /\ Head(plan).op = "stop"
      /\ UNCHANGED <<now, commands, nextPid, childOf, task, why, registered, tells,
                     phase, order, restartAt, counted, inbox, view>>
  BY DEF StopChild
<1>3. /\ Tables' /\ \A d \in Child : pidOf'[d] \in {pidOf[d], NoPid}
      /\ pidOf'[c] = NoPid
      /\ \A d \in Child : d # c => pidOf'[d] = pidOf[d]
  BY <1>1, <1>2, Forgotten DEF Types, Processes, LoopType
<1>4. Types'
  <2>1. ChildType'
    BY <1>1, <1>2 DEF StopChild, Types, ChildType, Registered
  <2>2. ClockType' /\ LoopType'
    BY <1>1, <1>2 DEF StopChild, Types, ClockType, LoopType
  <2>3. QED BY <2>1, <2>2 DEF Types
<1>5. InboxInv'
  BY <1>2 DEF InboxInv
<1>6. JobsInv'
  <2>1. CASE plan' = Tail(plan)
    BY <1>2, <1>3, <2>1, JobStopped
  <2>2. CASE UNCHANGED plan
    BY <1>2, <1>3, <2>2, JobsStay
  <2>3. QED BY <2>1, <2>2 DEF StopChild
<1>7. Awaited'
  <2>1. CASE UNCHANGED current
    BY <1>1, <2>1 DEF Awaited
  <2>2. CASE q # NoPid /\ current' = q /\ UNCHANGED plan
    <3>1. childOf[q] = c /\ q \in pidToId /\ q < nextPid
      BY <1>1, <2>2 DEF Processes, Tables, Known
    <3>2. QED BY <1>2, <1>3, <2>2, <3>1 DEF Awaited
  <2>3. QED BY <2>1, <2>2 DEF StopChild
<1>8. Known'
  BY <1>2 DEF Processes, Known
<1>9. AliveKnown'
  <2>1. ASSUME NEW p \in Pid, IsAlive(p)'
        PROVE  p = current' \/ (childOf'[p] \in Child /\ pidOf'[childOf'[p]] = p)
    <3>1. IsAlive(p)
      BY <1>2, <2>1 DEF StopChild, IsAlive, Types, ChildType
    <3>2. childOf[p] \in Child /\ pidOf[childOf[p]] = p
      BY <1>1, <3>1 DEF Processes, AliveKnown
    <3>3. CASE childOf[p] # c
      BY <1>2, <1>3, <3>2, <3>3
    <3>4. CASE childOf[p] = c
      <4>1. p = q /\ q # NoPid
        BY <1>1, <3>2, <3>4
      <4>2. ~terminated'[p]
        BY <2>1 DEF IsAlive
      <4>3. current' = q
        BY <4>1, <4>2 DEF StopChild, Types, ChildType
      <4>4. QED BY <4>1, <4>3
    <3>5. QED BY <3>3, <3>4
  <2>2. QED BY <2>1 DEF AliveKnown
<1>10. QED BY <1>3, <1>4, <1>5, <1>6, <1>7, <1>8, <1>9 DEF Processes

LEMMA WaitedOK == ASSUME TablesInv, Terminated \/ TimedOut PROVE TablesInv'
<1> USE DEF TablesInv
<1>1. /\ plan # <<>> /\ Head(plan).op = "stop" /\ current # NoPid
      /\ plan' = Tail(plan) /\ current' = NoPid
      /\ UNCHANGED <<now, commands, nextPid, childOf, task, why, registered, asked,
                     monitored, tells, phase, order, pidOf, pidToId, restartAt,
                     counted, inbox, view>>
  BY DEF Terminated, TimedOut, childVars
<1>2. ~(current \in registered' /\ ~terminated'[current])
  BY <1>1 DEF Terminated, TimedOut, IsAlive, Types, ChildType, LoopType, childVars
<1>3. \A p \in Pid : IsAlive(p)' => IsAlive(p)
  BY <1>1 DEF Terminated, TimedOut, IsAlive, Types, ChildType, childVars
<1>4. Types'
  <2>1. ChildType'
    BY <1>1 DEF Terminated, TimedOut, Types, ChildType, childVars
  <2>2. ClockType' /\ LoopType'
    BY <1>1 DEF Types, ClockType, LoopType
  <2>3. QED BY <2>1, <2>2 DEF Types
<1>5. InboxInv'
  BY <1>1 DEF InboxInv
<1>6. JobsInv'
  <2>1. pidOf'[Head(plan).id] = NoPid
    BY <1>1 DEF Processes, Awaited
  <2>2. QED BY <1>1, <2>1, JobStopped
<1>7. Tables' /\ Awaited' /\ Known'
  BY <1>1 DEF Processes, Tables, Awaited, Known
<1>8. AliveKnown'
  <2>1. ASSUME NEW p \in Pid, IsAlive(p)' PROVE childOf[p] \in Child /\ pidOf[childOf[p]] = p
    <3>1. IsAlive(p) /\ p # current
      BY <1>1, <1>2, <1>3, <2>1 DEF IsAlive
    <3>2. QED BY <3>1 DEF Processes, AliveKnown
  <2>2. QED BY <1>1, <2>1 DEF AliveKnown
<1>9. QED BY <1>4, <1>5, <1>6, <1>7, <1>8 DEF Processes

-----------------------------------------------------------------------------
(* The handlers of the loop: no child runs or ends by them. *)
LEMMA HandlerOK ==
    ASSUME TablesInv, UNCHANGED <<now, commands, nextPid, childVars, order, pidOf, pidToId,
                                  restartAt, counted, current>>,
           current = NoPid, phase' \in Phase, view' \in [Child -> Pid \cup {NoPid}],
           InboxInv', JobsInv'
    PROVE  TablesInv'
<1> USE DEF TablesInv
<1>1. ClockType' /\ ChildType' /\ LoopType'
  BY DEF Types, ClockType, ChildType, LoopType, childVars
<1>2. Tables' /\ Awaited' /\ Known'
  BY DEF Processes, Tables, Awaited, Known, childVars
<1>3. AliveKnown'
  BY DEF Processes, AliveKnown, IsAlive, childVars
<1>4. QED BY <1>1, <1>2, <1>3 DEF Types, Processes

LEMMA Idle ==
    ASSUME TablesInv, phase = "idle" \/ plan = <<>>
    PROVE  plan = <<>> /\ current = NoPid
  BY DEF TablesInv, JobsInv, PhaseFits, Processes, Awaited

LEMMA StartFailsOK == ASSUME TablesInv, StartFails PROVE TablesInv'
<1> USE DEF TablesInv
<1>1. /\ current = NoPid /\ plan # <<>>
      /\ UNCHANGED <<now, commands, nextPid, childVars, order, pidOf, pidToId,
                     restartAt, counted, inbox, current>>
  BY DEF StartFails
<1>2. phase' \in Phase /\ view' \in [Child -> Pid \cup {NoPid}]
  BY DEF StartFails, Phase, Types, LoopType
<1>3. InboxInv'
  BY <1>1 DEF InboxInv, childVars
<1>4. JobsInv'
  <2>1. CASE plan' = <<>> /\ phase' \in {"init_failed", "idle"}
    BY <1>1, <2>1, JobsNone
  <2>2. CASE phase' = "stopping" /\ plan' = StopJobs(order)
    BY <1>1, <2>2, JobsStopAll DEF Processes, Tables
  <2>3. QED BY <2>1, <2>2 DEF StartFails, StopJobs
<1>5. QED BY <1>1, <1>2, <1>3, <1>4, HandlerOK

LEMMA IgnoreDownOK == ASSUME TablesInv, IgnoreDown PROVE TablesInv'
<1> USE DEF TablesInv
<1>1. /\ phase = "idle" /\ plan = <<>> /\ current = NoPid
      /\ UNCHANGED <<now, commands, nextPid, childVars, phase, order, pidOf, pidToId,
                     restartAt, counted, plan, current>>
  BY Idle DEF IgnoreDown, Receive
<1>2. InboxInv'
  BY <1>1, Received DEF IgnoreDown, childVars
<1>3. JobsInv'
  BY <1>1, JobsNone
<1>4. QED BY <1>1, <1>2, <1>3, HandlerOK DEF IgnoreDown, Types, LoopType

LEMMA HandleExitOK == ASSUME TablesInv, HandleExit PROVE TablesInv'
<1> USE DEF TablesInv
<1>1. /\ current = NoPid
      /\ UNCHANGED <<now, commands, nextPid, childVars, order, pidOf, pidToId,
                     restartAt, counted, current, view>>
  BY Idle DEF HandleExit, Receive
<1>2. InboxInv'
  BY <1>1, Received DEF HandleExit, childVars
<1>3. JobsInv'
  BY <1>1, JobsStopAll DEF HandleExit, StopJobs, Processes, Tables
<1>4. QED BY <1>1, <1>2, <1>3, HandlerOK DEF HandleExit, Types, LoopType, Phase

LEMMA CommandOK == ASSUME TablesInv, HandleTerminate \/ HandleRestart PROVE TablesInv'
<1> USE DEF TablesInv
<1> DEFINE c == Head(inbox).id
<1>1. /\ current = NoPid /\ plan = <<>> /\ phase' = "command"
      /\ UNCHANGED <<now, commands, nextPid, childVars, order, pidOf, pidToId,
                     restartAt, counted, current, view>>
  BY Idle DEF HandleTerminate, HandleRestart, Receive
<1>2. InboxInv' /\ c \in Child
  <2>1. Head(inbox) \in Message /\ Head(inbox).type \in CommandKinds /\ InboxInv'
    BY <1>1, Received DEF HandleTerminate, HandleRestart, Receive, CommandKinds, childVars
  <2>2. QED BY <2>1, CommandMessage
<1>3. JobsInv'
  <2>1. CASE plan' = <<>>
    BY <1>1, <2>1, JobsNone
  <2>2. CASE HasSpec(c) /\ plan' = <<Job("stop", c)>>
    BY <1>1, <1>2, <2>2, JobsOne DEF HasSpec, HasId
  <2>3. CASE HasSpec(c) /\ pidOf[c] = NoPid /\ plan' = <<Job("start", c)>>
    BY <1>1, <1>2, <2>3, JobsOne DEF HasSpec, HasId
  <2>4. QED BY <2>1, <2>2, <2>3 DEF HandleTerminate, HandleRestart
<1>4. QED BY <1>1, <1>2, <1>3, HandlerOK DEF Types, LoopType, Phase

LEMMA HandleDeleteOK == ASSUME TablesInv, HandleDelete PROVE TablesInv'
<1> USE DEF TablesInv
<1> DEFINE c == Head(inbox).id
<1>1. /\ current = NoPid /\ plan = <<>> /\ phase = "idle"
      /\ UNCHANGED <<now, commands, nextPid, childVars, phase, pidOf, pidToId,
                     restartAt, counted, plan, current>>
  BY Idle DEF HandleDelete, Receive
<1>2. InboxInv'
  BY <1>1, Received DEF HandleDelete, childVars
<1>3. Once(order)
  BY DEF JobsInv, PlanOK
<1>4. /\ Once(order')
      /\ \A d \in Child : pidOf[d] # NoPid /\ HasId(order, d) => HasId(order', d)
  <2>1. CASE UNCHANGED order
    BY <1>3, <2>1
  <2>2. CASE HasId(order, c) /\ pidOf[c] = NoPid /\ order' = Without(c)
    BY <1>3, <2>2, WithoutOne
  <2>3. QED BY <2>1, <2>2 DEF HandleDelete, HasSpec, HasId
<1>5. JobsInv'
  <2>1. Shape(plan', order') /\ \A o, d : ~InPlan(plan', o, d)
    BY <1>1, NoPlan
  <2>2. QED BY <1>1, <1>4, <2>1 DEF JobsInv, PlanOK, StartsFit, StopsFit, PhaseFits
<1>6. Types'
  BY <1>1 DEF HandleDelete, Types, ClockType, ChildType, LoopType, childVars
<1>7. Tables'
  BY <1>1, <1>4 DEF Processes, Tables, childVars
<1>8. Awaited' /\ Known' /\ AliveKnown'
  BY <1>1 DEF Processes, Awaited, Known, AliveKnown, IsAlive, childVars
<1>9. QED BY <1>2, <1>5, <1>6, <1>7, <1>8 DEF Processes

LEMMA HandlerDoneOK == ASSUME TablesInv, HandlerDone PROVE TablesInv'
<1> USE DEF TablesInv
<1>1. /\ current = NoPid /\ plan = <<>>
      /\ UNCHANGED <<now, commands, nextPid, childVars, order, pidOf, pidToId,
                     restartAt, counted, inbox, current>>
  BY Idle DEF HandlerDone
<1>2. InboxInv'
  BY <1>1 DEF InboxInv, childVars
<1>3. phase' \in Phase /\ view' \in [Child -> Pid \cup {NoPid}]
  BY DEF HandlerDone, Phase, Types, LoopType
<1>4. JobsInv'
  <2>1. CASE phase' = "idle" /\ UNCHANGED plan
    BY <1>1, <2>1, JobsNone
  <2>2. CASE phase' = "stopping" /\ plan' = StopJobs(order)
    BY <1>1, <2>2, JobsStopAll DEF Processes, Tables
  <2>3. CASE phase = "stopping" /\ phase' = "gone" /\ UNCHANGED plan
    <3>1. \A d \in Child : pidOf[d] = NoPid
      BY <1>1, <2>3, NoPlan DEF JobsInv, PhaseFits
    <3>2. QED BY <1>1, <2>3, <3>1, JobsNone
  <2>4. QED BY <2>1, <2>2, <2>3 DEF HandlerDone, StopJobs
<1>5. QED BY <1>1, <1>2, <1>3, <1>4, HandlerOK

LEMMA ChildExitOK == ASSUME TablesInv, HandleChildExit PROVE TablesInv'
<1> USE DEF TablesInv
<1> DEFINE p == Head(inbox).pid
           c == childOf[p]
<1>1. /\ current = NoPid /\ plan = <<>> /\ phase = "idle"
      /\ UNCHANGED <<now, commands, nextPid, childVars, order, current>>
      /\ p \in pidToId /\ pidToId' = pidToId \ {p}
      /\ pidOf' = [pidOf EXCEPT ![c] = NoPid]
  BY Idle DEF HandleChildExit, Receive
<1>2. InboxInv' /\ p \notin registered
  BY <1>1, Received DEF HandleChildExit, Receive, InboxInv, childVars
<1>3. c \in Child /\ pidOf[c] = p /\ p # NoPid /\ HasId(order, c)
  <2>1. c \in Child /\ pidOf[c] = p
    BY <1>1 DEF Processes, Tables
  <2>2. p # NoPid
    BY <1>1 DEF Types, LoopType, NoPid, Pid
  <2>3. QED BY <2>1, <2>2 DEF Processes, Tables
<1>4. /\ Tables' /\ \A d \in Child : pidOf'[d] \in {pidOf[d], NoPid}
  BY <1>1, <1>3, Forgotten DEF Types, Processes, childVars
<1>5. Types'
  <2>1. ClockType'
    <3>1. restartAt \in Seq(0 .. MaxTime) /\ now \in 0 .. MaxTime /\ counted \subseteq DOMAIN restartAt
      BY DEF Types, ClockType
    <3>2. /\ Append(restartAt, now) \in Seq(0 .. MaxTime)
          /\ DOMAIN Append(restartAt, now) = 1 .. Len(restartAt) + 1
          /\ DOMAIN restartAt = 1 .. Len(restartAt) /\ Len(restartAt) \in Nat
      BY <3>1
    <3>3. Recent \subseteq DOMAIN restartAt
      BY <3>1 DEF Recent
    <3>4. Recent \cup {Len(restartAt) + 1} \subseteq DOMAIN Append(restartAt, now)
      BY <3>2, <3>3
    <3>5. QED BY <1>1, <3>1, <3>2, <3>3, <3>4 DEF HandleChildExit, Types, ClockType
  <2>2. ChildType'
    BY <1>1 DEF Types, ChildType, childVars
  <2>3. LoopType'
    BY <1>1, <1>3 DEF HandleChildExit, Types, LoopType, Phase
  <2>4. QED BY <2>1, <2>2, <2>3 DEF Types
<1>6. JobsInv'
  <2>1. CASE UNCHANGED <<phase, plan>>
    BY <1>1, <2>1, JobsNone
  <2>2. CASE phase' = "stopping" /\ plan' = StopJobs(order)
    <3>1. \A d \in Child : pidOf'[d] # NoPid => HasId(order, d)
      BY <1>4 DEF Processes, Tables
    <3>2. QED BY <1>1, <2>2, <3>1, JobsStopAll
  <2>3. CASE phase' = "restarting" /\ plan' = RestartPlan(c)
    <3>1. Once(order) /\ order \in Seq(Child) /\ Position(c) \in 1 .. Len(order)
      BY <1>3, Places DEF JobsInv, PlanOK, Once, Position, Place
    <3>2. Suffix(order, order, 1) /\ Suffix(From(Position(c), order), order, Position(c))
      BY <3>1, Suffixes
    <3>3. CASE Strategy = "one_for_one"
      <4>1. plan' = <<Job("start", c)>> /\ pidOf'[c] = NoPid
        BY <1>1, <1>3, <2>3, <3>3 DEF RestartPlan, Types, LoopType
      <4>2. QED BY <1>1, <1>3, <2>3, <4>1, JobsOne
    <3>4. CASE Strategy = "one_for_all"
      <4>1. plan' = StopJobs(order) \o StartJobs(order)
        BY <2>3, <3>4 DEF RestartPlan, StopJobs, StartJobs
      <4>2. QED BY <1>1, <2>3, <3>2, <4>1, JobsBoth
    <3>5. CASE Strategy = "rest_for_one"
      <4>1. plan' = StopJobs(From(Position(c), order)) \o StartJobs(From(Position(c), order))
        BY <2>3, <3>5 DEF RestartPlan, StopJobs, StartJobs
      <4>2. QED BY <1>1, <2>3, <3>2, <4>1, JobsBoth
    <3>6. QED BY <3>3, <3>4, <3>5, FlagsAssumption
  <2>4. QED BY <2>1, <2>2, <2>3 DEF HandleChildExit, StopJobs
<1>7. Awaited' /\ Known'
  BY <1>1 DEF Processes, Awaited, Known, childVars
<1>8. AliveKnown'
  <2>1. ASSUME NEW q \in Pid, IsAlive(q)'
        PROVE  childOf'[q] \in Child /\ pidOf'[childOf'[q]] = q
    <3>1. IsAlive(q) /\ q # p
      BY <1>1, <1>2, <2>1 DEF IsAlive, childVars
    <3>2. childOf[q] \in Child /\ pidOf[childOf[q]] = q
      BY <1>1, <3>1 DEF Processes, AliveKnown, NoPid, Pid
    <3>3. childOf[q] # c
      BY <1>3, <3>1, <3>2
    <3>4. QED BY <1>1, <3>2, <3>3 DEF Types, LoopType, childVars
  <2>2. QED BY <2>1 DEF AliveKnown
<1>9. QED BY <1>2, <1>4, <1>5, <1>6, <1>7, <1>8 DEF Processes

-----------------------------------------------------------------------------
LEMMA TablesInit == Init => TablesInv
<1> SUFFICES ASSUME Init PROVE TablesInv
  OBVIOUS
<1> USE DEF Init
<1>1. Types
  BY BoundsAssumption DEF Types, ClockType, ChildType, LoopType, Phase, Reason
<1>2. InboxInv
  BY DEF InboxInv
<1>3. Once(order)
  BY ChildAssumption DEF Once
<1>4. Suffix(order, order, 1)
  BY <1>3, Suffixes DEF Once
<1>5. plan = StartJobs(order)
  BY DEF StartJobs
<1>6. /\ Shape(plan, order)
  BY <1>3, <1>4, <1>5, StartPlan
<1>7. JobsInv
  BY <1>3, <1>6 DEF JobsInv, PlanOK, StartsFit, StopsFit, PhaseFits
<1>8. Processes
  BY DEF Processes, Tables, Awaited, Known, AliveKnown, IsAlive
<1>9. QED BY <1>1, <1>2, <1>7, <1>8 DEF TablesInv

LEMMA TablesStep == TablesInv /\ [Next]_vars => TablesInv'
<1> SUFFICES ASSUME TablesInv, [Next]_vars PROVE TablesInv'
  OBVIOUS
<1>1. CASE UNCHANGED vars
  <2>1. UNCHANGED <<now, commands, nextPid, childVars, loopVars, inbox>>
    BY <1>1 DEF vars
  <2>2. ClockType' /\ ChildType' /\ InboxInv'
    BY <2>1 DEF TablesInv, Types, ClockType, ChildType, InboxInv, childVars, loopVars
  <2>3. QED BY <2>1, <2>2, OthersOK DEF IsAlive, childVars
<1>2. CASE Loop
  BY <1>2, StartChildOK, StartFailsOK, MonitorChildOK, StopChildOK, WaitedOK, IgnoreDownOK,
     ChildExitOK, HandleExitOK, CommandOK, HandleDeleteOK, HandlerDoneOK DEF Loop
<1>3. ASSUME NEW p \in Pid,
             \/ \E reason \in Leaves : Leave(p, reason)
             \/ ExitBegin(p) \/ ExitEnd(p) \/ Panic(p) \/ Struck(p)
      PROVE  TablesInv'
  BY <1>3, LeaveOK, ExitBeginOK, ExitEndOK, HarmOK
<1>4. CASE SendExit \/ Tick \/ \E kind \in CommandKinds, c \in Child : SendCommand(kind, c)
  BY <1>4, OutsideOK
<1>5. QED BY <1>1, <1>2, <1>3, <1>4 DEF Next

LEMMA TablesAlways == Spec => []TablesInv
<1>1. QED BY TablesInit, TablesStep, PTL DEF Spec

(* handle_child_exit and terminate_child_by_id: pid_to_id and the pids of   *)
(* the children are inverse to each other at every await, for any strategy. *)
THEOREM TablesCorrect == Spec => []ChildTables
<1>1. TablesInv => ChildTables
  BY TablesType DEF TablesInv, Processes, Tables, ChildTables, Types, LoopType, ChildType, Incarnations
<1>2. QED BY <1>1, TablesAlways, PTL

(* No id has two processes alive, whatever is restarted, stopped, deleted  *)
(* or killed while a restart is under way.                                  *)
THEOREM AliveCorrect == Spec => []OneAlive
<1>1. ASSUME TablesInv, NEW c \in Child PROVE Cardinality({p \in Incarnations(c) : IsAlive(p)}) <= 1
  <2> DEFINE S == {p \in Incarnations(c) : IsAlive(p)}
  <2>1. ASSUME NEW p \in S, NEW q \in S PROVE p = q
    <3>1. /\ p \in Pid /\ q \in Pid /\ childOf[p] = c /\ childOf[q] = c
          /\ p = current \/ pidOf[c] = p
          /\ q = current \/ pidOf[c] = q
      BY <1>1 DEF Incarnations, TablesInv, Processes, AliveKnown
    <3>2. CASE current \in Pid /\ childOf[current] = c
      <4>1. pidOf[c] = NoPid
        BY <1>1, <3>2 DEF TablesInv, Processes, Awaited, NoPid, Pid
      <4>2. QED BY <3>1, <4>1 DEF NoPid, Pid
    <3>3. QED BY <3>1, <3>2
  <2>2. S = {} \/ \E p : S = {p}
    BY <2>1
  <2>3. CASE S = {}
    BY <2>3, FS_EmptySet
  <2>4. ASSUME NEW p, S = {p} PROVE Cardinality(S) <= 1
    <3>1. Cardinality({p}) = 1
      BY FS_Singleton
    <3> HIDE DEF S
    <3>2. QED BY <2>4, <3>1
  <2>5. QED BY <2>2, <2>3, <2>4
<1>2. TablesInv => OneAlive
  BY <1>1 DEF OneAlive
<1>3. QED BY <1>2, TablesAlways, PTL

(* supervisor_loop ends only when all children have been stopped: none of   *)
(* them is alive then.                                                      *)
THEOREM OrphansCorrect == Spec => []NoOrphans
<1>1. TablesInv => NoOrphans
  <2> SUFFICES ASSUME TablesInv, phase = "gone", NEW p \in Pid, IsAlive(p) PROVE FALSE
    BY DEF NoOrphans
  <2>1. current = NoPid /\ \A c \in Child : pidOf[c] = NoPid
    BY Idle DEF TablesInv, JobsInv, PhaseFits
  <2>2. QED BY <2>1 DEF TablesInv, Processes, AliveKnown, NoPid, Pid
<1>2. QED BY <1>1, TablesAlways, PTL

(* terminate_children_from and terminate_all: when a child is signalled, no *)
(* child that was started after it is alive.                                *)
THEOREM StopsCorrect == Spec => StopOrder
<1> DEFINE Stopping(c) ==
        /\ phase \in {"restarting", "stopping"}
        /\ plan # <<>> /\ Head(plan) = Job("stop", c)
        /\ pidOf[c] # NoPid /\ pidOf'[c] = NoPid
<1>1. ASSUME TablesInv, [Next]_vars, NEW c \in Child, NEW d \in Child, Stopping(c),
             HasSpec(d), Before(c, d), NEW p \in Incarnations(d), IsAlive(p)
      PROVE  FALSE
  <2>1. current = NoPid
    BY <1>1, JobFields DEF TablesInv, Processes, Awaited
  <2>2. p \in Pid /\ pidOf[d] = p /\ pidOf[d] # NoPid
    BY <1>1, <2>1 DEF TablesInv, Processes, AliveKnown, Incarnations, NoPid, Pid
  <2>3. HasId(order, d) /\ Earlier(order, c, d)
    BY <1>1 DEF HasSpec, HasId, Before, Earlier, Position, Place
  <2>4. /\ Once(order) /\ Shape(plan, order)
        /\ 1 \in DOMAIN plan /\ plan[1] = Job("stop", c)
        /\ InPlan(plan, "stop", c) /\ HasId(order, c)
    <3>1. Once(order) /\ Shape(plan, order)
      BY <1>1 DEF TablesInv, JobsInv, PlanOK
    <3>2. QED BY <1>1, <3>1, RestOfPlan, JobFields
  <2>5. InPlan(plan, "stop", d)
    BY <1>1, <2>2, <2>3, <2>4 DEF TablesInv, JobsInv, StopsFit
  <2>6. PICK i \in DOMAIN plan : plan[i] = Job("stop", d)
    BY <2>5 DEF InPlan
  <2>7. i = 1 \/ 1 < i
    BY <2>4, <2>6 DEF Shape
  <2>8. CASE i = 1
    <3>1. c = d
      BY <2>4, <2>6, <2>8, JobFields
    <3>2. QED BY <2>3, <2>4, <3>1, NotEarlier
  <2>9. CASE 1 < i
    <3>1. /\ plan[1].op = "stop" /\ plan[1].id = c
          /\ plan[i].op = "stop" /\ plan[i].id = d
      BY <2>4, <2>6, JobFields
    <3>2. Earlier(order, d, c)
      BY <2>4, <2>6, <2>9, <3>1 DEF Shape, Sorted
    <3>3. QED BY <2>3, <2>4, <3>2, NotEarlier
  <2>10. QED BY <2>7, <2>8, <2>9
<1>2. TablesInv /\ [Next]_vars =>
        [\A c, d \in Child :
            /\ phase \in {"restarting", "stopping"}
            /\ plan # <<>> /\ Head(plan) = Job("stop", c)
            /\ pidOf[c] # NoPid /\ pidOf'[c] = NoPid
            /\ HasSpec(d) /\ Before(c, d)
            => \A p \in Incarnations(d) : ~IsAlive(p)]_vars
  BY <1>1
<1>3. QED BY <1>2, TablesAlways, PTL DEF Spec, StopOrder

-----------------------------------------------------------------------------
(* What depends on what: children that are restarted alone break the order *)
(* of their starts, with one_for_one or by a command.                      *)
Together == Strategy # "one_for_one" /\ "restart" \notin Commands

Ordered ==
    \A c, d \in Child :
        /\ HasId(order, c) /\ HasId(order, d) /\ Earlier(order, c, d)
        /\ pidOf[c] # NoPid /\ pidOf[d] # NoPid
        => pidOf[c] < pidOf[d]

(* Who is to be started has nobody after it that will not be stopped before. *)
StartsLast ==
    \A c, d \in Child :
        /\ InPlan(plan, "start", c) /\ HasId(order, d) /\ Earlier(order, c, d)
        /\ pidOf[d] # NoPid
        => InPlan(plan, "stop", d)

Depend == Ordered /\ StartsLast

(* Nobody asks for the restart of one child. *)
NotAsked == \A i \in DOMAIN inbox : inbox[i].type # "restart"

Fewer == \A c \in Child : pidOf'[c] \in {pidOf[c], NoPid}

LEMMA OrderedStays == ASSUME Ordered, UNCHANGED order, Fewer PROVE Ordered'
  BY DEF Ordered, Fewer

LEMMA DependStays ==
    ASSUME Depend, UNCHANGED <<order, plan>>, Fewer
    PROVE  Depend'
<1>1. StartsLast'
  BY DEF Depend, StartsLast, Fewer
<1>2. QED BY <1>1, OrderedStays DEF Depend

LEMMA DependNoStart ==
    ASSUME Depend, UNCHANGED order, Fewer, \A c : ~InPlan(plan', "start", c)
    PROVE  Depend'
<1>1. StartsLast'
  BY DEF StartsLast
<1>2. QED BY <1>1, OrderedStays DEF Depend

LEMMA DependStopped ==
    ASSUME JobsInv, Depend, plan # <<>>, Head(plan).op = "stop",
           pidOf'[Head(plan).id] = NoPid, Fewer, plan' = Tail(plan), UNCHANGED order
    PROVE  Depend'
<1>1. \A o, d : InPlan(plan', o, d) <=> InPlan(plan, o, d) /\ Job(o, d) # Head(plan)
  BY RestOfPlan DEF JobsInv, PlanOK
<1>2. ASSUME NEW c \in Child, NEW d \in Child, InPlan(plan', "start", c),
             HasId(order, d), Earlier(order, c, d), pidOf'[d] # NoPid
      PROVE  InPlan(plan', "stop", d)
  <2>1. InPlan(plan, "start", c) /\ pidOf[d] # NoPid /\ d # Head(plan).id
    BY <1>1, <1>2 DEF Fewer
  <2>2. InPlan(plan, "stop", d)
    BY <1>2, <2>1 DEF Depend, StartsLast
  <2>3. Job("stop", d) # Head(plan)
    BY <2>1, JobFields
  <2>4. QED BY <1>1, <2>2, <2>3
<1>3. StartsLast'
  BY <1>2 DEF StartsLast
<1>4. QED BY <1>3, OrderedStays DEF Depend

LEMMA DependStopAll ==
    ASSUME Once(order), Depend, UNCHANGED order, Fewer, plan' = StopJobs(order)
    PROVE  Depend'
<1>1. \A i \in DOMAIN plan' : plan'[i].op = "stop"
  BY Suffixes, StopPlan DEF Once
<1>2. \A c : ~InPlan(plan', "start", c)
  BY <1>1, JobFields DEF InPlan
<1>3. QED BY <1>2, DependNoStart

LEMMA DependBoth ==
    ASSUME Once(order), Depend, UNCHANGED order, Fewer,
           NEW ids, NEW k, Suffix(ids, order, k), plan' = StopJobs(ids) \o StartJobs(ids)
    PROVE  Depend'
<1>1. /\ \A c : InPlan(plan', "stop", c) <=> HasId(order, c) /\ Place(order, c) >= k
      /\ \A c : InPlan(plan', "start", c) => HasId(order, c) /\ Place(order, c) >= k
  BY BothPlan
<1>2. ASSUME NEW c, NEW d, InPlan(plan', "start", c), HasId(order, d), Earlier(order, c, d)
      PROVE  InPlan(plan', "stop", d)
  <2>1. Place(order, c) \in Int /\ Place(order, d) \in Int /\ k \in Int
    BY <1>1, <1>2, Places DEF Suffix
  <2>2. QED BY <1>1, <1>2, <2>1 DEF Earlier
<1>3. StartsLast'
  BY <1>2 DEF StartsLast
<1>4. QED BY <1>3, OrderedStays DEF Depend

LEMMA DependStarted == ASSUME TablesInv, Depend, MonitorChild PROVE Depend'
<1> DEFINE c == Head(plan).id
<1> USE DEF TablesInv
<1>1. /\ c \in Child /\ HasId(order, c) /\ plan # <<>> /\ Head(plan).op = "start"
      /\ InPlan(plan, "start", c) /\ Once(order)
      /\ \A o, d : InPlan(Tail(plan), o, d) <=> InPlan(plan, o, d) /\ Job(o, d) # Head(plan)
  BY AtWork, RestOfPlan DEF MonitorChild, JobsInv, PlanOK
<1>2. current \in Pid /\ nextPid = current + 1 /\ nextPid \in Nat /\ pidOf[c] = NoPid
  BY <1>1 DEF MonitorChild, Processes, Awaited, Types, ChildType, LoopType
<1>3. /\ \A d \in Child : pidOf'[d] = IF d = c THEN current ELSE pidOf[d]
      /\ plan' = Tail(plan) /\ order' = order
  BY DEF MonitorChild, Types, LoopType
<1>4. /\ \A d : ~InPlan(plan, "stop", d)
      /\ \A d \in Child : InPlan(plan, "start", d) => pidOf[d] = NoPid
      /\ \A d : InPlan(Tail(plan), "start", d) =>
             InPlan(plan, "start", d) /\ Earlier(order, c, d)
  BY <1>1, StartFirst
<1>5. \A d \in Child : HasId(order, d) /\ Earlier(order, c, d) => pidOf[d] = NoPid
  BY <1>1, <1>4 DEF Depend, StartsLast
<1>6. ASSUME NEW d \in Child, pidOf[d] # NoPid PROVE pidOf[d] < current
  <2>1. pidOf[d] \in pidToId /\ pidOf[d] < nextPid /\ childOf[pidOf[d]] = d /\ pidOf[d] \in Pid
    BY <1>6 DEF Processes, Tables, Known, Types, LoopType
  <2>2. pidOf[d] # current
    <3>1. childOf[current] = c
      BY <1>1 DEF MonitorChild, Processes, Awaited
    <3>2. QED BY <1>2, <1>6, <2>1, <3>1
  <2>3. QED BY <1>2, <2>1, <2>2 DEF Pid
<1>7. ASSUME NEW a \in Child, NEW b \in Child, HasId(order, a), HasId(order, b),
             Earlier(order, a, b), pidOf'[a] # NoPid, pidOf'[b] # NoPid
      PROVE  pidOf'[a] < pidOf'[b]
  <2>1. CASE a = c
    <3>1. b # c
      BY <1>1, <1>7, <2>1, NotEarlier
    <3>2. QED BY <1>3, <1>5, <1>7, <2>1, <3>1
  <2>2. CASE a # c /\ b = c
    BY <1>3, <1>6, <1>7, <2>2
  <2>3. CASE a # c /\ b # c
    BY <1>3, <1>7, <2>3 DEF Depend, Ordered
  <2>4. QED BY <2>1, <2>2, <2>3
<1>8. ASSUME NEW a \in Child, NEW b \in Child, InPlan(plan', "start", a), HasId(order, b),
             Earlier(order, a, b)
      PROVE  pidOf'[b] = NoPid
  <2>1. InPlan(plan, "start", a) /\ Earlier(order, c, a)
    BY <1>3, <1>4, <1>8
  <2>2. HasId(order, a)
    BY <2>1, JobFields DEF InPlan, JobsInv, PlanOK, Shape
  <2>3. b # c
    BY <1>1, <1>8, <2>1, <2>2, NotEarlier
  <2>4. QED BY <1>3, <1>4, <1>8, <2>1, <2>3 DEF Depend, StartsLast
<1>9. QED BY <1>3, <1>7, <1>8 DEF Depend, Ordered, StartsLast

LEMMA DependDelete == ASSUME TablesInv, Depend, HandleDelete PROVE Depend'
<1> DEFINE c == Head(inbox).id
<1>1. plan' = <<>> /\ UNCHANGED pidOf
  BY Idle DEF HandleDelete, Receive
<1>2. StartsLast'
  BY <1>1, NoPlan DEF StartsLast
<1>3. CASE UNCHANGED order
  BY <1>1, <1>2, <1>3, OrderedStays DEF Depend, Fewer
<1>4. CASE HasId(order, c) /\ order' = Without(c)
  <2>1. Once(order)
    BY DEF TablesInv, JobsInv, PlanOK
  <2>2. /\ \A d, e : HasId(order', d) /\ HasId(order', e) /\ Earlier(order', d, e)
                     => Earlier(order, d, e)
        /\ \A d : HasId(order', d) => HasId(order, d)
    BY <1>4, <2>1, WithoutOne
  <2>3. Ordered'
    BY <1>1, <2>2 DEF Depend, Ordered
  <2>4. QED BY <1>2, <2>3 DEF Depend
<1>5. QED BY <1>3, <1>4 DEF HandleDelete, HasSpec, HasId

LEMMA NotAskedOK ==
    ASSUME InboxInv, NotAsked,
           \/ UNCHANGED inbox
           \/ inbox # <<>> /\ inbox' = Tail(inbox)
           \/ \E msg \in Message : msg.type # "restart" /\ inbox' = Append(inbox, msg)
    PROVE  NotAsked'
<1>1. inbox \in Seq(Message)
  BY DEF InboxInv
<1>2. CASE UNCHANGED inbox
  BY <1>2 DEF NotAsked
<1>3. CASE inbox # <<>> /\ inbox' = Tail(inbox)
  <2>1. /\ DOMAIN inbox' = 1 .. Len(inbox) - 1 /\ DOMAIN inbox = 1 .. Len(inbox)
        /\ \A i \in 1 .. Len(inbox) - 1 : inbox'[i] = inbox[i + 1] /\ i + 1 \in 1 .. Len(inbox)
    BY <1>1, <1>3
  <2>2. QED BY <2>1 DEF NotAsked
<1>4. ASSUME NEW msg \in Message, msg.type # "restart", inbox' = Append(inbox, msg)
      PROVE  NotAsked'
  <2>1. /\ DOMAIN inbox' = 1 .. Len(inbox) + 1 /\ DOMAIN inbox = 1 .. Len(inbox)
        /\ \A i \in 1 .. Len(inbox) + 1 :
              (i \in 1 .. Len(inbox) /\ inbox'[i] = inbox[i]) \/ inbox'[i] = msg
    BY <1>1, <1>4
  <2>2. QED BY <1>4, <2>1 DEF NotAsked
<1>5. QED BY <1>2, <1>3, <1>4

LEMMA NotAskedStep == ASSUME Together, TablesInv, NotAsked, [Next]_vars PROVE NotAsked'
<1> USE DEF TablesInv
<1>1. CASE UNCHANGED inbox
  BY <1>1, NotAskedOK
<1>2. ASSUME NEW type, Receive(type) PROVE NotAsked'
  BY <1>2, NotAskedOK DEF Receive
<1>3. ASSUME NEW msg \in Message, msg.type # "restart", Post(msg) PROVE NotAsked'
  BY <1>1, <1>3, NotAskedOK DEF Post
<1>4. CASE MonitorChild
  <2>1. CASE Post(Down(current, "abnormal"))
    <3>1. current \in Pid
      BY <1>4 DEF MonitorChild, Types, LoopType
    <3>2. Down(current, "abnormal") \in Message /\ Down(current, "abnormal").type # "restart"
      BY <3>1 DEF Down, Message, Reason
    <3>3. QED BY <1>3, <2>1, <3>2
  <2>2. QED BY <1>1, <1>4, <2>1 DEF MonitorChild
<1>5. CASE Loop /\ ~MonitorChild
  BY <1>1, <1>2, <1>5 DEF Loop, StartChild, StartFails, StopChild, Terminated, TimedOut, IgnoreDown,
     HandleChildExit, HandleExit, HandleTerminate, HandleDelete, HandleRestart, HandlerDone
<1>6. ASSUME NEW p \in Pid, ExitEnd(p) PROVE NotAsked'
  <2>1. CASE Post(Down(p, why[p]))
    <3>1. Down(p, why[p]) \in Message /\ Down(p, why[p]).type # "restart"
      BY DEF Down, Message, Types, ChildType
    <3>2. QED BY <1>3, <2>1, <3>1
  <2>2. QED BY <1>1, <1>6, <2>1 DEF ExitEnd
<1>7. CASE SendExit
  BY <1>3, <1>7 DEF SendExit, Message, ExitSignal
<1>8. ASSUME NEW kind \in CommandKinds, NEW c \in Child, SendCommand(kind, c) PROVE NotAsked'
  <2>1. kind # "restart" /\ Post(Command(kind, c))
    BY <1>8 DEF SendCommand, Together
  <2>2. Command(kind, c) \in Message /\ Command(kind, c).type = kind
    BY DEF Command, Message
  <2>3. QED BY <1>3, <2>1, <2>2
<1>9. ASSUME NEW p \in Pid,
             (\E reason \in Leaves : Leave(p, reason)) \/ ExitBegin(p) \/ Panic(p) \/ Struck(p)
      PROVE  NotAsked'
  BY <1>1, <1>9 DEF Leave, ExitBegin, Panic, Struck
<1>10. CASE Tick \/ UNCHANGED vars
  BY <1>1, <1>10 DEF Tick, vars
<1>11. QED BY <1>4, <1>5, <1>6, <1>7, <1>8, <1>9, <1>10 DEF Next

LEMMA DependLoop == ASSUME Together, TablesInv, NotAsked, Depend, Loop PROVE Depend'
<1>1. Once(order) /\ LoopType
  BY DEF TablesInv, JobsInv, PlanOK, Types
<1>2. CASE StartChild
  BY <1>2, DependStays DEF StartChild, Fewer
<1>3. CASE StartFails
  <2>1. UNCHANGED <<order, pidOf>> /\ (plan' = <<>> \/ plan' = StopJobs(order))
    BY <1>3 DEF StartFails, StopJobs
  <2>2. QED BY <1>1, <2>1, DependNoStart, DependStopAll, NoPlan DEF Fewer
<1>4. CASE MonitorChild
  BY <1>4, DependStarted
<1>5. CASE StopChild
  <2>1. /\ Head(plan).id \in Child /\ plan # <<>> /\ Head(plan).op = "stop"
        /\ pidOf' = [pidOf EXCEPT ![Head(plan).id] = NoPid] /\ UNCHANGED order
        /\ plan' = Tail(plan) \/ UNCHANGED plan
    BY <1>5, AtWork DEF StopChild, TablesInv
  <2>2. Fewer /\ pidOf'[Head(plan).id] = NoPid
    BY <1>1, <2>1 DEF Fewer, LoopType
  <2>3. QED BY <2>1, <2>2, DependStopped, DependStays DEF TablesInv
<1>6. CASE Terminated \/ TimedOut
  <2>1. /\ plan # <<>> /\ Head(plan).op = "stop" /\ current # NoPid
        /\ UNCHANGED <<order, pidOf>> /\ plan' = Tail(plan)
    BY <1>6 DEF Terminated, TimedOut
  <2>2. pidOf'[Head(plan).id] = NoPid
    BY <2>1 DEF TablesInv, Processes, Awaited
  <2>3. QED BY <2>1, <2>2, DependStopped DEF TablesInv, Fewer
<1>7. CASE IgnoreDown
  BY <1>7, DependStays DEF IgnoreDown, Fewer
<1>8. CASE HandleExit
  BY <1>1, <1>8, DependStopAll DEF HandleExit, StopJobs, Fewer
<1>9. CASE HandleTerminate
  <2>1. \A c : ~InPlan(plan', "start", c)
    <3>1. plan' = <<>> \/ plan' = <<Job("stop", Head(inbox).id)>>
      BY <1>9 DEF HandleTerminate
    <3>2. \A i \in DOMAIN plan' : plan'[i].op = "stop"
      BY <3>1, JobFields
    <3>3. QED BY <3>2, JobFields DEF InPlan
  <2>2. QED BY <1>9, <2>1, DependNoStart DEF HandleTerminate, Fewer
<1>10. CASE HandleDelete
  BY <1>10, DependDelete
<1>11. CASE HandlerDone
  <2>1. UNCHANGED <<order, pidOf>> /\ (UNCHANGED plan \/ plan' = StopJobs(order))
    BY <1>11 DEF HandlerDone, StopJobs
  <2>2. QED BY <1>1, <2>1, DependStays, DependStopAll DEF Fewer
<1>12. CASE HandleChildExit
  <2> DEFINE c == childOf[Head(inbox).pid]
  <2>1. UNCHANGED order /\ pidOf' = [pidOf EXCEPT ![c] = NoPid]
    BY <1>12 DEF HandleChildExit
  <2>2. Fewer
    BY <1>1, <2>1 DEF Fewer, LoopType
  <2>3. c \in Child /\ HasId(order, c)
    <3>1. Head(inbox).pid \in pidToId
      BY <1>12 DEF HandleChildExit
    <3>2. c \in Child /\ pidOf[c] = Head(inbox).pid
      BY <3>1 DEF TablesInv, Processes, Tables
    <3>3. Head(inbox).pid # NoPid
      BY <1>1, <3>1 DEF LoopType, NoPid, Pid
    <3>4. QED BY <3>2, <3>3 DEF TablesInv, Processes, Tables
  <2>4. CASE UNCHANGED plan
    BY <2>1, <2>2, <2>4, DependStays
  <2>5. CASE plan' = StopJobs(order)
    BY <1>1, <2>1, <2>2, <2>5, DependStopAll
  <2>6. CASE plan' = RestartPlan(c)
    <3>1. order \in Seq(Child) /\ Position(c) \in 1 .. Len(order)
      BY <1>1, <2>3, Places DEF Once, Position, Place
    <3>2. Suffix(order, order, 1) /\ Suffix(From(Position(c), order), order, Position(c))
      BY <3>1, Suffixes
    <3>3. CASE Strategy = "one_for_all"
      <4>1. plan' = StopJobs(order) \o StartJobs(order)
        BY <2>6, <3>3 DEF RestartPlan, StopJobs, StartJobs
      <4>2. QED BY <1>1, <2>1, <2>2, <3>2, <4>1, DependBoth
    <3>4. CASE Strategy = "rest_for_one"
      <4>1. plan' = StopJobs(From(Position(c), order)) \o StartJobs(From(Position(c), order))
        BY <2>6, <3>4 DEF RestartPlan, StopJobs, StartJobs
      <4>2. QED BY <1>1, <2>1, <2>2, <3>2, <4>1, DependBoth
    <3>5. QED BY <3>3, <3>4, FlagsAssumption DEF Together
  <2>7. QED BY <1>12, <2>4, <2>5, <2>6 DEF HandleChildExit, StopJobs
<1>13. ~HandleRestart
  <2>1. HandleRestart => inbox \in Seq(Message) /\ inbox # <<>> /\ inbox[1].type = "restart"
    BY DEF HandleRestart, Receive, TablesInv, InboxInv
  <2>2. QED BY <2>1 DEF NotAsked
<1>14. QED BY <1>2, <1>3, <1>4, <1>5, <1>6, <1>7, <1>8, <1>9, <1>10, <1>11, <1>12, <1>13 DEF Loop

LEMMA DependInit == Init => Depend /\ NotAsked
<1> SUFFICES ASSUME Init PROVE Depend /\ NotAsked
  OBVIOUS
<1>1. \A c \in Child : pidOf[c] = NoPid
  BY DEF Init
<1>2. NotAsked
  BY DEF Init, NotAsked
<1>3. QED BY <1>1, <1>2 DEF Depend, Ordered, StartsLast

LEMMA DependStep ==
    ASSUME Together
    PROVE  TablesInv /\ Depend /\ NotAsked /\ [Next]_vars => Depend' /\ NotAsked'
<1> SUFFICES ASSUME TablesInv, Depend, NotAsked, [Next]_vars PROVE Depend'
  BY NotAskedStep
<1>1. CASE Loop
  BY <1>1, DependLoop
<1>2. CASE UNCHANGED loopVars
  BY <1>2, DependStays DEF loopVars, Fewer
<1>3. CASE ~Loop /\ ~UNCHANGED loopVars
  BY <1>3 DEF Next, Leave, ExitBegin, ExitEnd, Panic, Struck, SendExit, SendCommand, Tick, vars
<1>4. QED BY <1>1, <1>2, <1>3

(* RestartStrategy::{OneForAll, RestForOne}: at every await, no child is    *)
(* older than one that was started before it.                               *)
THEOREM DependencyCorrect == ASSUME Together PROVE Spec => []DependencyOrder
<1>1. Depend => DependencyOrder
  BY DEF Depend, Ordered, DependencyOrder, HasSpec, HasId, Before, Earlier, Position, Place
<1>2. Init => Depend /\ NotAsked
  BY DependInit
<1>3. TablesInv /\ Depend /\ NotAsked /\ [Next]_vars => Depend' /\ NotAsked'
  BY DependStep
<1>4. QED BY <1>1, <1>2, <1>3, TablesAlways, PTL DEF Spec
=============================================================================
