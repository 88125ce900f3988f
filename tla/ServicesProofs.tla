--------------------------- MODULE ServicesProofs ---------------------------
EXTENDS Services, SequenceTheorems, FiniteSetTheorems, TLAPS

-----------------------------------------------------------------------------
(* A tick is late only where the task had committed to it before cancel()  *)
(* left its signal; from then on the signal keeps the task from another.   *)
Silenced ==
    \A t \in TimerRef :
        /\ tm_answer[t] = "ok" => t \in tm_signalled
        /\ tm_late[t] > 0 => tm_answer[t] = "ok" /\ tm_task[t] # "ticking"

TimerInv == Tmr!TypeOK /\ Tmr!LateAtMostOnce /\ Tmr!EntryMeansTask /\ Silenced

LEMMA TimerInitOK == Tmr!Init => TimerInv
  BY DEF Tmr!Init, TimerInv, Tmr!TypeOK, Tmr!LateAtMostOnce, Tmr!EntryMeansTask, Silenced

LEMMA TimerStartOK ==
    ASSUME TimerInv, NEW t \in TimerRef, NEW k \in Tmr!OneShot \cup Tmr!Interval, Tmr!Start(t, k)
    PROVE  TimerInv'
<1>1. Tmr!TypeOK'
  BY DEF TimerInv, Tmr!TypeOK, Tmr!Start
<1>2. Tmr!LateAtMostOnce' /\ Silenced'
  BY DEF TimerInv, Tmr!TypeOK, Tmr!LateAtMostOnce, Silenced, Tmr!Start
<1>3. Tmr!EntryMeansTask'
  BY DEF TimerInv, Tmr!TypeOK, Tmr!EntryMeansTask, Tmr!Start
<1>4. QED BY <1>1, <1>2, <1>3 DEF TimerInv

LEMMA TimerCancelOK == ASSUME TimerInv, NEW t \in TimerRef, Tmr!Cancel(t) PROVE TimerInv'
<1>1. Tmr!TypeOK'
  BY DEF TimerInv, Tmr!TypeOK, Tmr!Cancel
<1>2. Tmr!LateAtMostOnce' /\ Silenced'
  BY DEF TimerInv, Tmr!TypeOK, Tmr!LateAtMostOnce, Silenced, Tmr!Cancel
<1>3. Tmr!EntryMeansTask'
  BY DEF TimerInv, Tmr!TypeOK, Tmr!EntryMeansTask, Tmr!Cancel
<1>4. QED BY <1>1, <1>2, <1>3 DEF TimerInv

(* What only moves the task leaves the counts and the answers alone. *)
LEMMA TimerTaskOK ==
    ASSUME TimerInv, NEW t \in TimerRef,
           Tmr!Elapse(t) \/ Tmr!TakeCancellation(t) \/ Tmr!CleanUp(t) \/ Tmr!Panic(t)
    PROVE  TimerInv'
<1>1. Tmr!TypeOK'
  BY DEF TimerInv, Tmr!TypeOK, Tmr!Elapse, Tmr!TakeCancellation, Tmr!CleanUp, Tmr!Panic
<1>2. Tmr!LateAtMostOnce' /\ Silenced'
  BY DEF TimerInv, Tmr!TypeOK, Tmr!LateAtMostOnce, Silenced, Tmr!Elapse, Tmr!TakeCancellation, Tmr!CleanUp, Tmr!Panic
<1>3. Tmr!EntryMeansTask'
  BY DEF TimerInv, Tmr!TypeOK, Tmr!EntryMeansTask, Tmr!Elapse, Tmr!TakeCancellation, Tmr!CleanUp, Tmr!Panic
<1>4. QED BY <1>1, <1>2, <1>3 DEF TimerInv

LEMMA TimerTickOK == ASSUME TimerInv, NEW t \in TimerRef, Tmr!Tick(t) PROVE TimerInv'
<1>1. tm_late[t] = 0
  BY DEF TimerInv, Tmr!TypeOK, Silenced, Tmr!Tick
<1>2. tm_late' = [tm_late EXCEPT ![t] = IF tm_answer[t] = "ok" THEN 1 ELSE 0]
  BY <1>1 DEF TimerInv, Tmr!TypeOK, Tmr!Tick
<1>3. Tmr!TypeOK'
  <2>1. tm_late' \in [TimerRef -> Nat] /\ tm_ticks' \in [TimerRef -> Nat]
    BY <1>2 DEF TimerInv, Tmr!TypeOK, Tmr!Tick
  <2>2. tm_marked' \subseteq Target
    BY DEF TimerInv, Tmr!TypeOK, Tmr!Tick
  <2>3. QED BY <2>1, <2>2 DEF TimerInv, Tmr!TypeOK, Tmr!Tick
<1>4. Tmr!LateAtMostOnce'
  BY <1>2 DEF TimerInv, Tmr!TypeOK, Tmr!LateAtMostOnce, Tmr!Tick
<1>5. Silenced'
  BY <1>2 DEF TimerInv, Tmr!TypeOK, Silenced, Tmr!Tick
<1>6. Tmr!EntryMeansTask'
  BY DEF TimerInv, Tmr!TypeOK, Tmr!EntryMeansTask, Tmr!Tick
<1>7. QED BY <1>3, <1>4, <1>5, <1>6 DEF TimerInv

LEMMA TimerStepOK == TimerInv /\ [Tmr!Next]_(Tmr!vars) => TimerInv'
<1> SUFFICES ASSUME TimerInv, [Tmr!Next]_(Tmr!vars) PROVE TimerInv'
  OBVIOUS
<1>1. ASSUME NEW t \in TimerRef, NEW k \in Tmr!OneShot \cup Tmr!Interval, Tmr!Start(t, k) PROVE TimerInv'
  BY <1>1, TimerStartOK
<1>2. ASSUME NEW t \in TimerRef, Tmr!Cancel(t) PROVE TimerInv'
  BY <1>2, TimerCancelOK
<1>3. ASSUME NEW t \in TimerRef, Tmr!Work(t) \/ Tmr!Panic(t) PROVE TimerInv'
  BY <1>3, TimerTaskOK, TimerTickOK DEF Tmr!Work
<1>4. ASSUME NEW p \in Target, Tmr!Gone(p) PROVE TimerInv'
  BY <1>4 DEF TimerInv, Tmr!TypeOK, Tmr!LateAtMostOnce, Tmr!EntryMeansTask, Silenced, Tmr!Gone, Tmr!timerVars
<1>5. CASE UNCHANGED Tmr!vars
  BY <1>5 DEF TimerInv, Tmr!TypeOK, Tmr!LateAtMostOnce, Tmr!EntryMeansTask, Silenced, Tmr!vars, Tmr!timerVars
<1>6. QED BY <1>1, <1>2, <1>3, <1>4, <1>5 DEF Tmr!Next

LEMMA TimerInFocus == TimerInv /\ [ServicesNext]_servicesVars => TimerInv'
<1>1. ServicesNext => Tmr!Next \/ UNCHANGED tmVars
  BY DEF ServicesNext
<1>2. UNCHANGED servicesVars => UNCHANGED tmVars
  BY DEF servicesVars
<1>3. UNCHANGED tmVars => UNCHANGED Tmr!vars
  BY DEF tmVars, Tmr!vars, Tmr!timerVars
<1>4. QED BY <1>1, <1>2, <1>3, TimerStepOK

(* timer: cancel() of an interval that is in the middle of a tick leaves at    *)
(* most the tick under way to be heard, and the entry in TIMERS is there as     *)
(* long as its task may go off uncancelled, and gone once it has run its end.   *)
THEOREM TimerCorrect == ServicesSpec => []TimerSafe
<1>1. ServicesInit => TimerInv
  BY TimerInitOK DEF ServicesInit
<1>2. TimerInv => TimerSafe
  BY DEF TimerInv, TimerSafe
<1>3. QED BY <1>1, <1>2, TimerInFocus, PTL DEF ServicesSpec

-----------------------------------------------------------------------------
(* The entries of a unique registry are singletons. *)
OneEntry ==
    rg_mode # "duplicate" => \A k \in Key : \A p, q \in rg_entries[k] : p = q

(* A call that removes is about an entry of its own process, or, through the    *)
(* adapter, of one that will not register again; and once retain() has run, the *)
(* entry is gone for good.                                                      *)
RemovalsOwn ==
    \A p \in RegProcess :
        /\ rg_at[p].do # "idle" => rg_at[p].key \in Key
        /\ rg_at[p].do \in {"insert", "reverse"} => rg_at[p].rest = {}
        /\ rg_at[p].do = "insert" /\ rg_mode = "via" => rg_named[p] # Reg!NoKey
        /\ rg_at[p].do \in {"retain", "remove", "forget"} =>
              /\ rg_at[p].of \in RegProcess
              /\ rg_mode # "via" => rg_at[p].of = p
              /\ rg_mode = "via" =>
                    rg_at[p].rest = {} /\ rg_named[rg_at[p].of] # Reg!NoKey /\ rg_at[rg_at[p].of].do # "insert"
              /\ rg_at[p].do = "retain" /\ p \in rg_entries[rg_at[p].key] => rg_at[p].of = p
        /\ rg_at[p].do \in {"remove", "forget"} =>
              p \notin rg_entries[rg_at[p].key] /\ rg_at[p].of \notin rg_entries[rg_at[p].key]

(* Through the adapter a server has an entry only after it has registered. *)
EntryNamed ==
    rg_mode = "via" =>
        \A k \in Key : \A p \in rg_entries[k] : rg_named[p] # Reg!NoKey /\ rg_at[p].do # "insert"

RegistryInv == Reg!TypeOK /\ OneEntry /\ RemovalsOwn /\ EntryNamed /\ Reg!ReverseCovers

LEMMA RegistryInitOK == Reg!Init => RegistryInv
  BY DEF Reg!Init, RegistryInv, Reg!TypeOK, OneEntry, RemovalsOwn, EntryNamed, Reg!ReverseCovers, Reg!Idle, Reg!Doing

LEMMA RegistryRegisterUniqueOK == ASSUME RegistryInv, NEW p \in RegProcess, NEW k \in Key, Reg!RegisterUnique(p, k) PROVE RegistryInv'
<1>1. Reg!TypeOK'
  BY KeyAssumption DEF RegistryInv, Reg!TypeOK, RemovalsOwn, Reg!RegisterUnique, Reg!Calls, Reg!Goes, Reg!Idle, Reg!Doing
<1>2. OneEntry'
  BY KeyAssumption DEF RegistryInv, Reg!TypeOK, OneEntry, RemovalsOwn, EntryNamed, Reg!ReverseCovers, Reg!RegisterUnique, Reg!Calls, Reg!Goes, Reg!Idle, Reg!Doing
<1>3. RemovalsOwn'
  BY KeyAssumption DEF RegistryInv, Reg!TypeOK, OneEntry, RemovalsOwn, EntryNamed, Reg!ReverseCovers, Reg!RegisterUnique, Reg!Calls, Reg!Goes, Reg!Idle, Reg!Doing
<1>4. EntryNamed'
  BY KeyAssumption DEF RegistryInv, Reg!TypeOK, OneEntry, RemovalsOwn, EntryNamed, Reg!ReverseCovers, Reg!RegisterUnique, Reg!Calls, Reg!Goes, Reg!Idle, Reg!Doing
<1>5. Reg!ReverseCovers'
  BY KeyAssumption DEF RegistryInv, Reg!TypeOK, OneEntry, RemovalsOwn, EntryNamed, Reg!ReverseCovers, Reg!RegisterUnique, Reg!Calls, Reg!Goes, Reg!Idle, Reg!Doing
<1>6. QED BY <1>1, <1>2, <1>3, <1>4, <1>5 DEF RegistryInv

LEMMA RegistryRegisterDuplicateOK == ASSUME RegistryInv, NEW p \in RegProcess, NEW k \in Key, Reg!RegisterDuplicate(p, k) PROVE RegistryInv'
<1>1. Reg!TypeOK'
  BY KeyAssumption DEF RegistryInv, Reg!TypeOK, RemovalsOwn, Reg!RegisterDuplicate, Reg!Calls, Reg!Goes, Reg!Idle, Reg!Doing
<1>2. OneEntry'
  BY KeyAssumption DEF RegistryInv, Reg!TypeOK, OneEntry, RemovalsOwn, EntryNamed, Reg!ReverseCovers, Reg!RegisterDuplicate, Reg!Calls, Reg!Goes, Reg!Idle, Reg!Doing
<1>3. RemovalsOwn'
  BY KeyAssumption DEF RegistryInv, Reg!TypeOK, OneEntry, RemovalsOwn, EntryNamed, Reg!ReverseCovers, Reg!RegisterDuplicate, Reg!Calls, Reg!Goes, Reg!Idle, Reg!Doing
<1>4. EntryNamed'
  BY KeyAssumption DEF RegistryInv, Reg!TypeOK, OneEntry, RemovalsOwn, EntryNamed, Reg!ReverseCovers, Reg!RegisterDuplicate, Reg!Calls, Reg!Goes, Reg!Idle, Reg!Doing
<1>5. Reg!ReverseCovers'
  BY KeyAssumption DEF RegistryInv, Reg!TypeOK, OneEntry, RemovalsOwn, EntryNamed, Reg!ReverseCovers, Reg!RegisterDuplicate, Reg!Calls, Reg!Goes, Reg!Idle, Reg!Doing
<1>6. QED BY <1>1, <1>2, <1>3, <1>4, <1>5 DEF RegistryInv

LEMMA RegistryInsertOK == ASSUME RegistryInv, NEW p \in RegProcess, Reg!Insert(p) PROVE RegistryInv'
<1>1. Reg!TypeOK'
  BY KeyAssumption DEF RegistryInv, Reg!TypeOK, RemovalsOwn, Reg!Insert, Reg!Calls, Reg!Goes, Reg!Idle, Reg!Doing
<1>2. OneEntry'
  BY KeyAssumption DEF RegistryInv, Reg!TypeOK, OneEntry, RemovalsOwn, EntryNamed, Reg!ReverseCovers, Reg!Insert, Reg!Calls, Reg!Goes, Reg!Idle, Reg!Doing
<1>3. RemovalsOwn'
  BY KeyAssumption DEF RegistryInv, Reg!TypeOK, OneEntry, RemovalsOwn, EntryNamed, Reg!ReverseCovers, Reg!Insert, Reg!Calls, Reg!Goes, Reg!Idle, Reg!Doing
<1>4. EntryNamed'
  BY KeyAssumption DEF RegistryInv, Reg!TypeOK, OneEntry, RemovalsOwn, EntryNamed, Reg!ReverseCovers, Reg!Insert, Reg!Calls, Reg!Goes, Reg!Idle, Reg!Doing
<1>5. Reg!ReverseCovers'
  BY KeyAssumption DEF RegistryInv, Reg!TypeOK, OneEntry, RemovalsOwn, EntryNamed, Reg!ReverseCovers, Reg!Insert, Reg!Calls, Reg!Goes, Reg!Idle, Reg!Doing
<1>6. QED BY <1>1, <1>2, <1>3, <1>4, <1>5 DEF RegistryInv

LEMMA RegistryTrackKeyOK == ASSUME RegistryInv, NEW p \in RegProcess, Reg!TrackKey(p) PROVE RegistryInv'
<1>1. Reg!TypeOK'
  BY KeyAssumption DEF RegistryInv, Reg!TypeOK, RemovalsOwn, Reg!TrackKey, Reg!Calls, Reg!Goes, Reg!Idle, Reg!Doing
<1>2. OneEntry'
  BY KeyAssumption DEF RegistryInv, Reg!TypeOK, OneEntry, RemovalsOwn, EntryNamed, Reg!ReverseCovers, Reg!TrackKey, Reg!Calls, Reg!Goes, Reg!Idle, Reg!Doing
<1>3. RemovalsOwn'
  BY KeyAssumption DEF RegistryInv, Reg!TypeOK, OneEntry, RemovalsOwn, EntryNamed, Reg!ReverseCovers, Reg!TrackKey, Reg!Calls, Reg!Goes, Reg!Idle, Reg!Doing
<1>4. EntryNamed'
  BY KeyAssumption DEF RegistryInv, Reg!TypeOK, OneEntry, RemovalsOwn, EntryNamed, Reg!ReverseCovers, Reg!TrackKey, Reg!Calls, Reg!Goes, Reg!Idle, Reg!Doing
<1>5. Reg!ReverseCovers'
  BY KeyAssumption DEF RegistryInv, Reg!TypeOK, OneEntry, RemovalsOwn, EntryNamed, Reg!ReverseCovers, Reg!TrackKey, Reg!Calls, Reg!Goes, Reg!Idle, Reg!Doing
<1>6. QED BY <1>1, <1>2, <1>3, <1>4, <1>5 DEF RegistryInv

LEMMA RegistryUnregisterOK == ASSUME RegistryInv, NEW p \in RegProcess, NEW k \in Key, Reg!Unregister(p, k) PROVE RegistryInv'
<1>1. Reg!TypeOK'
  BY KeyAssumption DEF RegistryInv, Reg!TypeOK, RemovalsOwn, Reg!Unregister, Reg!Calls, Reg!Goes, Reg!Idle, Reg!Doing
<1>2. OneEntry'
  BY KeyAssumption DEF RegistryInv, Reg!TypeOK, OneEntry, RemovalsOwn, EntryNamed, Reg!ReverseCovers, Reg!Unregister, Reg!Calls, Reg!Goes, Reg!Idle, Reg!Doing
<1>3. RemovalsOwn'
  BY KeyAssumption DEF RegistryInv, Reg!TypeOK, OneEntry, RemovalsOwn, EntryNamed, Reg!ReverseCovers, Reg!Unregister, Reg!Calls, Reg!Goes, Reg!Idle, Reg!Doing
<1>4. EntryNamed'
  BY KeyAssumption DEF RegistryInv, Reg!TypeOK, OneEntry, RemovalsOwn, EntryNamed, Reg!ReverseCovers, Reg!Unregister, Reg!Calls, Reg!Goes, Reg!Idle, Reg!Doing
<1>5. Reg!ReverseCovers'
  BY KeyAssumption DEF RegistryInv, Reg!TypeOK, OneEntry, RemovalsOwn, EntryNamed, Reg!ReverseCovers, Reg!Unregister, Reg!Calls, Reg!Goes, Reg!Idle, Reg!Doing
<1>6. QED BY <1>1, <1>2, <1>3, <1>4, <1>5 DEF RegistryInv

LEMMA RegistryUnregisterAllOK == ASSUME RegistryInv, NEW p \in RegProcess, Reg!UnregisterAll(p) PROVE RegistryInv'
<1>1. Reg!TypeOK'
  BY KeyAssumption DEF RegistryInv, Reg!TypeOK, RemovalsOwn, Reg!UnregisterAll, Reg!Calls, Reg!Goes, Reg!Idle, Reg!Doing
<1>2. OneEntry'
  BY KeyAssumption DEF RegistryInv, Reg!TypeOK, OneEntry, RemovalsOwn, EntryNamed, Reg!ReverseCovers, Reg!UnregisterAll, Reg!Calls, Reg!Goes, Reg!Idle, Reg!Doing
<1>3. RemovalsOwn'
  BY KeyAssumption DEF RegistryInv, Reg!TypeOK, OneEntry, RemovalsOwn, EntryNamed, Reg!ReverseCovers, Reg!UnregisterAll, Reg!Calls, Reg!Goes, Reg!Idle, Reg!Doing
<1>4. EntryNamed'
  BY KeyAssumption DEF RegistryInv, Reg!TypeOK, OneEntry, RemovalsOwn, EntryNamed, Reg!ReverseCovers, Reg!UnregisterAll, Reg!Calls, Reg!Goes, Reg!Idle, Reg!Doing
<1>5. Reg!ReverseCovers'
  BY KeyAssumption DEF RegistryInv, Reg!TypeOK, OneEntry, RemovalsOwn, EntryNamed, Reg!ReverseCovers, Reg!UnregisterAll, Reg!Calls, Reg!Goes, Reg!Idle, Reg!Doing
<1>6. QED BY <1>1, <1>2, <1>3, <1>4, <1>5 DEF RegistryInv

LEMMA RegistryUnregisterViaOK == ASSUME RegistryInv, NEW p \in RegProcess, NEW k \in Key, Reg!UnregisterVia(p, k) PROVE RegistryInv'
<1>1. Reg!TypeOK'
  BY KeyAssumption DEF RegistryInv, Reg!TypeOK, RemovalsOwn, Reg!UnregisterVia, Reg!Calls, Reg!Goes, Reg!Idle, Reg!Doing
<1>2. OneEntry'
  BY KeyAssumption DEF RegistryInv, Reg!TypeOK, OneEntry, RemovalsOwn, EntryNamed, Reg!ReverseCovers, Reg!UnregisterVia, Reg!Calls, Reg!Goes, Reg!Idle, Reg!Doing
<1>3. RemovalsOwn'
  BY KeyAssumption DEF RegistryInv, Reg!TypeOK, OneEntry, RemovalsOwn, EntryNamed, Reg!ReverseCovers, Reg!UnregisterVia, Reg!Calls, Reg!Goes, Reg!Idle, Reg!Doing
<1>4. EntryNamed'
  BY KeyAssumption DEF RegistryInv, Reg!TypeOK, OneEntry, RemovalsOwn, EntryNamed, Reg!ReverseCovers, Reg!UnregisterVia, Reg!Calls, Reg!Goes, Reg!Idle, Reg!Doing
<1>5. Reg!ReverseCovers'
  BY KeyAssumption DEF RegistryInv, Reg!TypeOK, OneEntry, RemovalsOwn, EntryNamed, Reg!ReverseCovers, Reg!UnregisterVia, Reg!Calls, Reg!Goes, Reg!Idle, Reg!Doing
<1>6. QED BY <1>1, <1>2, <1>3, <1>4, <1>5 DEF RegistryInv

LEMMA RegistryRetainOK == ASSUME RegistryInv, NEW p \in RegProcess, Reg!Retain(p) PROVE RegistryInv'
<1>1. Reg!TypeOK'
  BY KeyAssumption DEF RegistryInv, Reg!TypeOK, RemovalsOwn, Reg!Retain, Reg!Calls, Reg!Goes, Reg!Idle, Reg!Doing
<1>2. OneEntry'
  BY KeyAssumption DEF RegistryInv, Reg!TypeOK, OneEntry, RemovalsOwn, EntryNamed, Reg!ReverseCovers, Reg!Retain, Reg!Calls, Reg!Goes, Reg!Idle, Reg!Doing
<1>3. RemovalsOwn'
  BY KeyAssumption DEF RegistryInv, Reg!TypeOK, OneEntry, RemovalsOwn, EntryNamed, Reg!ReverseCovers, Reg!Retain, Reg!Calls, Reg!Goes, Reg!Idle, Reg!Doing
<1>4. EntryNamed'
  BY KeyAssumption DEF RegistryInv, Reg!TypeOK, OneEntry, RemovalsOwn, EntryNamed, Reg!ReverseCovers, Reg!Retain, Reg!Calls, Reg!Goes, Reg!Idle, Reg!Doing
<1>5. Reg!ReverseCovers'
  BY KeyAssumption DEF RegistryInv, Reg!TypeOK, OneEntry, RemovalsOwn, EntryNamed, Reg!ReverseCovers, Reg!Retain, Reg!Calls, Reg!Goes, Reg!Idle, Reg!Doing
<1>6. QED BY <1>1, <1>2, <1>3, <1>4, <1>5 DEF RegistryInv

LEMMA RegistryRemoveKeyOK == ASSUME RegistryInv, NEW p \in RegProcess, Reg!RemoveKey(p) PROVE RegistryInv'
<1>1. Reg!TypeOK'
  BY KeyAssumption DEF RegistryInv, Reg!TypeOK, RemovalsOwn, Reg!RemoveKey, Reg!Calls, Reg!Goes, Reg!Idle, Reg!Doing
<1>2. OneEntry'
  BY KeyAssumption DEF RegistryInv, Reg!TypeOK, OneEntry, RemovalsOwn, EntryNamed, Reg!ReverseCovers, Reg!RemoveKey, Reg!Calls, Reg!Goes, Reg!Idle, Reg!Doing
<1>3. RemovalsOwn'
  BY KeyAssumption DEF RegistryInv, Reg!TypeOK, OneEntry, RemovalsOwn, EntryNamed, Reg!ReverseCovers, Reg!RemoveKey, Reg!Calls, Reg!Goes, Reg!Idle, Reg!Doing
<1>4. EntryNamed'
  BY KeyAssumption DEF RegistryInv, Reg!TypeOK, OneEntry, RemovalsOwn, EntryNamed, Reg!ReverseCovers, Reg!RemoveKey, Reg!Calls, Reg!Goes, Reg!Idle, Reg!Doing
<1>5. Reg!ReverseCovers'
  BY KeyAssumption DEF RegistryInv, Reg!TypeOK, OneEntry, RemovalsOwn, EntryNamed, Reg!ReverseCovers, Reg!RemoveKey, Reg!Calls, Reg!Goes, Reg!Idle, Reg!Doing
<1>6. QED BY <1>1, <1>2, <1>3, <1>4, <1>5 DEF RegistryInv

LEMMA RegistryForgetOK == ASSUME RegistryInv, NEW p \in RegProcess, Reg!Forget(p) PROVE RegistryInv'
<1>1. Reg!TypeOK'
  BY KeyAssumption DEF RegistryInv, Reg!TypeOK, RemovalsOwn, Reg!Forget, Reg!Calls, Reg!Goes, Reg!Idle, Reg!Doing
<1>2. OneEntry'
  BY KeyAssumption DEF RegistryInv, Reg!TypeOK, OneEntry, RemovalsOwn, EntryNamed, Reg!ReverseCovers, Reg!Forget, Reg!Calls, Reg!Goes, Reg!Idle, Reg!Doing
<1>3. RemovalsOwn'
  BY KeyAssumption DEF RegistryInv, Reg!TypeOK, OneEntry, RemovalsOwn, EntryNamed, Reg!ReverseCovers, Reg!Forget, Reg!Calls, Reg!Goes, Reg!Idle, Reg!Doing
<1>4. EntryNamed'
  BY KeyAssumption DEF RegistryInv, Reg!TypeOK, OneEntry, RemovalsOwn, EntryNamed, Reg!ReverseCovers, Reg!Forget, Reg!Calls, Reg!Goes, Reg!Idle, Reg!Doing
<1>5. Reg!ReverseCovers'
  BY KeyAssumption DEF RegistryInv, Reg!TypeOK, OneEntry, RemovalsOwn, EntryNamed, Reg!ReverseCovers, Reg!Forget, Reg!Calls, Reg!Goes, Reg!Idle, Reg!Doing
<1>6. QED BY <1>1, <1>2, <1>3, <1>4, <1>5 DEF RegistryInv

LEMMA RegistryExitOK == ASSUME RegistryInv, NEW p \in RegProcess, Reg!Exit(p) PROVE RegistryInv'
<1>1. Reg!TypeOK'
  BY KeyAssumption DEF RegistryInv, Reg!TypeOK, RemovalsOwn, Reg!Exit, Reg!Calls, Reg!Goes, Reg!Idle, Reg!Doing
<1>2. OneEntry'
  BY KeyAssumption DEF RegistryInv, Reg!TypeOK, OneEntry, RemovalsOwn, EntryNamed, Reg!ReverseCovers, Reg!Exit, Reg!Calls, Reg!Goes, Reg!Idle, Reg!Doing
<1>3. RemovalsOwn'
  BY KeyAssumption DEF RegistryInv, Reg!TypeOK, OneEntry, RemovalsOwn, EntryNamed, Reg!ReverseCovers, Reg!Exit, Reg!Calls, Reg!Goes, Reg!Idle, Reg!Doing
<1>4. EntryNamed'
  BY KeyAssumption DEF RegistryInv, Reg!TypeOK, OneEntry, RemovalsOwn, EntryNamed, Reg!ReverseCovers, Reg!Exit, Reg!Calls, Reg!Goes, Reg!Idle, Reg!Doing
<1>5. Reg!ReverseCovers'
  BY KeyAssumption DEF RegistryInv, Reg!TypeOK, OneEntry, RemovalsOwn, EntryNamed, Reg!ReverseCovers, Reg!Exit, Reg!Calls, Reg!Goes, Reg!Idle, Reg!Doing
<1>6. QED BY <1>1, <1>2, <1>3, <1>4, <1>5 DEF RegistryInv

LEMMA RegistryStepOK == RegistryInv /\ [Reg!Next]_(Reg!vars) => RegistryInv'
<1> SUFFICES ASSUME RegistryInv, [Reg!Next]_(Reg!vars) PROVE RegistryInv'
  OBVIOUS
<1>1. ASSUME NEW p \in RegProcess, NEW k \in Key,
             Reg!RegisterUnique(p, k) \/ Reg!RegisterDuplicate(p, k) \/ Reg!Unregister(p, k) \/ Reg!UnregisterVia(p, k)
      PROVE  RegistryInv'
  BY <1>1, RegistryRegisterUniqueOK, RegistryRegisterDuplicateOK, RegistryUnregisterOK, RegistryUnregisterViaOK
<1>2. ASSUME NEW p \in RegProcess,
             \/ Reg!Insert(p) \/ Reg!TrackKey(p) \/ Reg!Retain(p) \/ Reg!RemoveKey(p) \/ Reg!Forget(p)
             \/ Reg!UnregisterAll(p) \/ Reg!Exit(p)
      PROVE  RegistryInv'
  BY <1>2, RegistryInsertOK, RegistryTrackKeyOK, RegistryRetainOK, RegistryRemoveKeyOK, RegistryForgetOK, RegistryUnregisterAllOK, RegistryExitOK
<1>3. CASE UNCHANGED Reg!vars
  BY <1>3 DEF Reg!vars, RegistryInv, Reg!TypeOK, OneEntry, RemovalsOwn, EntryNamed, Reg!ReverseCovers
<1>4. QED BY <1>1, <1>2, <1>3 DEF Reg!Next

LEMMA RegistryInFocus == RegistryInv /\ [ServicesNext]_servicesVars => RegistryInv'
<1>1. ServicesNext => Reg!Next \/ UNCHANGED rgVars
  BY DEF ServicesNext
<1>2. UNCHANGED servicesVars => UNCHANGED rgVars
  BY DEF servicesVars
<1>3. UNCHANGED rgVars => UNCHANGED Reg!vars
  BY DEF rgVars, Reg!vars
<1>4. QED BY <1>1, <1>2, <1>3, RegistryStepOK

(* registry: between two calls of a process none of its entries is out of reach *)
(* of unregister_all(), whatever the other threads do to the same keys.          *)
THEOREM RegistryCorrect == ServicesSpec => []RegistrySafe
<1>1. ServicesInit => RegistryInv
  BY RegistryInitOK DEF ServicesInit
<1>2. RegistryInv => RegistrySafe
  BY DEF RegistryInv, RegistrySafe
<1>3. QED BY <1>1, <1>2, RegistryInFocus, PTL DEF ServicesSpec

-----------------------------------------------------------------------------
(* What is read first and written later is never in an ordered table, nor in    *)
(* one that has not been made.                                                  *)
UpdatesUnordered ==
    /\ \A t \in Table : st_kind[t] = "none" => st_content[t] = st_writes[t]
    /\ \A p \in Owner :
          st_updating[p] # Sto!Quiet =>
              st_updating[p].table \in Table /\ st_kind[st_updating[p].table] = "store"

(* The name leads to a table that was made under it. *)
NameCarried ==
    /\ st_names # Sto!NoTable => st_kind[st_names] # "none" /\ st_named[st_names]
    /\ \A p \in Owner : st_leaving[p] # Sto!None => st_leaving[p].table \in Table

StoreInv == Sto!TypeOK /\ Sto!OrderedUpdates /\ Sto!NameRegistered /\ UpdatesUnordered /\ NameCarried

LEMMA StoreInitOK == Sto!Init => StoreInv
  BY DEF Sto!Init, StoreInv, Sto!TypeOK, Sto!OrderedUpdates, Sto!NameRegistered, UpdatesUnordered, NameCarried,
         Sto!Quiet, Sto!None

LEMMA StoreTransferredType ==
    ASSUME Sto!TypeOK, NEW t \in Table, NEW p \in Owner, NEW q \in Owner
    PROVE  Sto!Transferred(t, p, q) \in [Owner -> SUBSET Table]
<1> DEFINE given == [st_byOwner EXCEPT ![p] = IF p = q THEN @ ELSE @ \ {t}]
<1>1. given \in [Owner -> SUBSET Table]
  BY DEF Sto!TypeOK
<1>2. Sto!Transferred(t, p, q) = [given EXCEPT ![q] = @ \cup {t}]
  BY DEF Sto!Transferred
<1>3. QED BY <1>1, <1>2

LEMMA StoreCreateOK == ASSUME StoreInv, NEW p \in Owner, NEW t \in Table, Sto!Create(p, t) PROVE StoreInv'
<1>1. Sto!TypeOK'
  BY OwnerAssumption DEF StoreInv, Sto!TypeOK, Sto!OrderedUpdates, Sto!NameRegistered, UpdatesUnordered, NameCarried, Sto!Create, Sto!Calls, Sto!Access, Sto!Transferred, Sto!UnregisterName, Sto!Quiet, Sto!None, Sto!tableVars, Sto!registry, Sto!data
<1>2. Sto!OrderedUpdates'
  BY OwnerAssumption DEF StoreInv, Sto!TypeOK, Sto!OrderedUpdates, Sto!NameRegistered, UpdatesUnordered, NameCarried, Sto!Create, Sto!Calls, Sto!Access, Sto!Transferred, Sto!UnregisterName, Sto!Quiet, Sto!None, Sto!tableVars, Sto!registry, Sto!data
<1>3. Sto!NameRegistered'
  BY OwnerAssumption DEF StoreInv, Sto!TypeOK, Sto!OrderedUpdates, Sto!NameRegistered, UpdatesUnordered, NameCarried, Sto!Create, Sto!Calls, Sto!Access, Sto!Transferred, Sto!UnregisterName, Sto!Quiet, Sto!None, Sto!tableVars, Sto!registry, Sto!data
<1>4. UpdatesUnordered'
  BY OwnerAssumption DEF StoreInv, Sto!TypeOK, Sto!OrderedUpdates, Sto!NameRegistered, UpdatesUnordered, NameCarried, Sto!Create, Sto!Calls, Sto!Access, Sto!Transferred, Sto!UnregisterName, Sto!Quiet, Sto!None, Sto!tableVars, Sto!registry, Sto!data
<1>5. NameCarried'
  BY OwnerAssumption DEF StoreInv, Sto!TypeOK, Sto!OrderedUpdates, Sto!NameRegistered, UpdatesUnordered, NameCarried, Sto!Create, Sto!Calls, Sto!Access, Sto!Transferred, Sto!UnregisterName, Sto!Quiet, Sto!None, Sto!tableVars, Sto!registry, Sto!data
<1>6. QED BY <1>1, <1>2, <1>3, <1>4, <1>5 DEF StoreInv

LEMMA StoreWriteOK == ASSUME StoreInv, NEW p \in Owner, NEW t \in Table, Sto!Write(p, t) PROVE StoreInv'
<1>1. Sto!TypeOK'
  BY OwnerAssumption DEF StoreInv, Sto!TypeOK, Sto!OrderedUpdates, Sto!NameRegistered, UpdatesUnordered, NameCarried, Sto!Write, Sto!Calls, Sto!Access, Sto!Transferred, Sto!UnregisterName, Sto!Quiet, Sto!None, Sto!tableVars, Sto!registry, Sto!data
<1>2. Sto!OrderedUpdates'
  BY OwnerAssumption DEF StoreInv, Sto!TypeOK, Sto!OrderedUpdates, Sto!NameRegistered, UpdatesUnordered, NameCarried, Sto!Write, Sto!Calls, Sto!Access, Sto!Transferred, Sto!UnregisterName, Sto!Quiet, Sto!None, Sto!tableVars, Sto!registry, Sto!data
<1>3. Sto!NameRegistered'
  BY OwnerAssumption DEF StoreInv, Sto!TypeOK, Sto!OrderedUpdates, Sto!NameRegistered, UpdatesUnordered, NameCarried, Sto!Write, Sto!Calls, Sto!Access, Sto!Transferred, Sto!UnregisterName, Sto!Quiet, Sto!None, Sto!tableVars, Sto!registry, Sto!data
<1>4. UpdatesUnordered'
  BY OwnerAssumption DEF StoreInv, Sto!TypeOK, Sto!OrderedUpdates, Sto!NameRegistered, UpdatesUnordered, NameCarried, Sto!Write, Sto!Calls, Sto!Access, Sto!Transferred, Sto!UnregisterName, Sto!Quiet, Sto!None, Sto!tableVars, Sto!registry, Sto!data
<1>5. NameCarried'
  BY OwnerAssumption DEF StoreInv, Sto!TypeOK, Sto!OrderedUpdates, Sto!NameRegistered, UpdatesUnordered, NameCarried, Sto!Write, Sto!Calls, Sto!Access, Sto!Transferred, Sto!UnregisterName, Sto!Quiet, Sto!None, Sto!tableVars, Sto!registry, Sto!data
<1>6. QED BY <1>1, <1>2, <1>3, <1>4, <1>5 DEF StoreInv

LEMMA StoreBeginUpdateOK == ASSUME StoreInv, NEW p \in Owner, NEW t \in Table, Sto!BeginUpdate(p, t) PROVE StoreInv'
<1>1. Sto!TypeOK'
  BY OwnerAssumption DEF StoreInv, Sto!TypeOK, Sto!OrderedUpdates, Sto!NameRegistered, UpdatesUnordered, NameCarried, Sto!BeginUpdate, Sto!Calls, Sto!Access, Sto!Transferred, Sto!UnregisterName, Sto!Quiet, Sto!None, Sto!tableVars, Sto!registry, Sto!data
<1>2. Sto!OrderedUpdates'
  BY OwnerAssumption DEF StoreInv, Sto!TypeOK, Sto!OrderedUpdates, Sto!NameRegistered, UpdatesUnordered, NameCarried, Sto!BeginUpdate, Sto!Calls, Sto!Access, Sto!Transferred, Sto!UnregisterName, Sto!Quiet, Sto!None, Sto!tableVars, Sto!registry, Sto!data
<1>3. Sto!NameRegistered'
  BY OwnerAssumption DEF StoreInv, Sto!TypeOK, Sto!OrderedUpdates, Sto!NameRegistered, UpdatesUnordered, NameCarried, Sto!BeginUpdate, Sto!Calls, Sto!Access, Sto!Transferred, Sto!UnregisterName, Sto!Quiet, Sto!None, Sto!tableVars, Sto!registry, Sto!data
<1>4. UpdatesUnordered'
  BY OwnerAssumption DEF StoreInv, Sto!TypeOK, Sto!OrderedUpdates, Sto!NameRegistered, UpdatesUnordered, NameCarried, Sto!BeginUpdate, Sto!Calls, Sto!Access, Sto!Transferred, Sto!UnregisterName, Sto!Quiet, Sto!None, Sto!tableVars, Sto!registry, Sto!data
<1>5. NameCarried'
  BY OwnerAssumption DEF StoreInv, Sto!TypeOK, Sto!OrderedUpdates, Sto!NameRegistered, UpdatesUnordered, NameCarried, Sto!BeginUpdate, Sto!Calls, Sto!Access, Sto!Transferred, Sto!UnregisterName, Sto!Quiet, Sto!None, Sto!tableVars, Sto!registry, Sto!data
<1>6. QED BY <1>1, <1>2, <1>3, <1>4, <1>5 DEF StoreInv

LEMMA StoreEndUpdateOK == ASSUME StoreInv, NEW p \in Owner, Sto!EndUpdate(p) PROVE StoreInv'
<1>1. Sto!TypeOK'
  BY OwnerAssumption DEF StoreInv, Sto!TypeOK, Sto!OrderedUpdates, Sto!NameRegistered, UpdatesUnordered, NameCarried, Sto!EndUpdate, Sto!Calls, Sto!Access, Sto!Transferred, Sto!UnregisterName, Sto!Quiet, Sto!None, Sto!tableVars, Sto!registry, Sto!data
<1>2. Sto!OrderedUpdates'
  BY OwnerAssumption DEF StoreInv, Sto!TypeOK, Sto!OrderedUpdates, Sto!NameRegistered, UpdatesUnordered, NameCarried, Sto!EndUpdate, Sto!Calls, Sto!Access, Sto!Transferred, Sto!UnregisterName, Sto!Quiet, Sto!None, Sto!tableVars, Sto!registry, Sto!data
<1>3. Sto!NameRegistered'
  BY OwnerAssumption DEF StoreInv, Sto!TypeOK, Sto!OrderedUpdates, Sto!NameRegistered, UpdatesUnordered, NameCarried, Sto!EndUpdate, Sto!Calls, Sto!Access, Sto!Transferred, Sto!UnregisterName, Sto!Quiet, Sto!None, Sto!tableVars, Sto!registry, Sto!data
<1>4. UpdatesUnordered'
  BY OwnerAssumption DEF StoreInv, Sto!TypeOK, Sto!OrderedUpdates, Sto!NameRegistered, UpdatesUnordered, NameCarried, Sto!EndUpdate, Sto!Calls, Sto!Access, Sto!Transferred, Sto!UnregisterName, Sto!Quiet, Sto!None, Sto!tableVars, Sto!registry, Sto!data
<1>5. NameCarried'
  BY OwnerAssumption DEF StoreInv, Sto!TypeOK, Sto!OrderedUpdates, Sto!NameRegistered, UpdatesUnordered, NameCarried, Sto!EndUpdate, Sto!Calls, Sto!Access, Sto!Transferred, Sto!UnregisterName, Sto!Quiet, Sto!None, Sto!tableVars, Sto!registry, Sto!data
<1>6. QED BY <1>1, <1>2, <1>3, <1>4, <1>5 DEF StoreInv

LEMMA StoreUpdateOrderedOK == ASSUME StoreInv, NEW p \in Owner, NEW t \in Table, Sto!UpdateOrdered(p, t) PROVE StoreInv'
<1>1. Sto!TypeOK'
  BY OwnerAssumption DEF StoreInv, Sto!TypeOK, Sto!OrderedUpdates, Sto!NameRegistered, UpdatesUnordered, NameCarried, Sto!UpdateOrdered, Sto!Calls, Sto!Access, Sto!Transferred, Sto!UnregisterName, Sto!Quiet, Sto!None, Sto!tableVars, Sto!registry, Sto!data
<1>2. Sto!OrderedUpdates'
  BY OwnerAssumption DEF StoreInv, Sto!TypeOK, Sto!OrderedUpdates, Sto!NameRegistered, UpdatesUnordered, NameCarried, Sto!UpdateOrdered, Sto!Calls, Sto!Access, Sto!Transferred, Sto!UnregisterName, Sto!Quiet, Sto!None, Sto!tableVars, Sto!registry, Sto!data
<1>3. Sto!NameRegistered'
  BY OwnerAssumption DEF StoreInv, Sto!TypeOK, Sto!OrderedUpdates, Sto!NameRegistered, UpdatesUnordered, NameCarried, Sto!UpdateOrdered, Sto!Calls, Sto!Access, Sto!Transferred, Sto!UnregisterName, Sto!Quiet, Sto!None, Sto!tableVars, Sto!registry, Sto!data
<1>4. UpdatesUnordered'
  BY OwnerAssumption DEF StoreInv, Sto!TypeOK, Sto!OrderedUpdates, Sto!NameRegistered, UpdatesUnordered, NameCarried, Sto!UpdateOrdered, Sto!Calls, Sto!Access, Sto!Transferred, Sto!UnregisterName, Sto!Quiet, Sto!None, Sto!tableVars, Sto!registry, Sto!data
<1>5. NameCarried'
  BY OwnerAssumption DEF StoreInv, Sto!TypeOK, Sto!OrderedUpdates, Sto!NameRegistered, UpdatesUnordered, NameCarried, Sto!UpdateOrdered, Sto!Calls, Sto!Access, Sto!Transferred, Sto!UnregisterName, Sto!Quiet, Sto!None, Sto!tableVars, Sto!registry, Sto!data
<1>6. QED BY <1>1, <1>2, <1>3, <1>4, <1>5 DEF StoreInv

LEMMA StoreGiveAwayOK == ASSUME StoreInv, NEW p \in Owner, NEW t \in Table, NEW q \in Owner, Sto!GiveAway(p, t, q) PROVE StoreInv'
<1>1. Sto!TypeOK'
  BY StoreTransferredType, OwnerAssumption DEF StoreInv, Sto!TypeOK, Sto!OrderedUpdates, Sto!NameRegistered, UpdatesUnordered, NameCarried, Sto!GiveAway, Sto!Calls, Sto!Access, Sto!UnregisterName, Sto!Quiet, Sto!None, Sto!tableVars, Sto!registry, Sto!data
<1>2. Sto!OrderedUpdates'
  BY OwnerAssumption DEF StoreInv, Sto!TypeOK, Sto!OrderedUpdates, Sto!NameRegistered, UpdatesUnordered, NameCarried, Sto!GiveAway, Sto!Calls, Sto!Access, Sto!Transferred, Sto!UnregisterName, Sto!Quiet, Sto!None, Sto!tableVars, Sto!registry, Sto!data
<1>3. Sto!NameRegistered'
  BY OwnerAssumption DEF StoreInv, Sto!TypeOK, Sto!OrderedUpdates, Sto!NameRegistered, UpdatesUnordered, NameCarried, Sto!GiveAway, Sto!Calls, Sto!Access, Sto!Transferred, Sto!UnregisterName, Sto!Quiet, Sto!None, Sto!tableVars, Sto!registry, Sto!data
<1>4. UpdatesUnordered'
  BY OwnerAssumption DEF StoreInv, Sto!TypeOK, Sto!OrderedUpdates, Sto!NameRegistered, UpdatesUnordered, NameCarried, Sto!GiveAway, Sto!Calls, Sto!Access, Sto!Transferred, Sto!UnregisterName, Sto!Quiet, Sto!None, Sto!tableVars, Sto!registry, Sto!data
<1>5. NameCarried'
  BY OwnerAssumption DEF StoreInv, Sto!TypeOK, Sto!OrderedUpdates, Sto!NameRegistered, UpdatesUnordered, NameCarried, Sto!GiveAway, Sto!Calls, Sto!Access, Sto!Transferred, Sto!UnregisterName, Sto!Quiet, Sto!None, Sto!tableVars, Sto!registry, Sto!data
<1>6. QED BY <1>1, <1>2, <1>3, <1>4, <1>5 DEF StoreInv

LEMMA StoreExitOK == ASSUME StoreInv, NEW p \in Owner, Sto!Exit(p) PROVE StoreInv'
<1>1. Sto!TypeOK'
  BY OwnerAssumption DEF StoreInv, Sto!TypeOK, Sto!OrderedUpdates, Sto!NameRegistered, UpdatesUnordered, NameCarried, Sto!Exit, Sto!Calls, Sto!Access, Sto!Transferred, Sto!UnregisterName, Sto!Quiet, Sto!None, Sto!tableVars, Sto!registry, Sto!data
<1>2. Sto!OrderedUpdates'
  BY OwnerAssumption DEF StoreInv, Sto!TypeOK, Sto!OrderedUpdates, Sto!NameRegistered, UpdatesUnordered, NameCarried, Sto!Exit, Sto!Calls, Sto!Access, Sto!Transferred, Sto!UnregisterName, Sto!Quiet, Sto!None, Sto!tableVars, Sto!registry, Sto!data
<1>3. Sto!NameRegistered'
  BY OwnerAssumption DEF StoreInv, Sto!TypeOK, Sto!OrderedUpdates, Sto!NameRegistered, UpdatesUnordered, NameCarried, Sto!Exit, Sto!Calls, Sto!Access, Sto!Transferred, Sto!UnregisterName, Sto!Quiet, Sto!None, Sto!tableVars, Sto!registry, Sto!data
<1>4. UpdatesUnordered'
  BY OwnerAssumption DEF StoreInv, Sto!TypeOK, Sto!OrderedUpdates, Sto!NameRegistered, UpdatesUnordered, NameCarried, Sto!Exit, Sto!Calls, Sto!Access, Sto!Transferred, Sto!UnregisterName, Sto!Quiet, Sto!None, Sto!tableVars, Sto!registry, Sto!data
<1>5. NameCarried'
  BY OwnerAssumption DEF StoreInv, Sto!TypeOK, Sto!OrderedUpdates, Sto!NameRegistered, UpdatesUnordered, NameCarried, Sto!Exit, Sto!Calls, Sto!Access, Sto!Transferred, Sto!UnregisterName, Sto!Quiet, Sto!None, Sto!tableVars, Sto!registry, Sto!data
<1>6. QED BY <1>1, <1>2, <1>3, <1>4, <1>5 DEF StoreInv

LEMMA StoreInheritOK == ASSUME StoreInv, NEW p \in Owner, NEW t \in Table, Sto!Inherit(p, t) PROVE StoreInv'
<1>1. Sto!TypeOK'
  BY StoreTransferredType, OwnerAssumption DEF StoreInv, Sto!TypeOK, Sto!OrderedUpdates, Sto!NameRegistered, UpdatesUnordered, NameCarried, Sto!Inherit, Sto!Calls, Sto!Access, Sto!UnregisterName, Sto!Quiet, Sto!None, Sto!tableVars, Sto!registry, Sto!data
<1>2. Sto!OrderedUpdates'
  BY OwnerAssumption DEF StoreInv, Sto!TypeOK, Sto!OrderedUpdates, Sto!NameRegistered, UpdatesUnordered, NameCarried, Sto!Inherit, Sto!Calls, Sto!Access, Sto!Transferred, Sto!UnregisterName, Sto!Quiet, Sto!None, Sto!tableVars, Sto!registry, Sto!data
<1>3. Sto!NameRegistered'
  BY OwnerAssumption DEF StoreInv, Sto!TypeOK, Sto!OrderedUpdates, Sto!NameRegistered, UpdatesUnordered, NameCarried, Sto!Inherit, Sto!Calls, Sto!Access, Sto!Transferred, Sto!UnregisterName, Sto!Quiet, Sto!None, Sto!tableVars, Sto!registry, Sto!data
<1>4. UpdatesUnordered'
  BY OwnerAssumption DEF StoreInv, Sto!TypeOK, Sto!OrderedUpdates, Sto!NameRegistered, UpdatesUnordered, NameCarried, Sto!Inherit, Sto!Calls, Sto!Access, Sto!Transferred, Sto!UnregisterName, Sto!Quiet, Sto!None, Sto!tableVars, Sto!registry, Sto!data
<1>5. NameCarried'
  BY OwnerAssumption DEF StoreInv, Sto!TypeOK, Sto!OrderedUpdates, Sto!NameRegistered, UpdatesUnordered, NameCarried, Sto!Inherit, Sto!Calls, Sto!Access, Sto!Transferred, Sto!UnregisterName, Sto!Quiet, Sto!None, Sto!tableVars, Sto!registry, Sto!data
<1>6. QED BY <1>1, <1>2, <1>3, <1>4, <1>5 DEF StoreInv

LEMMA StoreUnregisterOK == ASSUME StoreInv, NEW p \in Owner, NEW t \in Table, Sto!Unregister(p, t) PROVE StoreInv'
<1>1. CASE st_meta[t] = Sto!Nobody
  BY <1>1 DEF StoreInv, Sto!TypeOK, Sto!OrderedUpdates, Sto!NameRegistered, UpdatesUnordered, NameCarried, Sto!Unregister, Sto!Calls, Sto!Access, Sto!Transferred, Sto!UnregisterName, Sto!Quiet, Sto!None, Sto!tableVars, Sto!registry, Sto!data
<1>2. CASE st_meta[t] # Sto!Nobody
  <2>1. /\ st_meta' = [st_meta EXCEPT ![t] = Sto!Nobody]
        /\ st_leaving' = [st_leaving EXCEPT ![p] = [table |-> t, of |-> st_meta[t]]]
        /\ st_cleaning' = [st_cleaning EXCEPT ![p] = @ \ {t}]
        /\ UNCHANGED <<st_heir, st_names, st_byOwner, Sto!tableVars, Sto!data, st_alive, st_inherited, st_storeCalls>>
    BY <1>2 DEF Sto!Unregister
  <2>2. Sto!TypeOK'
    BY <2>1 DEF StoreInv, Sto!TypeOK, Sto!tableVars, Sto!data
  <2>3. Sto!NameRegistered'
    <3>1. st_leaving'[p].table = t /\ \A q \in Owner \ {p} : st_leaving'[q] = st_leaving[q]
      BY <2>1 DEF StoreInv, Sto!TypeOK
    <3>2. \A q \in Owner : st_leaving[q].table = st_names => q # p \/ st_names = Sto!NoTable
      BY DEF Sto!Unregister, Sto!None
    <3>3. \A u \in Table \ {t} : st_meta'[u] = st_meta[u]
      BY <2>1 DEF StoreInv, Sto!TypeOK
    <3>4. QED BY <2>1, <3>1, <3>2, <3>3 DEF StoreInv, Sto!TypeOK, Sto!NameRegistered
  <2>4. Sto!OrderedUpdates' /\ UpdatesUnordered' /\ NameCarried'
    BY <2>1 DEF StoreInv, Sto!TypeOK, Sto!OrderedUpdates, Sto!NameRegistered, UpdatesUnordered, NameCarried, Sto!Calls, Sto!Access, Sto!Transferred, Sto!UnregisterName, Sto!Quiet, Sto!None, Sto!tableVars, Sto!registry, Sto!data
  <2>5. QED BY <2>2, <2>3, <2>4 DEF StoreInv
<1>3. QED BY <1>1, <1>2

LEMMA StoreLoseNameOK == ASSUME StoreInv, NEW p \in Owner, Sto!LoseName(p) PROVE StoreInv'
<1>1. Sto!TypeOK'
  BY OwnerAssumption DEF StoreInv, Sto!TypeOK, Sto!OrderedUpdates, Sto!NameRegistered, UpdatesUnordered, NameCarried, Sto!LoseName, Sto!Calls, Sto!Access, Sto!Transferred, Sto!UnregisterName, Sto!Quiet, Sto!None, Sto!tableVars, Sto!registry, Sto!data
<1>2. Sto!OrderedUpdates'
  BY OwnerAssumption DEF StoreInv, Sto!TypeOK, Sto!OrderedUpdates, Sto!NameRegistered, UpdatesUnordered, NameCarried, Sto!LoseName, Sto!Calls, Sto!Access, Sto!Transferred, Sto!UnregisterName, Sto!Quiet, Sto!None, Sto!tableVars, Sto!registry, Sto!data
<1>3. Sto!NameRegistered'
  BY OwnerAssumption DEF StoreInv, Sto!TypeOK, Sto!OrderedUpdates, Sto!NameRegistered, UpdatesUnordered, NameCarried, Sto!LoseName, Sto!Calls, Sto!Access, Sto!Transferred, Sto!UnregisterName, Sto!Quiet, Sto!None, Sto!tableVars, Sto!registry, Sto!data
<1>4. UpdatesUnordered'
  BY OwnerAssumption DEF StoreInv, Sto!TypeOK, Sto!OrderedUpdates, Sto!NameRegistered, UpdatesUnordered, NameCarried, Sto!LoseName, Sto!Calls, Sto!Access, Sto!Transferred, Sto!UnregisterName, Sto!Quiet, Sto!None, Sto!tableVars, Sto!registry, Sto!data
<1>5. NameCarried'
  BY OwnerAssumption DEF StoreInv, Sto!TypeOK, Sto!OrderedUpdates, Sto!NameRegistered, UpdatesUnordered, NameCarried, Sto!LoseName, Sto!Calls, Sto!Access, Sto!Transferred, Sto!UnregisterName, Sto!Quiet, Sto!None, Sto!tableVars, Sto!registry, Sto!data
<1>6. QED BY <1>1, <1>2, <1>3, <1>4, <1>5 DEF StoreInv

LEMMA StoreDropOwnerOK == ASSUME StoreInv, NEW p \in Owner, Sto!DropOwner(p) PROVE StoreInv'
<1>1. Sto!TypeOK'
  BY OwnerAssumption DEF StoreInv, Sto!TypeOK, Sto!OrderedUpdates, Sto!NameRegistered, UpdatesUnordered, NameCarried, Sto!DropOwner, Sto!Calls, Sto!Access, Sto!Transferred, Sto!UnregisterName, Sto!Quiet, Sto!None, Sto!tableVars, Sto!registry, Sto!data
<1>2. Sto!OrderedUpdates'
  BY OwnerAssumption DEF StoreInv, Sto!TypeOK, Sto!OrderedUpdates, Sto!NameRegistered, UpdatesUnordered, NameCarried, Sto!DropOwner, Sto!Calls, Sto!Access, Sto!Transferred, Sto!UnregisterName, Sto!Quiet, Sto!None, Sto!tableVars, Sto!registry, Sto!data
<1>3. Sto!NameRegistered'
  BY OwnerAssumption DEF StoreInv, Sto!TypeOK, Sto!OrderedUpdates, Sto!NameRegistered, UpdatesUnordered, NameCarried, Sto!DropOwner, Sto!Calls, Sto!Access, Sto!Transferred, Sto!UnregisterName, Sto!Quiet, Sto!None, Sto!tableVars, Sto!registry, Sto!data
<1>4. UpdatesUnordered'
  BY OwnerAssumption DEF StoreInv, Sto!TypeOK, Sto!OrderedUpdates, Sto!NameRegistered, UpdatesUnordered, NameCarried, Sto!DropOwner, Sto!Calls, Sto!Access, Sto!Transferred, Sto!UnregisterName, Sto!Quiet, Sto!None, Sto!tableVars, Sto!registry, Sto!data
<1>5. NameCarried'
  BY OwnerAssumption DEF StoreInv, Sto!TypeOK, Sto!OrderedUpdates, Sto!NameRegistered, UpdatesUnordered, NameCarried, Sto!DropOwner, Sto!Calls, Sto!Access, Sto!Transferred, Sto!UnregisterName, Sto!Quiet, Sto!None, Sto!tableVars, Sto!registry, Sto!data
<1>6. QED BY <1>1, <1>2, <1>3, <1>4, <1>5 DEF StoreInv

LEMMA StoreStepOK == StoreInv /\ [Sto!Next]_(Sto!vars) => StoreInv'
<1> SUFFICES ASSUME StoreInv, [Sto!Next]_(Sto!vars) PROVE StoreInv'
  OBVIOUS
<1>1. ASSUME NEW p \in Owner, Sto!EndUpdate(p) \/ Sto!Exit(p) \/ Sto!DropOwner(p) \/ Sto!LoseName(p) PROVE StoreInv'
  BY <1>1, StoreEndUpdateOK, StoreExitOK, StoreDropOwnerOK, StoreLoseNameOK
<1>2. ASSUME NEW p \in Owner, NEW t \in Table,
             \/ Sto!Create(p, t) \/ Sto!Write(p, t) \/ Sto!BeginUpdate(p, t) \/ Sto!UpdateOrdered(p, t)
             \/ Sto!Inherit(p, t) \/ Sto!Unregister(p, t)
      PROVE  StoreInv'
  BY <1>2, StoreCreateOK, StoreWriteOK, StoreBeginUpdateOK, StoreUpdateOrderedOK, StoreInheritOK, StoreUnregisterOK
<1>3. ASSUME NEW p \in Owner, NEW t \in Table, NEW q \in Owner, Sto!GiveAway(p, t, q) PROVE StoreInv'
  BY <1>3, StoreGiveAwayOK
<1>4. CASE UNCHANGED Sto!vars
  BY <1>4 DEF Sto!vars, Sto!tableVars, Sto!registry, Sto!data, StoreInv, Sto!TypeOK, Sto!OrderedUpdates, Sto!NameRegistered, UpdatesUnordered, NameCarried
<1>5. QED BY <1>1, <1>2, <1>3, <1>4 DEF Sto!Next

LEMMA StoreInFocus == StoreInv /\ [ServicesNext]_servicesVars => StoreInv'
<1>1. ServicesNext => Sto!Next \/ UNCHANGED stVars
  BY DEF ServicesNext
<1>2. UNCHANGED servicesVars => UNCHANGED stVars
  BY DEF servicesVars
<1>3. UNCHANGED stVars => UNCHANGED Sto!vars
  BY DEF stVars, Sto!vars, Sto!tableVars, Sto!registry, Sto!data
<1>4. QED BY <1>1, <1>2, <1>3, StoreStepOK

(* store: concurrent updates of an OrderedStore do not lose one another, and the *)
(* name leads to a registered table, or to one a cleanup is about to take it from. *)
THEOREM StoreCorrect == ServicesSpec => []StoreSafe
<1>1. ServicesInit => StoreInv
  BY StoreInitOK DEF ServicesInit
<1>2. StoreInv => StoreSafe
  BY DEF StoreInv, StoreSafe
<1>3. QED BY <1>1, <1>2, StoreInFocus, PTL DEF ServicesSpec

-----------------------------------------------------------------------------
(* A DOWN message in the mailbox is about a child that has ended, and the pid of *)
(* one is never used again.                                                      *)
DownMeansEnded ==
    /\ \A i \in 1 .. Len(ds_box) : ds_box[i].down \notin ds_living /\ ds_box[i].down < ds_nextChild
    /\ \A p \in ds_living \cup ds_tabled : p < ds_nextChild

Starts ==
    \A c \in Caller : ds_step[c] # "idle" => ds_starting[c] \in Dyn!Child /\ ds_starting[c] < ds_nextChild

DynamicInv == Dyn!TypeOK /\ Dyn!LeavesTold /\ DownMeansEnded /\ Starts

LEMMA DynamicInitOK == Dyn!Init => DynamicInv
<1> SUFFICES ASSUME Dyn!Init PROVE DynamicInv
  OBVIOUS
<1>1. Dyn!TypeOK
  <2>1. ds_box \in Seq(Dyn!Message) /\ ds_starting \in [Caller -> Dyn!Child \cup {Dyn!NoChild}]
    BY DEF Dyn!Init
  <2>2. \A s \in {ds_children, ds_mapped, ds_living, ds_told, ds_tabled} : s \subseteq Dyn!Child
    BY DEF Dyn!Init
  <2>3. ds_nextChild \in Nat \ {0} /\ ds_restarts \in Nat /\ ds_step \in [Caller -> {"idle", "started", "monitored", "inserted"}]
    BY DEF Dyn!Init
  <2>4. ds_restart \in [Dyn!Child -> Dyn!Restart] /\ ds_watcher \in [Dyn!Child -> Caller \cup {Dyn!Sup}]
    BY DEF Dyn!Init
  <2>5. QED BY <2>1, <2>2, <2>3, <2>4 DEF Dyn!Init, Dyn!TypeOK
<1>2. Len(ds_box) = 0
  BY DEF Dyn!Init
<1>3. Dyn!LeavesTold /\ DownMeansEnded /\ Starts
  BY <1>2 DEF Dyn!Init, Dyn!LeavesTold, DownMeansEnded, Starts
<1>4. QED BY <1>1, <1>3 DEF DynamicInv

LEMMA DynamicDownsAreNumbers == Dyn!TypeOK => \A i \in 1 .. Len(ds_box) : ds_box[i].down \in Int
<1> SUFFICES ASSUME Dyn!TypeOK, NEW i \in 1 .. Len(ds_box) PROVE ds_box[i].down \in Int
  OBVIOUS
<1>1. ds_box[i] \in Dyn!Message
  BY ElementOfSeq DEF Dyn!TypeOK
<1>2. QED BY <1>1 DEF Dyn!Message, Dyn!Child, Dyn!NoChild

LEMMA DynamicStartSupOK == ASSUME DynamicInv, Dyn!StartSup PROVE DynamicInv'
<1>1. Dyn!TypeOK'
  BY DEF DynamicInv, Dyn!TypeOK, Dyn!LeavesTold, DownMeansEnded, Starts, Dyn!StartSup, Dyn!Moves, Dyn!TakesOut, Dyn!tables, Dyn!callVars, Dyn!childVars, Dyn!Child, Dyn!NoChild, Dyn!ExitSignal
<1>2. Dyn!LeavesTold'
  BY DEF DynamicInv, Dyn!TypeOK, Dyn!LeavesTold, DownMeansEnded, Starts, Dyn!StartSup, Dyn!Moves, Dyn!TakesOut, Dyn!tables, Dyn!callVars, Dyn!childVars, Dyn!Child, Dyn!NoChild, Dyn!ExitSignal
<1>3. DownMeansEnded'
  BY DEF DynamicInv, Dyn!TypeOK, Dyn!LeavesTold, DownMeansEnded, Starts, Dyn!StartSup, Dyn!Moves, Dyn!TakesOut, Dyn!tables, Dyn!callVars, Dyn!childVars, Dyn!Child, Dyn!NoChild, Dyn!ExitSignal
<1>4. Starts'
  BY DEF DynamicInv, Dyn!TypeOK, Dyn!LeavesTold, DownMeansEnded, Starts, Dyn!StartSup, Dyn!Moves, Dyn!TakesOut, Dyn!tables, Dyn!callVars, Dyn!childVars, Dyn!Child, Dyn!NoChild, Dyn!ExitSignal
<1>5. QED BY <1>1, <1>2, <1>3, <1>4 DEF DynamicInv

LEMMA DynamicRegisterNameOK == ASSUME DynamicInv, Dyn!RegisterName PROVE DynamicInv'
<1>1. Dyn!TypeOK'
  BY DEF DynamicInv, Dyn!TypeOK, Dyn!LeavesTold, DownMeansEnded, Starts, Dyn!RegisterName, Dyn!Moves, Dyn!TakesOut, Dyn!tables, Dyn!callVars, Dyn!childVars, Dyn!Child, Dyn!NoChild, Dyn!ExitSignal
<1>2. Dyn!LeavesTold'
  BY DEF DynamicInv, Dyn!TypeOK, Dyn!LeavesTold, DownMeansEnded, Starts, Dyn!RegisterName, Dyn!Moves, Dyn!TakesOut, Dyn!tables, Dyn!callVars, Dyn!childVars, Dyn!Child, Dyn!NoChild, Dyn!ExitSignal
<1>3. DownMeansEnded'
  BY DEF DynamicInv, Dyn!TypeOK, Dyn!LeavesTold, DownMeansEnded, Starts, Dyn!RegisterName, Dyn!Moves, Dyn!TakesOut, Dyn!tables, Dyn!callVars, Dyn!childVars, Dyn!Child, Dyn!NoChild, Dyn!ExitSignal
<1>4. Starts'
  BY DEF DynamicInv, Dyn!TypeOK, Dyn!LeavesTold, DownMeansEnded, Starts, Dyn!RegisterName, Dyn!Moves, Dyn!TakesOut, Dyn!tables, Dyn!callVars, Dyn!childVars, Dyn!Child, Dyn!NoChild, Dyn!ExitSignal
<1>5. QED BY <1>1, <1>2, <1>3, <1>4 DEF DynamicInv

LEMMA DynamicSignalledOK == ASSUME DynamicInv, Dyn!Signalled PROVE DynamicInv'
<1>1. Dyn!TypeOK'
  <2>1. Dyn!ExitSignal \in Dyn!Message
    BY DEF Dyn!ExitSignal, Dyn!Message, Dyn!NoChild
  <2>2. ds_box' \in Seq(Dyn!Message)
    BY <2>1 DEF Dyn!Signalled, DynamicInv, Dyn!TypeOK
  <2>3. QED BY <2>2 DEF Dyn!Signalled, DynamicInv, Dyn!TypeOK, Dyn!tables, Dyn!callVars, Dyn!childVars
<1>2. Dyn!LeavesTold'
  BY DEF DynamicInv, Dyn!TypeOK, Dyn!LeavesTold, DownMeansEnded, Starts, Dyn!Signalled, Dyn!Moves, Dyn!TakesOut, Dyn!tables, Dyn!callVars, Dyn!childVars, Dyn!Child, Dyn!NoChild, Dyn!ExitSignal
<1>3. DownMeansEnded'
  BY DEF DynamicInv, Dyn!TypeOK, Dyn!LeavesTold, DownMeansEnded, Starts, Dyn!Signalled, Dyn!Moves, Dyn!TakesOut, Dyn!tables, Dyn!callVars, Dyn!childVars, Dyn!Child, Dyn!NoChild, Dyn!ExitSignal
<1>4. Starts'
  BY DEF DynamicInv, Dyn!TypeOK, Dyn!LeavesTold, DownMeansEnded, Starts, Dyn!Signalled, Dyn!Moves, Dyn!TakesOut, Dyn!tables, Dyn!callVars, Dyn!childVars, Dyn!Child, Dyn!NoChild, Dyn!ExitSignal
<1>5. QED BY <1>1, <1>2, <1>3, <1>4 DEF DynamicInv

LEMMA DynamicStartChildOK == ASSUME DynamicInv, NEW c \in Caller, Dyn!StartChild(c) PROVE DynamicInv'
<1>1. Dyn!TypeOK'
  BY DEF DynamicInv, Dyn!TypeOK, Dyn!LeavesTold, DownMeansEnded, Starts, Dyn!StartChild, Dyn!Moves, Dyn!TakesOut, Dyn!tables, Dyn!callVars, Dyn!childVars, Dyn!Child, Dyn!NoChild, Dyn!ExitSignal
<1>2. Dyn!LeavesTold'
  BY DEF DynamicInv, Dyn!TypeOK, Dyn!LeavesTold, DownMeansEnded, Starts, Dyn!StartChild, Dyn!Moves, Dyn!TakesOut, Dyn!tables, Dyn!callVars, Dyn!childVars, Dyn!Child, Dyn!NoChild, Dyn!ExitSignal
<1>3. DownMeansEnded'
  <2>1. \A i \in 1 .. Len(ds_box) : ds_box[i].down \in Int
    BY DynamicDownsAreNumbers DEF DynamicInv
  <2>2. ds_nextChild' = ds_nextChild + 1 /\ ds_living' = ds_living \cup {ds_nextChild} /\ UNCHANGED <<ds_box, ds_tabled>>
    BY DEF Dyn!StartChild, Dyn!Moves, Dyn!tables
  <2>3. \A i \in 1 .. Len(ds_box) : ds_box[i].down \notin ds_living' /\ ds_box[i].down < ds_nextChild'
    BY <2>1, <2>2 DEF DynamicInv, Dyn!TypeOK, DownMeansEnded, Dyn!Child
  <2>4. \A p \in ds_living' \cup ds_tabled : p < ds_nextChild'
    BY <2>2 DEF DynamicInv, Dyn!TypeOK, DownMeansEnded, Dyn!Child
  <2>5. QED BY <2>2, <2>3, <2>4 DEF DownMeansEnded
<1>4. Starts'
  BY DEF DynamicInv, Dyn!TypeOK, Dyn!LeavesTold, DownMeansEnded, Starts, Dyn!StartChild, Dyn!Moves, Dyn!TakesOut, Dyn!tables, Dyn!callVars, Dyn!childVars, Dyn!Child, Dyn!NoChild, Dyn!ExitSignal
<1>5. QED BY <1>1, <1>2, <1>3, <1>4 DEF DynamicInv

LEMMA DynamicMonitorOK == ASSUME DynamicInv, NEW c \in Caller, Dyn!Monitor(c) PROVE DynamicInv'
<1>1. Dyn!TypeOK'
  BY DEF DynamicInv, Dyn!TypeOK, Dyn!LeavesTold, DownMeansEnded, Starts, Dyn!Monitor, Dyn!Moves, Dyn!TakesOut, Dyn!tables, Dyn!callVars, Dyn!childVars, Dyn!Child, Dyn!NoChild, Dyn!ExitSignal
<1>2. Dyn!LeavesTold'
  BY DEF DynamicInv, Dyn!TypeOK, Dyn!LeavesTold, DownMeansEnded, Starts, Dyn!Monitor, Dyn!Moves, Dyn!TakesOut, Dyn!tables, Dyn!callVars, Dyn!childVars, Dyn!Child, Dyn!NoChild, Dyn!ExitSignal
<1>3. DownMeansEnded'
  BY DEF DynamicInv, Dyn!TypeOK, Dyn!LeavesTold, DownMeansEnded, Starts, Dyn!Monitor, Dyn!Moves, Dyn!TakesOut, Dyn!tables, Dyn!callVars, Dyn!childVars, Dyn!Child, Dyn!NoChild, Dyn!ExitSignal
<1>4. Starts'
  BY DEF DynamicInv, Dyn!TypeOK, Dyn!LeavesTold, DownMeansEnded, Starts, Dyn!Monitor, Dyn!Moves, Dyn!TakesOut, Dyn!tables, Dyn!callVars, Dyn!childVars, Dyn!Child, Dyn!NoChild, Dyn!ExitSignal
<1>5. QED BY <1>1, <1>2, <1>3, <1>4 DEF DynamicInv

LEMMA DynamicInsertOK == ASSUME DynamicInv, NEW c \in Caller, Dyn!Insert(c) PROVE DynamicInv'
<1>1. Dyn!TypeOK'
  BY DEF DynamicInv, Dyn!TypeOK, Dyn!LeavesTold, DownMeansEnded, Starts, Dyn!Insert, Dyn!Moves, Dyn!TakesOut, Dyn!tables, Dyn!callVars, Dyn!childVars, Dyn!Child, Dyn!NoChild, Dyn!ExitSignal
<1>2. Dyn!LeavesTold'
  BY DEF DynamicInv, Dyn!TypeOK, Dyn!LeavesTold, DownMeansEnded, Starts, Dyn!Insert, Dyn!Moves, Dyn!TakesOut, Dyn!tables, Dyn!callVars, Dyn!childVars, Dyn!Child, Dyn!NoChild, Dyn!ExitSignal
<1>3. DownMeansEnded'
  BY DEF DynamicInv, Dyn!TypeOK, Dyn!LeavesTold, DownMeansEnded, Starts, Dyn!Insert, Dyn!Moves, Dyn!TakesOut, Dyn!tables, Dyn!callVars, Dyn!childVars, Dyn!Child, Dyn!NoChild, Dyn!ExitSignal
<1>4. Starts'
  BY DEF DynamicInv, Dyn!TypeOK, Dyn!LeavesTold, DownMeansEnded, Starts, Dyn!Insert, Dyn!Moves, Dyn!TakesOut, Dyn!tables, Dyn!callVars, Dyn!childVars, Dyn!Child, Dyn!NoChild, Dyn!ExitSignal
<1>5. QED BY <1>1, <1>2, <1>3, <1>4 DEF DynamicInv

LEMMA DynamicMapOK == ASSUME DynamicInv, NEW c \in Caller, Dyn!Map(c) PROVE DynamicInv'
<1>1. Dyn!TypeOK'
  BY DEF DynamicInv, Dyn!TypeOK, Dyn!LeavesTold, DownMeansEnded, Starts, Dyn!Map, Dyn!Moves, Dyn!TakesOut, Dyn!tables, Dyn!callVars, Dyn!childVars, Dyn!Child, Dyn!NoChild, Dyn!ExitSignal
<1>2. Dyn!LeavesTold'
  BY DEF DynamicInv, Dyn!TypeOK, Dyn!LeavesTold, DownMeansEnded, Starts, Dyn!Map, Dyn!Moves, Dyn!TakesOut, Dyn!tables, Dyn!callVars, Dyn!childVars, Dyn!Child, Dyn!NoChild, Dyn!ExitSignal
<1>3. DownMeansEnded'
  BY DEF DynamicInv, Dyn!TypeOK, Dyn!LeavesTold, DownMeansEnded, Starts, Dyn!Map, Dyn!Moves, Dyn!TakesOut, Dyn!tables, Dyn!callVars, Dyn!childVars, Dyn!Child, Dyn!NoChild, Dyn!ExitSignal
<1>4. Starts'
  BY DEF DynamicInv, Dyn!TypeOK, Dyn!LeavesTold, DownMeansEnded, Starts, Dyn!Map, Dyn!Moves, Dyn!TakesOut, Dyn!tables, Dyn!callVars, Dyn!childVars, Dyn!Child, Dyn!NoChild, Dyn!ExitSignal
<1>5. QED BY <1>1, <1>2, <1>3, <1>4 DEF DynamicInv

LEMMA DynamicStopOK == ASSUME DynamicInv, NEW c \in Caller, Dyn!Stop(c) PROVE DynamicInv'
<1>1. Dyn!TypeOK'
  <2>1. ds_box' \in Seq(Dyn!Message)
    <3>1. Dyn!ExitSignal \in Dyn!Message
      BY DEF Dyn!ExitSignal, Dyn!Message, Dyn!NoChild
    <3>2. ds_box' = ds_box \/ ds_box' = Append(ds_box, Dyn!ExitSignal)
      BY DEF Dyn!Stop
    <3>3. QED BY <3>1, <3>2 DEF DynamicInv, Dyn!TypeOK
  <2>2. ds_shutdown' \in BOOLEAN /\ \A s \in {ds_children, ds_mapped, ds_living, ds_told, ds_tabled}' : s \subseteq Dyn!Child
    BY DEF Dyn!Stop, Dyn!TakesOut, DynamicInv, Dyn!TypeOK, Dyn!tables
  <2>3. QED BY <2>1, <2>2 DEF Dyn!Stop, DynamicInv, Dyn!TypeOK, Dyn!callVars, Dyn!childVars
<1>2. Dyn!LeavesTold'
  BY DEF DynamicInv, Dyn!TypeOK, Dyn!LeavesTold, DownMeansEnded, Starts, Dyn!Stop, Dyn!Moves, Dyn!TakesOut, Dyn!tables, Dyn!callVars, Dyn!childVars, Dyn!Child, Dyn!NoChild, Dyn!ExitSignal
<1>3. DownMeansEnded'
  BY DEF DynamicInv, Dyn!TypeOK, Dyn!LeavesTold, DownMeansEnded, Starts, Dyn!Stop, Dyn!Moves, Dyn!TakesOut, Dyn!tables, Dyn!callVars, Dyn!childVars, Dyn!Child, Dyn!NoChild, Dyn!ExitSignal
<1>4. Starts'
  BY DEF DynamicInv, Dyn!TypeOK, Dyn!LeavesTold, DownMeansEnded, Starts, Dyn!Stop, Dyn!Moves, Dyn!TakesOut, Dyn!tables, Dyn!callVars, Dyn!childVars, Dyn!Child, Dyn!NoChild, Dyn!ExitSignal
<1>5. QED BY <1>1, <1>2, <1>3, <1>4 DEF DynamicInv

LEMMA DynamicTerminateChildOK == ASSUME DynamicInv, NEW c \in Caller, NEW p \in Dyn!Child, Dyn!TerminateChild(c, p) PROVE DynamicInv'
<1>1. Dyn!TypeOK'
  BY DEF DynamicInv, Dyn!TypeOK, Dyn!LeavesTold, DownMeansEnded, Starts, Dyn!TerminateChild, Dyn!Moves, Dyn!TakesOut, Dyn!tables, Dyn!callVars, Dyn!childVars, Dyn!Child, Dyn!NoChild, Dyn!ExitSignal
<1>2. Dyn!LeavesTold'
  BY DEF DynamicInv, Dyn!TypeOK, Dyn!LeavesTold, DownMeansEnded, Starts, Dyn!TerminateChild, Dyn!Moves, Dyn!TakesOut, Dyn!tables, Dyn!callVars, Dyn!childVars, Dyn!Child, Dyn!NoChild, Dyn!ExitSignal
<1>3. DownMeansEnded'
  BY DEF DynamicInv, Dyn!TypeOK, Dyn!LeavesTold, DownMeansEnded, Starts, Dyn!TerminateChild, Dyn!Moves, Dyn!TakesOut, Dyn!tables, Dyn!callVars, Dyn!childVars, Dyn!Child, Dyn!NoChild, Dyn!ExitSignal
<1>4. Starts'
  BY DEF DynamicInv, Dyn!TypeOK, Dyn!LeavesTold, DownMeansEnded, Starts, Dyn!TerminateChild, Dyn!Moves, Dyn!TakesOut, Dyn!tables, Dyn!callVars, Dyn!childVars, Dyn!Child, Dyn!NoChild, Dyn!ExitSignal
<1>5. QED BY <1>1, <1>2, <1>3, <1>4 DEF DynamicInv

LEMMA DynamicChildExitsOK == ASSUME DynamicInv, NEW p \in Dyn!Child, Dyn!ChildExits(p) PROVE DynamicInv'
<1>1. Dyn!TypeOK'
  <2>1. ds_box' \in Seq(Dyn!Message)
    <3> SUFFICES ASSUME NEW b \in BOOLEAN, ds_box' = Append(ds_box, [down |-> p, abnormal |-> b])
                 PROVE  ds_box' \in Seq(Dyn!Message)
      BY DEF Dyn!ChildExits, DynamicInv, Dyn!TypeOK
    <3>1. [down |-> p, abnormal |-> b] \in Dyn!Message
      BY DEF Dyn!Message
    <3>2. QED BY <3>1 DEF DynamicInv, Dyn!TypeOK
  <2>2. QED BY <2>1 DEF Dyn!ChildExits, DynamicInv, Dyn!TypeOK, Dyn!tables, Dyn!callVars, Dyn!childVars
<1>2. Dyn!LeavesTold'
  BY DEF DynamicInv, Dyn!TypeOK, Dyn!LeavesTold, DownMeansEnded, Starts, Dyn!ChildExits, Dyn!Moves, Dyn!TakesOut, Dyn!tables, Dyn!callVars, Dyn!childVars, Dyn!Child, Dyn!NoChild, Dyn!ExitSignal
<1>3. DownMeansEnded'
  BY DEF DynamicInv, Dyn!TypeOK, Dyn!LeavesTold, DownMeansEnded, Starts, Dyn!ChildExits, Dyn!Moves, Dyn!TakesOut, Dyn!tables, Dyn!callVars, Dyn!childVars, Dyn!Child, Dyn!NoChild, Dyn!ExitSignal
<1>4. Starts'
  BY DEF DynamicInv, Dyn!TypeOK, Dyn!LeavesTold, DownMeansEnded, Starts, Dyn!ChildExits, Dyn!Moves, Dyn!TakesOut, Dyn!tables, Dyn!callVars, Dyn!childVars, Dyn!Child, Dyn!NoChild, Dyn!ExitSignal
<1>5. QED BY <1>1, <1>2, <1>3, <1>4 DEF DynamicInv

LEMMA DynamicSupTurnOK == ASSUME DynamicInv, Dyn!SupTurn PROVE DynamicInv'
<1> DEFINE msg == Head(ds_box)
<1>1. /\ ds_box \in Seq(Dyn!Message) /\ ds_box # <<>>
      /\ ds_box' = Tail(ds_box) /\ UNCHANGED <<ds_entry, Dyn!callVars>>
  BY DEF Dyn!SupTurn, DynamicInv, Dyn!TypeOK
<1>2. /\ msg = ds_box[1] /\ 1 \in 1 .. Len(ds_box)
      /\ msg \in Dyn!Message
  <2>1. Len(ds_box) \in Nat \ {0}
    BY <1>1, EmptySeq
  <2>2. QED BY <1>1, <2>1, ElementOfSeq
<1>3. /\ ds_box' \in Seq(Dyn!Message)
      /\ \A i \in 1 .. Len(ds_box') : i + 1 \in 1 .. Len(ds_box) /\ ds_box'[i] = ds_box[i + 1]
  BY <1>1, HeadTailProperties, LenProperties
<1>4. msg.down \notin ds_living /\ msg.down < ds_nextChild
  BY <1>2 DEF DynamicInv, DownMeansEnded
<1>5. CASE msg = Dyn!ExitSignal
  <2>1. /\ ds_children' = {} /\ ds_mapped' = ds_mapped \ ds_children /\ ds_told' = ds_told \cup ds_children
        /\ ds_tabled' = ds_tabled /\ ds_sup' = "ended" /\ ds_shutdown' = TRUE
        /\ UNCHANGED <<Dyn!childVars, ds_living, ds_restarts>>
    BY <1>5 DEF Dyn!SupTurn, Dyn!TakesOut
  <2>2. Dyn!TypeOK'
    BY <1>1, <1>3, <2>1 DEF DynamicInv, Dyn!TypeOK, Dyn!childVars, Dyn!callVars
  <2>3. Dyn!LeavesTold'
    BY <2>1 DEF DynamicInv, Dyn!LeavesTold
  <2>4. DownMeansEnded'
    BY <1>3, <2>1 DEF DynamicInv, DownMeansEnded, Dyn!childVars
  <2>5. Starts'
    BY <1>1, <2>1 DEF DynamicInv, Starts, Dyn!callVars, Dyn!childVars
  <2>6. QED BY <2>2, <2>3, <2>4, <2>5 DEF DynamicInv
<1>6. CASE msg # Dyn!ExitSignal /\ msg.down \in ds_mapped
  <2>1. Dyn!HandleDown(msg)
    BY <1>6 DEF Dyn!SupTurn
  <2> DEFINE again == Dyn!Restarts(msg) /\ ds_nextChild \in Dyn!Child
             ends == again /\ (ds_shutdown \/ ds_restarts = MaxRestarts)
             starts == again /\ ~ends
             gone == IF ends THEN ds_children ELSE {msg.down}
             new == IF starts THEN {ds_nextChild} ELSE {}
  <2>2. /\ ds_children' = (ds_children \ gone) \cup new
        /\ ds_mapped' = (ds_mapped \ gone) \cup new
        /\ ds_told' = ds_told \cup (gone \ {msg.down})
        /\ ds_tabled' = ds_tabled \cup new
        /\ ds_living' = ds_living \cup new
        /\ ds_watcher' = IF starts THEN [ds_watcher EXCEPT ![ds_nextChild] = Dyn!Sup] ELSE ds_watcher
        /\ ds_restart' = IF starts THEN [ds_restart EXCEPT ![ds_nextChild] = ds_restart[msg.down]] ELSE ds_restart
        /\ ds_nextChild' = IF starts THEN ds_nextChild + 1 ELSE ds_nextChild
        /\ ds_restarts' = IF starts THEN ds_restarts + 1 ELSE ds_restarts
        /\ ds_shutdown' = (ds_shutdown \/ ends)
        /\ ds_sup' = IF ends THEN "ended" ELSE "running"
    BY <2>1 DEF Dyn!HandleDown
  <2>3. new \subseteq Dyn!Child /\ gone \subseteq ds_children \cup {msg.down} /\ msg.down \in Dyn!Child
        /\ ds_nextChild' \in Nat \ {0} /\ ds_nextChild \leq ds_nextChild'
    BY <1>6, <2>2 DEF DynamicInv, Dyn!TypeOK
  <2>4. Dyn!TypeOK'
    <3>1. ds_watcher' \in [Dyn!Child -> Caller \cup {Dyn!Sup}] /\ ds_restart' \in [Dyn!Child -> Dyn!Restart]
      BY <2>2, <2>3 DEF DynamicInv, Dyn!TypeOK
    <3>2. ds_shutdown' \in BOOLEAN /\ ds_restarts' \in Nat
      BY <2>2 DEF DynamicInv, Dyn!TypeOK
    <3>3. \A s \in {ds_children, ds_mapped, ds_living, ds_told, ds_tabled}' : s \subseteq Dyn!Child
      BY <2>2, <2>3 DEF DynamicInv, Dyn!TypeOK
    <3> HIDE DEF again, ends, starts, gone, new
    <3>4. ds_sup' \in {"ended", "running"}
      BY <2>2
    <3>5. ds_entry' \in BOOLEAN /\ ds_starting' \in [Caller -> Dyn!Child \cup {Dyn!NoChild}]
          /\ ds_step' \in [Caller -> {"idle", "started", "monitored", "inserted"}]
      BY <1>1 DEF DynamicInv, Dyn!TypeOK, Dyn!callVars
    <3>6. QED BY <1>3, <2>3, <3>1, <3>2, <3>3, <3>4, <3>5 DEF Dyn!TypeOK
  <2>5. Dyn!LeavesTold'
    <3> SUFFICES ASSUME NEW p \in ds_tabled' \ ds_children' PROVE p \in ds_told' \/ p \notin ds_living'
      BY DEF Dyn!LeavesTold
    <3>1. p \in ds_tabled /\ p \notin new
      BY <2>2
    <3>2. p \in gone \/ p \notin ds_children
      BY <2>2
    <3>3. p \in ds_told \/ p \notin ds_living \/ p \in gone
      BY <3>1, <3>2 DEF DynamicInv, Dyn!LeavesTold
    <3>4. QED BY <1>4, <2>2, <3>1, <3>3
  <2>6. DownMeansEnded'
    <3>1. \A i \in 1 .. Len(ds_box') : ds_box'[i].down \in Int
          /\ ds_box'[i].down \notin ds_living /\ ds_box'[i].down < ds_nextChild
      BY <1>3, DynamicDownsAreNumbers DEF DynamicInv, DownMeansEnded
    <3>2. \A i \in 1 .. Len(ds_box') : ds_box'[i].down \notin ds_living' /\ ds_box'[i].down < ds_nextChild'
      BY <2>2, <2>3, <3>1 DEF DynamicInv, Dyn!TypeOK, Dyn!Child
    <3>3. \A p \in ds_living' \cup ds_tabled' : p < ds_nextChild'
      BY <2>2, <2>3 DEF DynamicInv, Dyn!TypeOK, DownMeansEnded, Dyn!Child
    <3>4. QED BY <3>2, <3>3 DEF DownMeansEnded
  <2>7. Starts'
    BY <1>1, <2>3 DEF DynamicInv, Dyn!TypeOK, Starts, Dyn!callVars, Dyn!Child
  <2>8. QED BY <2>4, <2>5, <2>6, <2>7 DEF DynamicInv
<1>7. CASE msg # Dyn!ExitSignal /\ msg.down \notin ds_mapped
  <2>1. UNCHANGED <<ds_sup, ds_shutdown, Dyn!tables, Dyn!childVars, ds_living, ds_restarts>>
    BY <1>7 DEF Dyn!SupTurn
  <2>2. Dyn!TypeOK'
    BY <1>1, <1>3, <2>1 DEF DynamicInv, Dyn!TypeOK, Dyn!tables, Dyn!childVars, Dyn!callVars
  <2>3. Dyn!LeavesTold' /\ Starts'
    BY <1>1, <2>1 DEF DynamicInv, Dyn!LeavesTold, Starts, Dyn!tables, Dyn!childVars, Dyn!callVars
  <2>4. DownMeansEnded'
    BY <1>3, <2>1 DEF DynamicInv, DownMeansEnded, Dyn!tables, Dyn!childVars
  <2>5. QED BY <2>2, <2>3, <2>4 DEF DynamicInv
<1>8. QED BY <1>5, <1>6, <1>7

LEMMA DynamicStepOK == DynamicInv /\ [Dyn!Next]_(Dyn!vars) => DynamicInv'
<1> SUFFICES ASSUME DynamicInv, [Dyn!Next]_(Dyn!vars) PROVE DynamicInv'
  OBVIOUS
<1>1. CASE Dyn!StartSup \/ Dyn!RegisterName \/ Dyn!Signalled \/ Dyn!SupTurn
  BY <1>1, DynamicStartSupOK, DynamicRegisterNameOK, DynamicSignalledOK, DynamicSupTurnOK
<1>2. ASSUME NEW c \in Caller, Dyn!Monitor(c) \/ Dyn!Insert(c) \/ Dyn!Map(c) \/ Dyn!StartChild(c) \/ Dyn!Stop(c)
      PROVE  DynamicInv'
  BY <1>2, DynamicMonitorOK, DynamicInsertOK, DynamicMapOK, DynamicStartChildOK, DynamicStopOK
<1>3. ASSUME NEW c \in Caller, NEW p \in Dyn!Child, Dyn!TerminateChild(c, p) PROVE DynamicInv'
  BY <1>3, DynamicTerminateChildOK
<1>4. ASSUME NEW p \in Dyn!Child, Dyn!ChildExits(p) PROVE DynamicInv'
  BY <1>4, DynamicChildExitsOK
<1>5. CASE UNCHANGED Dyn!vars
  BY <1>5 DEF Dyn!vars, DynamicInv, Dyn!TypeOK, Dyn!LeavesTold, DownMeansEnded, Starts, Dyn!Moves, Dyn!TakesOut, Dyn!tables, Dyn!callVars, Dyn!childVars, Dyn!Child, Dyn!NoChild, Dyn!ExitSignal
<1>6. QED BY <1>1, <1>2, <1>3, <1>4, <1>5 DEF Dyn!Next, Dyn!Progress

LEMMA DynamicInFocus == DynamicInv /\ [ServicesNext]_servicesVars => DynamicInv'
<1>1. ServicesNext => Dyn!Next \/ UNCHANGED dsVars
  BY DEF ServicesNext
<1>2. UNCHANGED servicesVars => UNCHANGED dsVars
  BY DEF servicesVars
<1>3. UNCHANGED dsVars => UNCHANGED Dyn!vars
  BY DEF dsVars, Dyn!vars, Dyn!tables, Dyn!callVars, Dyn!childVars
<1>4. QED BY <1>1, <1>2, <1>3, DynamicStepOK

(* dynamic_supervisor: a child leaves the tables only when it ended or was told  *)
(* to, in every order of its own end, terminate_child() and the DOWN message.     *)
THEOREM DynamicCorrect == ServicesSpec => []DynamicSafe
<1>1. ServicesInit => DynamicInv
  BY DynamicInitOK DEF ServicesInit
<1>2. DynamicInv => DynamicSafe
  BY DEF DynamicInv, DynamicSafe
<1>3. QED BY <1>1, <1>2, DynamicInFocus, PTL DEF ServicesSpec

-----------------------------------------------------------------------------
FsmInv == Fsm!TypeOK /\ Fsm!TimersOfState

LEMMA FsmInitOK == Fsm!Init => FsmInv
<1> SUFFICES ASSUME Fsm!Init PROVE FsmInv
  OBVIOUS
<1>1. /\ gf_queue \in Seq(Fsm!Message) /\ gf_postponed \in Seq(Fsm!Message) /\ gf_fired \in Seq(Fsm!Slot)
      /\ gf_replies \in Seq(Fsm!FsmCall)
  BY EmptySeq DEF Fsm!Init
<1>2. /\ gf_armed \in [Fsm!Slot -> Nat] /\ gf_tasks = {}
      /\ gf_result \in [Fsm!FsmCall -> {"none", "reply", "foreign_reply", "timeout", "not_found"}]
  BY DEF Fsm!Init, Fsm!NoTimer
<1>3. QED BY <1>1, <1>2 DEF Fsm!Init, FsmInv, Fsm!TypeOK, Fsm!TimersOfState

(* What the timeout manager does: a task it leaves alone and that has not fired  *)
(* is in a slot that is neither cancelled nor set.                                *)
LEMMA FsmTimersOK ==
    ASSUME FsmInv, NEW change \in BOOLEAN, NEW cancel \in SUBSET Fsm!Slot, NEW set \in SUBSET Fsm!Slot,
           Fsm!Timers(change, cancel, set), change => cancel = Fsm!Slot
    PROVE  /\ gf_tasks' \subseteq Fsm!Task /\ gf_armed' \in [Fsm!Slot -> Nat] /\ gf_serial' \in Nat
           /\ \A t \in gf_tasks' : ~t.sending => ~t.old /\ gf_armed'[t.slot] = t.serial
<1> DEFINE kept == gf_tasks \ Fsm!Reached(cancel \cup set)
           aged == {[t EXCEPT !.old = @ \/ change] : t \in kept}
           new == {[slot |-> x, serial |-> gf_serial + 1, sending |-> FALSE, old |-> FALSE] : x \in set}
<1>1. /\ gf_tasks' = aged \cup new
      /\ gf_armed' = [x \in Fsm!Slot |-> IF x \in set THEN gf_serial + 1
                                  ELSE IF x \in cancel THEN Fsm!NoTimer ELSE gf_armed[x]]
      /\ gf_serial' \in {gf_serial, gf_serial + 1}
  BY DEF Fsm!Timers
<1>2. gf_serial' \in Nat /\ gf_armed' \in [Fsm!Slot -> Nat] /\ gf_tasks \subseteq Fsm!Task
  BY <1>1 DEF FsmInv, Fsm!TypeOK, Fsm!NoTimer
<1>3. ASSUME NEW t \in new PROVE t \in Fsm!Task /\ gf_armed'[t.slot] = t.serial /\ ~t.old
  <2>1. PICK x \in set : t = [slot |-> x, serial |-> gf_serial + 1, sending |-> FALSE, old |-> FALSE]
    BY <1>3
  <2>2. QED BY <1>1, <2>1 DEF FsmInv, Fsm!TypeOK, Fsm!Task
<1>4. ASSUME NEW t \in aged
      PROVE  t \in Fsm!Task /\ (~t.sending => ~t.old /\ gf_armed'[t.slot] = t.serial)
  <2>1. PICK u \in kept : t = [u EXCEPT !.old = @ \/ change]
    BY <1>4
  <2>2. u \in Fsm!Task
    BY <1>2
  <2>3. /\ t \in Fsm!Task /\ t.slot = u.slot /\ t.serial = u.serial /\ t.sending = u.sending
        /\ t.old = (u.old \/ change)
    BY <2>1, <2>2 DEF Fsm!Task
  <2>4. ASSUME ~t.sending PROVE ~t.old /\ gf_armed'[t.slot] = t.serial
    <3>1. ~u.old /\ gf_armed[u.slot] = u.serial
      BY <2>3, <2>4 DEF FsmInv, Fsm!TimersOfState
    <3>2. u.slot \notin cancel \cup set /\ u.slot \in Fsm!Slot
      BY <2>2, <2>3, <2>4, <3>1 DEF Fsm!Reached, Fsm!Task
    <3>3. QED BY <1>1, <2>3, <3>1, <3>2
  <2>5. QED BY <2>3, <2>4
<1>5. QED BY <1>1, <1>2, <1>3, <1>4

LEMMA FsmNextMessageType ==
    ASSUME FsmInv
    PROVE  /\ Fsm!NextMessage \subseteq Fsm!Message
           /\ Fsm!NextMessage # {} /\ gf_postponed = <<>> => gf_queue # <<>>
  BY HeadTailProperties DEF FsmInv, Fsm!TypeOK, Fsm!NextMessage

LEMMA FsmConsumesOK ==
    ASSUME FsmInv, Fsm!NextMessage # {}, NEW again \in BOOLEAN, Fsm!Consumes(again)
    PROVE  gf_postponed' \in Seq(Fsm!Message) /\ gf_queue' \in Seq(Fsm!Message)
<1>1. gf_queue \in Seq(Fsm!Message) /\ gf_postponed \in Seq(Fsm!Message)
  BY DEF FsmInv, Fsm!TypeOK
<1>2. (CHOOSE msg \in Fsm!NextMessage : TRUE) \in Fsm!Message
  BY FsmNextMessageType
<1> DEFINE rest == IF gf_postponed # <<>> THEN Tail(gf_postponed) ELSE gf_postponed
           front == CHOOSE msg \in Fsm!NextMessage : TRUE
<1>3. rest \in Seq(Fsm!Message)
  BY <1>1, HeadTailProperties
<1>4. gf_queue' \in Seq(Fsm!Message)
  BY <1>1, FsmNextMessageType, HeadTailProperties DEF Fsm!Consumes
<1>5. gf_postponed' = IF again THEN Append(rest, front) ELSE rest
  BY DEF Fsm!Consumes
<1>6. front \in Fsm!Message
  BY <1>2
<1> HIDE DEF rest, front
<1>7. QED BY <1>3, <1>4, <1>5, <1>6

LEMMA FsmReplyingOK ==
    ASSUME FsmInv, NEW rs \in SUBSET gf_open, Fsm!Replying(rs)
    PROVE  gf_replies' \in Seq(Fsm!FsmCall) /\ gf_open' \subseteq Fsm!FsmCall
<1>1. rs # {} => (CHOOSE r \in rs : TRUE) \in Fsm!FsmCall
  BY DEF FsmInv, Fsm!TypeOK
<1> DEFINE ref == CHOOSE r \in rs : TRUE
<1>2. gf_replies' = IF rs = {} THEN gf_replies ELSE Append(gf_replies, ref)
  BY DEF Fsm!Replying
<1>3. gf_replies \in Seq(Fsm!FsmCall) /\ (rs # {} => ref \in Fsm!FsmCall)
  BY <1>1 DEF FsmInv, Fsm!TypeOK
<1> HIDE DEF ref
<1>4. gf_replies' \in Seq(Fsm!FsmCall)
  BY <1>2, <1>3
<1>5. QED BY <1>4 DEF Fsm!Replying, FsmInv, Fsm!TypeOK

LEMMA FsmPostOK ==
    ASSUME FsmInv, NEW msg \in Fsm!Message, Fsm!Post(msg) PROVE gf_queue' \in Seq(Fsm!Message)
  BY DEF FsmInv, Fsm!TypeOK, Fsm!Post

(* A call in hand carries the number of a call. *)
LEMMA FsmCallInHand ==
    ASSUME FsmInv, Fsm!Turn({"call"}), NEW msg \in Fsm!NextMessage PROVE msg.ref \in Fsm!FsmCall
<1>1. PICK m \in Fsm!NextMessage : m.type = "call"
  BY DEF Fsm!Turn
<1>2. msg = m
  BY DEF Fsm!NextMessage
<1>3. m \in Fsm!Message
  BY FsmNextMessageType
<1>4. QED BY <1>1, <1>2, <1>3 DEF Fsm!Message, Fsm!Event, Fsm!TimeoutEvent, Fsm!Request

(* Neither a timeout nor the state of the loop changes. *)
LEMMA FsmTimersStay ==
    ASSUME FsmInv, UNCHANGED <<gf_loop, gf_tasks, gf_armed>>
    PROVE  Fsm!TimersOfState'
  BY DEF FsmInv, Fsm!TimersOfState

LEMMA FsmElapseOK == ASSUME FsmInv, NEW t \in gf_tasks, Fsm!Elapse(t) PROVE FsmInv'
<1>1. /\ [t EXCEPT !.sending = TRUE] \in Fsm!Task /\ [t EXCEPT !.sending = TRUE].sending
      /\ gf_tasks' = (gf_tasks \ {t}) \cup {[t EXCEPT !.sending = TRUE]}
  BY DEF FsmInv, Fsm!TypeOK, Fsm!Task, Fsm!Elapse
<1>2. Fsm!TypeOK'
  BY <1>1 DEF FsmInv, Fsm!TypeOK, Fsm!Elapse, Fsm!clientVars
<1>3. Fsm!TimersOfState'
  BY <1>1 DEF FsmInv, Fsm!TimersOfState, Fsm!Elapse
<1>4. QED BY <1>2, <1>3 DEF FsmInv

LEMMA FsmSendTimeoutOK == ASSUME FsmInv, NEW t \in gf_tasks, Fsm!SendTimeout(t) PROVE FsmInv'
<1>1. t.slot \in Fsm!Slot
  BY DEF FsmInv, Fsm!TypeOK, Fsm!Task
<1>2. gf_fired' \in Seq(Fsm!Slot)
  BY <1>1 DEF FsmInv, Fsm!TypeOK, Fsm!SendTimeout
<1>3. Fsm!TypeOK'
  BY <1>2 DEF FsmInv, Fsm!TypeOK, Fsm!SendTimeout, Fsm!clientVars
<1>4. Fsm!TimersOfState'
  BY DEF FsmInv, Fsm!TimersOfState, Fsm!SendTimeout
<1>5. QED BY <1>3, <1>4 DEF FsmInv

LEMMA FsmStartFsmOK == ASSUME FsmInv, Fsm!StartFsm PROVE FsmInv'
<1>1. CASE gf_loop' = "refused" /\ UNCHANGED Fsm!timerVars
  BY <1>1 DEF FsmInv, Fsm!TypeOK, Fsm!TimersOfState, Fsm!StartFsm, Fsm!timerVars, Fsm!clientVars
<1>2. ASSUME gf_loop' = "running", UNCHANGED gf_fired, NEW set \in {{}, {Fsm!StateSlot}}, Fsm!Timers(FALSE, {}, set)
      PROVE  FsmInv'
  <2>1. /\ gf_tasks' \subseteq Fsm!Task /\ gf_armed' \in [Fsm!Slot -> Nat] /\ gf_serial' \in Nat
        /\ \A t \in gf_tasks' : ~t.sending => ~t.old /\ gf_armed'[t.slot] = t.serial
    <3>1. set \in SUBSET Fsm!Slot /\ {} \in SUBSET Fsm!Slot /\ FALSE \in BOOLEAN
      BY DEF Fsm!Slot
    <3>2. FALSE => {} = Fsm!Slot
      OBVIOUS
    <3>3. QED BY <1>2, <3>1, <3>2, FsmTimersOK
  <2>2. Fsm!TypeOK'
    BY <1>2, <2>1 DEF FsmInv, Fsm!TypeOK, Fsm!StartFsm, Fsm!clientVars
  <2>3. Fsm!TimersOfState'
    BY <1>2, <2>1 DEF Fsm!TimersOfState
  <2>4. QED BY <2>2, <2>3 DEF FsmInv
<1>3. QED BY <1>1, <1>2 DEF Fsm!StartFsm

LEMMA FsmClientOK ==
    ASSUME FsmInv, Fsm!SendEvent \/ Fsm!MakeCall \/ Fsm!TakeReply \/ Fsm!CallTimesOut
    PROVE  FsmInv'
<1>1. Fsm!TimersOfState'
  BY FsmTimersStay DEF Fsm!SendEvent, Fsm!MakeCall, Fsm!TakeReply, Fsm!CallTimesOut, Fsm!timerVars
<1>2. CASE Fsm!SendEvent
  <2>1. gf_queue' \in Seq(Fsm!Message)
    BY <1>2, FsmPostOK DEF Fsm!SendEvent, Fsm!Message
  <2>2. Fsm!TypeOK'
    BY <1>2, <2>1 DEF FsmInv, Fsm!TypeOK, Fsm!SendEvent, Fsm!timerVars
  <2>3. QED BY <1>1, <2>2 DEF FsmInv
<1>3. CASE Fsm!MakeCall
  <2>1. gf_fsmCalls + 1 \in Fsm!FsmCall /\ gf_fsmCalls + 1 \in Nat
    BY <1>3, FsmAssumption DEF FsmInv, Fsm!TypeOK, Fsm!MakeCall, Fsm!FsmCall
  <2>2. gf_queue' \in Seq(Fsm!Message)
    BY <1>3, <2>1, FsmPostOK DEF Fsm!MakeCall, Fsm!Message
  <2>3. Fsm!TypeOK'
    BY <1>3, <2>1, <2>2 DEF FsmInv, Fsm!TypeOK, Fsm!MakeCall, Fsm!timerVars
  <2>4. QED BY <1>1, <2>3 DEF FsmInv
<1>4. CASE Fsm!TakeReply
  <2>1. gf_replies' \in Seq(Fsm!FsmCall)
    BY <1>4, HeadTailProperties DEF FsmInv, Fsm!TypeOK, Fsm!TakeReply
  <2>2. Fsm!TypeOK'
    BY <1>4, <2>1 DEF FsmInv, Fsm!TypeOK, Fsm!TakeReply, Fsm!timerVars
  <2>3. QED BY <1>1, <2>2 DEF FsmInv
<1>5. CASE Fsm!CallTimesOut
  <2>1. Fsm!TypeOK'
    BY <1>5 DEF FsmInv, Fsm!TypeOK, Fsm!CallTimesOut, Fsm!timerVars
  <2>2. QED BY <1>1, <2>1 DEF FsmInv
<1>6. QED BY <1>2, <1>3, <1>4, <1>5

LEMMA FsmHandleTimeoutOK == ASSUME FsmInv, Fsm!HandleTimeout PROVE FsmInv'
<1>1. gf_fired' \in Seq(Fsm!Slot)
  BY HeadTailProperties DEF FsmInv, Fsm!TypeOK, Fsm!HandleTimeout, Fsm!TakesTimeout
<1>2. gf_queue' \in Seq(Fsm!Message)
  BY FsmPostOK DEF Fsm!HandleTimeout, Fsm!Message
<1>3. Fsm!TypeOK'
  BY <1>1, <1>2 DEF FsmInv, Fsm!TypeOK, Fsm!HandleTimeout, Fsm!clientVars
<1>4. Fsm!TimersOfState'
  BY FsmTimersStay DEF Fsm!HandleTimeout
<1>5. QED BY <1>3, <1>4 DEF FsmInv

(* A turn that consumes the message in hand. *)
LEMMA FsmTurnType ==
    ASSUME FsmInv, NEW types, Fsm!Turn(types)
    PROVE  /\ Fsm!NextMessage # {} /\ gf_loop = "running"
           /\ gf_fired' \in Seq(Fsm!Slot) /\ gf_events' \in Nat /\ gf_fsmCalls' \in Nat /\ gf_waits' \in Fsm!FsmCall \cup {0}
           /\ gf_result' \in [Fsm!FsmCall -> {"none", "reply", "foreign_reply", "timeout", "not_found"}]
  BY DEF FsmInv, Fsm!TypeOK, Fsm!Turn, Fsm!clientVars

LEMMA FsmSkipOK == ASSUME FsmInv, Fsm!Skip PROVE FsmInv'
<1>1. Fsm!Turn({"timeout", "call"}) /\ Fsm!Consumes(FALSE)
      /\ UNCHANGED <<gf_loop, gf_state, gf_terminated, gf_armed, gf_tasks, gf_serial, gf_open, gf_replies>>
  BY DEF Fsm!Skip
<1>2. gf_postponed' \in Seq(Fsm!Message) /\ gf_queue' \in Seq(Fsm!Message)
  BY <1>1, FsmTurnType, FsmConsumesOK
<1>3. Fsm!TypeOK'
  BY <1>1, <1>2, FsmTurnType DEF FsmInv, Fsm!TypeOK
<1>4. Fsm!TimersOfState'
  BY <1>1, FsmTimersStay
<1>5. QED BY <1>3, <1>4 DEF FsmInv

LEMMA FsmEventStopOK == ASSUME FsmInv, Fsm!EventStop PROVE FsmInv'
<1>1. PICK rs \in {{}} \cup {{r} : r \in gf_open} :
          /\ Fsm!Turn({"event", "timeout"}) /\ Fsm!Consumes(FALSE) /\ Fsm!Replying(rs)
          /\ gf_terminated' = gf_terminated + 1 /\ UNCHANGED <<gf_loop, gf_state, gf_armed, gf_tasks, gf_serial>>
  BY DEF Fsm!EventStop
<1>2. gf_postponed' \in Seq(Fsm!Message) /\ gf_queue' \in Seq(Fsm!Message)
  BY <1>1, FsmTurnType, FsmConsumesOK
<1>3. gf_replies' \in Seq(Fsm!FsmCall) /\ gf_open' \subseteq Fsm!FsmCall
  BY <1>1, FsmReplyingOK
<1>4. Fsm!TypeOK'
  BY <1>1, <1>2, <1>3, FsmTurnType DEF FsmInv, Fsm!TypeOK
<1>5. Fsm!TimersOfState'
  BY <1>1, FsmTimersStay
<1>6. QED BY <1>4, <1>5 DEF FsmInv

LEMMA FsmEventNextStateOK == ASSUME FsmInv, Fsm!EventNextState PROVE FsmInv'
<1>1. PICK again \in BOOLEAN, rs \in {{}} \cup {{r} : r \in gf_open}, set \in {{}} \cup {{x} : x \in Fsm!Slot} :
          /\ Fsm!Turn({"event", "timeout"}) /\ Fsm!Consumes(again) /\ Fsm!Replying(rs)
          /\ Fsm!Timers(TRUE, Fsm!CancelAll, set)
          /\ gf_state' \in State /\ UNCHANGED <<gf_loop, gf_terminated>>
  BY DEF Fsm!EventNextState
<1>2. gf_postponed' \in Seq(Fsm!Message) /\ gf_queue' \in Seq(Fsm!Message)
  BY <1>1, FsmTurnType, FsmConsumesOK
<1>3. gf_replies' \in Seq(Fsm!FsmCall) /\ gf_open' \subseteq Fsm!FsmCall
  BY <1>1, FsmReplyingOK
<1>4. /\ gf_tasks' \subseteq Fsm!Task /\ gf_armed' \in [Fsm!Slot -> Nat] /\ gf_serial' \in Nat
      /\ \A t \in gf_tasks' : ~t.sending => ~t.old /\ gf_armed'[t.slot] = t.serial
  <2>1. set \in SUBSET Fsm!Slot /\ Fsm!CancelAll \in SUBSET Fsm!Slot /\ Fsm!CancelAll = Fsm!Slot
    BY DEF Fsm!CancelAll
  <2>2. QED BY <1>1, <2>1, FsmTimersOK
<1>5. Fsm!TypeOK'
  BY <1>1, <1>2, <1>3, <1>4, FsmTurnType DEF FsmInv, Fsm!TypeOK
<1>6. Fsm!TimersOfState'
  BY <1>1, <1>4, FsmTurnType DEF Fsm!TimersOfState
<1>7. QED BY <1>5, <1>6 DEF FsmInv

LEMMA FsmEventKeepStateOK == ASSUME FsmInv, Fsm!EventKeepState PROVE FsmInv'
<1>1. PICK again \in BOOLEAN, rs \in {{}} \cup {{r} : r \in gf_open},
           cancel \in {{}} \cup {{x} : x \in TimeoutName}, set \in {{}} \cup {{x} : x \in Fsm!Slot} :
          /\ Fsm!Turn({"event", "timeout"}) /\ Fsm!Consumes(again) /\ Fsm!Replying(rs)
          /\ Fsm!Timers(FALSE, {Fsm!StateSlot} \cup cancel, set)
          /\ UNCHANGED <<gf_loop, gf_state, gf_terminated>>
  BY DEF Fsm!EventKeepState
<1>2. gf_postponed' \in Seq(Fsm!Message) /\ gf_queue' \in Seq(Fsm!Message)
  BY <1>1, FsmTurnType, FsmConsumesOK
<1>3. gf_replies' \in Seq(Fsm!FsmCall) /\ gf_open' \subseteq Fsm!FsmCall
  BY <1>1, FsmReplyingOK
<1>4. /\ gf_tasks' \subseteq Fsm!Task /\ gf_armed' \in [Fsm!Slot -> Nat] /\ gf_serial' \in Nat
      /\ \A t \in gf_tasks' : ~t.sending => ~t.old /\ gf_armed'[t.slot] = t.serial
  <2>1. set \in SUBSET Fsm!Slot /\ {Fsm!StateSlot} \cup cancel \in SUBSET Fsm!Slot /\ FALSE \in BOOLEAN
    BY DEF Fsm!Slot
  <2>2. FALSE => {Fsm!StateSlot} \cup cancel = Fsm!Slot
    OBVIOUS
  <2>3. QED BY <1>1, <2>1, <2>2, FsmTimersOK
<1>5. Fsm!TypeOK'
  BY <1>1, <1>2, <1>3, <1>4, FsmTurnType DEF FsmInv, Fsm!TypeOK
<1>6. Fsm!TimersOfState'
  BY <1>1, <1>4, FsmTurnType DEF Fsm!TimersOfState
<1>7. QED BY <1>5, <1>6 DEF FsmInv

LEMMA FsmCallNextStateOK == ASSUME FsmInv, Fsm!CallNextState PROVE FsmInv'
<1>1. Fsm!Turn({"call"}) /\ Fsm!Consumes(FALSE) /\ UNCHANGED <<gf_loop, gf_terminated>>
  BY DEF Fsm!CallNextState
<1>2. gf_postponed' \in Seq(Fsm!Message) /\ gf_queue' \in Seq(Fsm!Message)
  BY <1>1, FsmTurnType, FsmConsumesOK
<1>3. PICK msg \in Fsm!NextMessage, answers \in BOOLEAN :
          /\ gf_replies' = IF answers THEN Append(gf_replies, msg.ref) ELSE gf_replies
          /\ gf_open' = IF answers THEN gf_open ELSE gf_open \cup {msg.ref}
  BY DEF Fsm!CallNextState
<1>4. msg.ref \in Fsm!FsmCall
  BY <1>1, FsmCallInHand
<1>5. gf_replies' \in Seq(Fsm!FsmCall) /\ gf_open' \subseteq Fsm!FsmCall
  BY <1>3, <1>4 DEF FsmInv, Fsm!TypeOK
<1>6. CASE UNCHANGED <<gf_state, gf_armed, gf_tasks, gf_serial>>
  <2>1. Fsm!TypeOK'
    BY <1>1, <1>2, <1>5, <1>6, FsmTurnType DEF FsmInv, Fsm!TypeOK
  <2>2. Fsm!TimersOfState'
    BY <1>1, <1>6, FsmTimersStay
  <2>3. QED BY <2>1, <2>2 DEF FsmInv
<1>7. ASSUME gf_state' \in State, NEW set \in {{}, {Fsm!StateSlot}}, Fsm!Timers(TRUE, Fsm!CancelAll, set)
      PROVE  FsmInv'
  <2>1. /\ gf_tasks' \subseteq Fsm!Task /\ gf_armed' \in [Fsm!Slot -> Nat] /\ gf_serial' \in Nat
        /\ \A t \in gf_tasks' : ~t.sending => ~t.old /\ gf_armed'[t.slot] = t.serial
    <3>1. set \in SUBSET Fsm!Slot /\ Fsm!CancelAll \in SUBSET Fsm!Slot /\ Fsm!CancelAll = Fsm!Slot
      BY DEF Fsm!CancelAll, Fsm!Slot
    <3>2. QED BY <1>7, <3>1, FsmTimersOK
  <2>2. Fsm!TypeOK'
    BY <1>1, <1>2, <1>5, <1>7, <2>1, FsmTurnType DEF FsmInv, Fsm!TypeOK
  <2>3. Fsm!TimersOfState'
    BY <1>1, <2>1, FsmTurnType DEF Fsm!TimersOfState
  <2>4. QED BY <2>2, <2>3 DEF FsmInv
<1>8. QED BY <1>6, <1>7 DEF Fsm!CallNextState

LEMMA FsmCallStopOK == ASSUME FsmInv, Fsm!CallStop PROVE FsmInv'
<1>1. PICK msg \in Fsm!NextMessage, answers \in BOOLEAN :
          gf_replies' = IF answers THEN Append(gf_replies, msg.ref) ELSE gf_replies
  BY DEF Fsm!CallStop
<1>2. Fsm!Turn({"call"})
  BY DEF Fsm!CallStop
<1>3. gf_replies' \in Seq(Fsm!FsmCall)
  BY <1>1, <1>2, FsmCallInHand DEF FsmInv, Fsm!TypeOK
<1>4. /\ gf_armed' \in [Fsm!Slot -> Nat] /\ gf_tasks' = gf_tasks \ Fsm!Reached(Fsm!Slot) /\ gf_terminated' \in Nat
      /\ gf_queue' = <<>> /\ gf_postponed' = <<>> /\ gf_open' = {} /\ gf_loop' = "ended" /\ gf_state' \in State
      /\ gf_serial' = gf_serial
  BY DEF FsmInv, Fsm!TypeOK, Fsm!CallStop, Fsm!NoTimer
<1>5. Fsm!TypeOK'
  BY <1>2, <1>3, <1>4, FsmTurnType, EmptySeq DEF FsmInv, Fsm!TypeOK
<1>6. \A t \in gf_tasks' : t.sending
  <2> SUFFICES ASSUME NEW t \in gf_tasks', ~t.sending PROVE FALSE
    OBVIOUS
  <2>1. t \in gf_tasks /\ t \notin Fsm!Reached(Fsm!Slot) /\ t.slot \in Fsm!Slot
    BY <1>4 DEF FsmInv, Fsm!TypeOK, Fsm!Task
  <2>2. QED BY <2>1 DEF FsmInv, Fsm!TimersOfState, Fsm!Reached
<1>7. Fsm!TimersOfState'
  BY <1>6 DEF Fsm!TimersOfState
<1>8. QED BY <1>5, <1>7 DEF FsmInv

LEMMA FsmStepOK == FsmInv /\ [Fsm!Next]_(Fsm!vars) => FsmInv'
<1> SUFFICES ASSUME FsmInv, [Fsm!Next]_(Fsm!vars) PROVE FsmInv'
  OBVIOUS
<1>1. CASE Fsm!StartFsm \/ Fsm!FsmTurn
  BY <1>1, FsmStartFsmOK, FsmHandleTimeoutOK, FsmSkipOK, FsmEventNextStateOK, FsmEventKeepStateOK, FsmEventStopOK,
     FsmCallNextStateOK, FsmCallStopOK DEF Fsm!FsmTurn
<1>2. CASE Fsm!SendEvent \/ Fsm!MakeCall \/ Fsm!TakeReply \/ Fsm!CallTimesOut
  BY <1>2, FsmClientOK
<1>3. ASSUME NEW t \in gf_tasks, Fsm!Elapse(t) \/ Fsm!SendTimeout(t) PROVE FsmInv'
  BY <1>3, FsmElapseOK, FsmSendTimeoutOK
<1>4. CASE UNCHANGED Fsm!vars
  BY <1>4 DEF Fsm!vars, Fsm!timerVars, Fsm!clientVars, FsmInv, Fsm!TypeOK, Fsm!TimersOfState
<1>5. QED BY <1>1, <1>2, <1>3, <1>4 DEF Fsm!Next

LEMMA FsmInFocus == FsmInv /\ [ServicesNext]_servicesVars => FsmInv'
<1>1. ServicesNext => Fsm!Next \/ UNCHANGED gfVars
  BY DEF ServicesNext
<1>2. UNCHANGED servicesVars => UNCHANGED gfVars
  BY DEF servicesVars
<1>3. UNCHANGED gfVars => UNCHANGED Fsm!vars
  BY DEF gfVars, Fsm!vars, Fsm!timerVars, Fsm!clientVars
<1>4. QED BY <1>1, <1>2, <1>3, FsmStepOK

(* gen_fsm: the timers that can fire are those of the state the machine is in,   *)
(* whatever was still on its way when the state changed.                           *)
THEOREM FsmCorrect == ServicesSpec => []FsmSafe
<1>1. ServicesInit => FsmInv
  BY FsmInitOK DEF ServicesInit
<1>2. FsmInv => FsmSafe
  BY DEF FsmInv, FsmSafe
<1>3. QED BY <1>1, <1>2, FsmInFocus, PTL DEF ServicesSpec

-----------------------------------------------------------------------------
Steps == {"idle", "start", "register", "track", "broadcast", "after", "history", "untrack", "leave", "ask"}
Doing == [step : Steps, room : Room \cup {"no_room"}, todo : SUBSET Room, number : Talk!Number]

(* A session in a room is in its group, and the room has a process by then.      *)
RoomsOf(c) ==
    /\ \A r \in Talk!Joined(c) : c \in ct_group[r] /\ ct_name[r] # Talk!NoProcess /\ ct_stage[c] # "ended"
    /\ ct_doing[c].step \in {"start", "register", "track", "broadcast", "history", "untrack", "leave"}
           => ct_doing[c].room \in Room
    /\ ct_doing[c].step = "track" => ct_name[ct_doing[c].room] # Talk!NoProcess
    /\ ct_doing[c].step \in {"after", "history"} => ct_doing[c].todo \subseteq Talk!Joined(c)
    /\ ct_doing[c].step = "history" => ct_doing[c].room \in Talk!Joined(c)
    /\ ct_doing[c].step \in {"start", "register", "track", "untrack", "leave"} => ct_doing[c].room \notin Talk!Joined(c)
InRooms == \A c \in Session : RoomsOf(c)
Named == \A r \in Room : ct_name[r] # Talk!NoProcess => ct_name[r][1] = r

(* A call for the history is that of a session that waits for it, and its only one. *)
Asked ==
    \A p \in Talk!Process : \A k \in DOMAIN ct_box[p] : ct_box[p][k].type = "GetHistory" =>
        /\ ct_doing[ct_box[p][k].of].step = "history" /\ ct_doing[ct_box[p][k].of].room = p[1]
        /\ ct_name[p[1]] = p
        /\ \A j \in DOMAIN ct_box[p] :
              ct_box[p][j].type = "GetHistory" /\ ct_box[p][j].of = ct_box[p][k].of => j = k

(* Whom a client takes for present, or soon will, is, or it will hear otherwise.  *)
Present(c, r, who, i) ==
    \/ ct_channels[who[1]][r] = who[2]
    \/ Talk!Gone(r, who) \in ct_lost[c]
    \/ \E j \in DOMAIN ct_mailbox[c] : j > i /\ ct_mailbox[c][j] = Talk!Gone(r, who)
ViewOf(c, r) ==
    /\ \A who \in ct_view[c][r] : Present(c, r, who, 0)
    /\ \A i \in DOMAIN ct_mailbox[c] :
          ct_mailbox[c][i].type = "user_joined" /\ ct_mailbox[c][i].room = r
              => Present(c, r, ct_mailbox[c][i].who, i)
Views == \A c \in Session : \A r \in Talk!Joined(c) : ViewOf(c, r)

(* A message was shown or thrown away, or is still on its way to a client.       *)
Carries(m, n) == \/ m.type = "new_msg" /\ m.number = n
                 \/ m.type = "history" /\ n \in m.numbers
Arrives(c, n) == \E i \in DOMAIN ct_mailbox[c] : Carries(ct_mailbox[c][i], n)
Had(c, n) == n \in ct_shown[c] \/ \E m \in ct_lost[c] : Carries(m, n)
Sending(d, r, n) == ct_doing[d].step = "broadcast" /\ ct_doing[d].room = r /\ ct_doing[d].number = n
Seen(c, r, n) == Had(c, n) \/ Arrives(c, n) \/ \E d \in Session : Sending(d, r, n)
CaughtUp(c, r) ==
    r \in ct_caughtUp[c] \/ \E i \in DOMAIN ct_mailbox[c] : ct_mailbox[c][i].type = "history" /\ ct_mailbox[c][i].room = r

(* What a room stores, or has been told to.                                      *)
Stored(p, n) ==
    n \in Talk!Kept(p) \/ \E j \in DOMAIN ct_box[p] : ct_box[p][j].type = "StoreMessage" /\ ct_box[p][j].number = n

(* Who has the history of a room, or has it coming, has all that the room stores; *)
(* who has asked for it has all that the room gets after the call.                *)
Gapless ==
    \A c \in Session : \A r \in Talk!Joined(c) : CaughtUp(c, r) =>
        \A n \in Talk!Number : Stored(ct_name[r], n) => Seen(c, r, n)
Following ==
    \A p \in Talk!Process : \A k, j \in DOMAIN ct_box[p] :
        k < j /\ ct_box[p][k].type = "GetHistory" /\ ct_box[p][j].type = "StoreMessage"
            => Seen(ct_box[p][k].of, p[1], ct_box[p][j].number)

Base == InRooms /\ Named /\ Talk!OneRoom /\ Asked
ChatInv == Talk!TypeOK /\ Base /\ Views /\ Gapless /\ Following

LEMMA ChatTypesOK ==
    ASSUME Talk!TypeOK
    PROVE  /\ \A c \in Session : ct_mailbox[c] \in Seq(Talk!Message) /\ ct_lost[c] \subseteq Talk!Message
           /\ \A c \in Session : DOMAIN ct_mailbox[c] = 1 .. Len(ct_mailbox[c]) /\ Len(ct_mailbox[c]) \in Nat
           /\ \A c \in Session : \A i \in DOMAIN ct_mailbox[c] : ct_mailbox[c][i] \in Talk!Message
           /\ \A p \in Talk!Process : ct_box[p] \in Seq(Talk!Request) /\ ct_history[p] \in Seq(Talk!Number)
           /\ \A p \in Talk!Process : DOMAIN ct_box[p] = 1 .. Len(ct_box[p]) /\ Len(ct_box[p]) \in Nat
           /\ \A p \in Talk!Process : \A i \in DOMAIN ct_box[p] : ct_box[p][i] \in Talk!Request
           /\ \A c \in Session : /\ ct_doing[c] \in Doing /\ ct_stage[c] \in {"open", "closing", "ended"}
                                 /\ ct_nick[c] \in Nick \cup {Talk!NoNick} /\ Talk!Joined(c) \subseteq Room
                                 /\ \A r \in Room : ct_channels[c][r] \in Nick \cup {Talk!NoNick}
           /\ ct_commands \in Nat /\ ct_doing \in [Session -> Doing]
<1>1. ct_doing \in [Session -> Doing]
  BY DEF Talk!TypeOK, Doing, Steps
<1>2. ct_commands \in Nat
  BY ChatAssumption DEF Talk!TypeOK, Talk!Number
<1>3. QED BY <1>1, <1>2, LenProperties DEF Talk!TypeOK, Talk!Joined

LEMMA ChatInitOK == Talk!Init => ChatInv
<1> SUFFICES ASSUME Talk!Init PROVE ChatInv
  OBVIOUS
<1>1. Talk!TypeOK
  <2>1. 0 \in Talk!Number /\ Talk!Idle \in Doing
    BY ChatAssumption DEF Talk!Number, Talk!Idle, Doing, Steps
  <2>2. ct_doing \in [Session -> Doing]
    BY <2>1 DEF Talk!Init
  <2>3. /\ ct_mailbox \in [Session -> Seq(Talk!Message)] /\ ct_box \in [Talk!Process -> Seq(Talk!Request)]
        /\ ct_history \in [Talk!Process -> Seq(Talk!Number)]
    BY DEF Talk!Init
  <2>4. QED BY <2>1, <2>2, <2>3 DEF Talk!Init, Talk!TypeOK, Doing, Steps
<1>2. \A c \in Session : Talk!Joined(c) = {} /\ ct_doing[c].step = "idle"
  BY DEF Talk!Init, Talk!Joined, Talk!Idle
<1>3. \A p \in Talk!Process : DOMAIN ct_box[p] = {}
  BY DEF Talk!Init
<1>4. Base
  BY <1>2, <1>3 DEF Talk!Init, Base, InRooms, RoomsOf, Named, Talk!OneRoom, Asked
<1>5. QED BY <1>1, <1>2, <1>3, <1>4 DEF ChatInv, Views, Gapless, Following

LEMMA ChatSafeOK == ChatInv => Talk!TypeOK /\ Talk!OneRoom /\ Talk!NoGap /\ Talk!ViewsTrue
<1> SUFFICES ASSUME ChatInv PROVE Talk!TypeOK /\ Talk!OneRoom /\ Talk!NoGap /\ Talk!ViewsTrue
  OBVIOUS
<1>1. Talk!NoGap
  <2> SUFFICES ASSUME NEW c \in Session, NEW r \in Talk!Joined(c), r \in ct_caughtUp[c], ct_mailbox[c] = <<>>,
                      NEW n \in Talk!Kept(ct_name[r])
               PROVE  n \in ct_shown[c] \cup Talk!Dropped(c) \cup {ct_doing[d].number : d \in Talk!OnTheWay(r)}
    BY DEF Talk!NoGap, Talk!Joined
  <2>1. n \in Talk!Number
    BY ChatTypesOK DEF ChatInv, Base, InRooms, RoomsOf, Talk!Joined, Talk!Kept, Talk!TypeOK
  <2>2. Seen(c, r, n)
    BY <2>1 DEF ChatInv, Gapless, CaughtUp, Stored
  <2>3. CASE Had(c, n)
    BY <2>3 DEF Had, Carries, Talk!Dropped
  <2>4. ~Arrives(c, n)
    BY DEF Arrives
  <2>5. CASE \E d \in Session : Sending(d, r, n)
    BY <2>5 DEF Sending, Talk!OnTheWay
  <2>6. QED BY <2>2, <2>3, <2>4, <2>5 DEF Seen
<1>2. Talk!ViewsTrue
  BY DEF ChatInv, Views, ViewOf, Talk!ViewsTrue, Present
<1>3. QED BY <1>1, <1>2 DEF ChatInv, Base

(* What Append and Tail leave of a sequence.                                       *)
LEMMA ChatAppendOf ==
    ASSUME NEW S, NEW s \in Seq(S), NEW m \in S
    PROVE  /\ Append(s, m) \in Seq(S)
           /\ DOMAIN Append(s, m) = 1 .. Len(s) + 1 /\ DOMAIN s = 1 .. Len(s) /\ Len(s) \in Nat
           /\ \A i \in DOMAIN s : i \in DOMAIN Append(s, m) /\ Append(s, m)[i] = s[i]
           /\ Append(s, m)[Len(s) + 1] = m
  BY AppendProperties, LenProperties

LEMMA ChatTailOf ==
    ASSUME NEW S, NEW s \in Seq(S), s # <<>>
    PROVE  /\ Tail(s) \in Seq(S) /\ Head(s) \in S /\ Head(s) = s[1] /\ 1 \in DOMAIN s
           /\ DOMAIN s = 1 .. Len(s) /\ Len(s) \in Nat
           /\ DOMAIN Tail(s) = 1 .. Len(s) - 1
           /\ \A i \in DOMAIN Tail(s) : i + 1 \in DOMAIN s /\ Tail(s)[i] = s[i + 1]
           /\ \A i \in DOMAIN s : i = 1 \/ i - 1 \in DOMAIN Tail(s)
<1>1. Len(s) \in Nat /\ Len(s) > 0 /\ DOMAIN s = 1 .. Len(s)
  BY EmptySeq, LenProperties
<1>2. Tail(s) \in Seq(S) /\ Len(Tail(s)) = Len(s) - 1 /\ Head(s) \in S /\ Head(s) = s[1]
  BY HeadTailProperties
<1>3. DOMAIN Tail(s) = 1 .. Len(s) - 1
  BY <1>2, LenProperties
<1>4. \A i \in 1 .. Len(s) - 1 : Tail(s)[i] = s[i + 1]
  BY <1>1, HeadTailProperties
<1>5. QED BY <1>1, <1>2, <1>3, <1>4

-----------------------------------------------------------------------------
(* What a step does to the view of a client of a room r.                          *)
Stay(r) == \A who \in Session \X Nick :
    ct_channels[who[1]][r] = who[2] => ct_channels'[who[1]][r] = who[2]

LEMMA ChatViewSame ==
    ASSUME Talk!TypeOK, NEW c \in Session, NEW r \in Room, ViewOf(c, r), Stay(r),
           ct_mailbox'[c] = ct_mailbox[c], ct_view'[c][r] = ct_view[c][r], ct_lost[c] \subseteq ct_lost'[c]
    PROVE  ViewOf(c, r)'
<1>1. \A who \in Session \X Nick : \A i : Present(c, r, who, i) => Present(c, r, who, i)'
  BY DEF Present, Stay, Talk!Gone
<1>2. ct_view[c][r] \subseteq Session \X Nick
  BY DEF Talk!TypeOK
<1>3. \A i \in DOMAIN ct_mailbox[c] : ct_mailbox[c][i].type = "user_joined" =>
           ct_mailbox[c][i].who \in Session \X Nick
  BY ChatTypesOK DEF Talk!Message
<1>4. QED BY <1>1, <1>2, <1>3 DEF ViewOf

LEMMA ChatViewPush ==
    ASSUME Talk!TypeOK, NEW c \in Session, NEW r \in Room, ViewOf(c, r), NEW m \in Talk!Message,
           \A who \in Session \X Nick :
               ct_channels[who[1]][r] = who[2] => ct_channels'[who[1]][r] = who[2] \/ m = Talk!Gone(r, who),
           m.type = "user_joined" /\ m.room = r => ct_channels'[m.who[1]][r] = m.who[2],
           ct_mailbox'[c] = Append(ct_mailbox[c], m), ct_view'[c][r] = ct_view[c][r], ct_lost'[c] = ct_lost[c]
    PROVE  ViewOf(c, r)'
<1>0. ct_mailbox[c] \in Seq(Talk!Message)
  BY DEF Talk!TypeOK
<1>1. /\ DOMAIN ct_mailbox'[c] = 1 .. Len(ct_mailbox[c]) + 1 /\ DOMAIN ct_mailbox[c] = 1 .. Len(ct_mailbox[c])
      /\ Len(ct_mailbox[c]) \in Nat
      /\ \A i \in DOMAIN ct_mailbox[c] : i \in DOMAIN ct_mailbox'[c] /\ ct_mailbox'[c][i] = ct_mailbox[c][i]
      /\ ct_mailbox'[c][Len(ct_mailbox[c]) + 1] = m
  BY <1>0, ChatAppendOf
<1>2. \A who \in Session \X Nick : \A i \in 0 .. Len(ct_mailbox[c]) :
           Present(c, r, who, i) => Present(c, r, who, i)'
  <2> SUFFICES ASSUME NEW who \in Session \X Nick, NEW i \in 0 .. Len(ct_mailbox[c]), Present(c, r, who, i)
               PROVE  Present(c, r, who, i)'
    OBVIOUS
  <2>1. CASE ct_channels[who[1]][r] = who[2]
    <3>1. CASE m = Talk!Gone(r, who)
      <4>1. /\ Len(ct_mailbox[c]) + 1 \in DOMAIN ct_mailbox'[c] /\ Len(ct_mailbox[c]) + 1 > i
            /\ ct_mailbox'[c][Len(ct_mailbox[c]) + 1] = Talk!Gone(r, who)
        BY <1>1, <3>1
      <4>2. QED BY <4>1 DEF Present, Talk!Gone
    <3>2. QED BY <2>1, <3>1 DEF Present
  <2>2. CASE Talk!Gone(r, who) \in ct_lost[c]
    BY <2>2 DEF Present, Talk!Gone
  <2>3. CASE \E j \in DOMAIN ct_mailbox[c] : j > i /\ ct_mailbox[c][j] = Talk!Gone(r, who)
    BY <1>1, <2>3 DEF Present, Talk!Gone
  <2>4. QED BY <2>1, <2>2, <2>3 DEF Present
<1>3. ct_view[c][r] \subseteq Session \X Nick
  BY DEF Talk!TypeOK
<1>4. \A i \in DOMAIN ct_mailbox[c] : ct_mailbox[c][i].type = "user_joined" =>
           ct_mailbox[c][i].who \in Session \X Nick
  BY ChatTypesOK DEF Talk!Message
<1>5. \A who \in ct_view'[c][r] : Present(c, r, who, 0)'
  BY <1>1, <1>2, <1>3 DEF ViewOf
<1>6. ASSUME NEW i \in DOMAIN ct_mailbox'[c],
             ct_mailbox'[c][i].type = "user_joined" /\ ct_mailbox'[c][i].room = r
      PROVE  Present(c, r, ct_mailbox[c][i].who, i)'
  <2>1. CASE i \in DOMAIN ct_mailbox[c]
    <3>1. ct_mailbox'[c][i] = ct_mailbox[c][i] /\ i \in 0 .. Len(ct_mailbox[c])
      BY <1>1, <2>1
    <3>2. Present(c, r, ct_mailbox[c][i].who, i) /\ ct_mailbox[c][i].who \in Session \X Nick
      BY <1>4, <1>6, <2>1, <3>1 DEF ViewOf
    <3>3. Present(c, r, ct_mailbox[c][i].who, i) => 
            \A who \in Session \X Nick : who = ct_mailbox[c][i].who => Present(c, r, who, i)'
      BY <1>2, <3>1
    <3>4. QED BY <3>1, <3>2, <3>3 DEF Present
  <2>2. CASE i = Len(ct_mailbox[c]) + 1
    BY <1>1, <1>6, <2>2 DEF Present
  <2>3. QED BY <1>1, <2>1, <2>2
<1>7. QED BY <1>5, <1>6 DEF ViewOf

LEMMA ChatViewTake ==
    ASSUME Talk!TypeOK, NEW c \in Session, NEW r \in Room, ViewOf(c, r), Stay(r), ct_mailbox[c] # <<>>,
           ct_mailbox'[c] = Tail(ct_mailbox[c]), ct_lost'[c] = ct_lost[c],
           \A who \in ct_view'[c][r] : 
              \/ who \in ct_view[c][r] /\ Head(ct_mailbox[c]) # Talk!Gone(r, who)
              \/ Head(ct_mailbox[c]).type = "user_joined" /\ Head(ct_mailbox[c]).room = r
                 /\ Head(ct_mailbox[c]).who = who
    PROVE  ViewOf(c, r)'
<1>0. ct_mailbox[c] \in Seq(Talk!Message)
  BY DEF Talk!TypeOK
<1>1. /\ DOMAIN ct_mailbox[c] = 1 .. Len(ct_mailbox[c]) /\ Len(ct_mailbox[c]) \in Nat
      /\ Head(ct_mailbox[c]) = ct_mailbox[c][1] /\ 1 \in DOMAIN ct_mailbox[c]
      /\ DOMAIN ct_mailbox'[c] = 1 .. Len(ct_mailbox[c]) - 1
      /\ \A i \in DOMAIN ct_mailbox'[c] : i + 1 \in DOMAIN ct_mailbox[c] /\ ct_mailbox'[c][i] = ct_mailbox[c][i + 1]
      /\ \A i \in DOMAIN ct_mailbox[c] : i = 1 \/ i - 1 \in DOMAIN ct_mailbox'[c]
  BY <1>0, ChatTailOf
<1>2. \A who \in Session \X Nick : \A i \in Nat :
           Present(c, r, who, i + 1) => Present(c, r, who, i)'
  <2> SUFFICES ASSUME NEW who \in Session \X Nick, NEW i \in Nat, Present(c, r, who, i + 1)
               PROVE  Present(c, r, who, i)'
    OBVIOUS
  <2>1. CASE ct_channels[who[1]][r] = who[2] \/ Talk!Gone(r, who) \in ct_lost[c]
    BY <2>1 DEF Present, Talk!Gone, Stay
  <2>2. ASSUME NEW j \in DOMAIN ct_mailbox[c], j > i + 1, ct_mailbox[c][j] = Talk!Gone(r, who)
        PROVE  Present(c, r, who, i)'
    <3>1. j - 1 \in DOMAIN ct_mailbox'[c] /\ j - 1 > i /\ ct_mailbox'[c][j - 1] = Talk!Gone(r, who)
      BY <1>1, <2>2
    <3>2. QED BY <3>1 DEF Present, Talk!Gone
  <2>3. QED BY <2>1, <2>2 DEF Present
<1>3. ct_view[c][r] \subseteq Session \X Nick
  BY DEF Talk!TypeOK
<1>4. \A i \in DOMAIN ct_mailbox[c] : ct_mailbox[c][i].type = "user_joined" =>
           ct_mailbox[c][i].who \in Session \X Nick
  BY ChatTypesOK DEF Talk!Message
<1>5. ASSUME NEW who \in ct_view'[c][r] PROVE Present(c, r, who, 0)'
  <2>1. CASE who \in ct_view[c][r] /\ Head(ct_mailbox[c]) # Talk!Gone(r, who)
    <3>1. Present(c, r, who, 0) /\ who \in Session \X Nick
      BY <1>3, <2>1 DEF ViewOf
    <3>2. Present(c, r, who, 0 + 1)
      BY <1>1, <2>1, <3>1 DEF Present
    <3>3. QED BY <1>2, <3>1, <3>2
  <2>2. CASE Head(ct_mailbox[c]).type = "user_joined" /\ Head(ct_mailbox[c]).room = r
             /\ Head(ct_mailbox[c]).who = who
    <3>1. Present(c, r, who, 0 + 1) /\ who \in Session \X Nick
      BY <1>1, <1>4, <2>2 DEF ViewOf
    <3>2. QED BY <1>2, <3>1
  <2>3. QED BY <1>5, <2>1, <2>2
<1>6. ASSUME NEW i \in DOMAIN ct_mailbox'[c],
             ct_mailbox'[c][i].type = "user_joined" /\ ct_mailbox'[c][i].room = r
      PROVE  Present(c, r, ct_mailbox[c][i].who, i)'
  <2>1. i + 1 \in DOMAIN ct_mailbox[c] /\ ct_mailbox'[c][i] = ct_mailbox[c][i + 1] /\ i \in Nat
    BY <1>1
  <2>2. Present(c, r, ct_mailbox[c][i + 1].who, i + 1) /\ ct_mailbox[c][i + 1].who \in Session \X Nick
    BY <1>4, <1>6, <2>1 DEF ViewOf
  <2>3. Present(c, r, ct_mailbox[c][i + 1].who, i + 1) => 
          \A who \in Session \X Nick : who = ct_mailbox[c][i + 1].who => Present(c, r, who, i)'
    BY <1>2, <2>1
  <2>4. QED BY <2>1, <2>2, <2>3 DEF Present
<1>7. QED BY <1>5, <1>6 DEF ViewOf

(* The rest of the mailbox is thrown away, a message that somebody left is kept    *)
(* in lost.                                                                       *)
LEMMA ChatViewFlush ==
    ASSUME Talk!TypeOK, NEW c \in Session, NEW r \in Room, ViewOf(c, r), Stay(r),
           \A i \in DOMAIN ct_mailbox'[c] : ct_mailbox'[c][i].type # "user_joined",
           ct_lost[c] \subseteq ct_lost'[c],
           \A i \in DOMAIN ct_mailbox[c] : ct_mailbox[c][i].type = "user_left" => ct_mailbox[c][i] \in ct_lost'[c],
           ct_view'[c][r] = ct_view[c][r]
    PROVE  ViewOf(c, r)'
<1>1. ct_view[c][r] \subseteq Session \X Nick
  BY DEF Talk!TypeOK
<1>2. ASSUME NEW who \in ct_view'[c][r] PROVE Present(c, r, who, 0)'
  <2>1. Present(c, r, who, 0) /\ who \in Session \X Nick
    BY <1>1, <1>2 DEF ViewOf
  <2>2. Talk!Gone(r, who).type = "user_left"
    BY DEF Talk!Gone
  <2>3. QED BY <2>1, <2>2 DEF Present, Talk!Gone, Stay
<1>3. QED BY <1>2 DEF ViewOf

-----------------------------------------------------------------------------
(* What was carried is carried on, was shown, or is thrown away.                    *)
Flow(c) == \A n \in Talk!Number : Had(c, n) \/ Arrives(c, n) => (Had(c, n) \/ Arrives(c, n))'
Flows == \A c \in Session : Flow(c)

(* A message whose sender has left its step is in the mailbox of every member.      *)
Speaks ==
    \A d \in Session, r \in Room, n \in Talk!Number :
        Sending(d, r, n) =>
            Sending(d, r, n)' \/ \A c \in Session : r \in Talk!Joined(c) => Arrives(c, n)'

LEMMA ChatFlowSame ==
    ASSUME NEW c \in Session, ct_mailbox'[c] = ct_mailbox[c], ct_shown[c] \subseteq ct_shown'[c],
           ct_lost[c] \subseteq ct_lost'[c]
    PROVE  Flow(c)
  BY DEF Flow, Had, Arrives, Carries

LEMMA ChatFlowPush ==
    ASSUME Talk!TypeOK, NEW c \in Session, NEW m \in Talk!Message, ct_mailbox'[c] = Append(ct_mailbox[c], m),
           ct_shown'[c] = ct_shown[c], ct_lost'[c] = ct_lost[c]
    PROVE  Flow(c)
<1>1. ct_mailbox[c] \in Seq(Talk!Message)
  BY DEF Talk!TypeOK
<1>2. \A i \in DOMAIN ct_mailbox[c] : i \in DOMAIN ct_mailbox'[c] /\ ct_mailbox'[c][i] = ct_mailbox[c][i]
  BY <1>1, ChatAppendOf
<1>3. \A n : Arrives(c, n) => Arrives(c, n)'
  BY <1>2 DEF Arrives, Carries
<1>4. QED BY <1>3 DEF Flow, Had, Carries

LEMMA ChatFlowTake ==
    ASSUME Talk!TypeOK, NEW c \in Session, ct_mailbox[c] # <<>>, ct_mailbox'[c] = Tail(ct_mailbox[c]),
           ct_shown[c] \subseteq ct_shown'[c], ct_lost'[c] = ct_lost[c],
           \A n \in Talk!Number : Carries(Head(ct_mailbox[c]), n) => n \in ct_shown'[c]
    PROVE  Flow(c)
<1>1. ct_mailbox[c] \in Seq(Talk!Message)
  BY DEF Talk!TypeOK
<1>2. /\ Head(ct_mailbox[c]) = ct_mailbox[c][1]
      /\ \A i \in DOMAIN ct_mailbox'[c] : ct_mailbox'[c][i] = ct_mailbox[c][i + 1]
      /\ \A i \in DOMAIN ct_mailbox[c] : i \in Int /\ (i = 1 \/ i - 1 \in DOMAIN ct_mailbox'[c])
  BY <1>1, ChatTailOf
<1>3. ASSUME NEW n \in Talk!Number, Arrives(c, n) PROVE n \in ct_shown'[c] \/ Arrives(c, n)'
  <2>1. PICK i \in DOMAIN ct_mailbox[c] : Carries(ct_mailbox[c][i], n)
    BY <1>3 DEF Arrives
  <2>2. CASE i = 1
    BY <1>2, <2>1, <2>2
  <2>3. CASE i - 1 \in DOMAIN ct_mailbox'[c]
    <3>1. ct_mailbox'[c][i - 1] = ct_mailbox[c][i]
      BY <1>2, <2>3
    <3>2. QED BY <2>1, <2>3, <3>1 DEF Arrives, Carries
  <2>4. QED BY <1>2, <2>2, <2>3
<1>4. QED BY <1>3 DEF Flow, Had, Carries

LEMMA ChatFlowFlush ==
    ASSUME NEW c \in Session, ct_shown[c] \subseteq ct_shown'[c], ct_lost[c] \subseteq ct_lost'[c],
           \A i \in DOMAIN ct_mailbox[c] :
               ct_mailbox[c][i].type \in {"new_msg", "history"} => ct_mailbox[c][i] \in ct_lost'[c]
    PROVE  Flow(c)
  BY DEF Flow, Had, Arrives, Carries

LEMMA ChatSeenKept ==
    ASSUME Flows, Speaks, NEW c \in Session, NEW r \in Room, r \in Talk!Joined(c), NEW n \in Talk!Number,
           Seen(c, r, n)
    PROVE  Seen(c, r, n)'
<1>1. CASE Had(c, n) \/ Arrives(c, n)
  BY <1>1 DEF Flows, Flow, Seen
<1>2. ASSUME NEW d \in Session, Sending(d, r, n) PROVE Seen(c, r, n)'
  BY <1>2 DEF Speaks, Seen
<1>3. QED BY <1>1, <1>2 DEF Seen

(* Nobody who asks for a history, registers a room or sends a message does        *)
(* anything else.                                                                *)
Minds == \A d \in Session :
    ct_doing[d].step \in {"history", "register", "broadcast"} => ct_doing'[d] = ct_doing[d]

LEMMA ChatMindsSpeaks == ASSUME Minds PROVE Speaks
  BY DEF Minds, Speaks, Sending

LEMMA ChatGaplessKept ==
    ASSUME ChatInv, Flows, Speaks, \A r \in Room : ct_name[r] # Talk!NoProcess => ct_name'[r] = ct_name[r],
           \A c \in Session, r \in Room :
               r \in Talk!Joined(c)' /\ CaughtUp(c, r)' => r \in Talk!Joined(c) /\ CaughtUp(c, r),
           \A r \in Room, n \in Talk!Number :
               ct_name[r] \in Talk!Process /\ ct_name'[r] = ct_name[r] /\ Stored(ct_name[r], n)' =>
                   Stored(ct_name[r], n) \/ \A c \in Session : Seen(c, r, n)'
    PROVE  Gapless'
<1> SUFFICES ASSUME NEW c \in Session, NEW r \in Talk!Joined(c)', CaughtUp(c, r)', NEW n \in Talk!Number,
                    Stored(ct_name[r], n)'
             PROVE  Seen(c, r, n)'
  BY DEF Gapless
<1>1. r \in Room /\ r \in Talk!Joined(c) /\ CaughtUp(c, r)
  BY DEF Talk!Joined
<1>2. ct_name[r] \in Talk!Process /\ ct_name'[r] = ct_name[r]
  BY <1>1 DEF ChatInv, Base, InRooms, RoomsOf, Talk!TypeOK
<1>3. Stored(ct_name[r], n) \/ Seen(c, r, n)'
  BY <1>1, <1>2
<1>4. Stored(ct_name[r], n) => Seen(c, r, n)
  BY <1>1 DEF ChatInv, Gapless
<1>5. QED BY <1>1, <1>3, <1>4, ChatSeenKept

LEMMA ChatFollowingKept ==
    ASSUME ChatInv, Flows, Speaks,
           \A p \in Talk!Process : \A k, j \in DOMAIN ct_box'[p] :
               k < j /\ ct_box'[p][k].type = "GetHistory" /\ ct_box'[p][j].type = "StoreMessage" =>
                   \/ Seen(ct_box[p][k].of, p[1], ct_box[p][j].number)'
                   \/ \E k0, j0 \in DOMAIN ct_box[p] :
                         k0 < j0 /\ ct_box[p][k0] = ct_box'[p][k] /\ ct_box[p][j0] = ct_box'[p][j]
    PROVE  Following'
<1> SUFFICES ASSUME NEW p \in Talk!Process, NEW k \in DOMAIN ct_box'[p], NEW j \in DOMAIN ct_box'[p], k < j,
                    ct_box'[p][k].type = "GetHistory", ct_box'[p][j].type = "StoreMessage",
                    NEW k0 \in DOMAIN ct_box[p], NEW j0 \in DOMAIN ct_box[p], k0 < j0,
                    ct_box[p][k0] = ct_box'[p][k], ct_box[p][j0] = ct_box'[p][j]
             PROVE  Seen(ct_box[p][k].of, p[1], ct_box[p][j].number)'
  BY DEF Following
<1>1. ct_box[p][k0] \in Talk!Request /\ ct_box[p][j0] \in Talk!Request /\ Talk!TypeOK
  BY ChatTypesOK DEF ChatInv
<1>2. ct_box[p][k0].of \in Session /\ ct_box[p][j0].number \in Talk!Number /\ p[1] \in Room
  BY <1>1 DEF Talk!Request, Talk!Process
<1>3. Seen(ct_box[p][k0].of, p[1], ct_box[p][j0].number)
  BY DEF ChatInv, Following
<1>4. ct_doing[ct_box[p][k0].of].step = "history" /\ ct_doing[ct_box[p][k0].of].room = p[1]
  BY DEF ChatInv, Base, Asked
<1>5. p[1] \in Talk!Joined(ct_box[p][k0].of)
  BY <1>2, <1>4 DEF ChatInv, Base, InRooms, RoomsOf
<1>6. \A c \in Session, n \in Talk!Number :
          c = ct_box[p][k0].of /\ n = ct_box[p][j0].number => Seen(c, p[1], n)'
  BY <1>2, <1>3, <1>5, ChatSeenKept
<1>7. QED BY <1>2, <1>6

(* A step that leaves the rooms alone.                                            *)
LEMMA ChatRoomsQuiet ==
    ASSUME ChatInv, UNCHANGED Talk!roomVars, Flows, Speaks,
           \A d \in Session : ct_doing[d].step \in {"history", "register"} => ct_doing'[d] = ct_doing[d],
           \A c \in Session, r \in Room :
               r \in Talk!Joined(c)' /\ CaughtUp(c, r)' => r \in Talk!Joined(c) /\ CaughtUp(c, r)
    PROVE  Named' /\ Talk!OneRoom' /\ Asked' /\ Gapless' /\ Following'
<1>1. ct_name' = ct_name /\ ct_alive' = ct_alive /\ ct_box' = ct_box /\ ct_history' = ct_history
  BY DEF Talk!roomVars
<1>2. Talk!TypeOK /\ Named /\ Talk!OneRoom /\ Asked
  BY DEF ChatInv, Base
<1>3. Named'
  BY <1>1, <1>2 DEF Named
<1>4. Talk!OneRoom'
  BY <1>1, <1>2 DEF Talk!OneRoom, Talk!TypeOK, Talk!Process
<1>5. Asked'
  <2>1. \A p \in Talk!Process : \A k \in DOMAIN ct_box[p] : ct_box[p][k].type = "GetHistory" =>
            ct_box[p][k].of \in Session
    BY <1>2, ChatTypesOK DEF Talk!Request
  <2>2. QED BY <1>1, <1>2, <2>1 DEF Asked
<1>6. Gapless'
  <2>1. \A p, n : Stored(p, n)' => Stored(p, n)
    BY <1>1 DEF Stored, Talk!Kept
  <2>2. QED BY <1>1, <2>1, ChatGaplessKept
<1>7. Following'
  BY <1>1, ChatFollowingKept
<1>8. QED BY <1>3, <1>4, <1>5, <1>6, <1>7

(* A step of session c does not take another out of a room.                       *)
LEMMA ChatRoomsKept ==
    ASSUME ChatInv, NEW c \in Session, RoomsOf(c)',
           \A d \in Session \ {c} : /\ ct_doing'[d] = ct_doing[d] /\ ct_stage'[d] = ct_stage[d]
                                    /\ ct_channels'[d] = ct_channels[d]
                                    /\ \A r \in Room : d \in ct_group[r] => d \in ct_group'[r],
           \A r \in Room : ct_name[r] # Talk!NoProcess => ct_name'[r] = ct_name[r]
    PROVE  InRooms'
<1>1. ASSUME NEW d \in Session \ {c} PROVE RoomsOf(d)'
  <2>1. RoomsOf(d) /\ Talk!Joined(d)' = Talk!Joined(d) /\ Talk!Joined(d) \subseteq Room /\ ct_doing[d] \in Doing
    BY <1>1, ChatTypesOK DEF ChatInv, Base, InRooms, Talk!Joined
  <2>2. ct_doing'[d] = ct_doing[d] /\ ct_stage'[d] = ct_stage[d]
    BY <1>1
  <2>3. \A r \in Talk!Joined(d) : d \in ct_group'[r] /\ ct_name'[r] # Talk!NoProcess
    BY <1>1, <2>1 DEF RoomsOf
  <2>4. ct_doing[d].step = "track" => ct_name'[ct_doing[d].room] # Talk!NoProcess
    BY <2>1 DEF RoomsOf
  <2>5. QED BY <2>1, <2>2, <2>3, <2>4 DEF RoomsOf
<1>2. QED BY <1>1 DEF InRooms

(* A step that the clients and their mailboxes see nothing of.                    *)
LEMMA ChatClientsQuiet ==
    ASSUME ChatInv, UNCHANGED <<ct_channels, ct_mailbox, Talk!clientVars, ct_lost>>
    PROVE  /\ Views' /\ Flows
           /\ \A c \in Session : Talk!Joined(c)' = Talk!Joined(c)
           /\ \A c \in Session, r \in Room : CaughtUp(c, r)' => CaughtUp(c, r)
<1>1. ct_shown' = ct_shown /\ ct_view' = ct_view /\ ct_caughtUp' = ct_caughtUp
  BY DEF Talk!clientVars
<1>2. \A c \in Session : Talk!Joined(c)' = Talk!Joined(c)
  BY DEF Talk!Joined
<1>3. \A r \in Room : Stay(r)
  BY DEF Stay
<1>4. Views'
  <2>1. \A c \in Session : \A r \in Talk!Joined(c) : r \in Room /\ ViewOf(c, r)
    BY DEF ChatInv, Views, Talk!Joined
  <2>2. \A c \in Session : \A r \in Talk!Joined(c) : ViewOf(c, r)'
    BY <1>1, <1>3, <2>1, ChatViewSame DEF ChatInv
  <2>3. QED BY <1>2, <2>2 DEF Views
<1>5. Flows
  BY <1>1, ChatFlowSame DEF Flows
<1>6. QED BY <1>1, <1>2, <1>4, <1>5 DEF CaughtUp

-----------------------------------------------------------------------------
LEMMA ChatGoesOK ==
    ASSUME Talk!TypeOK, NEW c \in Session, NEW s \in Steps, NEW r \in Room \cup {"no_room"}, Talk!Goes(c, s, r)
    PROVE  /\ ct_doing' \in [Session -> Doing]
           /\ ct_doing'[c].step = s /\ ct_doing'[c].room = r /\ ct_doing'[c].todo = ct_doing[c].todo
           /\ ct_doing'[c].number = ct_doing[c].number
           /\ \A d \in Session \ {c} : ct_doing'[d] = ct_doing[d]
  BY ChatTypesOK DEF Talk!Goes, Doing

LEMMA ChatRestsOK ==
    ASSUME Talk!TypeOK, NEW c \in Session, Talk!Rests(c)
    PROVE  /\ ct_doing' \in [Session -> Doing] /\ ct_doing'[c].step = "idle"
           /\ \A d \in Session \ {c} : ct_doing'[d] = ct_doing[d]
<1>1. Talk!Idle \in Doing /\ Talk!Idle.step = "idle"
  BY ChatAssumption DEF Talk!Idle, Doing, Steps, Talk!Number
<1>2. QED BY <1>1, ChatTypesOK DEF Talk!Rests

LEMMA ChatCommandOK ==
    ASSUME Talk!TypeOK, NEW c \in Session, Talk!Command(c)
    PROVE  /\ ct_commands' \in Talk!Number /\ ct_doing[c].step = "idle" /\ ct_stage[c] = "open"
           /\ ct_commands' \in Nat
  BY ChatAssumption, ChatTypesOK DEF Talk!Command, Talk!Now, Talk!TypeOK, Talk!Number

(* The mailboxes after a push.                                                    *)
LEMMA ChatPushOK ==
    ASSUME Talk!TypeOK, NEW r \in Room, NEW but, NEW m \in Talk!Message, Talk!Push(r, but, m)
    PROVE  /\ ct_mailbox' \in [Session -> Seq(Talk!Message)]
           /\ \A c \in Session :
                 \/ /\ c \in ct_group[r] /\ c # but /\ ct_stage[c] # "ended"
                    /\ ct_mailbox'[c] = Append(ct_mailbox[c], m)
                 \/ /\ ~(c \in ct_group[r] /\ c # but /\ ct_stage[c] # "ended")
                    /\ ct_mailbox'[c] = ct_mailbox[c]
<1>1. \A c \in Session : ct_mailbox[c] \in Seq(Talk!Message) /\ Append(ct_mailbox[c], m) \in Seq(Talk!Message)
  BY ChatAppendOf DEF Talk!TypeOK
<1>2. QED BY <1>1 DEF Talk!Push

LEMMA ChatAnsweredOK ==
    ASSUME Talk!TypeOK, NEW c \in Session, NEW then \in Seq(Talk!Message), Talk!Answered(c, then)
    PROVE  /\ ct_mailbox' \in [Session -> Seq(Talk!Message)] /\ ct_lost' \in [Session -> SUBSET Talk!Message]
           /\ ct_mailbox'[c] = then /\ ct_lost[c] \subseteq ct_lost'[c]
           /\ \A i \in DOMAIN ct_mailbox[c] :
                 ct_mailbox[c][i].type \in {"new_msg", "history", "user_left"}
                     => ct_mailbox[c][i] \in ct_lost'[c]
           /\ \A d \in Session \ {c} : ct_mailbox'[d] = ct_mailbox[d] /\ ct_lost'[d] = ct_lost[d]
<1>1. \A i \in DOMAIN ct_mailbox[c] : ct_mailbox[c][i] \in Talk!Message
  BY ChatTypesOK
<1>2. QED BY <1>1 DEF Talk!Answered, Talk!TypeOK

LEMMA ChatTakesOK ==
    ASSUME Talk!TypeOK, NEW c \in Session, NEW type, Talk!Takes(c, type)
    PROVE  /\ ct_mailbox' \in [Session -> Seq(Talk!Message)] /\ ct_mailbox'[c] = Tail(ct_mailbox[c])
           /\ ct_mailbox[c] # <<>> /\ Head(ct_mailbox[c]) \in Talk!Message /\ Head(ct_mailbox[c]).type = type
           /\ \A d \in Session \ {c} : ct_mailbox'[d] = ct_mailbox[d]
           /\ ct_doing[c].step = "idle" /\ ct_stage[c] = "open"
<1>1. ct_mailbox[c] \in Seq(Talk!Message)
  BY DEF Talk!TypeOK
<1>2. ct_mailbox[c] # <<>>
  BY DEF Talk!Takes
<1>3. Tail(ct_mailbox[c]) \in Seq(Talk!Message) /\ Head(ct_mailbox[c]) \in Talk!Message
  BY <1>1, <1>2, ChatTailOf
<1>4. QED BY <1>3 DEF Talk!Takes, Talk!Now, Talk!TypeOK

(* What the boxes of the rooms are after a request came to one.                     *)
LEMMA ChatRequestOK ==
    ASSUME Talk!TypeOK, NEW p \in Talk!Process, NEW q \in Talk!Request, ct_box' = [ct_box EXCEPT ![p] = Append(@, q)]
    PROVE  /\ ct_box' \in [Talk!Process -> Seq(Talk!Request)]
           /\ \A o \in Talk!Process \ {p} : ct_box'[o] = ct_box[o]
           /\ DOMAIN ct_box[p] = 1 .. Len(ct_box[p]) /\ Len(ct_box[p]) \in Nat
           /\ DOMAIN ct_box'[p] = 1 .. Len(ct_box[p]) + 1 /\ ct_box'[p][Len(ct_box[p]) + 1] = q
           /\ \A i \in DOMAIN ct_box[p] : i \in DOMAIN ct_box'[p] /\ ct_box'[p][i] = ct_box[p][i]
<1>1. ct_box[p] \in Seq(Talk!Request) /\ ct_box \in [Talk!Process -> Seq(Talk!Request)]
  BY DEF Talk!TypeOK
<1>2. ct_box'[p] = Append(ct_box[p], q)
  BY <1>1
<1>3. QED BY <1>1, <1>2, ChatAppendOf

LEMMA ChatServedOK ==
    ASSUME Talk!TypeOK, NEW p \in Talk!Process, ct_box[p] # <<>>, ct_box' = [ct_box EXCEPT ![p] = Tail(@)]
    PROVE  /\ ct_box' \in [Talk!Process -> Seq(Talk!Request)]
           /\ \A o \in Talk!Process \ {p} : ct_box'[o] = ct_box[o]
           /\ DOMAIN ct_box[p] = 1 .. Len(ct_box[p]) /\ Len(ct_box[p]) \in Nat
           /\ Head(ct_box[p]) = ct_box[p][1] /\ 1 \in DOMAIN ct_box[p] /\ Head(ct_box[p]) \in Talk!Request
           /\ DOMAIN ct_box'[p] = 1 .. Len(ct_box[p]) - 1
           /\ \A i \in DOMAIN ct_box'[p] : i + 1 \in DOMAIN ct_box[p] /\ ct_box'[p][i] = ct_box[p][i + 1]
<1>1. ct_box[p] \in Seq(Talk!Request) /\ ct_box \in [Talk!Process -> Seq(Talk!Request)]
  BY DEF Talk!TypeOK
<1>2. ct_box'[p] = Tail(ct_box[p])
  BY <1>1
<1>3. QED BY <1>1, <1>2, ChatTailOf

-----------------------------------------------------------------------------
(* Steps that neither the clients nor the rooms see anything of.                   *)
LEMMA ChatQuietOK ==
    ASSUME ChatInv, NEW c \in Session, UNCHANGED <<ct_channels, ct_mailbox, Talk!clientVars, ct_lost, Talk!roomVars>>,
           Talk!TypeOK', RoomsOf(c)', ct_doing[c].step \notin {"history", "register", "broadcast"},
           \A d \in Session \ {c} : /\ ct_doing'[d] = ct_doing[d] /\ ct_stage'[d] = ct_stage[d]
                                    /\ \A r \in Room : d \in ct_group[r] => d \in ct_group'[r]
    PROVE  ChatInv'
<1>1. /\ Views' /\ Flows /\ \A d \in Session : Talk!Joined(d)' = Talk!Joined(d)
      /\ \A d \in Session, r \in Room : CaughtUp(d, r)' => CaughtUp(d, r)
  BY ChatClientsQuiet
<1>2. Minds
  BY DEF Minds
<1>3. Named' /\ Talk!OneRoom' /\ Asked' /\ Gapless' /\ Following'
  BY <1>1, <1>2, ChatMindsSpeaks, ChatRoomsQuiet DEF Minds
<1>4. InRooms'
  BY ChatRoomsKept DEF Talk!roomVars
<1>5. QED BY <1>1, <1>3, <1>4 DEF ChatInv, Base

LEMMA ChatSetNickOK == ASSUME ChatInv, NEW c \in Session, NEW k \in Nick, Talk!SetNick(c, k) PROVE ChatInv'
<1>1. Talk!TypeOK /\ ct_commands' \in Talk!Number /\ ct_doing[c].step = "idle"
  BY ChatCommandOK DEF ChatInv, Talk!SetNick
<1>2. Talk!TypeOK'
  BY <1>1 DEF Talk!SetNick, Talk!TypeOK, Talk!roomVars, Talk!clientVars
<1>3. RoomsOf(c)'
  BY DEF ChatInv, Base, InRooms, RoomsOf, Talk!Joined, Talk!SetNick, Talk!roomVars
<1>4. QED BY <1>1, <1>2, <1>3, ChatQuietOK DEF Talk!SetNick

LEMMA ChatJoinOK == ASSUME ChatInv, NEW c \in Session, NEW r \in Room, Talk!Join(c, r) PROVE ChatInv'
<1>1. Talk!TypeOK /\ ct_commands' \in Talk!Number /\ ct_doing[c].step = "idle" /\ ct_stage[c] = "open"
  BY ChatCommandOK DEF ChatInv, Talk!Join
<1>2. /\ ct_doing' \in [Session -> Doing] /\ ct_doing'[c].room = r
      /\ ct_doing'[c].step = (IF ct_name[r] = Talk!NoProcess THEN "start" ELSE "track")
      /\ \A d \in Session \ {c} : ct_doing'[d] = ct_doing[d]
  BY <1>1, ChatGoesOK DEF Talk!Join, Steps
<1>3. Talk!TypeOK'
  BY <1>1, <1>2 DEF Talk!Join, Talk!TypeOK, Talk!roomVars, Talk!clientVars, Doing, Steps
<1>4. RoomsOf(c)'
  BY <1>2 DEF ChatInv, Base, InRooms, RoomsOf, Talk!Joined, Talk!Join, Talk!roomVars
<1>5. QED BY <1>1, <1>2, <1>3, <1>4, ChatQuietOK DEF Talk!Join

LEMMA ChatLeaveGroupOK == ASSUME ChatInv, NEW c \in Session, Talk!LeaveGroup(c) PROVE ChatInv'
<1>1. Talk!TypeOK /\ RoomsOf(c) /\ ct_doing[c].step = "leave" /\ ct_doing[c].room \in Room
  BY DEF ChatInv, Base, InRooms, RoomsOf, Talk!LeaveGroup, Talk!Now
<1>2. /\ ct_doing' \in [Session -> Doing] /\ ct_doing'[c].step = "idle"
      /\ \A d \in Session \ {c} : ct_doing'[d] = ct_doing[d]
  BY <1>1, ChatRestsOK DEF Talk!LeaveGroup
<1>3. Talk!TypeOK'
  BY <1>1, <1>2 DEF Talk!LeaveGroup, Talk!TypeOK, Talk!roomVars, Talk!clientVars, Doing, Steps
<1>4. RoomsOf(c)'
  BY <1>1, <1>2 DEF RoomsOf, Talk!Joined, Talk!LeaveGroup, Talk!roomVars, Talk!TypeOK
<1>5. \A d \in Session \ {c}, r \in Room : d \in ct_group[r] => d \in ct_group'[r]
  BY <1>1 DEF Talk!LeaveGroup, Talk!TypeOK
<1>6. QED BY <1>1, <1>2, <1>3, <1>4, <1>5, ChatQuietOK DEF Talk!LeaveGroup

LEMMA ChatCloseOK == ASSUME ChatInv, NEW c \in Session, Talk!Close(c) \/ Talk!End(c) PROVE ChatInv'
<1>1. Talk!TypeOK /\ ct_commands' \in Talk!Number /\ ct_doing[c].step = "idle"
  BY ChatCommandOK DEF ChatInv, Talk!Close, Talk!End, Talk!Now, Talk!TypeOK
<1>2. Talk!TypeOK'
  BY <1>1 DEF Talk!Close, Talk!End, Talk!TypeOK, Talk!roomVars, Talk!clientVars
<1>3. RoomsOf(c)'
  BY <1>1 DEF ChatInv, Base, InRooms, RoomsOf, Talk!Joined, Talk!Close, Talk!End, Talk!roomVars, Talk!TypeOK
<1>4. \A d \in Session \ {c} : ct_stage'[d] = ct_stage[d]
  BY <1>1 DEF Talk!Close, Talk!End, Talk!TypeOK
<1>5. QED BY <1>1, <1>2, <1>3, <1>4, ChatQuietOK DEF Talk!Close, Talk!End

LEMMA ChatAskOK == ASSUME ChatInv, NEW c \in Session, Talk!Ask(c) PROVE ChatInv'
<1>1. Talk!TypeOK /\ ct_commands' \in Talk!Number /\ ct_doing[c].step = "idle"
  BY ChatCommandOK DEF ChatInv, Talk!Ask
<1>2. /\ ct_doing' \in [Session -> Doing] /\ ct_doing'[c].step = "ask"
      /\ \A d \in Session \ {c} : ct_doing'[d] = ct_doing[d]
  BY <1>1, ChatGoesOK DEF Talk!Ask, Steps
<1>3. Talk!TypeOK'
  BY <1>1, <1>2 DEF Talk!Ask, Talk!TypeOK, Talk!roomVars, Talk!clientVars, Doing, Steps
<1>4. RoomsOf(c)'
  BY <1>2 DEF ChatInv, Base, InRooms, RoomsOf, Talk!Joined, Talk!Ask, Talk!roomVars
<1>5. QED BY <1>1, <1>2, <1>3, <1>4, ChatQuietOK DEF Talk!Ask

LEMMA ChatAnnouncedAllOK == ASSUME ChatInv, NEW c \in Session, Talk!AnnouncedAll(c) PROVE ChatInv'
<1>1. Talk!TypeOK /\ ct_doing[c].step = "after"
  BY DEF ChatInv, Talk!AnnouncedAll, Talk!Now
<1>2. /\ ct_doing' \in [Session -> Doing] /\ ct_doing'[c].step = "idle"
      /\ \A d \in Session \ {c} : ct_doing'[d] = ct_doing[d]
  BY <1>1, ChatRestsOK DEF Talk!AnnouncedAll
<1>3. Talk!TypeOK'
  BY <1>1, <1>2 DEF Talk!AnnouncedAll, Talk!TypeOK, Talk!roomVars, Talk!clientVars, Doing, Steps
<1>4. RoomsOf(c)'
  BY <1>2 DEF ChatInv, Base, InRooms, RoomsOf, Talk!Joined, Talk!AnnouncedAll, Talk!roomVars
<1>5. QED BY <1>1, <1>2, <1>3, <1>4, ChatQuietOK DEF Talk!AnnouncedAll

-----------------------------------------------------------------------------
LEMMA ChatStartRoomOK == ASSUME ChatInv, NEW c \in Session, Talk!StartRoom(c) PROVE ChatInv'
<1>1. Talk!TypeOK /\ RoomsOf(c) /\ ct_doing[c].step = "start" /\ ct_doing[c].room \in Room
  BY DEF ChatInv, Base, InRooms, RoomsOf, Talk!StartRoom, Talk!Now
<1>2. /\ ct_doing' \in [Session -> Doing] /\ ct_doing'[c].step = "register"
      /\ ct_doing'[c].room = ct_doing[c].room
      /\ \A d \in Session \ {c} : ct_doing'[d] = ct_doing[d]
  BY <1>1, ChatGoesOK DEF Talk!StartRoom, Steps
<1>3. Talk!TypeOK'
  <2>1. <<ct_doing[c].room, c>> \in Talk!Process
    BY <1>1 DEF Talk!Process
  <2>2. ct_alive' \subseteq Talk!Process
    BY <1>1, <2>1 DEF Talk!StartRoom, Talk!TypeOK
  <2>3. QED BY <1>1, <1>2, <2>2 DEF Talk!StartRoom, Talk!TypeOK, Talk!clientVars, Doing, Steps
<1>4. /\ Views' /\ Flows /\ \A d \in Session : Talk!Joined(d)' = Talk!Joined(d)
      /\ \A d \in Session, r \in Room : CaughtUp(d, r)' => CaughtUp(d, r)
  BY ChatClientsQuiet DEF Talk!StartRoom
<1>5. RoomsOf(c)'
  BY <1>1, <1>2 DEF RoomsOf, Talk!Joined, Talk!StartRoom
<1>6. InRooms'
  BY <1>2, <1>5, ChatRoomsKept DEF Talk!StartRoom
<1>7. Speaks /\ \A d \in Session : ct_doing[d].step = "history" => ct_doing'[d] = ct_doing[d]
  BY <1>1, <1>2, ChatMindsSpeaks DEF Speaks, Sending
<1>8. Named' /\ Asked'
  <2>1. \A p \in Talk!Process : \A k \in DOMAIN ct_box[p] : ct_box[p][k].type = "GetHistory" =>
            ct_box[p][k].of \in Session
    BY <1>1, ChatTypesOK DEF Talk!Request
  <2>2. QED BY <1>7, <2>1 DEF ChatInv, Base, Named, Asked, Talk!StartRoom
<1>9. Talk!OneRoom'
  <2> SUFFICES ASSUME NEW p \in ct_alive'
               PROVE  ct_name'[p[1]] = p \/ (ct_doing'[p[2]].step = "register" /\ ct_doing'[p[2]].room = p[1])
    BY DEF Talk!OneRoom
  <2>1. CASE p \in ct_alive
    <3>1. p[2] \in Session
      BY <1>1, <2>1 DEF Talk!TypeOK, Talk!Process
    <3>2. ct_name[p[1]] = p \/ (ct_doing[p[2]].step = "register" /\ ct_doing[p[2]].room = p[1])
      BY <2>1 DEF ChatInv, Base, Talk!OneRoom
    <3>3. QED BY <1>1, <1>2, <3>1, <3>2 DEF Talk!StartRoom
  <2>2. CASE p = <<ct_doing[c].room, c>>
    BY <1>2, <2>2
  <2>3. QED BY <2>1, <2>2 DEF Talk!StartRoom
<1>10. Gapless' /\ Following'
  <2>1. \A p, n : Stored(p, n)' => Stored(p, n)
    BY DEF Stored, Talk!Kept, Talk!StartRoom
  <2>2. Gapless'
    BY <1>4, <1>7, <2>1, ChatGaplessKept DEF Talk!StartRoom
  <2>3. QED BY <1>4, <1>7, <2>2, ChatFollowingKept DEF Talk!StartRoom
<1>11. QED BY <1>3, <1>4, <1>6, <1>8, <1>9, <1>10 DEF ChatInv, Base

LEMMA ChatRegisterRoomOK == ASSUME ChatInv, NEW c \in Session, Talk!RegisterRoom(c) PROVE ChatInv'
<1> DEFINE r == ct_doing[c].room
<1>1. Talk!TypeOK /\ RoomsOf(c) /\ ct_doing[c].step = "register" /\ r \in Room
  BY DEF ChatInv, Base, InRooms, RoomsOf, Talk!RegisterRoom, Talk!Now
<1>2. /\ ct_doing' \in [Session -> Doing] /\ ct_doing'[c].step = "track" /\ ct_doing'[c].room = r
      /\ \A d \in Session \ {c} : ct_doing'[d] = ct_doing[d]
  BY <1>1, ChatGoesOK DEF Talk!RegisterRoom, Steps
<1>3. <<r, c>> \in Talk!Process /\ <<r, c>> # Talk!NoProcess /\ Talk!NoProcess \notin Talk!Process
  BY <1>1 DEF Talk!Process, Talk!NoProcess
<1>4. /\ ct_name' \in [Room -> Talk!Process \cup {Talk!NoProcess}] /\ ct_alive' \subseteq ct_alive
      /\ \A q \in Room : ct_name[q] # Talk!NoProcess => ct_name'[q] = ct_name[q]
      /\ \A q \in Room : ct_name'[q] = ct_name[q] \/ (q = r /\ ct_name'[q] = <<r, c>>)
      /\ ct_name'[r] # Talk!NoProcess
      /\ ct_name'[r] = <<r, c>> \/ <<r, c>> \notin ct_alive'
  <2>1. CASE ct_name[r] = Talk!NoProcess
    <3>1. ct_name' = [ct_name EXCEPT ![r] = <<r, c>>] /\ ct_alive' = ct_alive
      BY <2>1 DEF Talk!RegisterRoom
    <3>2. QED BY <1>1, <1>3, <2>1, <3>1 DEF Talk!TypeOK
  <2>2. CASE ct_name[r] # Talk!NoProcess
    <3>1. ct_name' = ct_name /\ ct_alive' = ct_alive \ {<<r, c>>}
      BY <2>2 DEF Talk!RegisterRoom, Talk!WithoutLoser
    <3>2. QED BY <1>1, <2>2, <3>1 DEF Talk!TypeOK
  <2>3. QED BY <2>1, <2>2
<1>5. Talk!TypeOK'
  <2>1. ct_alive' \subseteq Talk!Process
    BY <1>1, <1>4 DEF Talk!TypeOK
  <2>2. QED BY <1>1, <1>2, <1>4, <2>1 DEF Talk!RegisterRoom, Talk!TypeOK, Talk!clientVars, Doing, Steps
<1>6. /\ Views' /\ Flows /\ \A d \in Session : Talk!Joined(d)' = Talk!Joined(d)
      /\ \A d \in Session, q \in Room : CaughtUp(d, q)' => CaughtUp(d, q)
  BY ChatClientsQuiet DEF Talk!RegisterRoom
<1>7. RoomsOf(c)'
  <2>1. \A q \in Talk!Joined(c) : q \in Room /\ ct_name'[q] # Talk!NoProcess
    BY <1>1, <1>4 DEF RoomsOf, Talk!Joined
  <2>2. QED BY <1>1, <1>2, <1>4, <1>6, <2>1 DEF RoomsOf, Talk!RegisterRoom
<1>8. InRooms'
  BY <1>2, <1>4, <1>7, ChatRoomsKept DEF Talk!RegisterRoom
<1>9. Speaks /\ \A d \in Session : ct_doing[d].step = "history" => ct_doing'[d] = ct_doing[d]
  BY <1>1, <1>2 DEF Speaks, Sending
<1>10. Named'
  <2>1. \A q \in Room : ct_name[q] # Talk!NoProcess => ct_name[q][1] = q
    BY DEF ChatInv, Base, Named
  <2>2. <<r, c>>[1] = r
    OBVIOUS
  <2>3. QED BY <1>4, <2>1, <2>2 DEF Named
<1>11. Asked'
  <2>1. \A p \in Talk!Process : \A k \in DOMAIN ct_box[p] : ct_box[p][k].type = "GetHistory" =>
            ct_box[p][k].of \in Session
    BY <1>1, ChatTypesOK DEF Talk!Request
  <2>2. \A p \in Talk!Process : p[1] \in Room /\ (ct_name[p[1]] = p => ct_name'[p[1]] = p)
    BY <1>3, <1>4 DEF Talk!Process
  <2>3. QED BY <1>9, <2>1, <2>2 DEF ChatInv, Base, Asked, Talk!RegisterRoom
<1>12. Talk!OneRoom'
  <2> SUFFICES ASSUME NEW p \in ct_alive'
               PROVE  ct_name'[p[1]] = p \/ (ct_doing'[p[2]].step = "register" /\ ct_doing'[p[2]].room = p[1])
    BY DEF Talk!OneRoom
  <2>1. p \in ct_alive /\ p \in Talk!Process /\ p[1] \in Room /\ p[2] \in Session /\ p = <<p[1], p[2]>>
    BY <1>1, <1>4 DEF Talk!TypeOK, Talk!Process
  <2>2. ct_name[p[1]] = p \/ (ct_doing[p[2]].step = "register" /\ ct_doing[p[2]].room = p[1])
    BY <2>1 DEF ChatInv, Base, Talk!OneRoom
  <2>3. CASE ct_name[p[1]] = p
    BY <1>3, <1>4, <2>1, <2>3
  <2>4. CASE ct_doing[p[2]].step = "register" /\ ct_doing[p[2]].room = p[1]
    <3>1. CASE p[2] = c
      BY <1>4, <2>1, <2>4, <3>1
    <3>2. CASE p[2] # c
      BY <1>2, <2>1, <2>4, <3>2
    <3>3. QED BY <3>1, <3>2
  <2>5. QED BY <2>2, <2>3, <2>4
<1>13. Gapless' /\ Following'
  <2>1. \A p, n : Stored(p, n)' => Stored(p, n)
    BY DEF Stored, Talk!Kept, Talk!RegisterRoom
  <2>2. Gapless'
    BY <1>4, <1>6, <1>9, <2>1, ChatGaplessKept DEF Talk!RegisterRoom
  <2>3. QED BY <1>6, <1>9, <2>2, ChatFollowingKept DEF Talk!RegisterRoom
<1>14. QED BY <1>5, <1>6, <1>8, <1>10, <1>11, <1>12, <1>13 DEF ChatInv, Base

-----------------------------------------------------------------------------
(* Steps that only add to the box of a room.                                      *)
LEMMA ChatAskedKept ==
    ASSUME ChatInv, NEW p \in Talk!Process, UNCHANGED ct_name,
           \A d \in Session : ct_doing[d].step = "history" => ct_doing'[d] = ct_doing[d],
           \A o \in Talk!Process : \A k \in DOMAIN ct_box'[o] : ct_box'[o][k].type = "GetHistory" =>
               k \in DOMAIN ct_box[o] /\ ct_box'[o][k] = ct_box[o][k]
    PROVE  Asked'
<1>1. \A o \in Talk!Process : \A k \in DOMAIN ct_box[o] : ct_box[o][k].type = "GetHistory" =>
          ct_box[o][k].of \in Session
  BY ChatTypesOK DEF Talk!Request, ChatInv
<1>2. Asked
  BY DEF ChatInv, Base
<1> SUFFICES ASSUME NEW o \in Talk!Process, NEW k \in DOMAIN ct_box'[o], ct_box'[o][k].type = "GetHistory"
             PROVE  /\ ct_doing'[ct_box'[o][k].of].step = "history" /\ ct_doing'[ct_box'[o][k].of].room = o[1]
                    /\ ct_name'[o[1]] = o
                    /\ \A j \in DOMAIN ct_box'[o] :
                          ct_box'[o][j].type = "GetHistory" /\ ct_box'[o][j].of = ct_box'[o][k].of => j = k
  BY DEF Asked
<1>3. k \in DOMAIN ct_box[o] /\ ct_box'[o][k] = ct_box[o][k] /\ ct_box[o][k].of \in Session
  BY <1>1
<1>4. ct_doing[ct_box[o][k].of].step = "history" /\ ct_doing[ct_box[o][k].of].room = o[1] /\ ct_name[o[1]] = o
  BY <1>2, <1>3 DEF Asked
<1>5. ASSUME NEW j \in DOMAIN ct_box'[o], ct_box'[o][j].type = "GetHistory", ct_box'[o][j].of = ct_box'[o][k].of
      PROVE  j = k
  <2>1. j \in DOMAIN ct_box[o] /\ ct_box'[o][j] = ct_box[o][j]
    BY <1>5
  <2>2. QED BY <1>2, <1>3, <1>5, <2>1 DEF Asked
<1>6. QED BY <1>3, <1>4, <1>5

LEMMA ChatMsgOK == ASSUME ChatInv, NEW c \in Session, NEW r \in Room, Talk!Msg(c, r) PROVE ChatInv'
<1> DEFINE p == ct_name[r]
           q == [type |-> "StoreMessage", number |-> ct_commands']
<1>1. Talk!TypeOK /\ RoomsOf(c) /\ ct_commands' \in Talk!Number /\ ct_doing[c].step = "idle" /\ ct_stage[c] = "open"
  BY ChatCommandOK DEF ChatInv, Base, InRooms, Talk!Msg
<1>n. PICK n \in Talk!Number : n = ct_commands'
  BY <1>1
<1>2. p \in Talk!Process /\ q \in Talk!Request /\ r \in Talk!Joined(c)
  BY <1>1 DEF Talk!Msg, RoomsOf, Talk!TypeOK, Talk!Request
<1>3. /\ ct_doing' \in [Session -> Doing] /\ Sending(c, r, n)'
      /\ ct_doing'[c].step = "broadcast" /\ ct_doing'[c].room = r
      /\ \A d \in Session \ {c} : ct_doing'[d] = ct_doing[d]
  <2>1. [step |-> "broadcast", room |-> r, todo |-> {}, number |-> ct_commands'] \in Doing
    BY <1>1 DEF Doing, Steps
  <2>2. QED BY <1>1, <1>n, <2>1, ChatTypesOK DEF Talk!Msg, Sending
<1>4. /\ ct_box' \in [Talk!Process -> Seq(Talk!Request)]
      /\ \A o \in Talk!Process \ {p} : ct_box'[o] = ct_box[o]
      /\ DOMAIN ct_box[p] = 1 .. Len(ct_box[p]) /\ Len(ct_box[p]) \in Nat
      /\ DOMAIN ct_box'[p] = 1 .. Len(ct_box[p]) + 1 /\ ct_box'[p][Len(ct_box[p]) + 1] = q
      /\ \A i \in DOMAIN ct_box[p] : i \in DOMAIN ct_box'[p] /\ ct_box'[p][i] = ct_box[p][i]
  <2>1. ct_box' = [ct_box EXCEPT ![p] = Append(@, q)]
    BY DEF Talk!Msg
  <2>2. QED BY <1>1, <1>2, <2>1, ChatRequestOK
<1>5. Talk!TypeOK'
  BY <1>1, <1>3, <1>4 DEF Talk!Msg, Talk!TypeOK, Talk!clientVars, Doing, Steps
<1>6. /\ Views' /\ Flows /\ \A d \in Session : Talk!Joined(d)' = Talk!Joined(d)
      /\ \A d \in Session, o \in Room : CaughtUp(d, o)' => CaughtUp(d, o)
  BY ChatClientsQuiet DEF Talk!Msg
<1>7. RoomsOf(c)'
  BY <1>1, <1>3 DEF RoomsOf, Talk!Joined, Talk!Msg
<1>8. InRooms'
  BY <1>3, <1>7, ChatRoomsKept DEF Talk!Msg
<1>9. Minds /\ Speaks
  BY <1>1, <1>3, ChatMindsSpeaks DEF Minds
<1>10. Named'
  BY DEF ChatInv, Base, Named, Talk!Msg
<1>11. Talk!OneRoom'
  <2>1. \A o \in ct_alive : o[2] \in Session
    BY <1>1 DEF Talk!TypeOK, Talk!Process
  <2>2. QED BY <1>9, <2>1 DEF ChatInv, Base, Talk!OneRoom, Talk!Msg, Minds
<1>12. ASSUME NEW o \in Talk!Process, NEW k \in DOMAIN ct_box'[o]
       PROVE  \/ k \in DOMAIN ct_box[o] /\ ct_box'[o][k] = ct_box[o][k]
              \/ o = p /\ k = Len(ct_box[p]) + 1 /\ ct_box'[o][k] = q
  <2>1. CASE o = p
    <3>1. k \in 1 .. Len(ct_box[p]) + 1 /\ Len(ct_box[p]) \in Nat
      BY <1>4, <2>1
    <3>2. k \in 1 .. Len(ct_box[p]) \/ k = Len(ct_box[p]) + 1
      BY <3>1
    <3>3. CASE k \in 1 .. Len(ct_box[p])
      BY <1>4, <2>1, <3>3
    <3>4. CASE k = Len(ct_box[p]) + 1
      BY <1>4, <2>1, <3>4
    <3>5. QED BY <3>2, <3>3, <3>4
  <2>2. CASE o # p
    BY <1>4, <2>2
  <2>3. QED BY <2>1, <2>2
<1>13. Asked'
  <2>1. q.type = "StoreMessage"
    OBVIOUS
  <2>2. \A o \in Talk!Process : \A k \in DOMAIN ct_box'[o] : ct_box'[o][k].type = "GetHistory" =>
            k \in DOMAIN ct_box[o] /\ ct_box'[o][k] = ct_box[o][k]
    BY <1>12, <2>1
  <2>3. ct_name' = ct_name
    BY DEF Talk!Msg
  <2>4. QED BY <1>2, <1>9, <2>2, <2>3, ChatAskedKept DEF Minds
<1>14. \A d \in Session : Seen(d, r, n)'
  BY <1>3 DEF Seen
<1>15. Gapless'
  <2>1. ASSUME NEW o \in Room, NEW m \in Talk!Number, ct_name[o] \in Talk!Process, Stored(ct_name[o], m)'
        PROVE  Stored(ct_name[o], m) \/ \A d \in Session : Seen(d, o, m)'
    <3>1. ct_name' = ct_name /\ ct_history' = ct_history
      BY DEF Talk!Msg
    <3>2. CASE m \in Talk!Kept(ct_name[o])'
      BY <3>1, <3>2 DEF Stored, Talk!Kept
    <3>3. ASSUME NEW j \in DOMAIN ct_box'[ct_name[o]], ct_box'[ct_name[o]][j].type = "StoreMessage",
                 ct_box'[ct_name[o]][j].number = m
          PROVE  Stored(ct_name[o], m) \/ \A d \in Session : Seen(d, o, m)'
      <4>1. CASE j \in DOMAIN ct_box[ct_name[o]] /\ ct_box'[ct_name[o]][j] = ct_box[ct_name[o]][j]
        BY <3>3, <4>1 DEF Stored
      <4>2. CASE ct_name[o] = p /\ ct_box'[ct_name[o]][j] = q
        <5>1. o = r
          <6>1. Talk!NoProcess \notin Talk!Process
            BY DEF Talk!Process, Talk!NoProcess
          <6>2. ct_name[o] # Talk!NoProcess /\ ct_name[o] = ct_name[r]
            BY <1>2, <2>1, <4>2, <6>1
          <6>3. ct_name[o][1] = o /\ ct_name[r][1] = r
            BY <6>2 DEF ChatInv, Base, Named
          <6>4. QED BY <6>2, <6>3
        <5>2. m = n
          BY <1>n, <3>3, <4>2
        <5>3. QED BY <1>14, <5>1, <5>2
      <4>3. QED BY <1>12, <2>1, <4>1, <4>2
    <3>4. QED BY <2>1, <3>1, <3>2, <3>3 DEF Stored
  <2>2. QED BY <1>6, <1>9, <2>1, ChatGaplessKept DEF Talk!Msg
<1>16. Following'
  <2>1. ASSUME NEW o \in Talk!Process, NEW k \in DOMAIN ct_box'[o], NEW j \in DOMAIN ct_box'[o], k < j,
               ct_box'[o][k].type = "GetHistory", ct_box'[o][j].type = "StoreMessage"
        PROVE  \/ Seen(ct_box[o][k].of, o[1], ct_box[o][j].number)'
               \/ \E k0, j0 \in DOMAIN ct_box[o] :
                     k0 < j0 /\ ct_box[o][k0] = ct_box'[o][k] /\ ct_box[o][j0] = ct_box'[o][j]
    <3>1. k \in DOMAIN ct_box[o] /\ ct_box'[o][k] = ct_box[o][k]
      BY <1>12, <2>1
    <3>2. CASE o = p /\ ct_box'[o][j] = q
      <4>1. ct_box[o][k] \in Talk!Request
        BY <1>1, <3>1, ChatTypesOK
      <4>2. ct_box'[o][k].of \in Session /\ ct_box'[o][j].number = n
        BY <1>n, <2>1, <3>1, <3>2, <4>1 DEF Talk!Request
      <4>3. o[1] = r
        BY <1>2, <3>2 DEF ChatInv, Base, Named, Talk!Process, Talk!NoProcess
      <4>4. \A d \in Session : d = ct_box'[o][k].of => Seen(d, o[1], ct_box[o][j].number)'
        BY <1>14, <4>2, <4>3
      <4>5. QED BY <4>2, <4>4
    <3>3. CASE j \in DOMAIN ct_box[o] /\ ct_box'[o][j] = ct_box[o][j]
      BY <2>1, <3>1, <3>3
    <3>4. QED BY <1>12, <3>2, <3>3
  <2>2. QED BY <1>6, <1>9, <2>1, ChatFollowingKept
<1>17. QED BY <1>5, <1>6, <1>8, <1>10, <1>11, <1>13, <1>15, <1>16 DEF ChatInv, Base

LEMMA ChatStoreMessageOK ==
    ASSUME ChatInv, NEW p \in ct_alive, Talk!StoreMessage(p)
    PROVE  ChatInv'
<1>1. Talk!TypeOK /\ p \in Talk!Process
  BY DEF ChatInv, Talk!TypeOK
<1>2. /\ ct_box' \in [Talk!Process -> Seq(Talk!Request)]
      /\ \A o \in Talk!Process \ {p} : ct_box'[o] = ct_box[o]
      /\ DOMAIN ct_box[p] = 1 .. Len(ct_box[p]) /\ Len(ct_box[p]) \in Nat
      /\ Head(ct_box[p]) = ct_box[p][1] /\ 1 \in DOMAIN ct_box[p] /\ Head(ct_box[p]) \in Talk!Request
      /\ DOMAIN ct_box'[p] = 1 .. Len(ct_box[p]) - 1
      /\ \A i \in DOMAIN ct_box'[p] : i + 1 \in DOMAIN ct_box[p] /\ ct_box'[p][i] = ct_box[p][i + 1]
  BY <1>1, ChatServedOK DEF Talk!StoreMessage
<1>3. PICK n \in Talk!Number : n = ct_box[p][1].number
  BY <1>2 DEF Talk!StoreMessage, Talk!Request
<1>4. /\ ct_history' \in [Talk!Process -> Seq(Talk!Number)]
      /\ \A m : m \in Talk!Kept(p)' => m \in Talk!Kept(p) \/ m = n
      /\ \A o \in Talk!Process \ {p} : ct_history'[o] = ct_history[o]
  <2> DEFINE all == Append(ct_history[p], n)
             over == IF Len(all) > MaxHistory THEN Len(all) - MaxHistory ELSE 0
  <2>1. /\ all \in Seq(Talk!Number) /\ DOMAIN all = 1 .. Len(ct_history[p]) + 1
        /\ DOMAIN ct_history[p] = 1 .. Len(ct_history[p]) /\ Len(ct_history[p]) \in Nat
        /\ \A i \in DOMAIN ct_history[p] : all[i] = ct_history[p][i]
        /\ all[Len(ct_history[p]) + 1] = n
    <3>1. ct_history[p] \in Seq(Talk!Number)
      BY <1>1 DEF Talk!TypeOK
    <3>2. QED BY <3>1, ChatAppendOf
  <2>2. Len(all) \in Nat /\ DOMAIN all = 1 .. Len(all)
    BY <2>1, LenProperties
  <2>3. over \in Nat /\ over <= Len(all)
    BY <2>2, ChatAssumption
  <2> HIDE DEF all, over
  <2>4. /\ SubSeq(all, over + 1, Len(all)) \in Seq(Talk!Number)
        /\ Len(SubSeq(all, over + 1, Len(all))) = Len(all) - over
        /\ \A i \in 1 .. Len(all) - over : SubSeq(all, over + 1, Len(all))[i] = all[over + i]
    BY <2>1, <2>2, <2>3, SubSeqProperties
  <2>5. ct_history' = [ct_history EXCEPT ![p] = SubSeq(all, over + 1, Len(all))]
    BY <1>2, <1>3 DEF Talk!StoreMessage, all, over
  <2>6. ct_history'[p] = SubSeq(all, over + 1, Len(all))
    BY <1>1, <2>5 DEF Talk!TypeOK
  <2>7. DOMAIN ct_history'[p] = 1 .. Len(all) - over
    BY <2>4, <2>6, LenProperties
  <2>8. \A i \in DOMAIN ct_history'[p] : ct_history'[p][i] = n \/ ct_history'[p][i] \in Talk!Kept(p)
    <3>1. \A j \in DOMAIN all : all[j] = n \/ all[j] \in Talk!Kept(p)
      BY <2>1 DEF Talk!Kept
    <3>2. \A i \in 1 .. Len(all) - over : over + i \in DOMAIN all
      BY <2>2, <2>3
    <3>3. QED BY <2>4, <2>6, <2>7, <3>1, <3>2
  <2>9. QED BY <1>1, <2>4, <2>5, <2>8 DEF Talk!TypeOK, Talk!Kept
<1>5. Talk!TypeOK'
  BY <1>1, <1>2, <1>4 DEF Talk!StoreMessage, Talk!TypeOK, Talk!clientVars
<1>6. /\ Views' /\ Flows /\ \A d \in Session : Talk!Joined(d)' = Talk!Joined(d)
      /\ \A d \in Session, r \in Room : CaughtUp(d, r)' => CaughtUp(d, r)
  BY ChatClientsQuiet DEF Talk!StoreMessage
<1>7. InRooms' /\ Named' /\ Talk!OneRoom'
  BY DEF ChatInv, Base, InRooms, RoomsOf, Talk!Joined, Named, Talk!OneRoom, Talk!StoreMessage
<1>8. Minds /\ Speaks
  BY ChatMindsSpeaks DEF Minds, Talk!StoreMessage
<1>9. \A o \in Talk!Process : \A k, j \in DOMAIN ct_box'[o] :
          \E k0, j0 \in DOMAIN ct_box[o] :
              /\ ct_box[o][k0] = ct_box'[o][k] /\ ct_box[o][j0] = ct_box'[o][j]
              /\ (k < j) = (k0 < j0) /\ (k = j) = (k0 = j0)
  <2> SUFFICES ASSUME NEW o \in Talk!Process, NEW k \in DOMAIN ct_box'[o], NEW j \in DOMAIN ct_box'[o]
               PROVE  \E k0, j0 \in DOMAIN ct_box[o] :
                          /\ ct_box[o][k0] = ct_box'[o][k] /\ ct_box[o][j0] = ct_box'[o][j]
                          /\ (k < j) = (k0 < j0) /\ (k = j) = (k0 = j0)
    OBVIOUS
  <2>1. CASE o = p
    <3>1. k \in Int /\ j \in Int
      BY <1>2, <2>1
    <3>2. /\ k + 1 \in DOMAIN ct_box[o] /\ j + 1 \in DOMAIN ct_box[o]
          /\ ct_box[o][k + 1] = ct_box'[o][k] /\ ct_box[o][j + 1] = ct_box'[o][j]
      BY <1>2, <2>1
    <3>3. (k < j) = (k + 1 < j + 1) /\ (k = j) = (k + 1 = j + 1)
      BY <3>1
    <3>4. QED BY <3>2, <3>3
  <2>2. CASE o # p
    BY <1>2, <2>2
  <2>3. QED BY <2>1, <2>2
<1>10. Asked'
  <2>1. Asked /\ UNCHANGED <<ct_doing, ct_name>>
    BY DEF ChatInv, Base, Talk!StoreMessage
  <2>2. ASSUME NEW o \in Talk!Process, NEW k \in DOMAIN ct_box'[o], ct_box'[o][k].type = "GetHistory"
        PROVE  /\ ct_doing[ct_box'[o][k].of].step = "history" /\ ct_doing[ct_box'[o][k].of].room = o[1]
               /\ ct_name[o[1]] = o
               /\ \A j \in DOMAIN ct_box'[o] :
                     ct_box'[o][j].type = "GetHistory" /\ ct_box'[o][j].of = ct_box'[o][k].of => j = k
    <3>1. \E k0 \in DOMAIN ct_box[o] : ct_box[o][k0] = ct_box'[o][k]
      BY <1>9
    <3>2. ASSUME NEW j \in DOMAIN ct_box'[o], ct_box'[o][j].type = "GetHistory",
                 ct_box'[o][j].of = ct_box'[o][k].of
          PROVE  j = k
      <4>1. PICK k0, j0 \in DOMAIN ct_box[o] :
                /\ ct_box[o][k0] = ct_box'[o][k] /\ ct_box[o][j0] = ct_box'[o][j]
                /\ (k < j) = (k0 < j0) /\ (k = j) = (k0 = j0)
        BY <1>9
      <4>2. QED BY <2>1, <2>2, <3>2, <4>1 DEF Asked
    <3>3. QED BY <2>1, <2>2, <3>1, <3>2 DEF Asked
  <2>3. QED BY <2>1, <2>2 DEF Asked
<1>11. Gapless'
  <2>1. ASSUME NEW o \in Talk!Process, NEW m, Stored(o, m)'
        PROVE  Stored(o, m)
    <3>1. ASSUME NEW j \in DOMAIN ct_box'[o], ct_box'[o][j].type = "StoreMessage", ct_box'[o][j].number = m
          PROVE  Stored(o, m)
      BY <1>9, <3>1 DEF Stored
    <3>2. CASE m \in Talk!Kept(o)'
      <4>1. CASE o = p /\ m = n
        BY <1>2, <1>3, <4>1 DEF Stored, Talk!StoreMessage
      <4>2. CASE o # p
        BY <1>4, <3>2, <4>2 DEF Stored, Talk!Kept
      <4>3. CASE o = p /\ m # n
        BY <1>4, <3>2, <4>3 DEF Stored
      <4>4. QED BY <4>1, <4>2, <4>3
    <3>3. QED BY <2>1, <3>1, <3>2 DEF Stored
  <2>2. ct_name' = ct_name
    BY DEF Talk!StoreMessage
  <2>3. QED BY <1>6, <1>8, <2>1, <2>2, ChatGaplessKept
<1>12. Following'
  <2>1. \A o \in Talk!Process : \A k, j \in DOMAIN ct_box'[o] : k < j =>
            \E k0, j0 \in DOMAIN ct_box[o] :
                k0 < j0 /\ ct_box[o][k0] = ct_box'[o][k] /\ ct_box[o][j0] = ct_box'[o][j]
    BY <1>9
  <2>2. QED BY <1>6, <1>8, <2>1, ChatFollowingKept
<1>13. QED BY <1>5, <1>6, <1>7, <1>10, <1>11, <1>12 DEF ChatInv, Base

-----------------------------------------------------------------------------
(* A session that takes a message from its mailbox.                               *)
LEMMA ChatTakenOK ==
    ASSUME ChatInv, NEW c \in Session, NEW type, Talk!Takes(c, type), Talk!TypeOK',
           UNCHANGED <<ct_stage, ct_channels, ct_group, Talk!roomVars, ct_lost>>, RoomsOf(c)',
           \A d \in Session \ {c} : /\ ct_doing'[d] = ct_doing[d] /\ ct_view'[d] = ct_view[d]
                                    /\ ct_shown'[d] = ct_shown[d] /\ ct_caughtUp'[d] = ct_caughtUp[d],
           ct_shown[c] \subseteq ct_shown'[c],
           \A n \in Talk!Number : Carries(Head(ct_mailbox[c]), n) => n \in ct_shown'[c],
           \A r \in ct_caughtUp'[c] :
              \/ r \in ct_caughtUp[c]
              \/ Head(ct_mailbox[c]).type = "history" /\ Head(ct_mailbox[c]).room = r,
           \A r \in Room : \A who \in ct_view'[c][r] :
              \/ who \in ct_view[c][r] /\ Head(ct_mailbox[c]) # Talk!Gone(r, who)
              \/ /\ Head(ct_mailbox[c]).type = "user_joined" /\ Head(ct_mailbox[c]).room = r
                 /\ Head(ct_mailbox[c]).who = who
    PROVE  ChatInv'
<1>1. Talk!TypeOK /\ ct_doing[c].step = "idle"
  BY ChatTakesOK DEF ChatInv
<1>2. /\ ct_mailbox'[c] = Tail(ct_mailbox[c]) /\ ct_mailbox[c] # <<>>
      /\ \A d \in Session \ {c} : ct_mailbox'[d] = ct_mailbox[d]
  BY <1>1, ChatTakesOK
<1>3. Flows
  BY <1>1, <1>2, ChatFlowTake, ChatFlowSame DEF Flows
<1>4. Minds /\ Speaks
  BY <1>1, ChatMindsSpeaks DEF Minds
<1>5. \A d \in Session : Talk!Joined(d)' = Talk!Joined(d)
  BY DEF Talk!Joined
<1>6. \A d \in Session, r \in Room : CaughtUp(d, r)' => CaughtUp(d, r)
  <2>1. ct_mailbox[c] \in Seq(Talk!Message)
    BY <1>1 DEF Talk!TypeOK
  <2>2. /\ Head(ct_mailbox[c]) = ct_mailbox[c][1] /\ 1 \in DOMAIN ct_mailbox[c]
        /\ \A i \in DOMAIN ct_mailbox'[c] :
              i + 1 \in DOMAIN ct_mailbox[c] /\ ct_mailbox'[c][i] = ct_mailbox[c][i + 1]
    BY <1>2, <2>1, ChatTailOf
  <2>3. \A r \in Room : CaughtUp(c, r)' => CaughtUp(c, r)
    BY <2>2 DEF CaughtUp
  <2>4. \A d \in Session \ {c} : ct_caughtUp'[d] = ct_caughtUp[d] /\ ct_mailbox'[d] = ct_mailbox[d]
    BY <1>2
  <2>5. \A d \in Session \ {c} : \A r \in Room : CaughtUp(d, r)' => CaughtUp(d, r)
    BY <2>4 DEF CaughtUp
  <2>6. QED BY <2>3, <2>5
<1>7. Named' /\ Talk!OneRoom' /\ Asked' /\ Gapless' /\ Following'
  BY <1>3, <1>4, <1>5, <1>6, ChatRoomsQuiet DEF Minds
<1>8. InRooms'
  BY ChatRoomsKept DEF Talk!roomVars
<1>9. Views'
  <2>1. \A r \in Room : Stay(r)
    BY DEF Stay
  <2>2. \A d \in Session : \A r \in Talk!Joined(d) : r \in Room /\ ViewOf(d, r)
    BY DEF ChatInv, Views, Talk!Joined
  <2>3. ASSUME NEW d \in Session \ {c}, NEW r \in Talk!Joined(d) PROVE ViewOf(d, r)'
    BY <1>1, <1>2, <2>1, <2>2, <2>3, ChatViewSame
  <2>4. ASSUME NEW r \in Talk!Joined(c) PROVE ViewOf(c, r)'
    BY <1>1, <1>2, <2>1, <2>2, <2>4, ChatViewTake
  <2>5. QED BY <1>5, <2>3, <2>4 DEF Views
<1>10. QED BY <1>7, <1>8, <1>9 DEF ChatInv, Base

LEMMA ChatForwardMessageOK == ASSUME ChatInv, NEW c \in Session, Talk!ForwardMessage(c) PROVE ChatInv'
<1> DEFINE m == Head(ct_mailbox[c])
<1>1. Talk!TypeOK /\ Talk!Takes(c, "new_msg")
  BY DEF ChatInv, Talk!ForwardMessage
<1>2. /\ ct_mailbox' \in [Session -> Seq(Talk!Message)] /\ m \in Talk!Message /\ m.type = "new_msg"
  BY <1>1, ChatTakesOK
<1>3. m.number \in Talk!Number /\ \A n \in Talk!Number : Carries(m, n) => n = m.number
  BY <1>2 DEF Talk!Message, Carries
<1>4. /\ ct_shown' \in [Session -> SUBSET Talk!Number] /\ ct_shown'[c] = ct_shown[c] \cup {m.number}
      /\ \A d \in Session \ {c} : ct_shown'[d] = ct_shown[d]
  BY <1>1, <1>3 DEF Talk!ForwardMessage, Talk!TypeOK
<1>5. Talk!TypeOK'
  BY <1>1, <1>2, <1>4 DEF Talk!ForwardMessage, Talk!TypeOK, Talk!roomVars
<1>6. RoomsOf(c)'
  BY DEF ChatInv, Base, InRooms, RoomsOf, Talk!Joined, Talk!ForwardMessage, Talk!roomVars
<1>7. \A r \in Room : \A who : m # Talk!Gone(r, who)
  BY <1>2 DEF Talk!Gone
<1>8. QED BY <1>1, <1>3, <1>4, <1>5, <1>6, <1>7, ChatTakenOK DEF Talk!ForwardMessage

LEMMA ChatForwardHistoryOK == ASSUME ChatInv, NEW c \in Session, Talk!ForwardHistory(c) PROVE ChatInv'
<1> DEFINE m == Head(ct_mailbox[c])
<1>1. Talk!TypeOK /\ Talk!Takes(c, "history")
  BY DEF ChatInv, Talk!ForwardHistory
<1>2. /\ ct_mailbox' \in [Session -> Seq(Talk!Message)] /\ m \in Talk!Message /\ m.type = "history"
  BY <1>1, ChatTakesOK
<1>3. /\ m.numbers \subseteq Talk!Number /\ m.room \in Room
      /\ \A n \in Talk!Number : Carries(m, n) => n \in m.numbers
  BY <1>2 DEF Talk!Message, Carries
<1>4. /\ ct_shown' \in [Session -> SUBSET Talk!Number] /\ ct_shown'[c] = ct_shown[c] \cup m.numbers
      /\ \A d \in Session \ {c} : ct_shown'[d] = ct_shown[d] /\ ct_caughtUp'[d] = ct_caughtUp[d]
      /\ ct_caughtUp' \in [Session -> SUBSET Room] /\ ct_caughtUp'[c] = ct_caughtUp[c] \cup {m.room}
  BY <1>1, <1>3 DEF Talk!ForwardHistory, Talk!TypeOK
<1>5. Talk!TypeOK'
  BY <1>1, <1>2, <1>4 DEF Talk!ForwardHistory, Talk!TypeOK, Talk!roomVars
<1>6. RoomsOf(c)'
  BY DEF ChatInv, Base, InRooms, RoomsOf, Talk!Joined, Talk!ForwardHistory, Talk!roomVars
<1>7. \A r \in Room : \A who : m # Talk!Gone(r, who)
  BY <1>2 DEF Talk!Gone
<1>8. QED BY <1>1, <1>2, <1>3, <1>4, <1>5, <1>6, <1>7, ChatTakenOK DEF Talk!ForwardHistory

LEMMA ChatForwardPresenceOK == ASSUME ChatInv, NEW c \in Session, Talk!ForwardPresence(c) PROVE ChatInv'
<1> DEFINE m == Head(ct_mailbox[c])
<1>1. Talk!TypeOK
  BY DEF ChatInv
<1>2. PICK type \in {"user_joined", "user_left"} : Talk!Takes(c, type) /\ m.type = type
  BY <1>1, ChatTakesOK DEF Talk!ForwardPresence
<1>3. ct_mailbox' \in [Session -> Seq(Talk!Message)] /\ m \in Talk!Message
  BY <1>1, <1>2, ChatTakesOK
<1>4. /\ m.who \in Session \X Nick /\ m.room \in Room /\ m = [type |-> m.type, room |-> m.room, who |-> m.who]
  BY <1>2, <1>3 DEF Talk!Message
<1>5. \/ m.type = "user_joined" /\ ct_view' = [ct_view EXCEPT ![c][m.room] = @ \cup {m.who}]
      \/ m.type = "user_left" /\ ct_view' = [ct_view EXCEPT ![c][m.room] = @ \ {m.who}]
  BY <1>1, ChatTakesOK DEF Talk!ForwardPresence
<1>6. ct_view' \in [Session -> [Room -> SUBSET (Session \X Nick)]]
  <2>1. ct_view[c] \in [Room -> SUBSET (Session \X Nick)]
    BY <1>1 DEF Talk!TypeOK
  <2>2. \A w \in SUBSET (Session \X Nick) :
            [ct_view EXCEPT ![c][m.room] = w] \in [Session -> [Room -> SUBSET (Session \X Nick)]]
    BY <1>1, <1>4, <2>1 DEF Talk!TypeOK
  <2>3. /\ ct_view[c][m.room] \cup {m.who} \in SUBSET (Session \X Nick)
        /\ ct_view[c][m.room] \ {m.who} \in SUBSET (Session \X Nick)
    BY <1>4, <2>1
  <2>4. QED BY <1>5, <2>2, <2>3
<1>7. \A d \in Session \ {c} : ct_view'[d] = ct_view[d]
  BY <1>1, <1>5 DEF Talk!TypeOK
<1>8. ASSUME NEW r \in Room, NEW who \in ct_view'[c][r]
      PROVE  \/ who \in ct_view[c][r] /\ m # Talk!Gone(r, who)
             \/ m.type = "user_joined" /\ m.room = r /\ m.who = who
  <2>1. Talk!Gone(r, who).type = "user_left" /\ Talk!Gone(r, who).room = r /\ Talk!Gone(r, who).who = who
    BY DEF Talk!Gone
  <2>2. CASE m.type = "user_joined" /\ ct_view' = [ct_view EXCEPT ![c][m.room] = @ \cup {m.who}]
    BY <1>1, <1>4, <1>8, <2>1, <2>2 DEF Talk!TypeOK
  <2>3. CASE m.type = "user_left" /\ ct_view' = [ct_view EXCEPT ![c][m.room] = @ \ {m.who}]
    <3>1. CASE r = m.room
      <4>1. who \in ct_view[c][r] /\ who # m.who
        BY <1>1, <1>4, <1>8, <2>3, <3>1 DEF Talk!TypeOK
      <4>2. QED BY <2>1, <4>1
    <3>2. CASE r # m.room
      <4>1. who \in ct_view[c][r]
        BY <1>1, <1>4, <1>8, <2>3, <3>2 DEF Talk!TypeOK
      <4>2. QED BY <2>1, <3>2, <4>1
    <3>3. QED BY <3>1, <3>2
  <2>4. QED BY <1>5, <2>2, <2>3
<1>9. Talk!TypeOK'
  BY <1>1, <1>3, <1>6 DEF Talk!ForwardPresence, Talk!TypeOK, Talk!roomVars
<1>10. RoomsOf(c)'
  BY DEF ChatInv, Base, InRooms, RoomsOf, Talk!Joined, Talk!ForwardPresence, Talk!roomVars
<1>11. \A n \in Talk!Number : ~Carries(m, n)
  BY <1>2 DEF Carries
<1>12. /\ UNCHANGED <<ct_stage, ct_channels, ct_group, Talk!roomVars, ct_lost>>
       /\ ct_doing' = ct_doing /\ ct_shown' = ct_shown /\ ct_caughtUp' = ct_caughtUp
  BY DEF Talk!ForwardPresence
<1>13. QED BY <1>2, <1>7, <1>8, <1>9, <1>10, <1>11, <1>12, ChatTakenOK

LEMMA ChatHandleAfterJoinOK == ASSUME ChatInv, NEW c \in Session, Talk!HandleAfterJoin(c) PROVE ChatInv'
<1> DEFINE m == Head(ct_mailbox[c])
<1>1. Talk!TypeOK /\ Talk!Takes(c, "AfterJoin") /\ Talk!Joined(c) \subseteq Room
  BY DEF ChatInv, Talk!HandleAfterJoin, Talk!Joined
<1>2. /\ ct_mailbox' \in [Session -> Seq(Talk!Message)] /\ m \in Talk!Message /\ m.type = "AfterJoin"
  BY <1>1, ChatTakesOK
<1>3. /\ ct_doing' \in [Session -> Doing] /\ ct_doing'[c].step = "after" /\ ct_doing'[c].todo = Talk!Joined(c)
      /\ \A d \in Session \ {c} : ct_doing'[d] = ct_doing[d]
  <2> DEFINE next == [ct_doing[c] EXCEPT !.step = "after", !.todo = Talk!Joined(c)]
  <2>1. next \in Doing /\ next.step = "after" /\ next.todo = Talk!Joined(c)
    BY <1>1, ChatTypesOK DEF Doing, Steps
  <2>2. ct_doing' = [ct_doing EXCEPT ![c] = next] /\ ct_doing \in [Session -> Doing]
    BY <1>1, ChatTypesOK DEF Talk!HandleAfterJoin
  <2>3. QED BY <2>1, <2>2
<1>4. Talk!TypeOK'
  BY <1>1, <1>2, <1>3 DEF Talk!HandleAfterJoin, Talk!TypeOK, Talk!roomVars, Talk!clientVars, Doing, Steps
<1>5. RoomsOf(c)'
  BY <1>3 DEF ChatInv, Base, InRooms, RoomsOf, Talk!Joined, Talk!HandleAfterJoin, Talk!roomVars
<1>6. \A r \in Room : \A who : m # Talk!Gone(r, who)
  BY <1>2 DEF Talk!Gone
<1>7. \A n \in Talk!Number : ~Carries(m, n)
  BY <1>2 DEF Carries
<1>8. UNCHANGED <<ct_stage, ct_channels, ct_group, Talk!roomVars, ct_lost, ct_shown, ct_view, ct_caughtUp>>
  BY DEF Talk!HandleAfterJoin, Talk!clientVars
<1>9. QED BY <1>1, <1>3, <1>4, <1>5, <1>6, <1>7, <1>8, ChatTakenOK

-----------------------------------------------------------------------------
(* What a push leaves true of the clients.                                         *)
LEMMA ChatPushedOK ==
    ASSUME ChatInv, NEW r \in Room, NEW but, NEW m \in Talk!Message, Talk!Push(r, but, m),
           UNCHANGED <<Talk!clientVars, ct_lost>>, m.type # "history",
           \A d \in Session : Talk!Joined(d)' \subseteq Talk!Joined(d),
           m.type = "user_joined" => ct_channels'[m.who[1]][m.room] = m.who[2],
           \A q \in Room : \A who \in Session \X Nick :
               ct_channels[who[1]][q] = who[2] =>
                   \/ ct_channels'[who[1]][q] = who[2]
                   \/ q = r /\ m = Talk!Gone(r, who) /\ \A d \in Session : r \in Talk!Joined(d)' => d # but
    PROVE  /\ Views' /\ Flows
           /\ \A d \in Session, q \in Room : CaughtUp(d, q)' => CaughtUp(d, q)
           /\ \A d \in Session : d # but /\ r \in Talk!Joined(d) => ct_mailbox'[d] = Append(ct_mailbox[d], m)
<1>1. Talk!TypeOK /\ ct_shown' = ct_shown /\ ct_view' = ct_view /\ ct_caughtUp' = ct_caughtUp
  BY DEF ChatInv, Talk!clientVars
<1>2. \A d \in Session :
         \/ ct_mailbox'[d] = Append(ct_mailbox[d], m)
         \/ ct_mailbox'[d] = ct_mailbox[d] /\ ~(d \in ct_group[r] /\ d # but /\ ct_stage[d] # "ended")
  BY <1>1, ChatPushOK
<1>3. Flows
  BY <1>1, <1>2, ChatFlowPush, ChatFlowSame DEF Flows
<1>4. \A d \in Session, q \in Room : CaughtUp(d, q)' => CaughtUp(d, q)
  <2> SUFFICES ASSUME NEW d \in Session, NEW q \in Room, CaughtUp(d, q)' PROVE CaughtUp(d, q)
    OBVIOUS
  <2>1. CASE ct_mailbox'[d] = ct_mailbox[d] \/ q \in ct_caughtUp[d]
    BY <1>1, <2>1 DEF CaughtUp
  <2>2. CASE ct_mailbox'[d] = Append(ct_mailbox[d], m)
    <3>1. ct_mailbox[d] \in Seq(Talk!Message)
      BY <1>1 DEF Talk!TypeOK
    <3>2. /\ DOMAIN ct_mailbox'[d] = 1 .. Len(ct_mailbox[d]) + 1 /\ DOMAIN ct_mailbox[d] = 1 .. Len(ct_mailbox[d])
          /\ Len(ct_mailbox[d]) \in Nat
          /\ \A i \in DOMAIN ct_mailbox[d] : ct_mailbox'[d][i] = ct_mailbox[d][i]
          /\ ct_mailbox'[d][Len(ct_mailbox[d]) + 1] = m
      BY <2>2, <3>1, ChatAppendOf
    <3>3. QED BY <1>1, <3>2 DEF CaughtUp
  <2>3. QED BY <1>2, <2>1, <2>2
<1>5. \A d \in Session : r \in Talk!Joined(d) => d \in ct_group[r] /\ ct_stage[d] # "ended"
  BY DEF ChatInv, Base, InRooms, RoomsOf
<1>6. Views'
  <2> SUFFICES ASSUME NEW d \in Session, NEW q \in Talk!Joined(d)' PROVE ViewOf(d, q)'
    BY DEF Views
  <2>1. q \in Room /\ q \in Talk!Joined(d) /\ ViewOf(d, q)
    BY DEF ChatInv, Views, Talk!Joined
  <2>2. CASE ct_mailbox'[d] = ct_mailbox[d] /\ ~(d \in ct_group[r] /\ d # but /\ ct_stage[d] # "ended")
    <3>1. q = r => d = but
      BY <1>5, <2>1, <2>2
    <3>2. Stay(q)
      BY <2>1, <3>1 DEF Stay
    <3>3. QED BY <1>1, <2>1, <2>2, <3>2, ChatViewSame
  <2>3. CASE ct_mailbox'[d] = Append(ct_mailbox[d], m)
    <3>1. \A who \in Session \X Nick :
              ct_channels[who[1]][q] = who[2] => ct_channels'[who[1]][q] = who[2] \/ m = Talk!Gone(q, who)
      BY <2>1
    <3>2. QED BY <1>1, <2>1, <2>3, <3>1, ChatViewPush
  <2>4. QED BY <1>2, <2>2, <2>3
<1>7. QED BY <1>2, <1>3, <1>4, <1>5, <1>6

LEMMA ChatLeaveOK == ASSUME ChatInv, NEW c \in Session, NEW r \in Room, Talk!Leave(c, r) PROVE ChatInv'
<1> DEFINE m == [type |-> "user_left", room |-> r, who |-> <<c, ct_channels[c][r]>>]
<1>1. Talk!TypeOK /\ RoomsOf(c) /\ ct_commands' \in Talk!Number /\ ct_doing[c].step = "idle" /\ r \in Talk!Joined(c)
  BY ChatCommandOK DEF ChatInv, Base, InRooms, Talk!Leave, Talk!Now, Talk!TypeOK
<1>2. m \in Talk!Message /\ m.type = "user_left" /\ ct_channels[c][r] \in Nick
  BY <1>1 DEF Talk!Joined, Talk!TypeOK, Talk!Message
<1>3. /\ ct_doing' \in [Session -> Doing] /\ ct_doing'[c].step = "untrack" /\ ct_doing'[c].room = r
      /\ \A d \in Session \ {c} : ct_doing'[d] = ct_doing[d]
  BY <1>1, ChatGoesOK DEF Talk!Leave, Steps
<1>4. /\ ct_channels' \in [Session -> [Room -> Nick \cup {Talk!NoNick}]] /\ ct_channels'[c][r] = Talk!NoNick
      /\ \A d \in Session \ {c} : ct_channels'[d] = ct_channels[d]
      /\ \A q \in Room \ {r} : ct_channels'[c][q] = ct_channels[c][q]
  BY <1>1 DEF Talk!Leave, Talk!TypeOK
<1>5. /\ \A d \in Session : Talk!Joined(d)' \subseteq Talk!Joined(d)
      /\ Talk!Joined(c)' = Talk!Joined(c) \ {r} /\ \A d \in Session \ {c} : Talk!Joined(d)' = Talk!Joined(d)
  BY <1>1, <1>4 DEF Talk!Joined
<1>6. Talk!Push(r, c, m)
  BY DEF Talk!Leave
<1>7. Talk!TypeOK'
  <2>1. ct_mailbox' \in [Session -> Seq(Talk!Message)]
    BY <1>1, <1>2, <1>6, ChatPushOK
  <2>2. QED BY <1>1, <1>3, <1>4, <2>1 DEF Talk!Leave, Talk!TypeOK, Talk!roomVars, Talk!clientVars, Doing, Steps
<1>8. ASSUME NEW q \in Room, NEW who \in Session \X Nick, ct_channels[who[1]][q] = who[2]
      PROVE  \/ ct_channels'[who[1]][q] = who[2]
             \/ q = r /\ m = Talk!Gone(r, who) /\ \A d \in Session : r \in Talk!Joined(d)' => d # c
  <2>1. CASE who[1] = c /\ q = r
    <3>1. who = <<c, ct_channels[c][r]>>
      BY <1>8, <2>1
    <3>2. r \notin Talk!Joined(c)'
      BY <1>5
    <3>3. QED BY <2>1, <3>1, <3>2 DEF Talk!Gone
  <2>2. CASE ~(who[1] = c /\ q = r)
    BY <1>4, <1>8, <2>2
  <2>3. QED BY <2>1, <2>2
<1>9. UNCHANGED <<ct_stage, ct_group, Talk!roomVars, Talk!clientVars, ct_lost>>
  BY DEF Talk!Leave
<1>10. /\ Views' /\ Flows
       /\ \A d \in Session, q \in Room : CaughtUp(d, q)' => CaughtUp(d, q)
  BY <1>2, <1>5, <1>6, <1>8, <1>9, ChatPushedOK
<1>11. Minds /\ Speaks
  BY <1>1, <1>3, ChatMindsSpeaks DEF Minds
<1>12. Named' /\ Talk!OneRoom' /\ Asked' /\ Gapless' /\ Following'
  BY <1>5, <1>9, <1>10, <1>11, ChatRoomsQuiet DEF Minds
<1>13. RoomsOf(c)'
  BY <1>1, <1>3, <1>5, <1>9 DEF RoomsOf, Talk!roomVars
<1>14. InRooms'
  BY <1>3, <1>4, <1>9, <1>13, ChatRoomsKept DEF Talk!roomVars
<1>15. QED BY <1>7, <1>10, <1>12, <1>14 DEF ChatInv, Base

LEMMA ChatBroadcastOK == ASSUME ChatInv, NEW c \in Session, Talk!Broadcast(c) PROVE ChatInv'
<1> DEFINE r == ct_doing[c].room
           m == [type |-> "new_msg", room |-> r, number |-> ct_doing[c].number]
<1>1. Talk!TypeOK /\ RoomsOf(c) /\ ct_doing[c].step = "broadcast" /\ r \in Room /\ ct_doing[c].number \in Talk!Number
  BY ChatTypesOK DEF ChatInv, Base, InRooms, RoomsOf, Talk!Broadcast, Talk!Now, Doing
<1>2. m \in Talk!Message /\ m.type = "new_msg" /\ m.number = ct_doing[c].number
  BY <1>1 DEF Talk!Message
<1>3. /\ ct_doing' \in [Session -> Doing] /\ ct_doing'[c].step = "idle"
      /\ \A d \in Session \ {c} : ct_doing'[d] = ct_doing[d]
  BY <1>1, ChatRestsOK DEF Talk!Broadcast
<1>4. Talk!Push(r, Talk!Nobody, m)
  BY DEF Talk!Broadcast
<1>5. Talk!TypeOK'
  <2>1. ct_mailbox' \in [Session -> Seq(Talk!Message)]
    BY <1>1, <1>2, <1>4, ChatPushOK
  <2>2. QED BY <1>1, <1>3, <2>1 DEF Talk!Broadcast, Talk!TypeOK, Talk!roomVars, Talk!clientVars, Doing, Steps
<1>6. UNCHANGED <<ct_stage, ct_channels, ct_group, Talk!roomVars, Talk!clientVars, ct_lost>>
  BY DEF Talk!Broadcast
<1>7. \A d \in Session : Talk!Joined(d)' = Talk!Joined(d)
  BY <1>6 DEF Talk!Joined
<1>8. /\ Views' /\ Flows
      /\ \A d \in Session, q \in Room : CaughtUp(d, q)' => CaughtUp(d, q)
      /\ \A d \in Session : d # Talk!Nobody /\ r \in Talk!Joined(d) => ct_mailbox'[d] = Append(ct_mailbox[d], m)
  <2> HIDE DEF r, m
  <2>1. QED BY <1>1, <1>2, <1>4, <1>6, <1>7, ChatPushedOK
<1>9. ASSUME NEW d \in Session, NEW q \in Room, NEW n \in Talk!Number, Sending(d, q, n)
      PROVE  Sending(d, q, n)' \/ \A e \in Session : q \in Talk!Joined(e) => Arrives(e, n)'
  <2>1. CASE d = c
    <3>1. q = r /\ n = ct_doing[c].number
      BY <1>9, <2>1 DEF Sending
    <3>2. ASSUME NEW e \in Session, r \in Talk!Joined(e) PROVE Arrives(e, n)'
      <4>1. ct_mailbox'[e] = Append(ct_mailbox[e], m) /\ ct_mailbox[e] \in Seq(Talk!Message)
        BY <1>1, <1>8, <3>2, ChatAssumption DEF Talk!TypeOK
      <4>2. /\ DOMAIN ct_mailbox'[e] = 1 .. Len(ct_mailbox[e]) + 1 /\ Len(ct_mailbox[e]) \in Nat
            /\ ct_mailbox'[e][Len(ct_mailbox[e]) + 1] = m
        BY <1>2, <4>1, ChatAppendOf
      <4>3. Len(ct_mailbox[e]) + 1 \in DOMAIN ct_mailbox'[e]
        BY <4>2
      <4>4. QED BY <1>2, <3>1, <4>2, <4>3 DEF Arrives, Carries
    <3>3. QED BY <3>1, <3>2
  <2>2. CASE d # c
    BY <1>3, <1>9, <2>2 DEF Sending
  <2>3. QED BY <2>1, <2>2
<1>10. Speaks
  BY <1>9 DEF Speaks
<1>11. \A d \in Session : ct_doing[d].step \in {"history", "register"} => ct_doing'[d] = ct_doing[d]
  BY <1>1, <1>3
<1>12. Named' /\ Talk!OneRoom' /\ Asked' /\ Gapless' /\ Following'
  BY <1>6, <1>7, <1>8, <1>10, <1>11, ChatRoomsQuiet
<1>13. RoomsOf(c)'
  BY <1>1, <1>3, <1>6, <1>7 DEF RoomsOf, Talk!roomVars
<1>14. InRooms'
  BY <1>3, <1>6, <1>13, ChatRoomsKept DEF Talk!roomVars
<1>15. QED BY <1>5, <1>8, <1>12, <1>14 DEF ChatInv, Base

LEMMA ChatAnnounceJoinOK ==
    ASSUME ChatInv, NEW c \in Session, NEW r \in Room, Talk!AnnounceJoin(c, r)
    PROVE  ChatInv'
<1> DEFINE m == [type |-> "user_joined", room |-> r, who |-> <<c, ct_channels[c][r]>>]
           p == ct_name[r]
           q == [type |-> "GetHistory", of |-> c]
<1>1. Talk!TypeOK /\ RoomsOf(c) /\ ct_doing[c].step = "after" /\ r \in ct_doing[c].todo /\ r \in Talk!Joined(c)
  BY DEF ChatInv, Base, InRooms, RoomsOf, Talk!AnnounceJoin, Talk!Now
<1>2. /\ m \in Talk!Message /\ m.type = "user_joined" /\ m.room = r
      /\ m.who[1] = c /\ m.who[2] = ct_channels[c][r]
      /\ p \in Talk!Process /\ q \in Talk!Request
  BY <1>1 DEF Talk!Joined, Talk!TypeOK, Talk!Message, RoomsOf, Talk!Request
<1>3. /\ ct_doing' \in [Session -> Doing] /\ ct_doing'[c].step = "history" /\ ct_doing'[c].room = r
      /\ ct_doing'[c].todo \subseteq ct_doing[c].todo
      /\ \A d \in Session \ {c} : ct_doing'[d] = ct_doing[d]
  <2> DEFINE next == [ct_doing[c] EXCEPT !.step = "history", !.room = r, !.todo = @ \ {r}]
  <2>1. /\ next \in Doing /\ next.step = "history" /\ next.room = r
        /\ next.todo \subseteq ct_doing[c].todo
    BY <1>1, ChatTypesOK DEF Doing, Steps
  <2>2. ct_doing' = [ct_doing EXCEPT ![c] = next] /\ ct_doing \in [Session -> Doing]
    BY <1>1, ChatTypesOK DEF Talk!AnnounceJoin
  <2>3. QED BY <2>1, <2>2
<1>4. Talk!Push(r, c, m)
  BY DEF Talk!AnnounceJoin
<1>5. /\ ct_box' \in [Talk!Process -> Seq(Talk!Request)]
      /\ \A o \in Talk!Process \ {p} : ct_box'[o] = ct_box[o]
      /\ DOMAIN ct_box[p] = 1 .. Len(ct_box[p]) /\ Len(ct_box[p]) \in Nat
      /\ DOMAIN ct_box'[p] = 1 .. Len(ct_box[p]) + 1 /\ ct_box'[p][Len(ct_box[p]) + 1] = q
      /\ \A i \in DOMAIN ct_box[p] : i \in DOMAIN ct_box'[p] /\ ct_box'[p][i] = ct_box[p][i]
  <2>1. ct_box' = [ct_box EXCEPT ![p] = Append(@, q)]
    BY DEF Talk!AnnounceJoin
  <2>2. QED BY <1>1, <1>2, <2>1, ChatRequestOK
<1>6. Talk!TypeOK'
  <2>1. ct_mailbox' \in [Session -> Seq(Talk!Message)]
    BY <1>1, <1>2, <1>4, ChatPushOK
  <2>2. QED BY <1>1, <1>3, <1>5, <2>1 DEF Talk!AnnounceJoin, Talk!TypeOK, Talk!clientVars, Doing, Steps
<1>7. UNCHANGED <<ct_stage, ct_channels, ct_group, ct_name, ct_alive, ct_history, Talk!clientVars, ct_lost>>
  BY DEF Talk!AnnounceJoin
<1>8. \A d \in Session : Talk!Joined(d)' = Talk!Joined(d)
  BY <1>7 DEF Talk!Joined
<1>9. /\ Views' /\ Flows
      /\ \A d \in Session, o \in Room : CaughtUp(d, o)' => CaughtUp(d, o)
  <2> HIDE DEF m
  <2>1. QED BY <1>2, <1>4, <1>7, <1>8, ChatPushedOK
<1>10. Minds /\ Speaks
  BY <1>1, <1>3, ChatMindsSpeaks DEF Minds
<1>11. ASSUME NEW o \in Talk!Process, NEW k \in DOMAIN ct_box'[o]
       PROVE  \/ k \in DOMAIN ct_box[o] /\ ct_box'[o][k] = ct_box[o][k]
              \/ o = p /\ k = Len(ct_box[p]) + 1 /\ ct_box'[o][k] = q
  <2>1. CASE o = p
    <3>1. k \in 1 .. Len(ct_box[p]) + 1 /\ Len(ct_box[p]) \in Nat
      BY <1>5, <2>1
    <3>2. k \in 1 .. Len(ct_box[p]) \/ k = Len(ct_box[p]) + 1
      BY <3>1
    <3>3. CASE k \in 1 .. Len(ct_box[p])
      BY <1>5, <2>1, <3>3
    <3>4. CASE k = Len(ct_box[p]) + 1
      BY <1>5, <2>1, <3>4
    <3>5. QED BY <3>2, <3>3, <3>4
  <2>2. CASE o # p
    BY <1>5, <2>2
  <2>3. QED BY <2>1, <2>2
<1>12. Named'
  BY <1>7 DEF ChatInv, Base, Named
<1>13. Talk!OneRoom'
  <2>1. \A o \in ct_alive : o[2] \in Session
    BY <1>1 DEF Talk!TypeOK, Talk!Process
  <2>2. QED BY <1>7, <1>10, <2>1 DEF ChatInv, Base, Talk!OneRoom, Minds
<1>14. p[1] = r
  <2>1. p # Talk!NoProcess
    BY <1>2 DEF Talk!Process, Talk!NoProcess
  <2>2. QED BY <2>1 DEF ChatInv, Base, Named
<1>15. Asked'
  <2>1. \A o \in Talk!Process : \A k \in DOMAIN ct_box[o] : ct_box[o][k].type = "GetHistory" =>
            /\ ct_box[o][k].of \in Session /\ ct_box[o][k].of # c
            /\ ct_doing'[ct_box[o][k].of] = ct_doing[ct_box[o][k].of]
    <3>1. \A o \in Talk!Process : \A k \in DOMAIN ct_box[o] : ct_box[o][k] \in Talk!Request
      BY <1>1, ChatTypesOK
    <3>2. QED BY <1>1, <1>3, <3>1 DEF ChatInv, Base, Asked, Talk!Request
  <2> SUFFICES ASSUME NEW o \in Talk!Process, NEW k \in DOMAIN ct_box'[o], ct_box'[o][k].type = "GetHistory"
               PROVE  /\ ct_doing'[ct_box'[o][k].of].step = "history" /\ ct_doing'[ct_box'[o][k].of].room = o[1]
                      /\ ct_name'[o[1]] = o
                      /\ \A j \in DOMAIN ct_box'[o] :
                            ct_box'[o][j].type = "GetHistory" /\ ct_box'[o][j].of = ct_box'[o][k].of => j = k
    BY DEF Asked
  <2>2. CASE k \in DOMAIN ct_box[o] /\ ct_box'[o][k] = ct_box[o][k]
    <3>1. ASSUME NEW j \in DOMAIN ct_box'[o], ct_box'[o][j].type = "GetHistory",
                 ct_box'[o][j].of = ct_box'[o][k].of
          PROVE  j = k
      <4>1. ct_box'[o][j] # q
        BY <2>1, <2>2, <3>1
      <4>2. j \in DOMAIN ct_box[o] /\ ct_box'[o][j] = ct_box[o][j]
        BY <1>11, <4>1
      <4>3. QED BY <2>2, <3>1, <4>2 DEF ChatInv, Base, Asked
    <3>2. ct_doing[ct_box[o][k].of].step = "history" /\ ct_doing[ct_box[o][k].of].room = o[1] /\ ct_name[o[1]] = o
      BY <2>2 DEF ChatInv, Base, Asked
    <3>3. QED BY <1>7, <2>1, <2>2, <3>1, <3>2
  <2>3. CASE o = p /\ k = Len(ct_box[p]) + 1 /\ ct_box'[o][k] = q
    <3>1. ASSUME NEW j \in DOMAIN ct_box'[o], ct_box'[o][j].type = "GetHistory",
                 ct_box'[o][j].of = ct_box'[o][k].of
          PROVE  j = k
      <4>1. ~(j \in DOMAIN ct_box[o] /\ ct_box'[o][j] = ct_box[o][j])
        BY <2>1, <2>3, <3>1
      <4>2. QED BY <1>11, <2>3, <4>1
    <3>2. QED BY <1>3, <1>7, <1>14, <2>3, <3>1
  <2>4. QED BY <1>11, <2>2, <2>3
<1>16. Gapless'
  <2>1. \A o \in Talk!Process, n \in Talk!Number : Stored(o, n)' => Stored(o, n)
    <3>1. q.type # "StoreMessage"
      OBVIOUS
    <3>2. \A o \in Talk!Process : \A j \in DOMAIN ct_box'[o] : ct_box'[o][j].type = "StoreMessage" =>
              j \in DOMAIN ct_box[o] /\ ct_box'[o][j] = ct_box[o][j]
      BY <1>11, <3>1
    <3>3. QED BY <1>7, <3>2 DEF Stored, Talk!Kept
  <2>2. ct_name' = ct_name
    BY <1>7
  <2>3. QED BY <1>8, <1>9, <1>10, <2>1, <2>2, ChatGaplessKept
<1>17. Following'
  <2>1. ASSUME NEW o \in Talk!Process, NEW k \in DOMAIN ct_box'[o], NEW j \in DOMAIN ct_box'[o], k < j,
               ct_box'[o][k].type = "GetHistory", ct_box'[o][j].type = "StoreMessage"
        PROVE  \E k0, j0 \in DOMAIN ct_box[o] :
                   k0 < j0 /\ ct_box[o][k0] = ct_box'[o][k] /\ ct_box[o][j0] = ct_box'[o][j]
    <3>1. j \in DOMAIN ct_box[o] /\ ct_box'[o][j] = ct_box[o][j]
      BY <1>11, <2>1
    <3>2. k \in DOMAIN ct_box[o] /\ ct_box'[o][k] = ct_box[o][k]
      <4>1. CASE o = p /\ k = Len(ct_box[p]) + 1
        BY <1>5, <2>1, <3>1, <4>1
      <4>2. QED BY <1>11, <4>1
    <3>3. QED BY <2>1, <3>1, <3>2
  <2>2. QED BY <1>9, <1>10, <2>1, ChatFollowingKept
<1>18. RoomsOf(c)'
  BY <1>1, <1>3, <1>7, <1>8 DEF RoomsOf
<1>19. InRooms'
  BY <1>3, <1>7, <1>18, ChatRoomsKept
<1>20. QED BY <1>6, <1>9, <1>12, <1>13, <1>15, <1>16, <1>17, <1>19 DEF ChatInv, Base

-----------------------------------------------------------------------------
(* What an answer leaves true of the clients.                                      *)
LEMMA ChatFlushedOK ==
    ASSUME ChatInv, NEW c \in Session, NEW then \in Seq(Talk!Message), Talk!Answered(c, then),
           \A i \in DOMAIN then : then[i].type # "user_joined",
           ct_shown' = ct_shown, \A r \in Room : Stay(r),
           \A d \in Session \ {c} : ct_view'[d] = ct_view[d] /\ ct_channels'[d] = ct_channels[d],
           \A r \in Room : r \in Talk!Joined(c)' =>
               (r \in Talk!Joined(c) /\ ct_view'[c][r] = ct_view[c][r]) \/ ct_view'[c][r] = {}
    PROVE  /\ Views' /\ Flows /\ ct_mailbox'[c] = then
           /\ ct_mailbox' \in [Session -> Seq(Talk!Message)] /\ ct_lost' \in [Session -> SUBSET Talk!Message]
           /\ \A d \in Session \ {c} : ct_mailbox'[d] = ct_mailbox[d]
<1>1. Talk!TypeOK
  BY DEF ChatInv
<1>2. /\ ct_mailbox' \in [Session -> Seq(Talk!Message)] /\ ct_lost' \in [Session -> SUBSET Talk!Message]
      /\ ct_mailbox'[c] = then /\ ct_lost[c] \subseteq ct_lost'[c]
      /\ \A i \in DOMAIN ct_mailbox[c] :
            ct_mailbox[c][i].type \in {"new_msg", "history", "user_left"} => ct_mailbox[c][i] \in ct_lost'[c]
      /\ \A d \in Session \ {c} : ct_mailbox'[d] = ct_mailbox[d] /\ ct_lost'[d] = ct_lost[d]
  BY <1>1, ChatAnsweredOK
<1>3. Flows
  <2>1. Flow(c)
    BY <1>2, ChatFlowFlush
  <2>2. \A d \in Session \ {c} : Flow(d)
    BY <1>2, ChatFlowSame
  <2>3. QED BY <2>1, <2>2 DEF Flows
<1>4. Views'
  <2> SUFFICES ASSUME NEW d \in Session, NEW q \in Talk!Joined(d)' PROVE ViewOf(d, q)'
    BY DEF Views
  <2>1. q \in Room /\ \A e \in Session : q \in Talk!Joined(e) => ViewOf(e, q)
    BY DEF ChatInv, Views, Talk!Joined
  <2>2. CASE d # c
    <3>1. q \in Talk!Joined(d) /\ ViewOf(d, q)
      BY <2>1, <2>2 DEF Talk!Joined
    <3>2. QED BY <1>1, <1>2, <2>1, <2>2, <3>1, ChatViewSame
  <2>3. CASE d = c /\ q \in Talk!Joined(c) /\ ct_view'[c][q] = ct_view[c][q]
    BY <1>1, <1>2, <2>1, <2>3, ChatViewFlush
  <2>4. CASE d = c /\ ct_view'[c][q] = {}
    BY <1>2, <2>4 DEF ViewOf
  <2>5. QED BY <2>1, <2>2, <2>3, <2>4
<1>5. QED BY <1>2, <1>3, <1>4

LEMMA ChatEnterOK == ASSUME ChatInv, NEW c \in Session, Talk!Enter(c) PROVE ChatInv'
<1> DEFINE r == ct_doing[c].room
           then == <<[type |-> "AfterJoin"]>>
<1>1. Talk!TypeOK /\ RoomsOf(c) /\ ct_doing[c].step = "track" /\ r \in Room /\ r \notin Talk!Joined(c)
      /\ ct_stage[c] # "ended" /\ ct_name[r] # Talk!NoProcess
  BY DEF ChatInv, Base, InRooms, RoomsOf, Talk!Enter, Talk!Now
<1>2. /\ then \in Seq(Talk!Message) /\ DOMAIN then = {1} /\ then[1].type = "AfterJoin"
  <2>1. [type |-> "AfterJoin"] \in Talk!Message
    BY DEF Talk!Message
  <2>2. QED BY <2>1
<1>3. /\ ct_doing' \in [Session -> Doing] /\ ct_doing'[c].step = "idle"
      /\ \A d \in Session \ {c} : ct_doing'[d] = ct_doing[d]
  BY <1>1, ChatRestsOK DEF Talk!Enter
<1>4. /\ ct_channels' \in [Session -> [Room -> Nick \cup {Talk!NoNick}]] /\ ct_channels[c][r] = Talk!NoNick
      /\ \A d \in Session \ {c} : ct_channels'[d] = ct_channels[d]
      /\ \A q \in Room \ {r} : ct_channels'[c][q] = ct_channels[c][q]
  BY <1>1 DEF Talk!Enter, Talk!TypeOK, Talk!Joined
<1>5. /\ ct_view' \in [Session -> [Room -> SUBSET (Session \X Nick)]] /\ ct_view'[c][r] = {}
      /\ \A d \in Session \ {c} : ct_view'[d] = ct_view[d] /\ ct_caughtUp'[d] = ct_caughtUp[d]
      /\ \A q \in Room \ {r} : ct_view'[c][q] = ct_view[c][q]
      /\ ct_caughtUp' \in [Session -> SUBSET Room] /\ ct_caughtUp'[c] = ct_caughtUp[c] \ {r}
  BY <1>1 DEF Talk!Enter, Talk!TypeOK
<1>6. /\ ct_group' \in [Room -> SUBSET Session] /\ c \in ct_group'[r]
      /\ \A d \in Session, q \in Room : d \in ct_group[q] => d \in ct_group'[q]
  BY <1>1 DEF Talk!Enter, Talk!TypeOK
<1>7. /\ Talk!Joined(c)' \subseteq Talk!Joined(c) \cup {r}
      /\ \A d \in Session \ {c} : Talk!Joined(d)' = Talk!Joined(d)
  BY <1>4 DEF Talk!Joined
<1>8. \A q \in Room : Stay(q)
  <2>1. \A q \in Room, who \in Session \X Nick :
            ct_channels[who[1]][q] = who[2] => ~(who[1] = c /\ q = r)
    BY <1>4, ChatAssumption
  <2>2. QED BY <1>4, <2>1 DEF Stay
<1>9. Talk!Answered(c, then) /\ UNCHANGED <<ct_stage, ct_nick, Talk!roomVars, ct_commands, ct_shown>>
  BY DEF Talk!Enter
<1>10. \A q \in Room : q \in Talk!Joined(c)' =>
            (q \in Talk!Joined(c) /\ ct_view'[c][q] = ct_view[c][q]) \/ ct_view'[c][q] = {}
  BY <1>5, <1>7
<1>11. /\ Views' /\ Flows /\ ct_mailbox'[c] = then
       /\ ct_mailbox' \in [Session -> Seq(Talk!Message)] /\ ct_lost' \in [Session -> SUBSET Talk!Message]
       /\ \A d \in Session \ {c} : ct_mailbox'[d] = ct_mailbox[d]
  <2> HIDE DEF then
  <2>1. \A i \in DOMAIN then : then[i].type # "user_joined"
    BY <1>2
  <2>2. QED BY <1>2, <1>4, <1>5, <1>8, <1>9, <1>10, <2>1, ChatFlushedOK
<1>12. Talk!TypeOK'
  BY <1>1, <1>3, <1>4, <1>5, <1>6, <1>9, <1>11 DEF Talk!TypeOK, Talk!roomVars, Doing, Steps
<1>13. \A d \in Session, q \in Room :
           q \in Talk!Joined(d)' /\ CaughtUp(d, q)' => q \in Talk!Joined(d) /\ CaughtUp(d, q)
  <2>1. \A q \in Room : CaughtUp(c, q)' => q \in ct_caughtUp[c] /\ q # r
    BY <1>2, <1>5, <1>11 DEF CaughtUp
  <2>2. \A d \in Session \ {c} : \A q \in Room : CaughtUp(d, q)' => CaughtUp(d, q)
    BY <1>5, <1>11 DEF CaughtUp
  <2>3. QED BY <1>7, <2>1, <2>2 DEF CaughtUp
<1>14. Minds /\ Speaks
  BY <1>1, <1>3, ChatMindsSpeaks DEF Minds
<1>15. Named' /\ Talk!OneRoom' /\ Asked' /\ Gapless' /\ Following'
  BY <1>9, <1>11, <1>13, <1>14, ChatRoomsQuiet DEF Minds
<1>16. RoomsOf(c)'
  BY <1>1, <1>3, <1>6, <1>7, <1>9 DEF RoomsOf, Talk!roomVars, Talk!Joined
<1>17. InRooms'
  BY <1>3, <1>4, <1>6, <1>9, <1>16, ChatRoomsKept DEF Talk!roomVars
<1>18. QED BY <1>11, <1>12, <1>15, <1>17 DEF ChatInv, Base

(* An answer that changes nothing else for the clients.                           *)
LEMMA ChatEmptiedOK ==
    ASSUME ChatInv, NEW c \in Session, NEW then \in Seq(Talk!Message), Talk!Answered(c, then),
           \A i \in DOMAIN then : then[i].type = "history",
           UNCHANGED <<ct_channels, Talk!clientVars>>
    PROVE  /\ Views' /\ Flows /\ ct_mailbox'[c] = then
           /\ ct_mailbox' \in [Session -> Seq(Talk!Message)] /\ ct_lost' \in [Session -> SUBSET Talk!Message]
           /\ \A d \in Session : Talk!Joined(d)' = Talk!Joined(d)
           /\ \A d \in Session, q \in Room : CaughtUp(d, q)' =>
                 CaughtUp(d, q) \/ (d = c /\ \E i \in DOMAIN then : then[i].room = q)
<1>1. ct_shown' = ct_shown /\ ct_view' = ct_view /\ ct_caughtUp' = ct_caughtUp /\ ct_channels' = ct_channels
  BY DEF Talk!clientVars
<1>2. \A d \in Session : Talk!Joined(d)' = Talk!Joined(d)
  BY <1>1 DEF Talk!Joined
<1>3. \A r \in Room : Stay(r)
  BY <1>1 DEF Stay
<1>4. /\ Views' /\ Flows /\ ct_mailbox'[c] = then
      /\ ct_mailbox' \in [Session -> Seq(Talk!Message)] /\ ct_lost' \in [Session -> SUBSET Talk!Message]
      /\ \A d \in Session \ {c} : ct_mailbox'[d] = ct_mailbox[d]
  BY <1>1, <1>2, <1>3, ChatFlushedOK
<1>5. \A d \in Session \ {c} : \A q \in Room : CaughtUp(d, q)' => CaughtUp(d, q)
  BY <1>1, <1>4 DEF CaughtUp
<1>6. \A q \in Room : CaughtUp(c, q)' => CaughtUp(c, q) \/ \E i \in DOMAIN then : then[i].room = q
  BY <1>1, <1>4 DEF CaughtUp
<1>7. QED BY <1>2, <1>4, <1>5, <1>6

LEMMA ChatUntrackedOK == ASSUME ChatInv, NEW c \in Session, Talk!Untracked(c) \/ Talk!Listed(c) PROVE ChatInv'
<1> DEFINE then == <<>>
<1>1. Talk!TypeOK /\ RoomsOf(c) /\ ct_doing[c].step \in {"untrack", "ask"}
      /\ (Talk!Untracked(c) => ct_doing[c].step = "untrack" /\ ct_doing[c].room \in Room)
  BY DEF ChatInv, Base, InRooms, RoomsOf, Talk!Untracked, Talk!Listed, Talk!Now
<1>2. then \in Seq(Talk!Message) /\ DOMAIN then = {}
  OBVIOUS
<1>3. /\ ct_doing' \in [Session -> Doing] /\ \A d \in Session \ {c} : ct_doing'[d] = ct_doing[d]
      /\ \/ ct_doing'[c].step = "idle"
         \/ ct_doing'[c].step = "leave" /\ ct_doing'[c].room = ct_doing[c].room
            /\ ct_doing[c].room \in Room /\ ct_doing[c].step = "untrack"
  <2>1. CASE Talk!Untracked(c)
    BY <1>1, <2>1, ChatGoesOK DEF Talk!Untracked, Steps
  <2>2. CASE Talk!Listed(c)
    BY <1>1, <2>2, ChatRestsOK DEF Talk!Listed
  <2>3. QED BY <2>1, <2>2
<1>4. Talk!Answered(c, then) /\ UNCHANGED <<ct_stage, ct_nick, ct_channels, ct_group, Talk!roomVars, ct_commands, Talk!clientVars>>
  BY DEF Talk!Untracked, Talk!Listed
<1>5. /\ Views' /\ Flows
      /\ ct_mailbox' \in [Session -> Seq(Talk!Message)] /\ ct_lost' \in [Session -> SUBSET Talk!Message]
      /\ \A d \in Session : Talk!Joined(d)' = Talk!Joined(d)
      /\ \A d \in Session, q \in Room : CaughtUp(d, q)' => CaughtUp(d, q)
  <2> HIDE DEF then
  <2>1. QED BY <1>2, <1>4, ChatEmptiedOK
<1>6. Talk!TypeOK'
  BY <1>1, <1>3, <1>4, <1>5 DEF Talk!TypeOK, Talk!roomVars, Talk!clientVars, Doing, Steps
<1>7. Minds /\ Speaks
  BY <1>1, <1>3, ChatMindsSpeaks DEF Minds
<1>8. Named' /\ Talk!OneRoom' /\ Asked' /\ Gapless' /\ Following'
  BY <1>4, <1>5, <1>7, ChatRoomsQuiet DEF Minds
<1>9. RoomsOf(c)'
  BY <1>1, <1>3, <1>4, <1>5 DEF RoomsOf, Talk!roomVars
<1>10. InRooms'
  BY <1>3, <1>4, <1>9, ChatRoomsKept DEF Talk!roomVars
<1>11. QED BY <1>5, <1>6, <1>8, <1>10 DEF ChatInv, Base

LEMMA ChatGetHistoryOK ==
    ASSUME ChatInv, NEW p \in ct_alive, Talk!GetHistory(p)
    PROVE  ChatInv'
<1>1. Talk!TypeOK /\ p \in Talk!Process /\ p[1] \in Room
  BY DEF ChatInv, Talk!TypeOK, Talk!Process
<1>2. /\ ct_box' \in [Talk!Process -> Seq(Talk!Request)]
      /\ \A o \in Talk!Process \ {p} : ct_box'[o] = ct_box[o]
      /\ DOMAIN ct_box[p] = 1 .. Len(ct_box[p]) /\ Len(ct_box[p]) \in Nat
      /\ Head(ct_box[p]) = ct_box[p][1] /\ 1 \in DOMAIN ct_box[p] /\ Head(ct_box[p]) \in Talk!Request
      /\ DOMAIN ct_box'[p] = 1 .. Len(ct_box[p]) - 1
      /\ \A i \in DOMAIN ct_box'[p] : i + 1 \in DOMAIN ct_box[p] /\ ct_box'[p][i] = ct_box[p][i + 1]
  BY <1>1, ChatServedOK DEF Talk!GetHistory
<1>3. PICK c \in Session : c = ct_box[p][1].of
  BY <1>2 DEF Talk!GetHistory, Talk!Request
<1>4. /\ ct_box[p][1].type = "GetHistory" /\ ct_doing[c].step = "history" /\ ct_doing[c].room = p[1]
      /\ ct_name[p[1]] = p /\ RoomsOf(c) /\ p[1] \in Talk!Joined(c)
  BY <1>2, <1>3 DEF Talk!GetHistory, ChatInv, Base, Asked, InRooms, RoomsOf
<1> DEFINE told == [type |-> "history", room |-> p[1], numbers |-> Talk!Kept(p)]
           then == IF Talk!Kept(p) = {} THEN <<>> ELSE <<told>>
<1>5. /\ then \in Seq(Talk!Message) /\ \A i \in DOMAIN then : then[i] = told
      /\ Talk!Kept(p) # {} => 1 \in DOMAIN then
      /\ told.type = "history" /\ told.room = p[1] /\ told.numbers = Talk!Kept(p)
  <2>1. Talk!Kept(p) \subseteq Talk!Number
    BY <1>1, ChatTypesOK DEF Talk!Kept, Talk!TypeOK
  <2>2. told \in Talk!Message
    BY <1>1, <2>1 DEF Talk!Message
  <2>3. CASE Talk!Kept(p) = {}
    BY <2>3
  <2>4. CASE Talk!Kept(p) # {}
    BY <2>2, <2>4
  <2>5. QED BY <2>3, <2>4
<1>6. Talk!Answered(c, then) /\ Talk!Goes(c, "after", p[1])
      /\ UNCHANGED <<ct_stage, ct_nick, ct_channels, ct_group, ct_name, ct_alive, ct_history, ct_commands, Talk!clientVars>>
  BY <1>2, <1>3 DEF Talk!GetHistory
<1> HIDE DEF then
<1>7. /\ ct_doing' \in [Session -> Doing] /\ ct_doing'[c].step = "after" /\ ct_doing'[c].todo = ct_doing[c].todo
      /\ \A d \in Session \ {c} : ct_doing'[d] = ct_doing[d]
  BY <1>1, <1>6, ChatGoesOK DEF Steps
<1>8. /\ Views' /\ Flows /\ ct_mailbox'[c] = then
      /\ ct_mailbox' \in [Session -> Seq(Talk!Message)] /\ ct_lost' \in [Session -> SUBSET Talk!Message]
      /\ \A d \in Session : Talk!Joined(d)' = Talk!Joined(d)
      /\ \A d \in Session, q \in Room :
            CaughtUp(d, q)' => CaughtUp(d, q) \/ (d = c /\ \E i \in DOMAIN then : then[i].room = q)
  <2>1. \A i \in DOMAIN then : then[i].type = "history"
    BY <1>5
  <2>2. QED BY <1>5, <1>6, <2>1, ChatEmptiedOK
<1>9. Talk!TypeOK'
  BY <1>1, <1>2, <1>6, <1>7, <1>8 DEF Talk!TypeOK, Talk!clientVars, Doing, Steps
<1>10. Speaks
  BY <1>4, <1>7 DEF Speaks, Sending
<1>11. Named'
  BY <1>6 DEF ChatInv, Base, Named
<1>12. Talk!OneRoom'
  <2>1. \A o \in ct_alive : o[2] \in Session
    BY <1>1 DEF Talk!TypeOK, Talk!Process
  <2>2. \A d \in Session : ct_doing[d].step = "register" => ct_doing'[d] = ct_doing[d]
    BY <1>4, <1>7
  <2>3. QED BY <1>6, <2>1, <2>2 DEF ChatInv, Base, Talk!OneRoom
<1>13. \A o \in Talk!Process : \A k, j \in DOMAIN ct_box'[o] :
           \E k0, j0 \in DOMAIN ct_box[o] :
               /\ ct_box[o][k0] = ct_box'[o][k] /\ ct_box[o][j0] = ct_box'[o][j]
               /\ (k < j) = (k0 < j0) /\ (k = j) = (k0 = j0) /\ (o = p => k0 # 1)
  <2> SUFFICES ASSUME NEW o \in Talk!Process, NEW k \in DOMAIN ct_box'[o], NEW j \in DOMAIN ct_box'[o]
               PROVE  \E k0, j0 \in DOMAIN ct_box[o] :
                          /\ ct_box[o][k0] = ct_box'[o][k] /\ ct_box[o][j0] = ct_box'[o][j]
                          /\ (k < j) = (k0 < j0) /\ (k = j) = (k0 = j0) /\ (o = p => k0 # 1)
    OBVIOUS
  <2>1. CASE o = p
    <3>1. k \in 1 .. Len(ct_box[p]) - 1 /\ j \in 1 .. Len(ct_box[p]) - 1
      BY <1>2, <2>1
    <3>2. /\ k + 1 \in DOMAIN ct_box[o] /\ j + 1 \in DOMAIN ct_box[o]
          /\ ct_box[o][k + 1] = ct_box'[o][k] /\ ct_box[o][j + 1] = ct_box'[o][j]
      BY <1>2, <2>1
    <3>3. (k < j) = (k + 1 < j + 1) /\ (k = j) = (k + 1 = j + 1) /\ k + 1 # 1
      BY <1>2, <3>1
    <3>4. QED BY <3>2, <3>3
  <2>2. CASE o # p
    BY <1>2, <2>2
  <2>3. QED BY <2>1, <2>2
<1>14. Asked'
  <2>1. ASSUME NEW o \in Talk!Process, NEW k \in DOMAIN ct_box'[o], ct_box'[o][k].type = "GetHistory"
        PROVE  /\ ct_doing'[ct_box'[o][k].of].step = "history" /\ ct_doing'[ct_box'[o][k].of].room = o[1]
               /\ ct_name'[o[1]] = o
               /\ \A j \in DOMAIN ct_box'[o] :
                     ct_box'[o][j].type = "GetHistory" /\ ct_box'[o][j].of = ct_box'[o][k].of => j = k
    <3>1. PICK k0 \in DOMAIN ct_box[o] : ct_box[o][k0] = ct_box'[o][k] /\ (o = p => k0 # 1)
      BY <1>13
    <3>2. /\ ct_doing[ct_box[o][k0].of].step = "history" /\ ct_doing[ct_box[o][k0].of].room = o[1]
          /\ ct_name[o[1]] = o
      BY <2>1, <3>1 DEF ChatInv, Base, Asked
    <3>3. ct_box[o][k0].of \in Session
      BY <1>1, <2>1, <3>1, ChatTypesOK DEF Talk!Request
    <3>4. ct_box[o][k0].of # c
      <4>1. SUFFICES ASSUME ct_box[o][k0].of = c PROVE FALSE
        OBVIOUS
      <4>2. o = p
        BY <1>4, <3>2, <4>1
      <4>3. k0 = 1
        BY <1>2, <1>3, <1>4, <2>1, <3>1, <4>1, <4>2 DEF ChatInv, Base, Asked
      <4>4. QED BY <3>1, <4>2, <4>3
    <3>5. ASSUME NEW j \in DOMAIN ct_box'[o], ct_box'[o][j].type = "GetHistory",
                 ct_box'[o][j].of = ct_box'[o][k].of
          PROVE  j = k
      <4>1. PICK k1, j1 \in DOMAIN ct_box[o] :
                ct_box[o][k1] = ct_box'[o][k] /\ ct_box[o][j1] = ct_box'[o][j] /\ (k = j) = (k1 = j1)
        BY <1>13
      <4>2. QED BY <2>1, <3>5, <4>1 DEF ChatInv, Base, Asked
    <3>6. QED BY <1>6, <1>7, <3>1, <3>2, <3>3, <3>4, <3>5
  <2>2. QED BY <2>1 DEF Asked
<1>15. Gapless'
  <2> SUFFICES ASSUME NEW d \in Session, NEW q \in Talk!Joined(d)', CaughtUp(d, q)',
                      NEW n \in Talk!Number, Stored(ct_name[q], n)'
               PROVE  Seen(d, q, n)'
    BY DEF Gapless
  <2>1. q \in Room /\ q \in Talk!Joined(d) /\ ct_name[q] \in Talk!Process /\ ct_name'[q] = ct_name[q]
    <3>1. q \in Room /\ q \in Talk!Joined(d) /\ ct_name' = ct_name
      BY <1>6, <1>8 DEF Talk!Joined
    <3>2. QED BY <1>1, <3>1 DEF Talk!TypeOK, ChatInv, Base, InRooms, RoomsOf
  <2>2. \A o \in Talk!Process : Talk!Kept(o)' = Talk!Kept(o)
    BY <1>6 DEF Talk!Kept
  <2>3. CASE CaughtUp(d, q)
    <3>1. Stored(ct_name[q], n)
      BY <1>13, <2>1, <2>2 DEF Stored
    <3>2. Seen(d, q, n)
      BY <2>1, <2>3, <3>1 DEF ChatInv, Gapless
    <3>3. QED BY <1>8, <1>10, <2>1, <3>2, ChatSeenKept
  <2>4. CASE d = c /\ \E i \in DOMAIN then : then[i].room = q
    <3>1. q = p[1] /\ ct_name[q] = p
      BY <1>4, <1>5, <2>4
    <3>2. CASE n \in Talk!Kept(p)
      <4>1. ct_mailbox'[c][1] = told /\ 1 \in DOMAIN ct_mailbox'[c]
        BY <1>5, <1>8, <3>2
      <4>2. Arrives(c, n)'
        BY <1>5, <3>2, <4>1 DEF Arrives, Carries
      <4>3. QED BY <2>4, <4>2 DEF Seen
    <3>3. ASSUME NEW j \in DOMAIN ct_box'[p], ct_box'[p][j].type = "StoreMessage", ct_box'[p][j].number = n
          PROVE  Seen(d, q, n)'
      <4>1. /\ j + 1 \in DOMAIN ct_box[p] /\ ct_box[p][j + 1].type = "StoreMessage"
            /\ ct_box[p][j + 1].number = n /\ 1 < j + 1
        BY <1>2, <3>3
      <4>2. Seen(c, p[1], n)
        BY <1>1, <1>2, <1>3, <1>4, <4>1 DEF ChatInv, Following
      <4>3. QED BY <1>8, <1>10, <2>1, <2>4, <3>1, <4>2, ChatSeenKept
    <3>4. QED BY <1>1, <2>1, <2>2, <3>1, <3>2, <3>3 DEF Stored
  <2>5. QED BY <1>8, <2>1, <2>3, <2>4
<1>16. Following'
  <2>1. \A o \in Talk!Process : \A k, j \in DOMAIN ct_box'[o] : k < j =>
            \E k0, j0 \in DOMAIN ct_box[o] :
                k0 < j0 /\ ct_box[o][k0] = ct_box'[o][k] /\ ct_box[o][j0] = ct_box'[o][j]
    BY <1>13
  <2>2. QED BY <1>8, <1>10, <2>1, ChatFollowingKept
<1>17. RoomsOf(c)'
  BY <1>4, <1>6, <1>7, <1>8 DEF RoomsOf
<1>18. InRooms'
  BY <1>6, <1>7, <1>17, ChatRoomsKept
<1>19. QED BY <1>8, <1>9, <1>11, <1>12, <1>14, <1>15, <1>16, <1>18 DEF ChatInv, Base

-----------------------------------------------------------------------------
LEMMA ChatStutterOK == ChatInv /\ UNCHANGED Talk!vars => ChatInv'
<1> SUFFICES ASSUME ChatInv, UNCHANGED Talk!vars PROVE ChatInv'
  OBVIOUS
<1>1. UNCHANGED <<ct_channels, ct_mailbox, Talk!clientVars, ct_lost, Talk!roomVars>> /\ Minds /\ Talk!TypeOK'
  BY DEF Talk!vars, ChatInv, Talk!TypeOK, Talk!roomVars, Talk!clientVars, Minds
<1>2. /\ Views' /\ Flows /\ \A d \in Session : Talk!Joined(d)' = Talk!Joined(d)
      /\ \A d \in Session, r \in Room : CaughtUp(d, r)' => CaughtUp(d, r)
  BY <1>1, ChatClientsQuiet
<1>3. Named' /\ Talk!OneRoom' /\ Asked' /\ Gapless' /\ Following'
  BY <1>1, <1>2, ChatMindsSpeaks, ChatRoomsQuiet DEF Minds
<1>4. InRooms'
  BY DEF Talk!vars, Talk!roomVars, ChatInv, Base, InRooms, RoomsOf, Talk!Joined
<1>5. QED BY <1>1, <1>2, <1>3, <1>4 DEF ChatInv, Base

LEMMA ChatStepOK == ChatInv /\ [Talk!Next]_(Talk!vars) => ChatInv'
<1> SUFFICES ASSUME ChatInv, [Talk!Next]_(Talk!vars) PROVE ChatInv'
  OBVIOUS
<1>1. ASSUME NEW c \in Session, NEW k \in Nick, Talk!SetNick(c, k) PROVE ChatInv'
  BY <1>1, ChatSetNickOK
<1>2. ASSUME NEW c \in Session, NEW r \in Room,
             Talk!Join(c, r) \/ Talk!Leave(c, r) \/ Talk!Msg(c, r) \/ Talk!AnnounceJoin(c, r)
      PROVE  ChatInv'
  BY <1>2, ChatJoinOK, ChatLeaveOK, ChatMsgOK, ChatAnnounceJoinOK
<1>3. ASSUME NEW c \in Session,
             Talk!StartRoom(c) \/ Talk!RegisterRoom(c) \/ Talk!Enter(c) \/ Talk!Untracked(c) \/ Talk!LeaveGroup(c)
             \/ Talk!Close(c) \/ Talk!End(c)
      PROVE  ChatInv'
  BY <1>3, ChatStartRoomOK, ChatRegisterRoomOK, ChatEnterOK, ChatUntrackedOK, ChatLeaveGroupOK, ChatCloseOK
<1>4. ASSUME NEW c \in Session,
             Talk!Broadcast(c) \/ Talk!Ask(c) \/ Talk!Listed(c) \/ Talk!ForwardMessage(c) \/ Talk!ForwardHistory(c)
             \/ Talk!ForwardPresence(c) \/ Talk!HandleAfterJoin(c) \/ Talk!AnnouncedAll(c)
      PROVE  ChatInv'
  BY <1>4, ChatBroadcastOK, ChatAskOK, ChatUntrackedOK, ChatForwardMessageOK, ChatForwardHistoryOK,
     ChatForwardPresenceOK, ChatHandleAfterJoinOK, ChatAnnouncedAllOK
<1>5. ASSUME NEW p \in ct_alive, Talk!StoreMessage(p) \/ Talk!GetHistory(p) PROVE ChatInv'
  BY <1>5, ChatStoreMessageOK, ChatGetHistoryOK
<1>6. QED BY <1>1, <1>2, <1>3, <1>4, <1>5, ChatStutterOK DEF Talk!Next

LEMMA ChatInFocus == ChatInv /\ [ServicesNext]_servicesVars => ChatInv'
<1>1. ServicesNext => Talk!Next \/ UNCHANGED ctVars
  BY DEF ServicesNext
<1>2. UNCHANGED servicesVars => UNCHANGED ctVars
  BY DEF servicesVars
<1>3. UNCHANGED ctVars => UNCHANGED Talk!vars
  BY DEF ctVars, Talk!vars, Talk!roomVars, Talk!clientVars
<1>4. QED BY <1>1, <1>2, <1>3, ChatStepOK

(* chat: a room has one process, a client that was given the history of a room  *)
(* misses no message of it, and knows who is there.                              *)
THEOREM ChatCorrect == ServicesSpec => []ChatSafe
<1>1. ServicesInit => ChatInv
  BY ChatInitOK DEF ServicesInit
<1>2. ChatInv => ChatSafe
  BY ChatSafeOK DEF ChatInv, ChatSafe
<1>3. QED BY <1>1, <1>2, ChatInFocus, PTL DEF ServicesSpec

=============================================================================
