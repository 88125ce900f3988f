------------------------ MODULE ProcessRuntimeProofs ------------------------
(***************************************************************************)
(* Proofs about ProcessRuntime, for every number of processes, references, *)
(* calls and names.                                                        *)
(***************************************************************************)
EXTENDS ProcessRuntime, TLAPS

-----------------------------------------------------------------------------
(* Delivering a well-formed message keeps every mailbox a sequence of them. *)
LEMMA DeliverType ==
    ASSUME TypeOK, NEW p \in Proc, NEW msg \in SystemMessage, Deliver(p, msg)
    PROVE  mailbox' \in [Proc -> Seq(SystemMessage)]
<1>1. mailbox \in [Proc -> Seq(SystemMessage)]
  BY DEF TypeOK
<1>2. Append(mailbox[p], msg) \in Seq(SystemMessage)
  BY <1>1
<1> QED
  BY <1>1, <1>2 DEF Deliver

(* An exit signal leaves flags, reasons and mailboxes well formed. *)
LEMMA SignalType ==
    ASSUME TypeOK, NEW q \in Proc, NEW p \in Proc, NEW reason \in ExitReason,
           Signal(q, p, reason)
    PROVE  /\ terminated' \in [Proc -> BOOLEAN]
           /\ exitReason' \in [Proc -> ExitReason]
           /\ mailbox' \in [Proc -> Seq(SystemMessage)]
<1>1. ExitMsg(p, reason) \in SystemMessage
  BY DEF ExitMsg, SystemMessage
<1>2. Deliver(q, ExitMsg(p, reason)) => mailbox' \in [Proc -> Seq(SystemMessage)]
  BY <1>1, DeliverType
<1>3. CASE Deliver(q, ExitMsg(p, reason)) /\ UNCHANGED <<terminated, exitReason>>
  BY <1>2, <1>3 DEF TypeOK
<1>4. CASE MarkTerminated(q, reason) /\ UNCHANGED mailbox
  BY <1>4 DEF TypeOK, MarkTerminated
<1>5. CASE UNCHANGED <<mailbox, terminated, exitReason>>
  BY <1>5 DEF TypeOK
<1> QED
  BY <1>3, <1>4, <1>5 DEF Signal

LEMMA OperandsType ==
    /\ NoArg \in Operands
    /\ \A q \in Proc : [NoArg EXCEPT !.pid = q] \in Operands
    /\ \A q \in Proc, r \in Ref : [NoArg EXCEPT !.pid = q, !.ref = r] \in Operands
    /\ \A q \in Proc, r \in Ref \cup {NoRef}, n \in Name \cup {"none"} :
           [pid |-> q, ref |-> r, name |-> n] \in Operands
  BY DEF NoArg, Operands

(* Where a process is, and with which operands, stays well formed: when it *)
(* enters a call, ...                                                      *)
LEMMA EnterType ==
    ASSUME TypeOK, NEW p \in Proc, NEW point \in CallPoint, NEW q \in Proc,
           NEW r \in Ref \cup {NoRef}, NEW n \in Name \cup {"none"},
           point \in {"spawn_monitor", "monitor", "demonitor"} => r \in Ref,
           point = "register" => n \in Name,
           Enter(p, point, q, r, n)
    PROVE  at' \in [Proc -> Point] /\ arg' \in [Proc -> Operands] /\ OperandsOK'
<1>1. at' \in [Proc -> Point] /\ arg' \in [Proc -> Operands]
  BY OperandsType DEF Enter, TypeOK, Point
<1>2. OperandsOK'
  BY DEF Enter, TypeOK, OperandsOK
<1> QED
  BY <1>1, <1>2

(* ... when it finishes one, ... *)
LEMMA FinishType ==
    ASSUME TypeOK, NEW p \in Proc, Finish(p)
    PROVE  at' \in [Proc -> Point] /\ arg' \in [Proc -> Operands] /\ OperandsOK'
<1>1. at' \in [Proc -> Point] /\ arg' \in [Proc -> Operands]
  BY OperandsType DEF Finish, TypeOK, Point
<1>2. OperandsOK'
  BY DEF Finish, TypeOK, OperandsOK, CallPoint
<1> QED
  BY <1>1, <1>2

(* ... when it starts to run or moves on its way out, ... *)
LEMMA MoveType ==
    ASSUME TypeOK, NEW p \in Proc, NEW point \in ExitPoint \cup {"run"},
           at' = [at EXCEPT ![p] = point], UNCHANGED arg
    PROVE  at' \in [Proc -> Point] /\ arg' \in [Proc -> Operands] /\ OperandsOK'
<1>1. at' \in [Proc -> Point] /\ arg' \in [Proc -> Operands]
  BY DEF TypeOK, Point
<1>2. OperandsOK'
  BY DEF TypeOK, OperandsOK, CallPoint, ExitPoint
<1> QED
  BY <1>1, <1>2

(* ... and when nothing moves. *)
LEMMA StayType ==
    ASSUME TypeOK, UNCHANGED <<at, arg>>
    PROVE  at' \in [Proc -> Point] /\ arg' \in [Proc -> Operands] /\ OperandsOK'
  BY DEF TypeOK, OperandsOK

LEMMA UserCallType ==
    ASSUME TypeOK, NEW p \in Proc, NEW c, UserCall(p, c)
    PROVE  calls' \in 0 .. MaxCalls
  BY BoundsAssumption DEF TypeOK, UserCall

LEMMA SpawnType ==
    ASSUME TypeOK, SpawnInternal(nextPid)
    PROVE  /\ nextPid \in Proc
           /\ nextPid' \in 1 .. (MaxProc + 1)
           /\ processes' \subseteq Proc
  BY BoundsAssumption DEF TypeOK, SpawnInternal, Proc

LEMMA NextRefType ==
    ASSUME TypeOK, nextRef \in Ref, nextRef' = nextRef + 1
    PROVE  nextRef' \in 1 .. (MaxRef + 1)
  BY BoundsAssumption DEF TypeOK, Ref

LEMMA InitType == Init => TypeOK
<1> SUFFICES ASSUME Init PROVE TypeOK
  OBVIOUS
<1>1. /\ nextPid \in 1 .. (MaxProc + 1) /\ nextRef \in 1 .. (MaxRef + 1)
      /\ calls \in 0 .. MaxCalls /\ processes \subseteq Proc
  BY BoundsAssumption DEF Init, Proc
<1>2. at \in [Proc -> Point]
  BY DEF Init, Point
<1>3. mailbox \in [Proc -> Seq(SystemMessage)]
  <2>1. <<>> \in Seq(SystemMessage)
    OBVIOUS
  <2> QED
    BY <2>1 DEF Init
<1>4. /\ names \in [Name -> Proc \cup {NoPid}]
      /\ why \in [Proc -> ExitReason] /\ exitReason \in [Proc -> ExitReason]
      /\ trap \in [Proc -> BOOLEAN] /\ terminated \in [Proc -> BOOLEAN]
      /\ links \in [Proc -> SUBSET Proc] /\ linkQ \in [Proc -> SUBSET Proc]
      /\ monitors \in [Proc -> SUBSET (Ref \X Proc)]
      /\ monitoredBy \in [Proc -> SUBSET (Ref \X Proc)]
      /\ monitorQ \in [Proc -> SUBSET (Ref \X Proc)]
  BY DEF Init, ExitReason
<1>5. arg \in [Proc -> Operands]
  BY OperandsType DEF Init
<1>6. OperandsOK
  BY DEF Init, OperandsOK, CallPoint
<1> QED
  BY <1>1, <1>2, <1>3, <1>4, <1>5, <1>6 DEF TypeOK

(* User code keeps the types. *)
LEMMA UserStepType ==
    ASSUME TypeOK, NEW p \in Proc, User(p)
    PROVE  TypeOK'
<1> USE DEF stateVars, exitVars, counters
<1>1. CASE Spawn(p)
  <2>1. nextPid \in Proc
    BY <1>1, SpawnType DEF Spawn
  <2>2. at' \in [Proc -> Point] /\ arg' \in [Proc -> Operands] /\ OperandsOK'
    BY <1>1, <2>1, MoveType DEF Spawn
  <2> QED
    BY <1>1, <2>2, SpawnType, UserCallType DEF Spawn, TypeOK
<1>2. CASE SpawnLink(p)
  <2>1. nextPid \in Proc
    BY <1>2, SpawnType DEF SpawnLink
  <2>2. at' \in [Proc -> Point] /\ arg' \in [Proc -> Operands]
    BY <1>2, <2>1, OperandsType DEF SpawnLink, TypeOK, Point, CallPoint
  <2>3. OperandsOK'
    BY <1>2, <2>1 DEF SpawnLink, OperandsOK, TypeOK, NoArg, CallPoint
  <2>4. links' \in [Proc -> SUBSET Proc]
    BY <1>2, <2>1 DEF SpawnLink, TypeOK
  <2> QED
    BY <1>2, <2>2, <2>3, <2>4, SpawnType, UserCallType DEF SpawnLink, TypeOK
<1>3. CASE SpawnMonitor(p)
  <2>1. nextPid \in Proc /\ nextRef \in Ref /\ nextRef' \in 1 .. (MaxRef + 1)
    BY <1>3, SpawnType, NextRefType DEF SpawnMonitor
  <2>2. at' \in [Proc -> Point] /\ arg' \in [Proc -> Operands]
    BY <1>3, <2>1, OperandsType DEF SpawnMonitor, TypeOK, Point, CallPoint
  <2>3. OperandsOK'
    BY <1>3, <2>1 DEF SpawnMonitor, OperandsOK, TypeOK, NoArg, CallPoint
  <2>4. monitors' \in [Proc -> SUBSET (Ref \X Proc)]
    BY <1>3, <2>1 DEF SpawnMonitor, TypeOK
  <2> QED
    BY <1>3, <2>1, <2>2, <2>3, <2>4, SpawnType, UserCallType
    DEF SpawnMonitor, TypeOK
<1>4. ASSUME NEW q \in Proc, Link(p, q) PROVE TypeOK'
  <2>1. at' \in [Proc -> Point] /\ arg' \in [Proc -> Operands] /\ OperandsOK'
    BY <1>4, EnterType DEF Link, CallPoint
  <2> QED
    BY <1>4, <2>1, UserCallType DEF Link, TypeOK
<1>5. ASSUME NEW q \in Proc, Unlink(p, q) PROVE TypeOK'
  <2>1. at' \in [Proc -> Point] /\ arg' \in [Proc -> Operands] /\ OperandsOK'
    BY <1>5, EnterType DEF Unlink, CallPoint
  <2> QED
    BY <1>5, <2>1, UserCallType DEF Unlink, TypeOK
<1>6. ASSUME NEW q \in Proc, Monitor(p, q) PROVE TypeOK'
  <2>1. nextRef \in Ref /\ nextRef' \in 1 .. (MaxRef + 1)
    BY <1>6, NextRefType DEF Monitor
  <2>2. at' \in [Proc -> Point] /\ arg' \in [Proc -> Operands] /\ OperandsOK'
    BY <1>6, <2>1, EnterType DEF Monitor, CallPoint
  <2>3. monitors' \in [Proc -> SUBSET (Ref \X Proc)]
    BY <1>6, <2>1 DEF Monitor, TypeOK
  <2> QED
    BY <1>6, <2>1, <2>2, <2>3, UserCallType DEF Monitor, TypeOK
<1>7. ASSUME NEW r \in Ref, NEW q \in Proc, Demonitor(p, r, q) PROVE TypeOK'
  <2>1. at' \in [Proc -> Point] /\ arg' \in [Proc -> Operands] /\ OperandsOK'
    BY <1>7, EnterType DEF Demonitor, CallPoint
  <2> QED
    BY <1>7, <2>1, UserCallType DEF Demonitor, TypeOK
<1>8. ASSUME NEW value \in BOOLEAN, SetTrapExit(p, value) PROVE TypeOK'
  BY <1>8, StayType, UserCallType DEF SetTrapExit, TypeOK
<1>9. ASSUME NEW q \in Proc, NEW reason \in SignalWith, Exit(p, q, reason)
      PROVE TypeOK'
  <2>1. /\ terminated' \in [Proc -> BOOLEAN]
        /\ exitReason' \in [Proc -> ExitReason]
        /\ mailbox' \in [Proc -> Seq(SystemMessage)]
    BY <1>9, InputsAssumption, SignalType DEF Exit
  <2>2. at' \in [Proc -> Point] /\ arg' \in [Proc -> Operands] /\ OperandsOK'
    BY <1>9, StayType DEF Exit
  <2> QED
    BY <1>9, <2>1, <2>2, UserCallType DEF Exit, TypeOK
<1>10. ASSUME NEW q \in Proc, NEW reason \in SignalWith, HandleExit(p, q, reason)
       PROVE TypeOK'
  <2>1. at' \in [Proc -> Point] /\ arg' \in [Proc -> Operands] /\ OperandsOK'
    BY <1>10, StayType DEF HandleExit
  <2>2. /\ terminated' \in [Proc -> BOOLEAN]
        /\ exitReason' \in [Proc -> ExitReason]
    BY <1>10, InputsAssumption DEF HandleExit, MarkTerminated, TypeOK
  <2> QED
    BY <1>10, <2>1, <2>2, UserCallType DEF HandleExit, TypeOK
<1>11. ASSUME NEW n \in Name, Unregister(p, n) PROVE TypeOK'
  BY <1>11, StayType, UserCallType DEF Unregister, TypeOK
<1>12. ASSUME NEW n \in Name, NEW q \in Proc, Register(p, n, q) PROVE TypeOK'
  <2>1. at' \in [Proc -> Point] /\ arg' \in [Proc -> Operands] /\ OperandsOK'
    BY <1>12, EnterType DEF Register, CallPoint
  <2> QED
    BY <1>12, <2>1, UserCallType DEF Register, TypeOK
<1>13. ASSUME NEW reason \in ExitWith, Return(p, reason) PROVE TypeOK'
  <2>1. at' \in [Proc -> Point] /\ arg' \in [Proc -> Operands] /\ OperandsOK'
    BY <1>13, MoveType DEF Return, ExitPoint
  <2> QED
    BY <1>13, <2>1, InputsAssumption DEF Return, TypeOK
<1>14. CASE Panic(p)
  <2>1. at' \in [Proc -> Point] /\ arg' \in [Proc -> Operands] /\ OperandsOK'
    BY <1>14, MoveType DEF Panic, ExitPoint
  <2> QED
    BY <1>14, <2>1, UserCallType DEF Panic, TypeOK
<1> QED
  BY <1>1, <1>2, <1>3, <1>4, <1>5, <1>6, <1>7, <1>8, <1>9, <1>10, <1>11,
     <1>12, <1>13, <1>14 DEF User

(* So does the rest of a call or of an exit. *)
LEMMA ContinueStepType ==
    ASSUME TypeOK, NEW p \in Proc, Continue(p)
    PROVE  TypeOK'
<1> USE DEF stateVars, exitVars, counters
<1>1. CASE SpawnLinkChild(p)
  BY <1>1, FinishType DEF SpawnLinkChild, TypeOK
<1>2. CASE SpawnMonitorChild(p)
  <2>1. arg[p].ref \in Ref /\ arg[p].pid \in Proc
    BY <1>2 DEF SpawnMonitorChild, TypeOK, OperandsOK, CallPoint
  <2>2. monitoredBy' \in [Proc -> SUBSET (Ref \X Proc)]
    BY <1>2, <2>1 DEF SpawnMonitorChild, TypeOK
  <2> QED
    BY <1>2, <2>2, FinishType DEF SpawnMonitorChild, TypeOK
<1>3. CASE LinkPeer(p)
  BY <1>3, FinishType DEF LinkPeer, TypeOK
<1>4. CASE UnlinkPeer(p)
  BY <1>4, FinishType DEF UnlinkPeer, TypeOK
<1>5. CASE MonitorPeer(p)
  <2>1. arg[p].ref \in Ref /\ arg[p].pid \in Proc
    BY <1>5 DEF MonitorPeer, TypeOK, OperandsOK, CallPoint
  <2>2. /\ monitors' \in [Proc -> SUBSET (Ref \X Proc)]
        /\ monitoredBy' \in [Proc -> SUBSET (Ref \X Proc)]
    <3>0. /\ monitors \in [Proc -> SUBSET (Ref \X Proc)]
          /\ monitoredBy \in [Proc -> SUBSET (Ref \X Proc)]
      BY DEF TypeOK
    <3>1. <<arg[p].ref, p>> \in Ref \X Proc
      BY <2>1
    <3>2. CASE arg[p].pid \in processes
      BY <1>5, <2>1, <3>0, <3>1, <3>2 DEF MonitorPeer
    <3>3. CASE arg[p].pid \notin processes
      BY <1>5, <2>1, <3>0, <3>3 DEF MonitorPeer
    <3> QED
      BY <3>2, <3>3
  <2>3. DownMsg(arg[p].ref, arg[p].pid, "noproc") \in SystemMessage
    BY <2>1 DEF DownMsg, SystemMessage, ExitReason
  <2>4. mailbox' \in [Proc -> Seq(SystemMessage)]
    BY <1>5, <2>3, DeliverType DEF MonitorPeer, TypeOK
  <2> QED
    BY <1>5, <2>2, <2>4, FinishType DEF MonitorPeer, TypeOK
<1>6. CASE DemonitorPeer(p)
  BY <1>6, FinishType DEF DemonitorPeer, TypeOK
<1>7. CASE RegisterInsert(p)
  <2>1. arg[p].name \in Name /\ arg[p].pid \in Proc
    BY <1>7 DEF RegisterInsert, TypeOK, OperandsOK, CallPoint
  <2> QED
    BY <1>7, <2>1, FinishType DEF RegisterInsert, TypeOK
<1>8. CASE ExitBegin(p)
  <2>1. at' \in [Proc -> Point] /\ arg' \in [Proc -> Operands] /\ OperandsOK'
    BY <1>8, MoveType DEF ExitBegin, ExitPoint
  <2>2. /\ terminated' \in [Proc -> BOOLEAN]
        /\ exitReason' \in [Proc -> ExitReason]
        /\ linkQ' \in [Proc -> SUBSET Proc]
        /\ monitorQ' \in [Proc -> SUBSET (Ref \X Proc)]
    <3>1. CASE terminated[p]
      BY <1>8, <3>1 DEF ExitBegin, TypeOK
    <3>2. CASE ~terminated[p]
      BY <1>8, <3>2, ZenonT(40) DEF ExitBegin, MarkTerminated, TypeOK
    <3> QED
      BY <3>1, <3>2
  <2> QED
    BY <1>8, <2>1, <2>2 DEF ExitBegin, TypeOK
<1>9. ASSUME NEW q \in Proc, NotifyLink(p, q) PROVE TypeOK'
  <2>1. /\ terminated' \in [Proc -> BOOLEAN]
        /\ exitReason' \in [Proc -> ExitReason]
        /\ mailbox' \in [Proc -> Seq(SystemMessage)]
    <3>1. CASE Signal(q, p, why[p])
      <4>1. why[p] \in ExitReason
        BY DEF TypeOK
      <4> QED
        BY <3>1, <4>1, SignalType
    <3>2. CASE NoSignal
      BY <3>2 DEF NoSignal, TypeOK
    <3> QED
      BY <1>9, <3>1, <3>2 DEF NotifyLink
  <2>2. at' \in [Proc -> Point] /\ arg' \in [Proc -> Operands] /\ OperandsOK'
    BY <1>9, StayType DEF NotifyLink
  <2>3. links' \in [Proc -> SUBSET Proc] /\ linkQ' \in [Proc -> SUBSET Proc]
    BY <1>9, ZenonT(40) DEF NotifyLink, TypeOK
  <2> QED
    BY <1>9, <2>1, <2>2, <2>3 DEF NotifyLink, TypeOK
<1>10. ASSUME NEW r \in Ref, NEW m \in Proc, NotifyMonitor(p, r, m) PROVE TypeOK'
  <2>1. DownMsg(r, p, why[p]) \in SystemMessage
    BY DEF DownMsg, SystemMessage, TypeOK
  <2>2. mailbox' \in [Proc -> Seq(SystemMessage)]
    BY <1>10, <2>1, DeliverType DEF NotifyMonitor, TypeOK
  <2>3. at' \in [Proc -> Point] /\ arg' \in [Proc -> Operands] /\ OperandsOK'
    BY <1>10, StayType DEF NotifyMonitor
  <2>4. monitors' \in [Proc -> SUBSET (Ref \X Proc)]
    <3>1. monitors \in [Proc -> SUBSET (Ref \X Proc)]
      BY DEF TypeOK
    <3>2. CASE m \in processes
      BY <1>10, <3>1, <3>2 DEF NotifyMonitor
    <3>3. CASE m \notin processes
      BY <1>10, <3>1, <3>3 DEF NotifyMonitor
    <3> QED
      BY <3>2, <3>3
  <2>5. monitorQ' \in [Proc -> SUBSET (Ref \X Proc)]
    BY <1>10 DEF NotifyMonitor, TypeOK
  <2> QED
    BY <1>10, <2>2, <2>3, <2>4, <2>5 DEF NotifyMonitor, TypeOK
<1>11. CASE DropNames(p)
  <2>1. at' \in [Proc -> Point] /\ arg' \in [Proc -> Operands] /\ OperandsOK'
    BY <1>11, MoveType DEF DropNames, ExitPoint
  <2> QED
    BY <1>11, <2>1 DEF DropNames, TypeOK
<1>12. CASE DropProcess(p)
  <2>1. at' \in [Proc -> Point] /\ arg' \in [Proc -> Operands] /\ OperandsOK'
    BY <1>12, MoveType DEF DropProcess, ExitPoint
  <2> QED
    BY <1>12, <2>1 DEF DropProcess, TypeOK
<1> QED
  BY <1>1, <1>2, <1>3, <1>4, <1>5, <1>6, <1>7, <1>8, <1>9, <1>10, <1>11,
     <1>12 DEF Continue

LEMMA NextType == TypeOK /\ [Next]_vars => TypeOK'
<1> SUFFICES ASSUME TypeOK, [Next]_vars PROVE TypeOK'
  OBVIOUS
<1>1. CASE Next
  BY <1>1, UserStepType, ContinueStepType DEF Next
<1>2. CASE UNCHANGED vars
  BY <1>2, StayType DEF vars, stateVars, exitVars, counters, TypeOK
<1> QED
  BY <1>1, <1>2

(* Every reachable state is well formed. *)
THEOREM TypeCorrect == Spec => []TypeOK
  BY InitType, NextType, PTL DEF Spec

-----------------------------------------------------------------------------
(* DownMeansReturned.  A DOWN is sent by the exit of its subject, which is *)
(* past its snapshot, or by monitor() on a pid that is not registered; the *)
(* second case needs that a pid leaves the registry only at the end of an  *)
(* exit.                                                                   *)
Left == {"notify", "drop_process", "gone"}

RegistryInv ==
    /\ \A p \in Proc :
        /\ at[p] = "unborn" <=> p >= nextPid
        /\ p \in processes => p < nextPid
        /\ p < nextPid /\ p \notin processes => at[p] = "gone"
    /\ \A p \in Proc : at[p] = "monitor" => arg[p].pid < nextPid

LEMMA RegistryInit == Init => RegistryInv
  BY DEF Init, RegistryInv, Proc, TypeOK

(* A spawn starts the next pid and may leave the spawner in a call; ... *)
LEMMA SpawnShape ==
    ASSUME TypeOK, RegistryInv, NEW p \in Proc,
           Spawn(p) \/ SpawnLink(p) \/ SpawnMonitor(p)
    PROVE  /\ nextPid \in Proc /\ nextPid' = nextPid + 1 /\ p # nextPid
           /\ processes' = processes \cup {nextPid}
           /\ at[nextPid] = "unborn" /\ at'[nextPid] = "run"
           /\ at[p] = "run" /\ at'[p] \in {"run", "spawn_link", "spawn_monitor"}
           /\ \A x \in Proc \ {nextPid, p} : at'[x] = at[x]
           /\ \A x \in Proc \ {p} : arg'[x] = arg[x]
<1> USE DEF SpawnInternal, UserCall
<1>1. nextPid \in Proc /\ nextPid' = nextPid + 1 /\ at[p] = "run"
      /\ processes' = processes \cup {nextPid}
  BY DEF Spawn, SpawnLink, SpawnMonitor
<1>2. at[nextPid] = "unborn" /\ p # nextPid
  BY <1>1 DEF RegistryInv, Proc, TypeOK
<1>3. CASE Spawn(p)
  BY <1>1, <1>2, <1>3 DEF Spawn, TypeOK
<1>4. CASE SpawnLink(p)
  BY <1>1, <1>2, <1>4 DEF SpawnLink, TypeOK
<1>5. CASE SpawnMonitor(p)
  BY <1>1, <1>2, <1>5 DEF SpawnMonitor, TypeOK
<1> QED
  BY <1>3, <1>4, <1>5

(* ... every other step moves one process, and only the end of its exit    *)
(* takes it out of the registry.                                           *)
LEMMA StepShape ==
    ASSUME TypeOK, NEW p \in Proc, User(p) \/ Continue(p),
           ~Spawn(p), ~SpawnLink(p), ~SpawnMonitor(p)
    PROVE  /\ nextPid' = nextPid
           /\ at[p] \notin {"unborn", "gone"} /\ at'[p] # "unborn"
           /\ \A x \in Proc \ {p} : at'[x] = at[x] /\ arg'[x] = arg[x]
           /\ at'[p] = "monitor" => arg'[p].pid < nextPid
           /\ \/ processes' = processes
              \/ processes' = processes \ {p} /\ at'[p] = "gone"
<1> USE DEF UserCall, Enter, Finish, stateVars, exitVars, counters, TypeOK
<1>1. CASE User(p)
  <2>1. ASSUME NEW q \in Proc, Monitor(p, q)
        PROVE  arg'[p].pid < nextPid
    BY <2>1 DEF Monitor, Born, Proc
  <2>2. ASSUME NEW q \in Proc, Link(p, q) \/ Unlink(p, q) \/ Monitor(p, q)
        PROVE  /\ nextPid' = nextPid /\ processes' = processes
               /\ at[p] = "run" /\ at'[p] \in {"run", "link", "unlink", "monitor"}
               /\ \A x \in Proc \ {p} : at'[x] = at[x] /\ arg'[x] = arg[x]
               /\ at'[p] = "monitor" => Monitor(p, q)
    BY <2>2 DEF Link, Unlink, Monitor
  <2>3. CASE \/ \E r \in Ref, q \in Proc : Demonitor(p, r, q)
             \/ \E value \in BOOLEAN : SetTrapExit(p, value)
             \/ \E q \in Proc, reason \in SignalWith :
                    Exit(p, q, reason) \/ HandleExit(p, q, reason)
    BY <2>3 DEF Demonitor, SetTrapExit, Exit, HandleExit
  <2>4. CASE \/ \E n \in Name : Unregister(p, n) \/ \E q \in Proc : Register(p, n, q)
             \/ \E reason \in ExitWith : Return(p, reason)
             \/ Panic(p)
    BY <2>4 DEF Unregister, Register, Return, Panic
  <2>5. CASE \E q \in Proc : Link(p, q) \/ Unlink(p, q) \/ Monitor(p, q)
    BY <2>5, <2>1, <2>2
  <2> QED
    BY <1>1, <2>3, <2>4, <2>5 DEF User
<1>2. CASE Continue(p)
  BY <1>2 DEF Continue, SpawnLinkChild, SpawnMonitorChild, LinkPeer,
     UnlinkPeer, MonitorPeer, DemonitorPeer, RegisterInsert, ExitBegin,
     NotifyLink, NotifyMonitor, DropNames, DropProcess
<1> QED
  BY <1>1, <1>2

LEMMA RegistryNext ==
    ASSUME TypeOK, RegistryInv, [Next]_vars
    PROVE  RegistryInv'
<1>1. ASSUME NEW p \in Proc, Spawn(p) \/ SpawnLink(p) \/ SpawnMonitor(p)
      PROVE  RegistryInv'
  <2>1. \A x \in Proc : x < nextPid' <=> x < nextPid \/ x = nextPid
    BY <1>1, SpawnShape DEF Proc, TypeOK
  <2>2. \A x \in Proc : x >= nextPid' <=> x >= nextPid /\ x # nextPid
    BY <1>1, SpawnShape DEF Proc, TypeOK
  <2>3. \A x \in Proc : at'[x] = "monitor" =>
            at[x] = "monitor" /\ arg'[x] = arg[x] /\ arg[x].pid < nextPid'
    <3>1. ASSUME NEW x \in Proc, at'[x] = "monitor"
          PROVE  at[x] = "monitor" /\ arg'[x] = arg[x]
      BY <1>1, <3>1, SpawnShape
    <3>2. ASSUME NEW x \in Proc, at[x] = "monitor"
          PROVE  arg[x].pid < nextPid'
      BY <1>1, <3>2, SpawnShape, SMTT(40) DEF RegistryInv, TypeOK, OperandsOK, CallPoint, Proc
    <3> QED
      BY <3>1, <3>2
  <2> QED
    BY <1>1, <2>1, <2>2, <2>3, SpawnShape DEF RegistryInv
<1>2. ASSUME NEW p \in Proc, User(p) \/ Continue(p),
             ~Spawn(p), ~SpawnLink(p), ~SpawnMonitor(p)
      PROVE  RegistryInv'
  BY <1>2, StepShape DEF RegistryInv
<1>3. CASE UNCHANGED vars
  BY <1>3 DEF vars, counters, RegistryInv
<1> QED
  BY <1>1, <1>2, <1>3 DEF Next

(* Nothing comes back from an exit. *)
LEMMA LeftStays ==
    ASSUME TypeOK, RegistryInv, Next
    PROVE  \A x \in Proc : at[x] \in Left => at'[x] \in Left
<1> SUFFICES ASSUME NEW p \in Proc, User(p) \/ Continue(p),
                    NEW x \in Proc, at[x] \in Left
             PROVE  at'[x] \in Left
  BY DEF Next
<1> USE DEF Left, UserCall, Enter, Finish
<1>1. at[x] # "run" /\ at[x] \notin CallPoint /\ at[x] # "unborn" /\ at[x] # "exit"
  BY DEF CallPoint
<1>2. nextPid \in Proc => at[nextPid] = "unborn"
  BY DEF RegistryInv, Proc, TypeOK
<1>3. CASE User(p)
  BY <1>1, <1>2, <1>3 DEF User, TypeOK, Spawn, SpawnLink, SpawnMonitor, SpawnInternal,
     Link, Unlink, Monitor, Demonitor, SetTrapExit, Exit, HandleExit, Unregister,
     Register, Return, Panic
<1>4. CASE Continue(p)
  BY <1>1, <1>4 DEF Continue, TypeOK, CallPoint, SpawnLinkChild, SpawnMonitorChild, LinkPeer,
     UnlinkPeer, MonitorPeer, DemonitorPeer, RegisterInsert, ExitBegin,
     NotifyLink, NotifyMonitor, DropNames, DropProcess
<1> QED
  BY <1>3, <1>4


(* A step appends at most one message to a mailbox, and a DOWN only about  *)
(* a process that has left.                                                *)
LEMMA MailStep ==
    ASSUME TypeOK, RegistryInv, NEW p \in Proc, User(p) \/ Continue(p),
           NEW m \in Proc
    PROVE  \/ mailbox'[m] = mailbox[m]
           \/ \E msg \in SystemMessage :
                 /\ mailbox'[m] = Append(mailbox[m], msg)
                 /\ msg.type = "down" => at[msg.pid] \in Left
<1>1. ASSUME NEW q \in Proc, NEW reason \in ExitReason, Signal(q, p, reason)
      PROVE  \/ mailbox'[m] = mailbox[m]
             \/ \E msg \in SystemMessage :
                   /\ mailbox'[m] = Append(mailbox[m], msg)
                   /\ msg.type = "down" => at[msg.pid] \in Left
  <2>1. ExitMsg(p, reason) \in SystemMessage /\ ExitMsg(p, reason).type = "exit"
    BY DEF ExitMsg, SystemMessage
  <2>2. CASE mailbox' = mailbox
    BY <2>2
  <2>3. CASE Deliver(q, ExitMsg(p, reason))
    BY <2>1, <2>3 DEF Deliver, TypeOK
  <2> QED
    BY <1>1, <2>2, <2>3 DEF Signal
<1>2. CASE User(p)
  <2>1. ASSUME NEW q \in Proc, NEW reason \in SignalWith, Exit(p, q, reason)
        PROVE  Signal(q, p, reason) /\ reason \in ExitReason
    BY <2>1, InputsAssumption DEF Exit
  <2> QED
    BY <1>1, <1>2, <2>1 DEF User, Spawn, SpawnLink, SpawnMonitor, Link, Unlink,
       Monitor, Demonitor, SetTrapExit, HandleExit, Unregister, Register,
       Return, Panic
<1>3. CASE MonitorPeer(p)
  <2> DEFINE down == DownMsg(arg[p].ref, arg[p].pid, "noproc")
  <2>1. arg[p].ref \in Ref /\ arg[p].pid \in Proc /\ arg[p].pid < nextPid
    BY <1>3 DEF MonitorPeer, TypeOK, OperandsOK, CallPoint, RegistryInv
  <2>2. down \in SystemMessage /\ down.pid = arg[p].pid
    BY <2>1 DEF DownMsg, SystemMessage, ExitReason
  <2>3. CASE arg[p].pid \in processes
    BY <1>3, <2>3 DEF MonitorPeer
  <2>4. CASE arg[p].pid \notin processes
    <3>1. at[down.pid] \in Left
      BY <2>1, <2>2, <2>4 DEF RegistryInv, Left
    <3>2. Deliver(p, down)
      BY <1>3, <2>4 DEF MonitorPeer
    <3> QED
      BY <2>2, <3>1, <3>2 DEF Deliver, TypeOK
  <2> QED
    BY <2>3, <2>4
<1>4. ASSUME NEW q \in Proc, NotifyLink(p, q)
      PROVE  Signal(q, p, why[p]) \/ mailbox' = mailbox
  BY <1>4 DEF NotifyLink, NoSignal
<1>5. ASSUME NEW r \in Ref, NEW o \in Proc, NotifyMonitor(p, r, o)
      PROVE  \/ mailbox'[m] = mailbox[m]
             \/ \E msg \in SystemMessage :
                   /\ mailbox'[m] = Append(mailbox[m], msg)
                   /\ msg.type = "down" => at[msg.pid] \in Left
  <2> DEFINE down == DownMsg(r, p, why[p])
  <2>1. down \in SystemMessage /\ down.pid = p
    BY DEF DownMsg, SystemMessage, TypeOK
  <2>2. at[p] \in Left
    BY <1>5 DEF NotifyMonitor, Left
  <2>3. Deliver(o, down) \/ mailbox' = mailbox
    BY <1>5 DEF NotifyMonitor
  <2> QED
    BY <2>1, <2>2, <2>3, ZenonT(40) DEF Deliver, TypeOK
<1>6. why[p] \in ExitReason
  BY DEF TypeOK
<1>7. CASE Continue(p)
  BY <1>1, <1>3, <1>4, <1>5, <1>6, <1>7 DEF Continue, SpawnLinkChild,
     SpawnMonitorChild, LinkPeer, UnlinkPeer, DemonitorPeer, RegisterInsert,
     ExitBegin, DropNames, DropProcess
<1> QED
  BY <1>2, <1>7

LEMMA DownInit == Init => DownMeansReturned
  BY DEF Init, DownMeansReturned

LEMMA DownNext ==
    ASSUME TypeOK, RegistryInv, DownMeansReturned, [Next]_vars
    PROVE  DownMeansReturned'
<1>1. ASSUME NEW p \in Proc, User(p) \/ Continue(p)
      PROVE  DownMeansReturned'
  <2> SUFFICES ASSUME NEW m \in Proc, NEW i \in 1 .. Len(mailbox'[m]),
                      mailbox'[m][i].type = "down"
               PROVE  at'[mailbox'[m][i].pid] \in Left
    BY DEF DownMeansReturned, Left
  <2>1. mailbox[m] \in Seq(SystemMessage)
    BY DEF TypeOK
  <2>2. \A x \in Proc : at[x] \in Left => at'[x] \in Left
    BY <1>1, LeftStays DEF Next
  <2>3. ASSUME i \in 1 .. Len(mailbox[m]), mailbox'[m][i] = mailbox[m][i]
        PROVE  at'[mailbox'[m][i].pid] \in Left
    <3>1. mailbox[m][i].pid \in Proc
      <4>1. mailbox[m][i] \in SystemMessage
        BY <2>1, <2>3
      <4> QED
        BY <4>1 DEF SystemMessage
    <3>2. at[mailbox[m][i].pid] \in Left
      BY <2>3 DEF DownMeansReturned, Left
    <3> QED
      BY <2>2, <2>3, <3>1, <3>2
  <2>4. CASE mailbox'[m] = mailbox[m]
    BY <2>3, <2>4
  <2>5. ASSUME NEW msg \in SystemMessage,
               mailbox'[m] = Append(mailbox[m], msg),
               msg.type = "down" => at[msg.pid] \in Left
        PROVE  at'[mailbox'[m][i].pid] \in Left
    <3>1. CASE i \in 1 .. Len(mailbox[m])
      BY <2>1, <2>3, <2>5, <3>1
    <3>2. CASE i = Len(mailbox[m]) + 1
      <4>1. mailbox'[m][i] = msg
        BY <2>1, <2>5, <3>2
      <4>2. msg.pid \in Proc
        BY DEF SystemMessage
      <4> QED
        BY <2>2, <2>5, <4>1, <4>2
    <3>3. i \in 1 .. Len(mailbox[m]) \/ i = Len(mailbox[m]) + 1
      BY <2>1, <2>5
    <3> QED
      BY <3>1, <3>2, <3>3
  <2> QED
    BY <1>1, <2>4, <2>5, MailStep
<1>2. CASE UNCHANGED vars
  BY <1>2 DEF vars, DownMeansReturned
<1> QED
  BY <1>1, <1>2 DEF Next

LEMMA RegistryCorrect == Spec => []RegistryInv
  BY RegistryInit, RegistryNext, TypeCorrect, PTL DEF Spec

(* Nobody is told that a process is down while it executes user code. *)
THEOREM DownCorrect == Spec => []DownMeansReturned
  BY DownInit, DownNext, RegistryCorrect, TypeCorrect, PTL DEF Spec

-----------------------------------------------------------------------------
(* DownAtMostOnce.  A reference is at any time in at most one place that   *)
(* can still produce its DOWN or has done so: a call in progress, the      *)
(* monitored_by map of a target that has not been snapshotted, a snapshot, *)
(* or a mailbox; and every step moves it on from one place to the next.    *)
Calling(x, r) == at[x] \in {"spawn_monitor", "monitor"} /\ arg[x].ref = r
Watching(q, m, r) == <<r, m>> \in monitoredBy[q] /\ at[q] \notin Left
Queued(q, m, r) == <<r, m>> \in monitorQ[q]
Told(x, i, r) ==
    /\ i \in 1 .. Len(mailbox[x])
    /\ mailbox[x][i].type = "down" /\ mailbox[x][i].ref = r

OnePlace(r) ==
    /\ \A x \in Proc : Calling(x, r) =>
        /\ r < nextRef
        /\ \A y \in Proc : Calling(y, r) => x = y
        /\ \A q, m \in Proc : ~Watching(q, m, r) /\ ~Queued(q, m, r)
        /\ \A y \in Proc, i \in Nat : ~Told(y, i, r)
    /\ \A q, m \in Proc : Watching(q, m, r) =>
        /\ r < nextRef
        /\ \A o, n \in Proc : Watching(o, n, r) => o = q /\ n = m
        /\ \A o, n \in Proc : ~Queued(o, n, r)
        /\ \A y \in Proc, i \in Nat : ~Told(y, i, r)
    /\ \A q, m \in Proc : Queued(q, m, r) =>
        /\ r < nextRef
        /\ \A o, n \in Proc : Queued(o, n, r) => o = q /\ n = m
        /\ \A y \in Proc, i \in Nat : ~Told(y, i, r)
    /\ \A x \in Proc, i \in Nat : Told(x, i, r) =>
        /\ r < nextRef
        /\ \A y \in Proc, j \in Nat : Told(y, j, r) => y = x /\ j = i

RefInv == \A r \in Ref : OnePlace(r)

(* What stays where it was, or vanishes. *)
KeepCalling(r) == \A x \in Proc : Calling(x, r)' => Calling(x, r)
KeepWatching(r) == \A q, m \in Proc : Watching(q, m, r)' => Watching(q, m, r)
KeepQueued(r) == \A q, m \in Proc : Queued(q, m, r)' => Queued(q, m, r)
KeepTold(r) == \A x \in Proc, i \in Nat : Told(x, i, r)' => Told(x, i, r)

(* The ways a reference moves on. *)
Kept(r) == KeepCalling(r) /\ KeepWatching(r) /\ KeepQueued(r) /\ KeepTold(r)
Created(p, r) ==
    /\ r = nextRef /\ nextRef' = nextRef + 1
    /\ \A x \in Proc : Calling(x, r)' => Calling(x, r) \/ x = p
    /\ KeepWatching(r) /\ KeepQueued(r) /\ KeepTold(r)
Installed(p, r) ==
    /\ Calling(p, r)
    /\ \A x \in Proc : Calling(x, r)' => Calling(x, r) /\ x # p
    /\ \E t \in Proc : \A q, m \in Proc :
            Watching(q, m, r)' => Watching(q, m, r) \/ (q = t /\ m = p)
    /\ KeepQueued(r) /\ KeepTold(r)
Refused(p, r) ==
    /\ Calling(p, r)
    /\ \A x \in Proc : Calling(x, r)' => Calling(x, r) /\ x # p
    /\ \E k \in Nat : \A x \in Proc, i \in Nat :
            Told(x, i, r)' => Told(x, i, r) \/ (x = p /\ i = k)
    /\ KeepWatching(r) /\ KeepQueued(r)
Snapshotted(p, r) ==
    /\ \A q, m \in Proc : Watching(q, m, r)' => Watching(q, m, r) /\ q # p
    /\ \A q, m \in Proc :
            Queued(q, m, r)' => Queued(q, m, r) \/ (q = p /\ Watching(p, m, r))
    /\ KeepCalling(r) /\ KeepTold(r)
Reported(p, o, r) ==
    /\ Queued(p, o, r)
    /\ \A q, m \in Proc : Queued(q, m, r)' => Queued(q, m, r) /\ ~(q = p /\ m = o)
    /\ \E k \in Nat : \A x \in Proc, i \in Nat :
            Told(x, i, r)' => Told(x, i, r) \/ (x = o /\ i = k)
    /\ KeepCalling(r) /\ KeepWatching(r)

(* Each of these ways keeps the reference in one place. *)
LEMMA PlacePreserved ==
    ASSUME NEW r \in Ref, NEW p \in Proc, NEW o \in Proc, OnePlace(r),
           nextRef \in Nat, nextRef' \in {nextRef, nextRef + 1},
           \/ Kept(r) \/ Created(p, r) \/ Installed(p, r) \/ Refused(p, r)
           \/ Snapshotted(p, r) \/ Reported(p, o, r)
    PROVE  OnePlace(r)'
<1> USE DEF KeepCalling, KeepWatching, KeepQueued, KeepTold
<1>0. r \in Nat
  BY DEF Ref
<1>1. CASE Kept(r)
  BY <1>0, <1>1 DEF Kept, OnePlace
<1>2. CASE Created(p, r)
  BY <1>0, <1>2 DEF Created, OnePlace
<1>3. CASE Installed(p, r)
  BY <1>0, <1>3 DEF Installed, OnePlace
<1>4. CASE Refused(p, r)
  BY <1>0, <1>4 DEF Refused, OnePlace
<1>5. CASE Snapshotted(p, r)
  BY <1>0, <1>5 DEF Snapshotted, OnePlace
<1>6. CASE Reported(p, o, r)
  BY <1>0, <1>6 DEF Reported, OnePlace
<1> QED
  BY <1>1, <1>2, <1>3, <1>4, <1>5, <1>6

(* Two ways in which no DOWN is told: mailboxes stay, or get an EXIT. *)
LEMMA QuietMail ==
    ASSUME TypeOK, NEW r \in Ref, mailbox' = mailbox
    PROVE  KeepTold(r)
  BY DEF KeepTold, Told

LEMMA ExitMail ==
    ASSUME TypeOK, NEW r \in Ref, NEW p \in Proc, NEW q \in Proc,
           NEW reason \in ExitReason, Signal(q, p, reason)
    PROVE  KeepTold(r)
<1>1. CASE mailbox' = mailbox
  BY <1>1, QuietMail
<1>2. CASE mailbox' = [mailbox EXCEPT ![q] = Append(@, ExitMsg(p, reason))]
  <2>1. SUFFICES ASSUME NEW x \in Proc, NEW i \in Nat, Told(x, i, r)'
                 PROVE  Told(x, i, r)
    BY DEF KeepTold
  <2>2. mailbox[x] \in Seq(SystemMessage)
    BY DEF TypeOK
  <2>3. ExitMsg(p, reason) \in SystemMessage /\ ExitMsg(p, reason).type = "exit"
    BY DEF ExitMsg, SystemMessage
  <2>4. CASE x # q
    BY <1>2, <2>1, <2>4 DEF Told, TypeOK
  <2>5. CASE x = q
    <3>1. mailbox'[x] = Append(mailbox[x], ExitMsg(p, reason))
      BY <1>2, <2>5 DEF TypeOK
    <3> QED
      BY <2>1, <2>2, <2>3, <3>1 DEF Told
  <2> QED
    BY <2>4, <2>5
<1> QED
  BY <1>1, <1>2 DEF Signal, Deliver

(* A delivered DOWN is told in one new place. *)
LEMMA DownMail ==
    ASSUME TypeOK, NEW r \in Ref, NEW s \in Ref, NEW o \in Proc,
           NEW q \in Proc, NEW reason \in ExitReason,
           Deliver(o, DownMsg(s, q, reason))
    PROVE  /\ s # r => KeepTold(r)
           /\ \E k \in Nat : \A x \in Proc, i \in Nat :
                  Told(x, i, r)' => Told(x, i, r) \/ (x = o /\ i = k)
<1> DEFINE down == DownMsg(s, q, reason)
<1>1. down \in SystemMessage /\ down.ref = s
  BY DEF DownMsg, SystemMessage
<1>2. CASE mailbox' = mailbox
  BY <1>2, QuietMail DEF KeepTold
<1>3. CASE mailbox' = [mailbox EXCEPT ![o] = Append(@, down)]
  <2>1. mailbox[o] \in Seq(SystemMessage) /\ Len(mailbox[o]) + 1 \in Nat
    BY DEF TypeOK
  <2>2. mailbox'[o] = Append(mailbox[o], down)
    BY <1>3 DEF TypeOK
  <2>3. ASSUME NEW x \in Proc, NEW i \in Nat, Told(x, i, r)', x # o
        PROVE  Told(x, i, r)
    BY <1>3, <2>3 DEF Told, TypeOK
  <2>4. ASSUME NEW i \in Nat, Told(o, i, r)'
        PROVE  Told(o, i, r) \/ (i = Len(mailbox[o]) + 1 /\ s = r)
    <3>1. i \in 1 .. Len(mailbox[o]) \/ i = Len(mailbox[o]) + 1
      BY <2>1, <2>2, <2>4 DEF Told
    <3>2. CASE i \in 1 .. Len(mailbox[o])
      BY <2>1, <2>2, <2>4, <3>2, <1>1 DEF Told
    <3>3. CASE i = Len(mailbox[o]) + 1
      BY <2>1, <2>2, <2>4, <3>3, <1>1 DEF Told
    <3> QED
      BY <3>1, <3>2, <3>3
  <2>5. s # r => KeepTold(r)
    BY <2>3, <2>4 DEF KeepTold
  <2>6. \A x \in Proc, i \in Nat :
           Told(x, i, r)' => Told(x, i, r) \/ (x = o /\ i = Len(mailbox[o]) + 1)
    BY <2>3, <2>4
  <2> QED
    BY <2>1, <2>5, <2>6
<1> QED
  BY <1>2, <1>3 DEF Deliver

(* User code creates references and moves no other. *)
LEMMA UserPlace ==
    ASSUME TypeOK, RegistryInv, NEW r \in Ref, NEW p \in Proc, User(p)
    PROVE  Kept(r) \/ Created(p, r)
<1> USE DEF UserCall, stateVars, exitVars
<1>1. KeepTold(r)
  <2>1. ASSUME NEW q \in Proc, NEW reason \in SignalWith, Exit(p, q, reason)
        PROVE  KeepTold(r)
    BY <2>1, InputsAssumption, ExitMail DEF Exit
  <2>2. mailbox' = mailbox => KeepTold(r)
    BY QuietMail
  <2> QED
    BY <2>1, <2>2 DEF User, Spawn, SpawnLink, SpawnMonitor, Link, Unlink,
       Monitor, Demonitor, SetTrapExit, HandleExit, Unregister, Register,
       Return, Panic
<1>2. monitoredBy' = monitoredBy /\ monitorQ' = monitorQ
  BY DEF User, Spawn, SpawnLink, SpawnMonitor, Link, Unlink, Monitor, Demonitor,
     SetTrapExit, Exit, HandleExit, Unregister, Register, Return, Panic
<1>3. \A x \in Proc : at'[x] \notin Left => at[x] \notin Left
  BY LeftStays DEF Next
<1>4. KeepWatching(r) /\ KeepQueued(r)
  BY <1>2, <1>3 DEF KeepWatching, KeepQueued, Watching, Queued
<1>5. CASE Spawn(p) \/ SpawnLink(p)
  <2>1. KeepCalling(r)
    BY <1>5 DEF Spawn, SpawnLink, SpawnInternal, KeepCalling, Calling, TypeOK
  <2> QED
    BY <1>1, <1>4, <2>1 DEF Kept
<1>6. CASE SpawnMonitor(p)
  <2>1. /\ nextPid \in Proc /\ nextPid # p /\ at'[nextPid] = "run"
        /\ \A x \in Proc \ {nextPid, p} : at'[x] = at[x]
        /\ \A x \in Proc \ {p} : arg'[x] = arg[x]
    BY <1>6, SpawnShape
  <2>2. arg'[p].ref = nextRef /\ nextRef' = nextRef + 1
    BY <1>6 DEF SpawnMonitor, NoArg, TypeOK
  <2>3. \A x \in Proc : Calling(x, r)' => Calling(x, r) \/ (x = p /\ r = nextRef)
    BY <2>1, <2>2 DEF Calling
  <2> QED
    BY <1>1, <1>4, <2>2, <2>3 DEF Kept, KeepCalling, Created
<1>7. ASSUME NEW q \in Proc, Monitor(p, q)
      PROVE  Kept(r) \/ Created(p, r)
  <2>1. \A x \in Proc : Calling(x, r)' => Calling(x, r) \/ (x = p /\ r = nextRef)
    BY <1>7 DEF Monitor, Enter, Calling, TypeOK
  <2>2. nextRef' = nextRef + 1
    BY <1>7 DEF Monitor
  <2> QED
    BY <1>1, <1>4, <2>1, <2>2 DEF Kept, KeepCalling, Created
<1>8. CASE ~Spawn(p) /\ ~SpawnLink(p) /\ ~SpawnMonitor(p)
           /\ \A q \in Proc : ~Monitor(p, q)
  <2>1. ASSUME \E q \in Proc : Link(p, q) \/ Unlink(p, q)
        PROVE  KeepCalling(r)
    BY <2>1, ZenonT(40) DEF Link, Unlink, Enter, KeepCalling, Calling, TypeOK
  <2>2. ASSUME \/ \E m \in Ref, q \in Proc : Demonitor(p, m, q)
             \/ \E value \in BOOLEAN : SetTrapExit(p, value)
        PROVE  KeepCalling(r)
    BY <2>2 DEF Demonitor, SetTrapExit, Enter, KeepCalling, Calling, TypeOK
  <2>3. ASSUME \E q \in Proc, reason \in SignalWith :
                Exit(p, q, reason) \/ HandleExit(p, q, reason)
        PROVE  KeepCalling(r)
    BY <2>3 DEF Exit, HandleExit, KeepCalling, Calling, TypeOK
  <2>4. ASSUME \E n \in Name : Unregister(p, n) \/ \E q \in Proc : Register(p, n, q)
        PROVE  KeepCalling(r)
    BY <2>4 DEF Unregister, Register, Enter, KeepCalling, Calling, TypeOK
  <2>5. ASSUME (\E reason \in ExitWith : Return(p, reason)) \/ Panic(p)
        PROVE  KeepCalling(r)
    BY <2>5 DEF Return, Panic, Enter, KeepCalling, Calling, TypeOK
  <2>6. KeepCalling(r)
    BY <1>8, <2>1, <2>2, <2>3, <2>4, <2>5 DEF User
  <2> QED
    BY <1>1, <1>4, <2>6 DEF Kept
<1> QED
  BY <1>5, <1>6, <1>7, <1>8

(* The rest of a call or an exit moves a reference one place on. *)
LEMMA ContinuePlace ==
    ASSUME TypeOK, RegistryInv, NEW r \in Ref, NEW p \in Proc, Continue(p)
    PROVE  \/ Kept(r) \/ Installed(p, r) \/ Refused(p, r) \/ Snapshotted(p, r)
           \/ \E o \in Proc : Reported(p, o, r)
<1> USE DEF stateVars, exitVars, counters
<1>1. \A x \in Proc : at'[x] \notin Left => at[x] \notin Left
  BY LeftStays DEF Next
<1>2. monitoredBy' = monitoredBy => KeepWatching(r)
  BY <1>1 DEF KeepWatching, Watching
<1>3. monitorQ' = monitorQ => KeepQueued(r)
  BY DEF KeepQueued, Queued
<1>4. Finish(p) => \A x \in Proc : Calling(x, r)' => Calling(x, r) /\ x # p
  BY DEF Finish, Calling, TypeOK
<1>5. UNCHANGED <<at, arg>> => KeepCalling(r)
  BY DEF KeepCalling, Calling
<1>6. mailbox' = mailbox => KeepTold(r)
  BY QuietMail
<1>7. CASE SpawnLinkChild(p) \/ LinkPeer(p) \/ UnlinkPeer(p) \/ RegisterInsert(p)
  BY <1>2, <1>3, <1>4, <1>6, <1>7 DEF SpawnLinkChild, LinkPeer, UnlinkPeer,
     RegisterInsert, Kept, KeepCalling
<1>8. CASE DemonitorPeer(p)
  <2>1. KeepWatching(r)
    BY <1>8, <1>1 DEF DemonitorPeer, KeepWatching, Watching, TypeOK
  <2> QED
    BY <1>8, <2>1, <1>3, <1>4, <1>6 DEF DemonitorPeer, Kept, KeepCalling
<1>9. CASE SpawnMonitorChild(p)
  <2>1. arg[p].pid \in Proc
    BY <1>9 DEF SpawnMonitorChild, TypeOK, OperandsOK, CallPoint
  <2>2. \A q, m \in Proc : Watching(q, m, r)' =>
            Watching(q, m, r) \/ (q = arg[p].pid /\ m = p /\ arg[p].ref = r)
    BY <1>9, <1>1, <2>1 DEF SpawnMonitorChild, Watching, TypeOK
  <2>3. KeepQueued(r) /\ KeepTold(r)
    BY <1>9, <1>3, <1>6 DEF SpawnMonitorChild
  <2>4. \A x \in Proc : Calling(x, r)' => Calling(x, r) /\ x # p
    BY <1>9, <1>4 DEF SpawnMonitorChild
  <2>5. CASE arg[p].ref = r
    <3>1. Calling(p, r)
      BY <1>9, <2>5 DEF SpawnMonitorChild, Calling
    <3> QED
      BY <3>1, <2>1, <2>2, <2>3, <2>4 DEF Installed
  <2>6. CASE arg[p].ref # r
    BY <2>2, <2>3, <2>4, <2>6 DEF Kept, KeepCalling, KeepWatching
  <2> QED
    BY <2>5, <2>6
<1>10. CASE MonitorPeer(p)
  <2>1. arg[p].pid \in Proc /\ arg[p].ref \in Ref
    BY <1>10 DEF MonitorPeer, TypeOK, OperandsOK, CallPoint
  <2>2. KeepQueued(r)
    BY <1>10, <1>3 DEF MonitorPeer
  <2>3. \A x \in Proc : Calling(x, r)' => Calling(x, r) /\ x # p
    BY <1>10, <1>4 DEF MonitorPeer
  <2>4. arg[p].ref = r => Calling(p, r)
    BY <1>10 DEF MonitorPeer, Calling
  <2>5. CASE arg[p].pid \in processes
    <3>1. \A q, m \in Proc : Watching(q, m, r)' =>
              Watching(q, m, r) \/ (q = arg[p].pid /\ m = p /\ arg[p].ref = r)
      BY <1>10, <1>1, <2>1, <2>5 DEF MonitorPeer, Watching, TypeOK
    <3>2. KeepTold(r)
      BY <1>10, <1>6, <2>5 DEF MonitorPeer
    <3> QED
      BY <2>1, <2>2, <2>3, <2>4, <3>1, <3>2
      DEF Installed, Kept, KeepCalling, KeepWatching
  <2>6. CASE arg[p].pid \notin processes
    <3>1. KeepWatching(r)
      BY <1>10, <1>2, <2>6 DEF MonitorPeer
    <3>2. Deliver(p, DownMsg(arg[p].ref, arg[p].pid, "noproc"))
      BY <1>10, <2>6 DEF MonitorPeer
    <3>3. "noproc" \in ExitReason
      BY DEF ExitReason
    <3>4. /\ arg[p].ref # r => KeepTold(r)
          /\ \E k \in Nat : \A x \in Proc, i \in Nat :
                 Told(x, i, r)' => Told(x, i, r) \/ (x = p /\ i = k)
      BY <2>1, <3>2, <3>3, DownMail
    <3> QED
      BY <2>2, <2>3, <2>4, <3>1, <3>4 DEF Refused, Kept, KeepCalling
  <2> QED
    BY <2>5, <2>6
<1>11. CASE ExitBegin(p)
  <2>1. KeepCalling(r)
    BY <1>11 DEF ExitBegin, KeepCalling, Calling, TypeOK
  <2>2. KeepTold(r)
    BY <1>11, <1>6 DEF ExitBegin
  <2>3. \A q, m \in Proc : Watching(q, m, r)' => Watching(q, m, r) /\ q # p
    BY <1>11, <1>1 DEF ExitBegin, Watching, Left, TypeOK
  <2>4. \A q, m \in Proc :
            Queued(q, m, r)' => Queued(q, m, r) \/ (q = p /\ Watching(p, m, r))
    BY <1>11 DEF ExitBegin, Queued, Watching, Left, TypeOK
  <2> QED
    BY <2>1, <2>2, <2>3, <2>4 DEF Snapshotted
<1>12. ASSUME NEW q \in Proc, NotifyLink(p, q) PROVE Kept(r)
  <2>1. KeepTold(r)
    <3>1. why[p] \in ExitReason
      BY DEF TypeOK
    <3> QED
      BY <1>12, <1>6, <3>1, ExitMail DEF NotifyLink, NoSignal
  <2> QED
    BY <1>12, <1>2, <1>3, <1>5, <2>1 DEF NotifyLink, Kept
<1>13. ASSUME NEW s \in Ref, NEW o \in Proc, NotifyMonitor(p, s, o)
       PROVE  Kept(r) \/ Reported(p, o, r)
  <2>1. KeepCalling(r) /\ KeepWatching(r)
    BY <1>13, <1>2, <1>5 DEF NotifyMonitor
  <2>2. Queued(p, o, s)
    BY <1>13 DEF NotifyMonitor, Queued
  <2>3. \A q, m \in Proc :
            Queued(q, m, r)' => Queued(q, m, r) /\ ~(q = p /\ m = o /\ s = r)
    BY <1>13 DEF NotifyMonitor, Queued, TypeOK
  <2>4. /\ s # r => KeepTold(r)
        /\ \E k \in Nat : \A x \in Proc, i \in Nat :
               Told(x, i, r)' => Told(x, i, r) \/ (x = o /\ i = k)
    <3>1. CASE mailbox' = mailbox
      BY <1>6, <3>1 DEF KeepTold
    <3>2. CASE Deliver(o, DownMsg(s, p, why[p]))
      <4>1. why[p] \in ExitReason
        BY DEF TypeOK
      <4> QED
        BY <3>2, <4>1, DownMail
    <3> QED
      BY <1>13, <3>1, <3>2 DEF NotifyMonitor
  <2> QED
    BY <2>1, <2>2, <2>3, <2>4 DEF Reported, Kept, KeepQueued
<1>14. CASE DropNames(p) \/ DropProcess(p)
  <2>1. KeepCalling(r)
    BY <1>14 DEF DropNames, DropProcess, KeepCalling, Calling, TypeOK
  <2> QED
    BY <1>14, <1>2, <1>3, <1>6, <2>1 DEF DropNames, DropProcess, Kept
<1> QED
  BY <1>7, <1>8, <1>9, <1>10, <1>11, <1>12, <1>13, <1>14 DEF Continue

LEMMA RefInit == Init => RefInv
  BY DEF Init, RefInv, OnePlace, Calling, Watching, Queued, Told

LEMMA NextRefStep ==
    ASSUME TypeOK, NEW p \in Proc, User(p) \/ Continue(p)
    PROVE  nextRef \in Nat /\ nextRef' \in {nextRef, nextRef + 1}
<1>1. nextRef \in Nat
  BY DEF TypeOK
<1> QED
  BY <1>1 DEF User, Continue, Spawn, SpawnLink, SpawnMonitor, Link, Unlink, Monitor,
     Demonitor, SetTrapExit, Exit, HandleExit, Unregister, Register, Return,
     Panic, SpawnLinkChild, SpawnMonitorChild, LinkPeer, UnlinkPeer,
     MonitorPeer, DemonitorPeer, RegisterInsert, ExitBegin, NotifyLink,
     NotifyMonitor, DropNames, DropProcess, counters

LEMMA RefNext ==
    ASSUME TypeOK, RegistryInv, RefInv, [Next]_vars
    PROVE  RefInv'
<1>1. ASSUME NEW p \in Proc, User(p) \/ Continue(p)
      PROVE  RefInv'
  <2> SUFFICES ASSUME NEW r \in Ref PROVE OnePlace(r)'
    BY DEF RefInv
  <2>1. OnePlace(r)
    BY DEF RefInv
  <2>2. nextRef \in Nat /\ nextRef' \in {nextRef, nextRef + 1}
    BY <1>1, NextRefStep
  <2>3. CASE User(p)
    BY <2>1, <2>2, <2>3, UserPlace, PlacePreserved
  <2>4. CASE Continue(p)
    BY <2>1, <2>2, <2>4, ContinuePlace, PlacePreserved
  <2> QED
    BY <1>1, <2>3, <2>4
<1>2. CASE UNCHANGED vars
  BY <1>2 DEF vars, stateVars, exitVars, counters, RefInv, OnePlace, Calling,
     Watching, Queued, Told
<1> QED
  BY <1>1, <1>2 DEF Next

LEMMA OnceFromPlace == TypeOK /\ RefInv => DownAtMostOnce
<1> SUFFICES ASSUME TypeOK, RefInv, NEW p \in Proc, NEW q \in Proc,
                    NEW i \in 1 .. Len(mailbox[p]), NEW j \in 1 .. Len(mailbox[q]),
                    mailbox[p][i].type = "down", mailbox[q][j].type = "down",
                    mailbox[p][i].ref = mailbox[q][j].ref
             PROVE  p = q /\ i = j
  BY DEF DownAtMostOnce
<1> DEFINE r == mailbox[p][i].ref
<1>1. mailbox[p] \in Seq(SystemMessage) /\ mailbox[q] \in Seq(SystemMessage)
  BY DEF TypeOK
<1>2. Told(p, i, r) /\ Told(q, j, r)
  BY DEF Told
<1>3. r \in Ref
  <2>1. mailbox[p][i] \in SystemMessage
    BY <1>1
  <2> QED
    BY <2>1 DEF SystemMessage
<1> QED
  BY <1>1, <1>2, <1>3 DEF RefInv, OnePlace

(* One monitor yields at most one DOWN message. *)
THEOREM DownOnceCorrect == Spec => []DownAtMostOnce
<1>1. Spec => []RefInv
  BY RefInit, RefNext, RegistryCorrect, TypeCorrect, PTL DEF Spec
<1> QED
  BY <1>1, TypeCorrect, OnceFromPlace, PTL

-----------------------------------------------------------------------------
(* NameOwnerRegistered.  A process that registers itself is registered     *)
(* while it does so, and its names are dropped while it still is.          *)
NameInv ==
    /\ NameOwnerRegistered
    /\ \A p \in Proc : at[p] = "register" => arg[p].pid = p
    /\ \A p \in Proc : at[p] = "drop_process" =>
           p \in processes /\ \A n \in Name : names[n] # p

LEMMA NameInit == Init => NameInv
  BY DEF Init, NameInv, NameOwnerRegistered

LEMMA NameNext ==
    ASSUME "register_other" \notin Calls, TypeOK, RegistryInv, NameInv, [Next]_vars
    PROVE  NameInv'
<1> USE DEF UserCall, stateVars, exitVars, counters
<1>1. ASSUME NEW p \in Proc, Spawn(p) \/ SpawnLink(p) \/ SpawnMonitor(p)
      PROVE  NameInv'
  <2>1. names' = names
    BY <1>1 DEF Spawn, SpawnLink, SpawnMonitor
  <2>2. \A x \in Proc : at'[x] \in {"register", "drop_process"} =>
            at'[x] = at[x] /\ arg'[x] = arg[x]
    BY <1>1, SpawnShape
  <2> QED
    BY <1>1, <2>1, <2>2, SpawnShape DEF NameInv, NameOwnerRegistered
<1>2. ASSUME NEW p \in Proc, NEW n \in Name, NEW q \in Proc, Register(p, n, q)
      PROVE  NameInv'
  <2>1. q = p /\ names' = names /\ processes' = processes
    BY <1>2 DEF Register
  <2>2. /\ at' = [at EXCEPT ![p] = "register"]
        /\ arg' = [arg EXCEPT ![p] = [pid |-> p, ref |-> NoRef, name |-> n]]
    BY <1>2, <2>1 DEF Register, Enter
  <2>3. at \in [Proc -> Point] /\ arg \in [Proc -> Operands]
    BY DEF TypeOK
  <2>4. \A x \in Proc : at'[x] = "register" => arg'[x].pid = x
    BY <2>2, <2>3 DEF NameInv
  <2>5. \A x \in Proc : at'[x] = "drop_process" => at[x] = "drop_process"
    BY <2>2, <2>3
  <2> QED
    BY <2>1, <2>4, <2>5 DEF NameInv, NameOwnerRegistered
<1>3. ASSUME NEW p \in Proc, NEW n \in Name, Unregister(p, n)
      PROVE  NameInv'
  <2>1. /\ at' = at /\ arg' = arg /\ processes' = processes
        /\ names' = [names EXCEPT ![n] = NoPid]
    BY <1>3 DEF Unregister
  <2>2. names \in [Name -> Proc \cup {NoPid}]
    BY DEF TypeOK
  <2>3. \A m \in Name : names'[m] \in {NoPid, names[m]}
    BY <2>1, <2>2
  <2>4. \A x \in Proc : x # NoPid
    BY DEF Proc, NoPid
  <2> QED
    BY <2>1, <2>3, <2>4 DEF NameInv, NameOwnerRegistered
<1>4. ASSUME NEW p \in Proc, RegisterInsert(p)
      PROVE  NameInv'
  <2>1. arg[p].name \in Name /\ arg[p].pid = p /\ at[p] = "register"
    BY <1>4 DEF RegisterInsert, TypeOK, OperandsOK, NameInv
  <2>2. p \in processes
    BY <2>1 DEF RegistryInv, Proc, TypeOK
  <2>3. /\ names' = [names EXCEPT ![arg[p].name] = p] /\ processes' = processes
        /\ at' = [at EXCEPT ![p] = "run"]
        /\ \A x \in Proc \ {p} : arg'[x] = arg[x]
    BY <1>4, <2>1 DEF RegisterInsert, Finish, TypeOK
  <2> QED
    BY <2>1, <2>2, <2>3 DEF NameInv, NameOwnerRegistered, TypeOK
<1>5. ASSUME NEW p \in Proc, DropNames(p)
      PROVE  NameInv'
  <2>1. p \in processes
    BY <1>5 DEF DropNames, RegistryInv, Proc, TypeOK
  <2>2. \A n \in Name : names'[n] # p /\ names'[n] \in {NoPid, names[n]}
    BY <1>5 DEF DropNames, Proc, NoPid
  <2>3. /\ processes' = processes /\ arg' = arg
        /\ at' = [at EXCEPT ![p] = "drop_process"]
    BY <1>5 DEF DropNames
  <2>4. at \in [Proc -> Point]
    BY DEF TypeOK
  <2>5. NameOwnerRegistered'
    BY <2>2, <2>3 DEF NameInv, NameOwnerRegistered
  <2>6. \A x \in Proc : at'[x] = "register" => arg'[x].pid = x
    BY <2>3, <2>4 DEF NameInv
  <2>7. ASSUME NEW x \in Proc, at'[x] = "drop_process"
        PROVE  x \in processes' /\ \A n \in Name : names'[n] # x
    <3>1. CASE x = p
      BY <3>1, <2>1, <2>2, <2>3
    <3>2. CASE x # p
      <4>1. at[x] = "drop_process"
        BY <3>2, <2>7, <2>3, <2>4
      <4>2. x # NoPid
        BY DEF Proc, NoPid
      <4> QED
        BY <4>1, <4>2, <2>2, <2>3 DEF NameInv
    <3> QED
      BY <3>1, <3>2
  <2> QED
    BY <2>5, <2>6, <2>7 DEF NameInv
<1>6. ASSUME NEW p \in Proc, DropProcess(p)
      PROVE  NameInv'
  BY <1>6 DEF DropProcess, NameInv, NameOwnerRegistered, TypeOK
<1>7. ASSUME NEW p \in Proc, User(p) \/ Continue(p),
             ~Spawn(p), ~SpawnLink(p), ~SpawnMonitor(p),
             ~RegisterInsert(p), ~DropNames(p), ~DropProcess(p),
             \A n \in Name : ~Unregister(p, n) /\ \A q \in Proc : ~Register(p, n, q)
      PROVE  NameInv'
  <2>1. names' = names /\ processes' = processes
    BY <1>7 DEF User, Continue, Link, Unlink, Monitor, Demonitor, SetTrapExit,
       Exit, HandleExit, Return, Panic, SpawnLinkChild, SpawnMonitorChild,
       LinkPeer, UnlinkPeer, MonitorPeer, DemonitorPeer, ExitBegin, NotifyLink,
       NotifyMonitor
  <2>2. \A x \in Proc : at'[x] \in {"register", "drop_process"} =>
            at'[x] = at[x] /\ arg'[x] = arg[x]
    BY <1>7, ZenonT(40) DEF User, Continue, Link, Unlink, Monitor, Demonitor, SetTrapExit,
       Exit, HandleExit, Return, Panic, SpawnLinkChild, SpawnMonitorChild,
       LinkPeer, UnlinkPeer, MonitorPeer, DemonitorPeer, ExitBegin, NotifyLink,
       NotifyMonitor, Enter, Finish, TypeOK
  <2> QED
    BY <2>1, <2>2 DEF NameInv, NameOwnerRegistered
<1>8. CASE UNCHANGED vars
  BY <1>8 DEF vars, NameInv, NameOwnerRegistered
<1> QED
  BY <1>1, <1>2, <1>3, <1>4, <1>5, <1>6, <1>7, <1>8 DEF Next

(* whereis() never returns an unregistered process, as long as processes   *)
(* register only themselves.                                               *)
THEOREM NameCorrect ==
    ASSUME "register_other" \notin Calls
    PROVE  Spec => []NameOwnerRegistered
<1>1. NameInv => NameOwnerRegistered
  BY DEF NameInv
<1>2. TypeOK /\ RegistryInv /\ NameInv /\ [Next]_vars => NameInv'
  BY NameNext
<1> QED
  BY <1>1, <1>2, NameInit, RegistryCorrect, TypeCorrect, PTL DEF Spec

-----------------------------------------------------------------------------
(* LinksSymmetric, when nobody unlinks.  The caller's half of a link comes *)
(* first and only the exit of the peer takes it back.                      *)
Linking == {"link", "spawn_link"}

LinkInv ==
    /\ LinksSymmetric
    /\ \A p \in Proc : at[p] # "unlink"
    /\ \A p \in Proc : at[p] = "notify" => terminated[p]
    /\ \A p, q \in Proc : q \in links[p] => p < nextPid /\ q < nextPid
    /\ \A p \in Proc : at[p] \in Linking => arg[p].pid < nextPid
    /\ \A p \in Proc : at[p] \in Linking /\ Live(arg[p].pid) => arg[p].pid \in links[p]

LEMMA LinkInit == Init => LinkInv
  BY DEF Init, LinkInv, LinksSymmetric, Linking

(* Steps that leave the links and the link calls alone. *)
LEMMA LinkFrame ==
    ASSUME TypeOK, LinkInv, links' = links, nextPid' = nextPid,
           processes' \subseteq processes,
           \A x \in Proc : terminated[x] => terminated'[x],
           \A x \in Proc : at'[x] = "notify" => terminated'[x],
           \A x \in Proc : at'[x] # "unlink",
           \A x \in Proc : at'[x] \in Linking <=> at[x] \in Linking,
           \A x \in Proc : at'[x] \in Linking => at'[x] = at[x] /\ arg'[x] = arg[x]
    PROVE  LinkInv'
<1>1. \A x \in Proc : Live(x)' => Live(x)
  BY DEF Live
<1>2. \A x, y \in Proc : LinkCallOn(x, y)' <=> LinkCallOn(x, y)
  BY DEF LinkCallOn, Linking, LinkInv
<1>3. LinksSymmetric'
  BY <1>1, <1>2 DEF LinkInv, LinksSymmetric
<1>4. \A x \in Proc : at[x] \in Linking => arg[x].pid \in Proc
  BY DEF Linking, TypeOK, OperandsOK, CallPoint
<1> QED
  BY <1>1, <1>3, <1>4 DEF LinkInv

(* Steps that change the links of one pair, or a link call of p on q. *)
LEMMA LinkPair ==
    ASSUME LinkInv, NEW p \in Proc, NEW q \in Proc,
           \A x, y \in Proc : {x, y} # {p, q} =>
               (y \in links'[x] <=> y \in links[x]),
           \A x \in Proc : Live(x)' => Live(x),
           \A x, y \in Proc : x # p \/ y # q =>
               (LinkCallOn(x, y)' <=> LinkCallOn(x, y)),
           Live(p)' /\ Live(q)' /\ ~LinkCallOn(p, q)' =>
               (q \in links'[p] <=> p \in links'[q])
    PROVE  LinksSymmetric'
<1> SUFFICES ASSUME NEW x \in Proc, NEW y \in Proc, Live(x)', Live(y)',
                    ~LinkCallOn(x, y)', ~LinkCallOn(y, x)'
             PROVE  y \in links'[x] <=> x \in links'[y]
  BY DEF LinksSymmetric
<1>1. CASE {x, y} = {p, q}
  BY <1>1
<1>2. CASE {x, y} # {p, q}
  <2>1. ~LinkCallOn(x, y) /\ ~LinkCallOn(y, x)
    BY <1>2
  <2> QED
    BY <1>2, <2>1 DEF LinkInv, LinksSymmetric
<1> QED
  BY <1>1, <1>2

(* A fresh process has no links yet but the one its spawner may note. *)
LEMMA LinkSpawn ==
    ASSUME TypeOK, RegistryInv, LinkInv, NEW p \in Proc,
           Spawn(p) \/ SpawnLink(p) \/ SpawnMonitor(p)
    PROVE  LinkInv'
<1>0. PICK c \in Proc : c = nextPid
  BY SpawnShape
<1>1. /\ c # p /\ nextPid' = c + 1 /\ c \in Nat /\ p < c
      /\ processes' = processes \cup {c} /\ terminated' = terminated
      /\ at[p] = "run" /\ at'[c] = "run"
      /\ \A x \in Proc \ {c, p} : at'[x] = at[x]
      /\ \A x \in Proc \ {p} : arg'[x] = arg[x]
  <2>1. terminated' = terminated
    BY DEF Spawn, SpawnLink, SpawnMonitor, stateVars
  <2>2. at[p] # "unborn"
    BY SpawnShape
  <2>3. p < nextPid
    BY <2>2 DEF RegistryInv, Proc, TypeOK
  <2> QED
    BY <1>0, <2>1, <2>3, SpawnShape DEF Proc
<1>2. \/ links' = links /\ at'[p] \in {"run", "spawn_monitor"}
      \/ /\ links' = [links EXCEPT ![p] = @ \cup {c}]
         /\ at'[p] = "spawn_link" /\ arg'[p].pid = c
  <2>1. at \in [Proc -> Point] /\ arg \in [Proc -> Operands]
    BY DEF TypeOK
  <2>2. CASE Spawn(p)
    BY <2>1, <2>2, <1>0, <1>1 DEF Spawn, stateVars
  <2>3. CASE SpawnLink(p)
    BY <2>1, <2>3, <1>0, <1>1 DEF SpawnLink, NoArg
  <2>4. CASE SpawnMonitor(p)
    BY <2>1, <2>4, <1>1 DEF SpawnMonitor
  <2> QED
    BY <2>2, <2>3, <2>4
<1>3. /\ links \in [Proc -> SUBSET Proc]
      /\ \A x \in Proc : at[x] \in Linking => arg[x].pid \in Proc
  BY DEF TypeOK, OperandsOK, Linking, CallPoint
<1>4. \A x, y \in Proc : y \in links[x] => x < c /\ y < c
  BY <1>0 DEF LinkInv
<1>5. \A x \in Proc, y \in Proc \ {c} : y \in links'[x] <=> y \in links[x]
  BY <1>1, <1>2, <1>3
<1>6. \A x \in Proc : c \in links'[x] => x = p /\ LinkCallOn(p, c)'
  BY <1>1, <1>2, <1>3, <1>4 DEF LinkCallOn
<1>7. \A y \in Proc : y \notin links'[c]
  <2>1. ~(c < c)
    BY <1>1
  <2>2. \A y \in Proc : y \notin links[c]
    BY <2>1, <1>4
  <2> QED
    BY <2>2, <1>1, <1>5, <1>6
<1>8. \A x \in Proc, y \in Proc \ {c} : LinkCallOn(x, y)' <=> LinkCallOn(x, y)
  <2>1. at[c] = "unborn"
    BY <1>0 DEF RegistryInv, Proc
  <2> SUFFICES ASSUME NEW x \in Proc, NEW y \in Proc \ {c}
               PROVE  LinkCallOn(x, y)' <=> LinkCallOn(x, y)
    OBVIOUS
  <2>2. CASE x = c
    BY <2>1, <2>2, <1>1 DEF LinkCallOn
  <2>3. CASE x = p
    BY <2>3, <1>1, <1>2 DEF LinkCallOn
  <2>4. CASE x \notin {c, p}
    BY <2>4, <1>1 DEF LinkCallOn
  <2> QED
    BY <2>2, <2>3, <2>4
<1>9. LinksSymmetric'
  <2> SUFFICES ASSUME NEW x \in Proc, NEW y \in Proc, Live(x)', Live(y)',
                      ~LinkCallOn(x, y)', ~LinkCallOn(y, x)'
               PROVE  y \in links'[x] <=> x \in links'[y]
    BY DEF LinksSymmetric
  <2>1. CASE x = c \/ y = c
    BY <2>1, <1>6, <1>7
  <2>2. CASE x # c /\ y # c
    BY <2>2, <1>1, <1>5, <1>8 DEF Live, LinkInv, LinksSymmetric
  <2> QED
    BY <2>1, <2>2
<1>10. \A x \in Proc : at'[x] # "unlink" /\ (at'[x] = "notify" => terminated'[x])
  BY <1>1, <1>2 DEF LinkInv
<1>11. \A x, y \in Proc : y \in links'[x] => x < nextPid' /\ y < nextPid'
  BY <1>1, <1>5, <1>6, <1>4 DEF Proc
<1>12. ASSUME NEW x \in Proc, at'[x] \in Linking
       PROVE  /\ arg'[x].pid < nextPid'
              /\ Live(arg[x].pid)' => arg'[x].pid \in links'[x]
  <2>1. CASE x = p
    BY <2>1, <1>1, <1>2, <1>3, <1>12 DEF Linking
  <2>2. CASE x # p
    <3>1. at'[x] = at[x] /\ arg'[x] = arg[x] /\ x # c
      BY <2>2, <1>1, <1>12 DEF Linking
    <3>2. arg[x].pid \in Proc /\ arg[x].pid < c
      BY <1>0, <3>1, <1>12, <1>3 DEF LinkInv
    <3>3. Live(arg[x].pid)' => Live(arg[x].pid)
      BY <3>1, <3>2, <1>1 DEF Live, Proc
    <3>4. Live(arg[x].pid) => arg[x].pid \in links[x]
      BY <3>1, <1>12 DEF LinkInv
    <3>5. arg[x].pid \in Proc \ {c} /\ arg[x].pid < c + 1
      BY <3>2, <1>1 DEF Proc
    <3> QED
      BY <3>1, <3>3, <3>4, <3>5, <1>1, <1>5
  <2> QED
    BY <2>1, <2>2
<1> QED
  BY <1>9, <1>10, <1>11, <1>12 DEF LinkInv

LEMMA LinkNext ==
    ASSUME "unlink" \notin Calls, TypeOK, RegistryInv, LinkInv, [Next]_vars
    PROVE  LinkInv'
<1> USE DEF UserCall, stateVars, exitVars, counters
<1>1. ASSUME NEW p \in Proc, Spawn(p) \/ SpawnLink(p) \/ SpawnMonitor(p)
      PROVE  LinkInv'
  BY <1>1, LinkSpawn
<1>2. ASSUME NEW p \in Proc, NEW q \in Proc, Link(p, q)
      PROVE  LinkInv'
  <2>1. /\ links' = [links EXCEPT ![p] = @ \cup {q}]
        /\ at' = [at EXCEPT ![p] = "link"] /\ at[p] = "run"
        /\ arg' = [arg EXCEPT ![p] = [pid |-> q, ref |-> NoRef, name |-> "none"]]
        /\ terminated' = terminated /\ processes' = processes
        /\ nextPid' = nextPid /\ q \in Born
    BY <1>2 DEF Link, Enter
  <2>2. /\ at \in [Proc -> Point] /\ arg \in [Proc -> Operands]
        /\ links \in [Proc -> SUBSET Proc]
    BY DEF TypeOK
  <2>3. p < nextPid /\ q < nextPid
    BY <2>1 DEF RegistryInv, TypeOK, Proc, Born
  <2>4. \A x, y \in Proc :
            /\ y \in links[x] => y \in links'[x]
            /\ {x, y} # {p, q} => (y \in links'[x] <=> y \in links[x])
            /\ y \in links'[x] => y \in links[x] \/ (x = p /\ y = q)
    BY <2>1, <2>2
  <2>5. \A x \in Proc : x # p => at'[x] = at[x] /\ arg'[x] = arg[x]
    BY <2>1, <2>2
  <2>6. at'[p] = "link" /\ arg'[p].pid = q /\ q \in links'[p]
    BY <2>1, <2>2
  <2>7. LinksSymmetric'
    <3>1. \A x, y \in Proc : x # p \/ y # q =>
              (LinkCallOn(x, y)' <=> LinkCallOn(x, y))
      BY <2>1, <2>5, <2>6 DEF LinkCallOn
    <3>2. LinkCallOn(p, q)'
      BY <2>6 DEF LinkCallOn
    <3>3. \A x \in Proc : Live(x)' => Live(x)
      BY <2>1 DEF Live
    <3> QED
      BY <2>4, <3>1, <3>2, <3>3, LinkPair
  <2> QED
    BY <2>1, <2>3, <2>4, <2>5, <2>6, <2>7 DEF LinkInv, Linking, Live
<1>3. ASSUME NEW p \in Proc, at[p] \in Linking, Finish(p),
             LET q == arg[p].pid IN
             /\ q \in Proc
             /\ links' = IF q \in processes
                         THEN [links EXCEPT ![q] = @ \cup {p}]
                         ELSE IF at[p] = "link"
                              THEN [links EXCEPT ![p] = @ \ {q}] ELSE links,
             terminated' = terminated, processes' = processes, nextPid' = nextPid
      PROVE  LinkInv'
  <2> DEFINE q == arg[p].pid
  <2>1. PICK c \in Proc : c = arg[p].pid
    BY <1>3
  <2>2. /\ at \in [Proc -> Point] /\ arg \in [Proc -> Operands]
        /\ links \in [Proc -> SUBSET Proc]
    BY DEF TypeOK
  <2>3. p < nextPid /\ c < nextPid
    BY <1>3, <2>1 DEF RegistryInv, TypeOK, Proc, Linking, LinkInv
  <2>4. \A x, y \in Proc :
            {x, y} # {p, c} => (y \in links'[x] <=> y \in links[x])
    BY <1>3, <2>1, <2>2
  <2>5. \A x, y \in Proc : y \in links'[x] => y \in links[x] \/ (x = c /\ y = p)
    BY <1>3, <2>1, <2>2
  <2>6. \A x \in Proc : x # p => at'[x] = at[x] /\ arg'[x] = arg[x]
    BY <1>3, <2>2 DEF Finish
  <2>7. at'[p] = "run"
    BY <1>3, <2>2 DEF Finish
  <2>8. Live(c) => p \in links'[c] /\ c \in links'[p]
    BY <1>3, <2>1, <2>2 DEF LinkInv, Live
  <2>9. \A x \in Proc : Live(x)' <=> Live(x)
    BY <1>3 DEF Live
  <2>10. LinksSymmetric'
    <3>1. \A x, y \in Proc : x # p \/ y # c =>
              (LinkCallOn(x, y)' <=> LinkCallOn(x, y))
      BY <1>3, <2>1, <2>6, <2>7 DEF LinkCallOn
    <3> QED
      BY <2>4, <2>8, <2>9, <3>1, LinkPair
  <2>11. ASSUME NEW x \in Proc, at'[x] \in Linking, Live(arg[x].pid)'
         PROVE  arg'[x].pid \in links'[x]
    <3>1. x # p /\ at'[x] = at[x] /\ arg'[x] = arg[x]
      BY <2>6, <2>7, <2>11 DEF Linking
    <3>2. arg[x].pid \in Proc
      BY <2>11, <3>1 DEF TypeOK, OperandsOK, Linking, CallPoint
    <3>3. Live(arg[x].pid)
      BY <1>3, <2>11, <3>1 DEF Live
    <3>4. arg[x].pid \in links[x]
      BY <2>11, <3>1, <3>3 DEF LinkInv
    <3>5. links[x] \subseteq links'[x]
      BY <1>3, <2>1, <2>2, <3>1
    <3> QED
      BY <3>1, <3>4, <3>5
  <2>12. \A x \in Proc : at'[x] \in Linking => arg'[x].pid < nextPid'
    BY <1>3, <2>6, <2>7 DEF LinkInv, Linking
  <2>13. \A x \in Proc : at'[x] # "unlink" /\ (at'[x] = "notify" => terminated'[x])
    BY <1>3, <2>6, <2>7 DEF LinkInv
  <2>14. \A x, y \in Proc : y \in links'[x] => x < nextPid' /\ y < nextPid'
    BY <1>3, <2>3, <2>5 DEF LinkInv
  <2> QED
    BY <2>10, <2>11, <2>12, <2>13, <2>14 DEF LinkInv
<1>4. ASSUME NEW p \in Proc, SpawnLinkChild(p)
      PROVE  LinkInv'
  <2>1. at[p] = "spawn_link" /\ arg[p].pid \in Proc
    BY <1>4 DEF SpawnLinkChild, TypeOK, OperandsOK, CallPoint
  <2> QED
    BY <1>3, <1>4, <2>1 DEF SpawnLinkChild, Linking
<1>5. ASSUME NEW p \in Proc, LinkPeer(p)
      PROVE  LinkInv'
  <2>1. at[p] = "link" /\ arg[p].pid \in Proc
    BY <1>5 DEF LinkPeer, TypeOK, OperandsOK, CallPoint
  <2> QED
    BY <1>3, <1>5, <2>1 DEF LinkPeer, Linking
<1>6. ASSUME NEW p \in Proc, NEW q \in Proc, NotifyLink(p, q)
      PROVE  LinkInv'
  <2>1. /\ at' = at /\ arg' = arg /\ processes' = processes /\ nextPid' = nextPid
        /\ at[p] = "notify"
        /\ links' = IF q \in processes THEN [links EXCEPT ![q] = @ \ {p}] ELSE links
    BY <1>6 DEF NotifyLink
  <2>2. \A x \in Proc : terminated[x] => terminated'[x]
    <3>1. terminated \in [Proc -> BOOLEAN]
      BY DEF TypeOK
    <3> QED
      BY <1>6, <3>1 DEF NotifyLink, Signal, MarkTerminated, NoSignal
  <2>3. links \in [Proc -> SUBSET Proc]
    BY DEF TypeOK
  <2>4. terminated[p]
    BY <2>1 DEF LinkInv
  <2>5. \A x, y \in Proc :
            /\ y \in links'[x] => y \in links[x]
            /\ x # q \/ y # p => (y \in links'[x] <=> y \in links[x])
    BY <2>1, <2>3
  <2>6. \A x \in Proc : Live(x)' => Live(x)
    BY <2>1, <2>2 DEF Live
  <2>7. ~Live(p)'
    BY <2>2, <2>4 DEF Live
  <2>8. LinksSymmetric'
    <3>1. \A x, y \in Proc : LinkCallOn(x, y)' <=> LinkCallOn(x, y)
      BY <2>1 DEF LinkCallOn
    <3>2. \A x, y \in Proc : {x, y} # {p, q} => (y \in links'[x] <=> y \in links[x])
      BY <2>5
    <3> QED
      BY <2>6, <2>7, <3>1, <3>2, LinkPair
  <2>9. ASSUME NEW x \in Proc, at'[x] \in Linking, Live(arg[x].pid)'
        PROVE  arg'[x].pid \in links'[x]
    <3>1. arg[x].pid \in Proc
      BY <2>1, <2>9 DEF TypeOK, OperandsOK, Linking, CallPoint
    <3>2. Live(arg[x].pid)
      BY <2>1, <2>6, <2>9, <3>1 DEF Live
    <3>3. arg[x].pid # p
      BY <2>1, <2>2, <2>4, <2>9 DEF Live
    <3>4. arg[x].pid \in links[x]
      BY <2>1, <2>9, <3>2 DEF LinkInv
    <3> QED
      BY <2>1, <2>5, <3>1, <3>3, <3>4
  <2> QED
    BY <2>1, <2>2, <2>5, <2>8, <2>9 DEF LinkInv
<1>7. ASSUME NEW p \in Proc, User(p) \/ Continue(p),
             ~Spawn(p), ~SpawnLink(p), ~SpawnMonitor(p),
             ~SpawnLinkChild(p), ~LinkPeer(p),
             \A q \in Proc : ~Link(p, q) /\ ~NotifyLink(p, q)
      PROVE  LinkInv'
  <2>1. links' = links /\ nextPid' = nextPid
    BY <1>7 DEF User, Continue, Unlink, Monitor, Demonitor, SetTrapExit,
       Exit, HandleExit, Register, Unregister, Return, Panic, SpawnMonitorChild,
       UnlinkPeer, MonitorPeer, DemonitorPeer, RegisterInsert, ExitBegin,
       NotifyMonitor, DropNames, DropProcess, LinkInv
  <2>2. processes' \subseteq processes
    BY <1>7 DEF User, Continue, Unlink, Monitor, Demonitor, SetTrapExit,
       Exit, HandleExit, Register, Unregister, Return, Panic, SpawnMonitorChild,
       UnlinkPeer, MonitorPeer, DemonitorPeer, RegisterInsert, ExitBegin,
       NotifyMonitor, DropNames, DropProcess, LinkInv
  <2>3. \A x \in Proc : terminated[x] => terminated'[x]
    <3>1. terminated \in [Proc -> BOOLEAN]
      BY DEF TypeOK
    <3> QED
      BY <1>7, <3>1 DEF User, Continue, Unlink, Monitor, Demonitor, SetTrapExit,
         Exit, HandleExit, Register, Unregister, Return, Panic, SpawnMonitorChild,
         UnlinkPeer, MonitorPeer, DemonitorPeer, RegisterInsert, ExitBegin,
         NotifyMonitor, DropNames, DropProcess, Signal,
         MarkTerminated
  <2>4. \A x \in Proc : x # p => at'[x] = at[x] /\ arg'[x] = arg[x]
    BY <1>7, StepShape
  <2>5. at[p] \notin Linking \cup {"unlink"}
    BY <1>7 DEF User, Continue, Unlink, Monitor, Demonitor, SetTrapExit,
       Exit, HandleExit, Register, Unregister, Return, Panic, SpawnMonitorChild,
       UnlinkPeer, MonitorPeer, DemonitorPeer, RegisterInsert, ExitBegin,
       NotifyMonitor, DropNames, DropProcess, LinkInv, Linking
  <2>6. at[p] \in Point => at'[p] \notin Linking \cup {"unlink"}
    <3>1. at \in [Proc -> Point]
      BY DEF TypeOK
    <3> QED
      BY <1>7, <3>1, ZenonT(40) DEF User, Continue, Unlink, Monitor, Demonitor, SetTrapExit,
         Exit, HandleExit, Register, Unregister, Return, Panic, SpawnMonitorChild,
         UnlinkPeer, MonitorPeer, DemonitorPeer, RegisterInsert, ExitBegin,
         NotifyMonitor, DropNames, DropProcess, Enter, Finish, LinkInv, Linking
  <2>7. at'[p] = "notify" => terminated'[p]
    <3>1. at \in [Proc -> Point] /\ terminated \in [Proc -> BOOLEAN]
      BY DEF TypeOK
    <3> QED
      BY <1>7, <3>1 DEF User, Continue, Unlink, Monitor, Demonitor, SetTrapExit,
         Exit, HandleExit, Register, Unregister, Return, Panic, SpawnMonitorChild,
         UnlinkPeer, MonitorPeer, DemonitorPeer, RegisterInsert, ExitBegin,
         NotifyMonitor, DropNames, DropProcess, Enter, Finish, MarkTerminated, LinkInv
  <2>8. \A x \in Proc :
            /\ at'[x] # "unlink"
            /\ at'[x] \in Linking <=> at[x] \in Linking
            /\ at'[x] \in Linking => at'[x] = at[x] /\ arg'[x] = arg[x]
            /\ at'[x] = "notify" => terminated'[x]
    <3>1. at[p] \in Point
      BY DEF TypeOK
    <3> QED
      BY <2>3, <2>4, <2>5, <2>6, <2>7, <3>1 DEF LinkInv
  <2> QED
    BY <2>1, <2>2, <2>3, <2>8, LinkFrame
<1>8. CASE UNCHANGED vars
  BY <1>8, LinkFrame DEF vars, LinkInv
<1> QED
  BY <1>1, <1>2, <1>4, <1>5, <1>6, <1>7, <1>8 DEF Next

(* As long as nobody unlinks, links between live processes are symmetric   *)
(* whatever link(), spawn_link() and the exits of the peers interleave to. *)
THEOREM LinksCorrect ==
    ASSUME "unlink" \notin Calls
    PROVE  Spec => []LinksSymmetric
<1>1. LinkInv => LinksSymmetric
  BY DEF LinkInv
<1>2. TypeOK /\ RegistryInv /\ LinkInv /\ [Next]_vars => LinkInv'
  BY LinkNext
<1> QED
  BY <1>1, <1>2, LinkInit, RegistryCorrect, TypeCorrect, PTL DEF Spec
-----------------------------------------------------------------------------
(* MarkedJustly, when nobody uses RuntimeHandle::exit.  A signal is the only  *)
(* way to mark a process that does not leave by itself.                       *)
Justly(x) ==
    ~terminated[x] /\ terminated'[x] /\ at'[x] # "notify" =>
        /\ ~IsNormal(exitReason'[x])
        /\ trap[x] => exitReason'[x] = "killed"

LEMMA SignalJustly ==
    ASSUME TypeOK, NEW p \in Proc, NEW from, NEW reason, Signal(p, from, reason),
           NEW x \in Proc
    PROVE  Justly(x)
<1>1. terminated \in [Proc -> BOOLEAN] /\ exitReason \in [Proc -> ExitReason]
  BY DEF TypeOK
<1>2. ~IsNormal("killed")
  BY DEF IsNormal
<1>3. CASE reason = "killed" /\ MarkTerminated(p, reason)
  BY <1>1, <1>2, <1>3 DEF MarkTerminated, Justly
<1>4. CASE ~trap[p] /\ ~IsNormal(reason) /\ MarkTerminated(p, reason)
  BY <1>1, <1>4 DEF MarkTerminated, Justly
<1>5. CASE UNCHANGED <<terminated, exitReason>>
  BY <1>5 DEF Justly
<1> QED
  BY <1>3, <1>4, <1>5 DEF Signal

LEMMA StepJustly ==
    ASSUME TypeOK, "handle_exit" \notin Calls, [Next]_vars, NEW x \in Proc
    PROVE  Justly(x)
<1>1. ASSUME NEW p \in Proc, NEW q \in Proc, NEW reason, Exit(p, q, reason)
      PROVE  Justly(x)
  BY <1>1, SignalJustly DEF Exit
<1>2. ASSUME NEW p \in Proc, NEW q \in Proc, NEW reason
      PROVE  ~HandleExit(p, q, reason)
  BY DEF HandleExit, UserCall
<1>3. ASSUME NEW p \in Proc, NEW q \in Proc, NotifyLink(p, q)
      PROVE  Justly(x)
  <2>1. CASE Signal(q, p, why[p])
    BY <2>1, SignalJustly
  <2>2. CASE NoSignal
    BY <2>2 DEF NoSignal, Justly
  <2> QED
    BY <1>3, <2>1, <2>2 DEF NotifyLink
<1>4. ASSUME NEW p \in Proc, ExitBegin(p)
      PROVE  Justly(x)
  <2>1. CASE x = p
    <3>1. terminated[p] \/ at'[p] = "notify"
      BY <1>4 DEF ExitBegin, TypeOK
    <3> QED
      BY <2>1, <3>1 DEF Justly
  <2>2. CASE x # p
    BY <1>4, <2>2 DEF ExitBegin, MarkTerminated, TypeOK, Justly
  <2> QED
    BY <2>1, <2>2
<1>5. CASE terminated' = terminated
  BY <1>5 DEF Justly
<1>6. ASSUME NEW p \in Proc, User(p)
      PROVE  terminated' = terminated \/ Justly(x)
  <2>1. CASE Spawn(p) \/ SpawnLink(p) \/ SpawnMonitor(p)
    BY <2>1 DEF Spawn, SpawnLink, SpawnMonitor, stateVars
  <2>2. CASE \E q \in Proc : Link(p, q) \/ Unlink(p, q) \/ Monitor(p, q)
    BY <2>2 DEF Link, Unlink, Monitor, stateVars
  <2>3. CASE \E r \in Ref, q \in Proc : Demonitor(p, r, q)
    BY <2>3 DEF Demonitor, stateVars
  <2>4. CASE \E value \in BOOLEAN : SetTrapExit(p, value)
    BY <2>4 DEF SetTrapExit
  <2>5. CASE \E q \in Proc, reason \in SignalWith : Exit(p, q, reason) \/ HandleExit(p, q, reason)
    BY <1>1, <1>2, <2>5
  <2>6. CASE \E n \in Name : Unregister(p, n) \/ \E q \in Proc : Register(p, n, q)
    BY <2>6 DEF Unregister, Register, stateVars
  <2>7. CASE (\E reason \in ExitWith : Return(p, reason)) \/ Panic(p)
    BY <2>7 DEF Return, Panic, stateVars
  <2> QED
    BY <1>6, <2>1, <2>2, <2>3, <2>4, <2>5, <2>6, <2>7 DEF User
<1>7. ASSUME NEW p \in Proc, Continue(p)
      PROVE  terminated' = terminated \/ Justly(x)
  <2>1. CASE SpawnLinkChild(p) \/ SpawnMonitorChild(p)
    BY <2>1 DEF SpawnLinkChild, SpawnMonitorChild, stateVars
  <2>2. CASE LinkPeer(p) \/ UnlinkPeer(p) \/ MonitorPeer(p) \/ DemonitorPeer(p)
    BY <2>2 DEF LinkPeer, UnlinkPeer, MonitorPeer, DemonitorPeer, stateVars
  <2>3. CASE RegisterInsert(p) \/ DropNames(p) \/ DropProcess(p)
    BY <2>3 DEF RegisterInsert, DropNames, DropProcess, stateVars
  <2>4. CASE \E r \in Ref, m \in Proc : NotifyMonitor(p, r, m)
    BY <2>4 DEF NotifyMonitor
  <2> QED
    BY <1>3, <1>4, <1>7, <2>1, <2>2, <2>3, <2>4 DEF Continue
<1>8. CASE UNCHANGED vars
  BY <1>5, <1>8 DEF vars, stateVars
<1> QED
  BY <1>5, <1>6, <1>7, <1>8 DEF Next

(* As long as nobody uses RuntimeHandle::exit, a process that another one    *)
(* marks terminated was to get an abnormal reason, and a kill if it traps     *)
(* exits.                                                                     *)
THEOREM MarkedCorrect ==
    ASSUME "handle_exit" \notin Calls
    PROVE  Spec => MarkedJustly
<1>1. ASSUME TypeOK, [Next]_vars
      PROVE  [\A p \in Proc :
                 /\ ~terminated[p] /\ terminated'[p]
                 /\ at'[p] # "notify"
                 => /\ ~IsNormal(exitReason'[p])
                    /\ trap[p] => exitReason'[p] = "killed"]_vars
  BY <1>1, StepJustly DEF Justly
<1> QED
  BY <1>1, TypeCorrect, PTL DEF Spec, MarkedJustly
=============================================================================
