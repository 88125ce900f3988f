---------------------------- MODULE PresenceProofs ----------------------------
(***************************************************************************)
(* What is proved of Presence for any number of nodes, processes, slots,   *)
(* calls, late starts and lost connections.                                *)
(*                                                                         *)
(* The argument: contexts only grow, and whatever a server holds, has      *)
(* removed or has been sent is covered by the context that goes with it    *)
(* (Covered, GoodMessage).  A join is taken only if its clock is beyond    *)
(* the context, so it is none of those that were removed.  For the server  *)
(* that makes a new tag the same follows from the ceiling: no context      *)
(* anywhere is ahead of the clock of the replica itself.                   *)
(***************************************************************************)
EXTENDS Presence, FiniteSetTheorems, SequenceTheorems, TLAPS

(* A tag names one entry. *)
OneEach(entries) == \A d, e \in entries : d.tag = e.tag => d = e

(* The messages that are covered by their own context, which is not ahead  *)
(* of the clocks.                                                          *)
GoodMessage(clocks) ==
    {msg \in Message :
        /\ \A e \in msg.joins : e.tag.clock <= msg.context[e.tag.replica]
        /\ \A t \in msg.leaves : t.clock <= msg.context[t.replica]
        /\ OneEach(msg.joins)
        /\ TagsOf(msg.joins) \cap msg.leaves = {}
        /\ \A r \in Node : msg.context[r] <= clocks[r]}

CrdtType ==
    /\ clock \in Context
    /\ context \in [Node -> Context]
    /\ values \in [Node -> SUBSET TrackedEntry]
    /\ pidIndex \in [Node -> [Pid -> SUBSET Slot]]
    /\ gone \in [Node -> SUBSET Tag]

Ceiling == \A n, r \in Node : context[n][r] <= clock[r]
Covered ==
    \A n \in Node :
        /\ \A e \in values[n] : e.tag.clock <= context[n][e.tag.replica]
        /\ \A t \in gone[n] : t.clock <= context[n][t.replica]
        /\ OneEach(values[n])

CrdtInv ==
    /\ CrdtType
    /\ Ceiling
    /\ Covered
    /\ RemovedStaysRemoved
    /\ IndexCovers

NetInv ==
    /\ wire \in [Node -> [Node -> Seq(GoodMessage(clock))]]
    /\ mailbox \in [Node -> Seq(GoodMessage(clock))]

OtherType ==
    /\ calls \in Nat /\ drops \in Nat
    /\ started \subseteq Node
    /\ up \in [Node -> SUBSET Node]
    /\ members \in [Node -> SUBSET Node]
    /\ monitors \in [Node -> SUBSET Node]
    /\ monitored \in [Node -> SUBSET Node]

Inv == CrdtInv /\ NetInv /\ OtherType

-----------------------------------------------------------------------------
(* A sequence over a set is one over every larger set. *)
LEMMA SeqWidens ==
    ASSUME NEW S, NEW T, S \subseteq T
    PROVE  Seq(S) \subseteq Seq(T)
<1> SUFFICES ASSUME NEW s \in Seq(S) PROVE s \in Seq(T)
    OBVIOUS
<1>1. /\ Len(s) \in Nat /\ DOMAIN s = 1 .. Len(s)
      /\ s = [i \in 1 .. Len(s) |-> s[i]]
      /\ \A i \in 1 .. Len(s) : s[i] \in T
    OBVIOUS
<1> QED
    BY <1>1

(* The good messages stay good when clocks advance. *)
LEMMA GoodWidens ==
    ASSUME NEW c \in Context, NEW d \in Context, \A r \in Node : c[r] <= d[r]
    PROVE  Seq(GoodMessage(c)) \subseteq Seq(GoodMessage(d))
<1>1. GoodMessage(c) \subseteq GoodMessage(d)
  <2> SUFFICES ASSUME NEW msg \in GoodMessage(c) PROVE msg \in GoodMessage(d)
      OBVIOUS
  <2>1. msg \in Message
      BY DEF GoodMessage
  <2>2. \A r \in Node : msg.context[r] \in Nat /\ c[r] \in Nat /\ d[r] \in Nat
      BY <2>1 DEF Message, Context
  <2>3. \A r \in Node : msg.context[r] <= d[r]
      BY <2>2 DEF GoodMessage
  <2> QED
      BY <2>1, <2>3 DEF GoodMessage
<1> QED
    BY <1>1, SeqWidens

(* The wires stay well formed when n sends. *)
LEMMA SendKeeps ==
    ASSUME NEW M, NEW n \in Node, NEW S, NEW msgs \in Seq(M),
           wire \in [Node -> [Node -> Seq(M)]], Send(n, S, msgs)
    PROVE  wire' \in [Node -> [Node -> Seq(M)]]
<1>1. \A m \in Node : wire[n][m] \in Seq(M)
    OBVIOUS
<1>2. \A m \in Node : wire[n][m] \o msgs \in Seq(M)
    BY <1>1
<1>3. [m \in Node |-> IF m \in S /\ Arrives(n, m)
                      THEN wire[n][m] \o msgs ELSE wire[n][m]]
        \in [Node -> Seq(M)]
    BY <1>1, <1>2
<1> QED
    BY <1>3 DEF Send

(* Taking a message from the mailbox. *)
LEMMA ReceiveTakes ==
    ASSUME NEW M, NEW n \in Node, NEW type,
           mailbox \in [Node -> Seq(M)], Receive(n, type)
    PROVE  Head(mailbox[n]) \in M /\ mailbox' \in [Node -> Seq(M)]
<1>1. mailbox[n] \in Seq(M) /\ mailbox[n] # <<>>
    BY DEF Receive
<1>2. Head(mailbox[n]) \in M /\ Tail(mailbox[n]) \in Seq(M)
    BY <1>1
<1> QED
    BY <1>2 DEF Receive

-----------------------------------------------------------------------------
(* Entries of n are removed: what is left is a subset. *)
LEMMA RemoveKeeps ==
    ASSUME CrdtInv, NEW n \in Node, NEW removed \in SUBSET values[n],
           values' = [values EXCEPT ![n] = @ \ removed],
           gone' = [gone EXCEPT ![n] = @ \cup TagsOf(removed)],
           UNCHANGED <<clock, context>>,
           pidIndex' \in [Node -> [Pid -> SUBSET Slot]],
           IndexCovers'
    PROVE  CrdtInv'
<1>1. /\ values \in [Node -> SUBSET TrackedEntry] /\ gone \in [Node -> SUBSET Tag]
      /\ clock' = clock /\ context' = context
    BY DEF CrdtInv, CrdtType
<1>2. /\ values' \in [Node -> SUBSET TrackedEntry]
      /\ values'[n] = values[n] \ removed
      /\ \A m \in Node \ {n} : values'[m] = values[m]
    BY <1>1
<1>3. TagsOf(removed) \subseteq Tag
    BY <1>1 DEF TagsOf, TrackedEntry
<1>4. /\ gone' \in [Node -> SUBSET Tag]
      /\ gone'[n] = gone[n] \cup TagsOf(removed)
      /\ \A m \in Node \ {n} : gone'[m] = gone[m]
    BY <1>1, <1>3
<1>5. CrdtType' /\ Ceiling'
    BY <1>1, <1>2, <1>4 DEF CrdtInv, CrdtType, Ceiling
<1>6. ASSUME NEW m \in Node
      PROVE  /\ \A e \in values'[m] : e.tag.clock <= context[m][e.tag.replica]
             /\ \A t \in gone'[m] : t.clock <= context[m][t.replica]
             /\ OneEach(values'[m])
             /\ TagsOf(values'[m]) \cap gone'[m] = {}
  <2>1. /\ \A e \in values[m] : e.tag.clock <= context[m][e.tag.replica]
        /\ \A t \in gone[m] : t.clock <= context[m][t.replica]
        /\ OneEach(values[m])
        /\ TagsOf(values[m]) \cap gone[m] = {}
      BY DEF CrdtInv, Covered, RemovedStaysRemoved
  <2>2. CASE m # n
      BY <2>1, <2>2, <1>2, <1>4
  <2>3. CASE m = n
    <3>1. \A t \in TagsOf(removed) : t.clock <= context[n][t.replica]
        BY <2>1, <2>3 DEF TagsOf
    <3>2. TagsOf(values[n] \ removed) \cap TagsOf(removed) = {}
        BY <2>1, <2>3 DEF TagsOf, OneEach
    <3>3. TagsOf(values[n] \ removed) \subseteq TagsOf(values[n])
        BY DEF TagsOf
    <3>4. OneEach(values[n] \ removed)
        BY <2>1, <2>3 DEF OneEach
    <3>5. \A e \in values[n] \ removed : e.tag.clock <= context[n][e.tag.replica]
        BY <2>1, <2>3
    <3>6. TagsOf(values[n] \ removed) \cap (gone[n] \cup TagsOf(removed)) = {}
        BY <2>1, <2>3, <3>2, <3>3
    <3> QED
        BY <2>1, <2>3, <1>2, <1>4, <3>1, <3>4, <3>5, <3>6
  <2> QED
      BY <2>2, <2>3
<1>7. Covered' /\ RemovedStaysRemoved'
    BY <1>1, <1>6 DEF Covered, RemovedStaysRemoved
<1> QED
    BY <1>5, <1>7 DEF CrdtInv

(* Merging a good message. *)
LEMMA MergeKeeps ==
    ASSUME CrdtInv, NEW n \in Node, NEW msg \in GoodMessage(clock), Merge(n, msg)
    PROVE  CrdtInv' /\ clock' = clock
<1>1. /\ clock \in Context /\ context \in [Node -> Context]
      /\ values \in [Node -> SUBSET TrackedEntry] /\ gone \in [Node -> SUBSET Tag]
      /\ pidIndex \in [Node -> [Pid -> SUBSET Slot]]
      /\ Ceiling /\ Covered /\ RemovedStaysRemoved /\ IndexCovers
    BY DEF CrdtInv, CrdtType
<1>2. /\ msg \in Message
      /\ \A e \in msg.joins : e.tag.clock <= msg.context[e.tag.replica]
      /\ \A t \in msg.leaves : t.clock <= msg.context[t.replica]
      /\ \A r \in Node : msg.context[r] <= clock[r]
      /\ OneEach(msg.joins)
      /\ TagsOf(msg.joins) \cap msg.leaves = {}
    BY DEF GoodMessage
<1>3. msg.joins \subseteq TrackedEntry /\ msg.leaves \subseteq Tag /\ msg.context \in Context
    BY <1>2 DEF Message
<1>4. clock' = clock
    BY DEF Merge
<1>5. PICK V : V = Kept(n, msg) \cup News(n, msg)
    OBVIOUS
<1>6. V \subseteq TrackedEntry
    BY <1>1, <1>3, <1>5 DEF Kept, News
<1>7. values' = [values EXCEPT ![n] = V] /\ values' \in [Node -> SUBSET TrackedEntry]
    BY <1>1, <1>5, <1>6 DEF Merge
<1>8. gone' = [gone EXCEPT ![n] = @ \cup msg.leaves] /\ gone' \in [Node -> SUBSET Tag]
    BY <1>1, <1>3 DEF Merge
<1>9. PICK C : C = [r \in Node |-> Later(context[n][r], msg.context[r])]
    OBVIOUS
<1>10. \A r \in Node : context[n][r] \in Nat /\ msg.context[r] \in Nat /\ clock[r] \in Nat
    BY <1>1, <1>3 DEF Context
<1>11. \A r \in Node : /\ C[r] \in Nat /\ context[n][r] <= C[r] /\ msg.context[r] <= C[r]
                       /\ C[r] <= clock[r]
    BY <1>1, <1>2, <1>9, <1>10 DEF Later, Ceiling
<1>12. C \in Context
    BY <1>9, <1>11 DEF Context
<1>13. context' = [context EXCEPT ![n] = C] /\ context' \in [Node -> Context]
    BY <1>1, <1>9, <1>12 DEF Merge
<1>14. Ceiling'
    BY <1>1, <1>4, <1>11, <1>13 DEF Ceiling
<1>15. PICK I : I = Indexed(n, News(n, msg))
    OBVIOUS
<1>16. News(n, msg) \subseteq TrackedEntry
    BY <1>3 DEF News
<1>17. I \in [Pid -> SUBSET Slot]
  <2>1. pidIndex[n] \in [Pid -> SUBSET Slot]
      BY <1>1
  <2>2. \A e \in News(n, msg) : e.slot \in Slot
      BY <1>16 DEF TrackedEntry
  <2> QED
      BY <1>15, <2>1, <2>2 DEF Indexed
<1>18. pidIndex' = [pidIndex EXCEPT ![n] = I] /\ pidIndex' \in [Node -> [Pid -> SUBSET Slot]]
    BY <1>1, <1>15, <1>17 DEF Merge
<1>19. CrdtType'
    BY <1>1, <1>4, <1>7, <1>8, <1>13, <1>18 DEF CrdtType
<1>20. \A e \in V : e.slot \in I[e.pid]
  <2>1. TAKE e \in V
  <2>2. e.pid \in Pid
      BY <1>6 DEF TrackedEntry
  <2>3. CASE e \in Kept(n, msg)
      BY <1>1, <1>15, <2>2, <2>3 DEF Kept, IndexCovers, Indexed
  <2>4. CASE e \in News(n, msg)
      BY <1>15, <2>2, <2>4 DEF Indexed
  <2> QED
      BY <1>5, <2>3, <2>4
<1>21. IndexCovers'
    BY <1>1, <1>7, <1>18, <1>20 DEF IndexCovers
<1>22. /\ \A e \in values[n] : e.tag.clock <= context[n][e.tag.replica]
       /\ \A t \in gone[n] : t.clock <= context[n][t.replica]
       /\ OneEach(values[n])
       /\ TagsOf(values[n]) \cap gone[n] = {}
    BY <1>1 DEF Covered, RemovedStaysRemoved
<1>23. /\ \A e \in TrackedEntry : e.tag \in Tag /\ e.tag.replica \in Node /\ e.tag.clock \in Nat
       /\ \A t \in Tag : t.replica \in Node /\ t.clock \in Nat
    BY DEF TrackedEntry, Tag
<1>24. \A e \in V : e.tag.clock <= C[e.tag.replica]
  <2>1. TAKE e \in V
  <2>2. e.tag.clock \in Nat /\ e.tag.replica \in Node
      BY <1>6, <1>23
  <2>3. CASE e \in Kept(n, msg)
    <3>1. e.tag.clock <= context[n][e.tag.replica]
        BY <1>22, <2>3 DEF Kept
    <3> QED
        BY <3>1, <2>2, <1>10, <1>11
  <2>4. CASE e \in News(n, msg)
    <3>1. e.tag.clock <= msg.context[e.tag.replica]
        BY <1>2, <2>4 DEF News
    <3> QED
        BY <3>1, <2>2, <1>10, <1>11
  <2> QED
      BY <1>5, <2>3, <2>4
<1>25. \A t \in gone[n] \cup msg.leaves : t.clock <= C[t.replica]
  <2>1. TAKE t \in gone[n] \cup msg.leaves
  <2>2. t \in Tag /\ t.clock \in Nat /\ t.replica \in Node
      BY <1>1, <1>3, <1>23
  <2>3. t.clock <= context[n][t.replica] \/ t.clock <= msg.context[t.replica]
      BY <1>2, <1>22
  <2> QED
      BY <2>2, <2>3, <1>10, <1>11
<1>26. \A d \in Kept(n, msg), e \in News(n, msg) : d.tag # e.tag
  <2>1. TAKE d \in Kept(n, msg), e \in News(n, msg)
  <2>2. d \in values[n] /\ d \in TrackedEntry /\ e \in TrackedEntry
      BY <1>1, <1>16 DEF Kept
  <2>3. d.tag.clock <= context[n][d.tag.replica]
      BY <2>2, <1>22
  <2>4. e.tag.clock > context[n][e.tag.replica]
      BY DEF News
  <2> QED
      BY <2>2, <2>3, <2>4, <1>10, <1>23
<1>27. OneEach(V)
  <2>1. OneEach(Kept(n, msg))
      BY <1>22 DEF Kept, OneEach
  <2>2. OneEach(News(n, msg))
      BY <1>2 DEF News, OneEach
  <2> QED
      BY <1>5, <1>26, <2>1, <2>2 DEF OneEach
<1>28. TagsOf(V) \cap (gone[n] \cup msg.leaves) = {}
  <2> SUFFICES ASSUME NEW e \in V PROVE e.tag \notin gone[n] /\ e.tag \notin msg.leaves
      BY DEF TagsOf
  <2>1. e \in TrackedEntry /\ e.tag.clock \in Nat /\ e.tag.replica \in Node
      BY <1>6, <1>23
  <2>2. CASE e \in Kept(n, msg)
      BY <1>22, <2>2 DEF Kept, TagsOf
  <2>3. CASE e \in News(n, msg)
    <3>1. e.tag.clock > context[n][e.tag.replica]
        BY <2>3 DEF News
    <3>2. e.tag \notin gone[n]
        BY <3>1, <2>1, <1>10, <1>22
    <3>3. e.tag \notin msg.leaves
        BY <1>2, <2>3 DEF News, TagsOf
    <3> QED
        BY <3>2, <3>3
  <2> QED
      BY <1>5, <2>2, <2>3
<1>29. ASSUME NEW m \in Node
       PROVE  /\ \A e \in values'[m] : e.tag.clock <= context'[m][e.tag.replica]
              /\ \A t \in gone'[m] : t.clock <= context'[m][t.replica]
              /\ OneEach(values'[m])
              /\ TagsOf(values'[m]) \cap gone'[m] = {}
  <2>1. CASE m = n
    <3>1. values'[m] = V /\ gone'[m] = gone[n] \cup msg.leaves /\ context'[m] = C
        BY <2>1, <1>1, <1>7, <1>8, <1>13
    <3> QED
        BY <3>1, <1>24, <1>25, <1>27, <1>28
  <2>2. CASE m # n
    <3>1. values'[m] = values[m] /\ gone'[m] = gone[m] /\ context'[m] = context[m]
        BY <2>2, <1>1, <1>7, <1>8, <1>13
    <3> QED
        BY <3>1, <1>1 DEF Covered, RemovedStaysRemoved
  <2> QED
      BY <2>1, <2>2
<1>30. Covered' /\ RemovedStaysRemoved'
    BY <1>29 DEF Covered, RemovedStaysRemoved
<1> QED
    BY <1>4, <1>14, <1>19, <1>21, <1>30 DEF CrdtInv

(* Tracking, with or without entries that make room. *)
LEMMA StampKeeps ==
    ASSUME CrdtInv, NEW n \in Node, NEW slot \in Slot, NEW p \in Pid,
           NEW removed \in SUBSET values[n],
           Stamp(n, slot, p),
           values' = [values EXCEPT ![n] = (@ \ removed) \cup {NewEntry(n, slot, p)}],
           gone' = [gone EXCEPT ![n] = @ \cup TagsOf(removed)]
    PROVE  /\ CrdtInv'
           /\ \A r \in Node : clock[r] <= clock'[r]
           /\ Delta(n, {NewEntry(n, slot, p)}, TagsOf(removed), context'[n])
                 \in GoodMessage(clock')
<1>1. /\ clock \in Context /\ context \in [Node -> Context]
      /\ values \in [Node -> SUBSET TrackedEntry] /\ gone \in [Node -> SUBSET Tag]
      /\ pidIndex \in [Node -> [Pid -> SUBSET Slot]]
      /\ Ceiling /\ Covered /\ RemovedStaysRemoved /\ IndexCovers
    BY DEF CrdtInv, CrdtType
<1>2. \A m, r \in Node : clock[r] \in Nat /\ context[m][r] \in Nat
    BY <1>1 DEF Context
<1>3. PICK new : new = NewEntry(n, slot, p)
    OBVIOUS
<1>4. /\ new.slot = slot /\ new.pid = p
      /\ new.tag = [replica |-> n, clock |-> clock[n] + 1]
      /\ new.tag.replica = n /\ new.tag.clock = clock[n] + 1
    BY <1>3 DEF NewEntry
<1>5. new.tag \in Tag
    BY <1>2, <1>4 DEF Tag
<1>6. new \in TrackedEntry
    BY <1>3, <1>4, <1>5 DEF NewEntry, TrackedEntry
<1>7. /\ clock' \in Context /\ clock'[n] = clock[n] + 1
      /\ \A r \in Node \ {n} : clock'[r] = clock[r]
    BY <1>1, <1>2 DEF Stamp, Context
<1>8. \A r \in Node : clock[r] <= clock'[r] /\ clock'[r] \in Nat
    BY <1>2, <1>7
<1>9. /\ context' \in [Node -> Context]
      /\ \A m \in Node \ {n} : context'[m] = context[m]
  <2>1. [context[n] EXCEPT ![n] = clock[n] + 1] \in Context
      BY <1>1, <1>2 DEF Context
  <2>2. context' = [context EXCEPT ![n] = [context[n] EXCEPT ![n] = clock[n] + 1]]
      BY <1>1 DEF Stamp
  <2> QED
      BY <1>1, <2>1, <2>2
<1>10. /\ context'[n][n] = clock[n] + 1
       /\ \A r \in Node \ {n} : context'[n][r] = context[n][r]
  <2>1. context[n] \in [Node -> Nat]
      BY <1>1 DEF Context
  <2> QED
      BY <1>1, <2>1 DEF Stamp
<1>11. \A m, r \in Node : /\ context[m][r] <= context'[m][r] /\ context'[m][r] \in Nat
                          /\ context'[m][r] <= clock'[r]
  <2> TAKE m, r \in Node
  <2>1. context[m][r] <= clock[r]
      BY <1>1 DEF Ceiling
  <2>2. context[m][r] <= context'[m][r] /\ context'[m][r] <= clock'[r]
    <3>1. CASE m = n /\ r = n
        BY <2>1, <3>1, <1>2, <1>7, <1>10
    <3>2. CASE m = n /\ r # n
        BY <2>1, <3>2, <1>2, <1>8, <1>10
    <3>3. CASE m # n
        BY <2>1, <3>3, <1>2, <1>8, <1>9
    <3> QED
        BY <3>1, <3>2, <3>3
  <2>3. context'[m][r] \in Nat
      BY <1>9 DEF Context
  <2> QED
      BY <2>2, <2>3
<1>12. Ceiling'
    BY <1>11 DEF Ceiling
<1>13. /\ values' \in [Node -> SUBSET TrackedEntry]
       /\ values'[n] = (values[n] \ removed) \cup {new}
       /\ \A m \in Node \ {n} : values'[m] = values[m]
  <2>1. (values[n] \ removed) \cup {new} \in SUBSET TrackedEntry
      BY <1>1, <1>6
  <2> QED
      BY <1>1, <1>3, <2>1
<1>14. TagsOf(removed) \subseteq Tag
    BY <1>1 DEF TagsOf, TrackedEntry
<1>15. /\ gone' \in [Node -> SUBSET Tag]
       /\ gone'[n] = gone[n] \cup TagsOf(removed)
       /\ \A m \in Node \ {n} : gone'[m] = gone[m]
    BY <1>1, <1>14
<1>16. /\ pidIndex' \in [Node -> [Pid -> SUBSET Slot]]
       /\ slot \in pidIndex'[n][p]
       /\ \A m \in Node, o \in Pid : pidIndex[m][o] \subseteq pidIndex'[m][o]
  <2>1. /\ \A m \in Node : pidIndex[m] \in [Pid -> SUBSET Slot]
        /\ pidIndex[n][p] \cup {slot} \in SUBSET Slot
      BY <1>1
  <2>2. [pidIndex[n] EXCEPT ![p] = pidIndex[n][p] \cup {slot}] \in [Pid -> SUBSET Slot]
      BY <2>1
  <2>3. pidIndex' = [pidIndex EXCEPT ![n] = [pidIndex[n] EXCEPT ![p] = pidIndex[n][p] \cup {slot}]]
      BY <1>1 DEF Stamp
  <2> QED
      BY <1>1, <2>1, <2>2, <2>3
<1>17. IndexCovers'
  <2> SUFFICES ASSUME NEW m \in Node, NEW e \in values'[m]
               PROVE  e.slot \in pidIndex'[m][e.pid]
      BY DEF IndexCovers
  <2>1. CASE m = n /\ e = new
      BY <2>1, <1>4, <1>16
  <2>2. CASE ~(m = n /\ e = new)
    <3>1. e \in values[m]
        BY <2>2, <1>13
    <3>2. e.slot \in pidIndex[m][e.pid] /\ e.pid \in Pid
        BY <3>1, <1>1 DEF IndexCovers, TrackedEntry
    <3> QED
        BY <3>2, <1>16
  <2> QED
      BY <2>1, <2>2
<1>18. \A m \in Node :
          /\ \A e \in values[m] : /\ e.tag \in Tag /\ e.tag.clock \in Nat /\ e.tag.replica \in Node
                                  /\ e.tag.clock <= context[m][e.tag.replica]
          /\ \A t \in gone[m] : /\ t.clock \in Nat /\ t.replica \in Node
                                /\ t.clock <= context[m][t.replica]
    BY <1>1 DEF Covered, TrackedEntry, Tag
<1>19. /\ \A e \in values[n] : e.tag # new.tag
       /\ new.tag \notin gone[n] /\ new.tag \notin TagsOf(removed)
  <2>1. context[n][n] <= clock[n]
      BY <1>1 DEF Ceiling
  <2>2. \A e \in values[n] : e.tag # new.tag
      BY <2>1, <1>2, <1>4, <1>18
  <2>3. new.tag \notin gone[n]
      BY <2>1, <1>2, <1>4, <1>18
  <2> QED
      BY <2>2, <2>3 DEF TagsOf
<1>20. \A t \in TagsOf(removed) : t.clock \in Nat /\ t.replica \in Node
                                 /\ t.clock <= context[n][t.replica]
    BY <1>18 DEF TagsOf
<1>21. ASSUME NEW m \in Node
       PROVE  /\ \A e \in values'[m] : e.tag.clock <= context'[m][e.tag.replica]
              /\ \A t \in gone'[m] : t.clock <= context'[m][t.replica]
  <2>1. ASSUME NEW e \in values'[m] PROVE e.tag.clock <= context'[m][e.tag.replica]
    <3>1. CASE m = n /\ e = new
        BY <3>1, <1>2, <1>4, <1>10
    <3>2. CASE ~(m = n /\ e = new)
      <4>1. e \in values[m]
          BY <3>2, <1>13
      <4> QED
          BY <4>1, <1>18, <1>11, <1>2
    <3> QED
        BY <3>1, <3>2
  <2>2. ASSUME NEW t \in gone'[m] PROVE t.clock <= context'[m][t.replica]
    <3>1. t.clock \in Nat /\ t.replica \in Node /\ t.clock <= context[m][t.replica]
        BY <1>15, <1>18, <1>20
    <3> QED
        BY <3>1, <1>11, <1>2
  <2> QED
      BY <2>1, <2>2
<1>22. ASSUME NEW m \in Node
       PROVE  OneEach(values'[m]) /\ TagsOf(values'[m]) \cap gone'[m] = {}
  <2>1. OneEach(values[m]) /\ TagsOf(values[m]) \cap gone[m] = {}
      BY <1>1 DEF Covered, RemovedStaysRemoved
  <2>2. CASE m # n
      BY <2>1, <2>2, <1>13, <1>15
  <2>3. CASE m = n
    <3>1. OneEach((values[n] \ removed) \cup {new})
        BY <2>1, <2>3, <1>19 DEF OneEach
    <3>2. \A e \in values[n] \ removed : e.tag \notin gone[n] /\ e.tag \notin TagsOf(removed)
        BY <2>1, <2>3 DEF OneEach, TagsOf
    <3>3. TagsOf((values[n] \ removed) \cup {new}) \cap (gone[n] \cup TagsOf(removed)) = {}
        BY <3>2, <1>19 DEF TagsOf
    <3> QED
        BY <2>3, <3>1, <3>3, <1>13, <1>15
  <2> QED
      BY <2>2, <2>3
<1>23. Covered' /\ RemovedStaysRemoved'
    BY <1>21, <1>22 DEF Covered, RemovedStaysRemoved
<1>24. CrdtInv'
    BY <1>7, <1>9, <1>12, <1>13, <1>15, <1>16, <1>17, <1>23 DEF CrdtInv, CrdtType
<1>25. PICK msg : msg = Delta(n, {new}, TagsOf(removed), context'[n])
    OBVIOUS
<1>26. /\ msg.joins = {new} /\ msg.leaves = TagsOf(removed) /\ msg.context = context'[n]
       /\ msg \in Message
    BY <1>25, <1>6, <1>14, <1>9 DEF Delta, Message, MessageType
<1>27. msg \in GoodMessage(clock')
  <2>1. \A e \in msg.joins : e.tag.clock <= msg.context[e.tag.replica]
      BY <1>26, <1>4, <1>10, <1>2
  <2>2. \A t \in msg.leaves : t.clock <= msg.context[t.replica]
      BY <1>26, <1>20, <1>11, <1>2
  <2>3. OneEach(msg.joins) /\ TagsOf(msg.joins) \cap msg.leaves = {}
      BY <1>26, <1>19 DEF OneEach, TagsOf
  <2>4. \A r \in Node : msg.context[r] <= clock'[r]
      BY <1>26, <1>11
  <2> QED
      BY <1>26, <2>1, <2>2, <2>3, <2>4 DEF GoodMessage
<1> QED
    BY <1>3, <1>8, <1>24, <1>25, <1>27

-----------------------------------------------------------------------------
(* What the servers send is covered. *)
LEMMA LeavesGood ==
    ASSUME CrdtInv, NEW n \in Node, NEW removed \in SUBSET values[n]
    PROVE  Delta(n, {}, TagsOf(removed), context[n]) \in GoodMessage(clock)
<1>1. PICK msg : msg = Delta(n, {}, TagsOf(removed), context[n])
    OBVIOUS
<1>2. values[n] \subseteq TrackedEntry /\ context[n] \in Context
    BY DEF CrdtInv, CrdtType
<1>3. /\ msg.joins = {} /\ msg.leaves = TagsOf(removed) /\ msg.context = context[n]
      /\ msg \in Message
    BY <1>1, <1>2 DEF Delta, Message, MessageType, TagsOf, TrackedEntry
<1>4. \A t \in msg.leaves : t.clock <= msg.context[t.replica]
    BY <1>3 DEF CrdtInv, Covered, TagsOf
<1>5. \A r \in Node : msg.context[r] <= clock[r]
    BY <1>3 DEF CrdtInv, Ceiling
<1> QED
    BY <1>1, <1>3, <1>4, <1>5 DEF GoodMessage, OneEach, TagsOf

LEMMA EntriesGood ==
    ASSUME CrdtInv, NEW n \in Node, NEW joins \in SUBSET values[n],
           NEW type \in MessageType
    PROVE  [type |-> type, from |-> n, joins |-> joins, leaves |-> {}, context |-> context[n]]
              \in GoodMessage(clock)
<1>1. PICK msg : msg = [type |-> type, from |-> n, joins |-> joins, leaves |-> {},
                        context |-> context[n]]
    OBVIOUS
<1>2. values[n] \subseteq TrackedEntry /\ context[n] \in Context
    BY DEF CrdtInv, CrdtType
<1>3. /\ msg.joins = joins /\ msg.leaves = {} /\ msg.context = context[n]
      /\ msg \in Message
    BY <1>1, <1>2 DEF Message
<1>4. \A e \in msg.joins : e.tag.clock <= msg.context[e.tag.replica]
    BY <1>3 DEF CrdtInv, Covered
<1>5. \A r \in Node : msg.context[r] <= clock[r]
    BY <1>3 DEF CrdtInv, Ceiling
<1>6. OneEach(msg.joins)
    BY <1>3 DEF CrdtInv, Covered, OneEach
<1> QED
    BY <1>1, <1>3, <1>4, <1>5, <1>6 DEF GoodMessage

LEMMA PlainGood ==
    ASSUME CrdtInv, NEW n \in Node, NEW type \in MessageType
    PROVE  Plain(type, n) \in GoodMessage(clock)
<1>1. PICK msg : msg = Plain(type, n)
    OBVIOUS
<1>2. /\ msg.joins = {} /\ msg.leaves = {} /\ msg.context = NoContext
      /\ msg \in Message
    BY <1>1 DEF Plain, Message, NoContext, Context
<1>3. \A r \in Node : msg.context[r] <= clock[r]
    BY <1>2 DEF NoContext, CrdtInv, CrdtType, Context
<1> QED
    BY <1>1, <1>2, <1>3 DEF GoodMessage, OneEach, TagsOf

-----------------------------------------------------------------------------
LEMMA InvInit == ASSUME Init PROVE Inv
<1>1. CrdtType
    BY DEF Init, CrdtType, Context, NoContext
<1>2. Ceiling
    BY DEF Init, Ceiling, NoContext
<1>3. Covered /\ RemovedStaysRemoved /\ IndexCovers
    BY DEF Init, Covered, RemovedStaysRemoved, IndexCovers, OneEach, TagsOf
<1>4. NetInv
    BY DEF Init, NetInv
<1>5. up \in [Node -> SUBSET Node]
    BY PresenceAssumption DEF Init, Others
<1>6. OtherType
    BY <1>5, PresenceAssumption DEF Init, OtherType
<1> QED
    BY <1>1, <1>2, <1>3, <1>4, <1>6 DEF Inv, CrdtInv

(* Good messages stay good, and so do wires and mailboxes, in a step that  *)
(* sends and stores only good ones.                                        *)
LEMMA NetKeeps ==
    ASSUME CrdtInv, CrdtInv', NetInv, \A r \in Node : clock[r] <= clock'[r]
    PROVE  /\ wire \in [Node -> [Node -> Seq(GoodMessage(clock'))]]
           /\ mailbox \in [Node -> Seq(GoodMessage(clock'))]
<1>1. clock \in Context /\ clock' \in Context
    BY DEF CrdtInv, CrdtType
<1>2. Seq(GoodMessage(clock)) \subseteq Seq(GoodMessage(clock'))
    BY <1>1, GoodWidens
<1> QED
    BY <1>2 DEF NetInv

LEMMA CallKeeps ==
    ASSUME Inv, NEW n \in Node, NEW slot \in Slot, NEW p \in Pid,
           Track(n, slot, p) \/ Update(n, slot, p)
    PROVE  Inv'
<1>1. CrdtInv /\ NetInv /\ OtherType
    BY DEF Inv
<1>2. values \in [Node -> SUBSET TrackedEntry] /\ gone \in [Node -> SUBSET Tag]
    BY <1>1 DEF CrdtInv, CrdtType
<1>3. PICK removed \in SUBSET values[n] :
          /\ values' = [values EXCEPT ![n] = (@ \ removed) \cup {NewEntry(n, slot, p)}]
          /\ gone' = [gone EXCEPT ![n] = @ \cup TagsOf(removed)]
          /\ Broadcast(n, Delta(n, {NewEntry(n, slot, p)}, TagsOf(removed), context'[n]))
  <2>1. CASE Track(n, slot, p)
    <3>1. values[n] \ {} = values[n] /\ TagsOf({}) = {}
        BY DEF TagsOf
    <3>2. gone = [gone EXCEPT ![n] = @ \cup TagsOf({})]
        BY <1>2, <3>1
    <3> QED
        BY <2>1, <3>1, <3>2 DEF Track
  <2>2. CASE Update(n, slot, p)
    <3>1. Held(n, slot, p) \in SUBSET values[n]
        BY DEF Held
    <3> QED
        BY <2>2, <3>1 DEF Update
  <2> QED
      BY <2>1, <2>2
<1>4. Stamp(n, slot, p) /\ Called /\ UNCHANGED <<drops, netVars, monitorVars, mailbox>>
    BY DEF Track, Update
<1>5. PICK msg : msg = Delta(n, {NewEntry(n, slot, p)}, TagsOf(removed), context'[n])
    OBVIOUS
<1>6. /\ CrdtInv'
      /\ \A r \in Node : clock[r] <= clock'[r]
      /\ msg \in GoodMessage(clock')
    BY <1>1, <1>3, <1>4, <1>5, StampKeeps
<1>7. PICK G : G = GoodMessage(clock')
    OBVIOUS
<1>8. wire \in [Node -> [Node -> Seq(G)]] /\ mailbox \in [Node -> Seq(G)]
    BY <1>1, <1>6, <1>7, NetKeeps
<1>9. <<msg>> \in Seq(G)
    BY <1>6, <1>7
<1>10. Send(n, members[n], <<msg>>)
    BY <1>3, <1>5 DEF Broadcast
<1>11. wire' \in [Node -> [Node -> Seq(G)]]
    BY <1>8, <1>9, <1>10, SendKeeps
<1>12. NetInv'
    BY <1>4, <1>7, <1>8, <1>11 DEF NetInv
<1>13. OtherType'
    BY <1>1, <1>4 DEF OtherType, Called, netVars, monitorVars
<1> QED
    BY <1>6, <1>12, <1>13 DEF Inv

LEMMA UntrackKeeps ==
    ASSUME Inv, NEW n \in Node, NEW slot \in Slot, NEW p \in Pid, Untrack(n, slot, p)
    PROVE  Inv'
<1>1. CrdtInv /\ NetInv /\ OtherType
    BY DEF Inv
<1>2. PICK removed : removed = Held(n, slot, p)
    OBVIOUS
<1>3. removed \in SUBSET values[n]
    BY <1>2 DEF Held
<1>4. /\ values' = [values EXCEPT ![n] = @ \ removed]
      /\ gone' = [gone EXCEPT ![n] = @ \cup TagsOf(removed)]
      /\ UNCHANGED <<clock, context, mailbox, drops, netVars, monitorVars>>
      /\ pidIndex' = [pidIndex EXCEPT ![n][p] = @ \ {slot}]
      /\ Called
    BY <1>2 DEF Untrack
<1>5. /\ values \in [Node -> SUBSET TrackedEntry]
      /\ pidIndex \in [Node -> [Pid -> SUBSET Slot]] /\ IndexCovers
    BY <1>1 DEF CrdtInv, CrdtType
<1>6. /\ pidIndex' \in [Node -> [Pid -> SUBSET Slot]]
      /\ pidIndex'[n][p] = pidIndex[n][p] \ {slot}
      /\ \A m \in Node, o \in Pid : m # n \/ o # p => pidIndex'[m][o] = pidIndex[m][o]
  <2>1. \A m \in Node : pidIndex[m] \in [Pid -> SUBSET Slot]
      BY <1>5
  <2>2. [pidIndex[n] EXCEPT ![p] = pidIndex[n][p] \ {slot}] \in [Pid -> SUBSET Slot]
      BY <2>1
  <2>3. pidIndex' = [pidIndex EXCEPT ![n] = [pidIndex[n] EXCEPT ![p] = pidIndex[n][p] \ {slot}]]
      BY <1>4, <1>5
  <2> QED
      BY <1>5, <2>1, <2>2, <2>3
<1>7. IndexCovers'
  <2> SUFFICES ASSUME NEW m \in Node, NEW e \in values'[m]
               PROVE  e.slot \in pidIndex'[m][e.pid]
      BY DEF IndexCovers
  <2>1. e \in values[m] /\ (m = n => e \notin removed)
      BY <1>4, <1>5
  <2>2. e.pid \in Pid /\ e.slot \in pidIndex[m][e.pid]
      BY <2>1, <1>5 DEF IndexCovers, TrackedEntry
  <2>3. CASE m = n /\ e.pid = p
    <3>1. e.slot # slot
        BY <2>1, <2>3, <1>2 DEF Held
    <3> QED
        BY <3>1, <2>2, <2>3, <1>6
  <2>4. CASE m # n \/ e.pid # p
      BY <2>2, <2>4, <1>6
  <2> QED
      BY <2>3, <2>4
<1>8. CrdtInv'
    BY <1>1, <1>3, <1>4, <1>6, <1>7, RemoveKeeps
<1>9. PICK G : G = GoodMessage(clock)
    OBVIOUS
<1>10. wire \in [Node -> [Node -> Seq(G)]] /\ mailbox \in [Node -> Seq(G)]
    BY <1>1, <1>9 DEF NetInv
<1>11. PICK msg : msg = Delta(n, {}, TagsOf(removed), context[n])
    OBVIOUS
<1>12. <<msg>> \in Seq(G)
    BY <1>1, <1>3, <1>9, <1>11, LeavesGood
<1>13. wire' = wire \/ Send(n, members[n], <<msg>>)
    BY <1>2, <1>11 DEF Untrack, Broadcast
<1>14. wire' \in [Node -> [Node -> Seq(G)]]
    BY <1>10, <1>12, <1>13, SendKeeps
<1>15. NetInv'
    BY <1>4, <1>9, <1>10, <1>14 DEF NetInv
<1>16. OtherType'
    BY <1>1, <1>4 DEF OtherType, Called, netVars, monitorVars
<1> QED
    BY <1>8, <1>15, <1>16 DEF Inv

LEMMA UntrackAllKeeps ==
    ASSUME Inv, NEW n \in Node, NEW p \in Pid, UntrackAll(n, p)
    PROVE  Inv'
<1>1. CrdtInv /\ NetInv /\ OtherType
    BY DEF Inv
<1>2. PICK removed : removed = {e \in values[n] : e.pid = p /\ e.slot \in pidIndex[n][p]}
    OBVIOUS
<1>3. removed \in SUBSET values[n]
    BY <1>2
<1>4. PICK k : k = Cardinality({e.slot[1] : e \in removed})
    OBVIOUS
<1>5. PICK msg : msg = Delta(n, {}, TagsOf(removed), context[n])
    OBVIOUS
<1>6. /\ values' = [values EXCEPT ![n] = @ \ removed]
      /\ gone' = [gone EXCEPT ![n] = @ \cup TagsOf(removed)]
      /\ UNCHANGED <<clock, context, mailbox, drops, netVars, monitorVars>>
      /\ pidIndex' = [pidIndex EXCEPT ![n][p] = {}]
      /\ Send(n, members[n], [i \in 1 .. k |-> msg])
      /\ Called
    BY <1>2, <1>4, <1>5 DEF UntrackAll
<1>7. /\ values \in [Node -> SUBSET TrackedEntry]
      /\ pidIndex \in [Node -> [Pid -> SUBSET Slot]] /\ IndexCovers
    BY <1>1 DEF CrdtInv, CrdtType
<1>8. /\ pidIndex' \in [Node -> [Pid -> SUBSET Slot]]
      /\ \A m \in Node, o \in Pid : m # n \/ o # p => pidIndex'[m][o] = pidIndex[m][o]
  <2>1. \A m \in Node : pidIndex[m] \in [Pid -> SUBSET Slot]
      BY <1>7
  <2>2. [pidIndex[n] EXCEPT ![p] = {}] \in [Pid -> SUBSET Slot]
      BY <2>1
  <2>3. pidIndex' = [pidIndex EXCEPT ![n] = [pidIndex[n] EXCEPT ![p] = {}]]
      BY <1>6, <1>7
  <2> QED
      BY <1>7, <2>1, <2>2, <2>3
<1>9. IndexCovers'
  <2> SUFFICES ASSUME NEW m \in Node, NEW e \in values'[m]
               PROVE  e.slot \in pidIndex'[m][e.pid]
      BY DEF IndexCovers
  <2>1. e \in values[m] /\ (m = n => e \notin removed)
      BY <1>6, <1>7
  <2>2. e.pid \in Pid /\ e.slot \in pidIndex[m][e.pid]
      BY <2>1, <1>7 DEF IndexCovers, TrackedEntry
  <2>3. m # n \/ e.pid # p
      BY <2>1, <2>2, <1>2
  <2> QED
      BY <2>2, <2>3, <1>8
<1>10. CrdtInv'
    BY <1>1, <1>3, <1>6, <1>8, <1>9, RemoveKeeps
<1>11. PICK G : G = GoodMessage(clock)
    OBVIOUS
<1>12. wire \in [Node -> [Node -> Seq(G)]] /\ mailbox \in [Node -> Seq(G)]
    BY <1>1, <1>11 DEF NetInv
<1>13. msg \in G
    BY <1>1, <1>3, <1>5, <1>11, LeavesGood
<1>14. k \in Nat
  <2>1. {e.slot[1] : e \in removed} \subseteq Topic
      BY <1>3, <1>7 DEF TrackedEntry, Slot
  <2>2. IsFiniteSet({e.slot[1] : e \in removed})
      BY <2>1, PresenceAssumption, FS_Subset
  <2> QED
      BY <1>4, <2>2, FS_CardinalityType
<1>15. [i \in 1 .. k |-> msg] \in Seq(G)
    BY <1>13, <1>14
<1>16. wire' \in [Node -> [Node -> Seq(G)]]
    BY <1>6, <1>12, <1>15, SendKeeps
<1>17. NetInv'
    BY <1>6, <1>11, <1>12, <1>16 DEF NetInv
<1>18. OtherType'
    BY <1>1, <1>6 DEF OtherType, Called, netVars, monitorVars
<1> QED
    BY <1>10, <1>17, <1>18 DEF Inv

LEMMA DeltaKeeps ==
    ASSUME Inv, NEW n \in Node, HandleDelta(n) \/ HandleSyncResponse(n)
    PROVE  Inv'
<1>1. CrdtInv /\ NetInv /\ OtherType
    BY DEF Inv
<1>2. PICK G : G = GoodMessage(clock)
    OBVIOUS
<1>3. wire \in [Node -> [Node -> Seq(G)]] /\ mailbox \in [Node -> Seq(G)]
    BY <1>1, <1>2 DEF NetInv
<1>4. PICK msg : msg = Head(mailbox[n])
    OBVIOUS
<1>5. /\ Receive(n, "delta") \/ Receive(n, "sync_response")
      /\ Merge(n, msg)
      /\ UNCHANGED <<calls, drops, netVars>>
    BY <1>4 DEF HandleDelta, HandleSyncResponse
<1>6. msg \in G /\ mailbox' \in [Node -> Seq(G)]
    BY <1>3, <1>4, <1>5, ReceiveTakes
<1>7. CrdtInv' /\ clock' = clock
    BY <1>1, <1>2, <1>5, <1>6, MergeKeeps
<1>8. PICK new : new = {e.tag.replica : e \in msg.joins} \ (monitored[n] \cup {n})
    OBVIOUS
<1>9. new \subseteq Node
  <2>1. msg.joins \subseteq TrackedEntry
      BY <1>2, <1>6 DEF GoodMessage, Message
  <2> QED
      BY <1>8, <2>1 DEF TrackedEntry, Tag
<1>10. PICK full : full = Delta(n, values[n], {}, context[n])
    OBVIOUS
<1>11. <<full>> \in Seq(G)
  <2>1. full \in G
      BY <1>1, <1>2, <1>10, EntriesGood DEF Delta, MessageType
  <2> QED
      BY <2>1
<1>12. \/ wire' = wire /\ UNCHANGED monitorVars
       \/ wire' = wire /\ Watch(n, new)
       \/ Send(n, new \cap members[n], <<full>>) /\ Watch(n, new)
    BY <1>4, <1>8, <1>10 DEF HandleDelta, HandleSyncResponse
<1>13. wire' \in [Node -> [Node -> Seq(G)]]
    BY <1>3, <1>11, <1>12, SendKeeps
<1>14. monitors' \in [Node -> SUBSET Node] /\ monitored' \in [Node -> SUBSET Node]
    BY <1>1, <1>9, <1>12 DEF OtherType, Watch, monitorVars
<1>15. OtherType'
    BY <1>1, <1>5, <1>14 DEF OtherType, netVars
<1>16. NetInv'
    BY <1>2, <1>6, <1>7, <1>13 DEF NetInv
<1> QED
    BY <1>7, <1>15, <1>16 DEF Inv

LEMMA SyncRequestKeeps ==
    ASSUME Inv, NEW n \in Node, HandleSyncRequest(n)
    PROVE  Inv'
<1>1. CrdtInv /\ NetInv /\ OtherType
    BY DEF Inv
<1>2. PICK G : G = GoodMessage(clock)
    OBVIOUS
<1>3. wire \in [Node -> [Node -> Seq(G)]] /\ mailbox \in [Node -> Seq(G)]
    BY <1>1, <1>2 DEF NetInv
<1>4. PICK msg : msg = Head(mailbox[n])
    OBVIOUS
<1>5. /\ Receive(n, "sync_request")
      /\ Watch(n, {msg.from} \ {n})
      /\ UNCHANGED <<calls, drops, netVars, crdtVars, gone>>
    BY <1>4 DEF HandleSyncRequest
<1>6. msg \in G /\ mailbox' \in [Node -> Seq(G)]
    BY <1>3, <1>4, <1>5, ReceiveTakes
<1>7. msg.from \in Node
    BY <1>2, <1>6 DEF GoodMessage, Message
<1>8. PICK answer : answer = SyncResponse(n, Unseen(n, msg.context), context[n])
    OBVIOUS
<1>9. <<answer>> \in Seq(G)
  <2>1. Unseen(n, msg.context) \in SUBSET values[n]
      BY DEF Unseen
  <2>2. answer \in G
      BY <2>1, <1>1, <1>2, <1>8, EntriesGood DEF SyncResponse, MessageType
  <2> QED
      BY <2>2
<1>10. wire' = wire \/ Send(n, {msg.from}, <<answer>>)
    BY <1>4, <1>8 DEF HandleSyncRequest
<1>11. wire' \in [Node -> [Node -> Seq(G)]]
    BY <1>3, <1>9, <1>10, SendKeeps
<1>12. CrdtInv' /\ clock' = clock
    BY <1>1, <1>5 DEF CrdtInv, CrdtType, Ceiling, Covered, RemovedStaysRemoved,
                      IndexCovers, crdtVars
<1>13. monitors' \in [Node -> SUBSET Node] /\ monitored' \in [Node -> SUBSET Node]
    BY <1>1, <1>5, <1>7 DEF OtherType, Watch
<1>14. OtherType'
    BY <1>1, <1>5, <1>13 DEF OtherType, netVars
<1>15. NetInv'
    BY <1>2, <1>6, <1>11, <1>12 DEF NetInv
<1> QED
    BY <1>12, <1>14, <1>15 DEF Inv

LEMMA NodeDownKeeps ==
    ASSUME Inv, NEW n \in Node, HandleNodeDown(n)
    PROVE  Inv'
<1>1. CrdtInv /\ NetInv /\ OtherType
    BY DEF Inv
<1>2. PICK G : G = GoodMessage(clock)
    OBVIOUS
<1>3. wire \in [Node -> [Node -> Seq(G)]] /\ mailbox \in [Node -> Seq(G)]
    BY <1>1, <1>2 DEF NetInv
<1>4. PICK m : m = Head(mailbox[n]).from
    OBVIOUS
<1>5. PICK removed : removed = {e \in values[n] : e.tag.replica = m}
    OBVIOUS
<1>6. /\ Receive(n, "node_down")
      /\ values' = [values EXCEPT ![n] = @ \ removed]
      /\ gone' = [gone EXCEPT ![n] = @ \cup TagsOf(removed)]
      /\ monitored' = [monitored EXCEPT ![n] = @ \ {m}]
      /\ UNCHANGED <<calls, drops, netVars, monitors, clock, context, pidIndex, wire>>
    BY <1>4, <1>5 DEF HandleNodeDown
<1>7. removed \in SUBSET values[n]
    BY <1>5
<1>8. /\ values \in [Node -> SUBSET TrackedEntry]
      /\ pidIndex \in [Node -> [Pid -> SUBSET Slot]] /\ IndexCovers
    BY <1>1 DEF CrdtInv, CrdtType
<1>9. IndexCovers'
    BY <1>6, <1>8 DEF IndexCovers
<1>10. CrdtInv'
    BY <1>1, <1>6, <1>7, <1>8, <1>9, RemoveKeeps
<1>11. mailbox' \in [Node -> Seq(G)]
    BY <1>3, <1>6, ReceiveTakes
<1>12. NetInv'
    BY <1>2, <1>3, <1>6, <1>11 DEF NetInv
<1>13. OtherType'
    BY <1>1, <1>6 DEF OtherType, netVars
<1> QED
    BY <1>10, <1>12, <1>13 DEF Inv

LEMMA CompleteInitKeeps ==
    ASSUME Inv, NEW n \in Node, CompleteInit(n)
    PROVE  Inv'
<1>1. CrdtInv /\ NetInv /\ OtherType
    BY DEF Inv
<1>2. PICK G : G = GoodMessage(clock)
    OBVIOUS
<1>3. wire \in [Node -> [Node -> Seq(G)]] /\ mailbox \in [Node -> Seq(G)]
    BY <1>1, <1>2 DEF NetInv
<1>4. /\ started' = started \cup {n}
      /\ Watch(n, members[n] \cup up[n])
      /\ UNCHANGED <<calls, drops, up, members, crdtVars, mailbox, gone>>
    BY DEF CompleteInit
<1>5. PICK join, request : join = Plain("member", n) /\ request = SyncRequest(n, context[n])
    OBVIOUS
<1>6. join \in G
    BY <1>1, <1>2, <1>5, PlainGood DEF MessageType
<1>7. request \in G
  <2>1. {} \in SUBSET values[n]
      OBVIOUS
  <2> QED
      BY <2>1, <1>1, <1>2, <1>5, EntriesGood DEF SyncRequest, MessageType
<1>8. PICK W : W = [m \in Node |->
           IF ~Arrives(n, m) THEN wire[n][m]
           ELSE Append(wire[n][m], join)
                \o (IF m \in members[n] THEN <<request>> ELSE <<>>)]
    OBVIOUS
<1>9. W \in [Node -> Seq(G)]
  <2>1. <<request>> \in Seq(G) /\ <<>> \in Seq(G)
      BY <1>7
  <2>2. \A m \in Node : wire[n][m] \in Seq(G) /\ Append(wire[n][m], join) \in Seq(G)
      BY <1>3, <1>6
  <2>3. \A m \in Node : \A s \in Seq(G) : Append(wire[n][m], join) \o s \in Seq(G)
      BY <2>2
  <2> QED
      BY <1>8, <2>1, <2>2, <2>3
<1>10. wire' = [wire EXCEPT ![n] = W]
    BY <1>3, <1>5, <1>8 DEF CompleteInit
<1>11. wire' \in [Node -> [Node -> Seq(G)]]
    BY <1>3, <1>9, <1>10
<1>12. CrdtInv' /\ clock' = clock
    BY <1>1, <1>4 DEF CrdtInv, CrdtType, Ceiling, Covered, RemovedStaysRemoved,
                      IndexCovers, crdtVars
<1>13. NetInv'
    BY <1>2, <1>3, <1>4, <1>11, <1>12 DEF NetInv
<1>14. OtherType'
    BY <1>1, <1>4 DEF OtherType, Watch
<1> QED
    BY <1>12, <1>13, <1>14 DEF Inv

LEMMA NetworkKeeps ==
    ASSUME Inv, NEW n \in Node, NEW m \in Node, Network(n, m)
    PROVE  Inv'
<1>1. CrdtInv /\ NetInv /\ OtherType
    BY DEF Inv
<1>2. PICK G : G = GoodMessage(clock)
    OBVIOUS
<1>3. wire \in [Node -> [Node -> Seq(G)]] /\ mailbox \in [Node -> Seq(G)]
    BY <1>1, <1>2 DEF NetInv
<1>4. UNCHANGED <<calls, started, crdtVars, monitored, gone>>
    BY DEF Network, Deliver, Connect, Lose, monitorVars
<1>5. CrdtInv' /\ clock' = clock
    BY <1>1, <1>4 DEF CrdtInv, CrdtType, Ceiling, Covered, RemovedStaysRemoved,
                      IndexCovers, crdtVars
<1>6. /\ \A x, y \in Node : wire[x][y] \in Seq(G)
      /\ \A x \in Node : mailbox[x] \in Seq(G)
    BY <1>3
<1>7. \A x \in Node : Plain("member", x) \in G /\ Plain("node_down", x) \in G
    BY <1>1, <1>2, PlainGood DEF MessageType
<1>8. /\ wire' \in [Node -> [Node -> Seq(G)]] /\ mailbox' \in [Node -> Seq(G)]
      /\ OtherType'
  <2>1. CASE Deliver(n, m)
    <3>1. wire[n][m] \in Seq(G) /\ wire[n][m] # <<>>
        BY <2>1, <1>6 DEF Deliver
    <3>2. Tail(wire[n][m]) \in Seq(G) /\ Head(wire[n][m]) \in G
        BY <3>1
    <3>3. [wire[n] EXCEPT ![m] = Tail(wire[n][m])] \in [Node -> Seq(G)]
        BY <1>3, <3>2
    <3>4. wire' = [wire EXCEPT ![n] = [wire[n] EXCEPT ![m] = Tail(wire[n][m])]]
        BY <2>1, <1>3 DEF Deliver
    <3>5. wire' \in [Node -> [Node -> Seq(G)]]
        BY <1>3, <3>3, <3>4
    <3>6. Append(mailbox[m], Head(wire[n][m])) \in Seq(G)
        BY <1>6, <3>2
    <3>7. mailbox' \in [Node -> Seq(G)]
        BY <2>1, <1>3, <3>6 DEF Deliver
    <3>8. OtherType'
        BY <2>1, <1>1 DEF Deliver, OtherType, monitorVars
    <3> QED
        BY <3>5, <3>7, <3>8
  <2>2. CASE Connect(n, m)
    <3>1. \A x \in Node : Greeting(x) \in Seq(G)
        BY <1>7 DEF Greeting
    <3>2. /\ [wire[n] EXCEPT ![m] = Greeting(n)] \in [Node -> Seq(G)]
          /\ [wire[m] EXCEPT ![n] = Greeting(m)] \in [Node -> Seq(G)]
        BY <1>3, <3>1
    <3>3. wire' = [wire EXCEPT ![n] = [wire[n] EXCEPT ![m] = Greeting(n)],
                               ![m] = [wire[m] EXCEPT ![n] = Greeting(m)]]
        BY <2>2, <1>3 DEF Connect
    <3>4. wire' \in [Node -> [Node -> Seq(G)]]
        BY <1>3, <3>2, <3>3
    <3>5. mailbox' \in [Node -> Seq(G)]
        BY <2>2, <1>3 DEF Connect
    <3>6. OtherType'
        BY <2>2, <1>1 DEF Connect, OtherType, monitorVars
    <3> QED
        BY <3>4, <3>5, <3>6
  <2>3. CASE Lose(n, m)
    <3>1. PICK k \in 0 .. Len(wire[n][m]) :
             wire' = [wire EXCEPT ![n][m] = SubSeq(@, 1, k), ![m][n] = <<>>]
        BY <2>3 DEF Lose
    <3>2. SubSeq(wire[n][m], 1, k) \in Seq(G)
      <4>1. wire[n][m] \in Seq(G) /\ Len(wire[n][m]) \in Nat /\ k \in Nat
          BY <1>6
      <4> QED
          BY <4>1
    <3>3. /\ [wire[n] EXCEPT ![m] = SubSeq(wire[n][m], 1, k)] \in [Node -> Seq(G)]
          /\ [wire[m] EXCEPT ![n] = <<>>] \in [Node -> Seq(G)]
        BY <1>3, <3>2
    <3>4. n # m
        BY <2>3 DEF Lose
    <3>5. wire' = [wire EXCEPT ![n] = [wire[n] EXCEPT ![m] = SubSeq(wire[n][m], 1, k)],
                               ![m] = [wire[m] EXCEPT ![n] = <<>>]]
        BY <1>3, <3>1, <3>4
    <3>6. wire' \in [Node -> [Node -> Seq(G)]]
        BY <1>3, <3>3, <3>5
    <3>7. Append(mailbox[n], Plain("node_down", m)) \in Seq(G)
        BY <1>6, <1>7
    <3>8. mailbox' \in [Node -> Seq(G)]
        BY <2>3, <1>3, <3>7 DEF Lose
    <3>9. OtherType'
        BY <2>3, <1>1 DEF Lose, OtherType
    <3> QED
        BY <3>6, <3>8, <3>9
  <2> QED
      BY <2>1, <2>2, <2>3 DEF Network
<1> QED
    BY <1>2, <1>5, <1>8 DEF Inv, NetInv

-----------------------------------------------------------------------------
LEMMA InvInvariant == Spec => []Inv
<1>1. Init => Inv
    BY InvInit
<1>2. Inv /\ [Next]_vars => Inv'
  <2> SUFFICES ASSUME Inv, [Next]_vars PROVE Inv'
      OBVIOUS
  <2>1. ASSUME NEW n \in Node, Client(n) PROVE Inv'
    <3>1. PICK p \in Pid :
             \/ UntrackAll(n, p)
             \/ \E slot \in Slot : Track(n, slot, p) \/ Untrack(n, slot, p) \/ Update(n, slot, p)
        BY <2>1 DEF Client
    <3>2. CASE UntrackAll(n, p)
        BY <3>2, UntrackAllKeeps
    <3>3. CASE \E slot \in Slot : Track(n, slot, p) \/ Untrack(n, slot, p) \/ Update(n, slot, p)
        BY <3>3, CallKeeps, UntrackKeeps
    <3> QED
        BY <3>1, <3>2, <3>3
  <2>2. ASSUME NEW n \in Node, Server(n) PROVE Inv'
      BY <2>2, CompleteInitKeeps, DeltaKeeps, SyncRequestKeeps, NodeDownKeeps DEF Server
  <2>3. ASSUME NEW n \in Node, NEW m \in Node, Network(n, m) PROVE Inv'
      BY <2>3, NetworkKeeps
  <2>4. CASE UNCHANGED vars
      BY <2>4 DEF vars, netVars, crdtVars, monitorVars, Inv, CrdtInv, CrdtType, Ceiling,
                  Covered, RemovedStaysRemoved, IndexCovers, NetInv, OtherType
  <2> QED
      BY <2>1, <2>2, <2>3, <2>4 DEF Next
<1> QED
    BY <1>1, <1>2, PTL DEF Spec

(* Every reachable state is well formed.                                   *)
THEOREM TypeCorrect == Spec => []TypeOK
<1>1. Inv => TypeOK
  <2> SUFFICES ASSUME Inv PROVE TypeOK
      OBVIOUS
  <2>1. GoodMessage(clock) \subseteq Message
      BY DEF GoodMessage
  <2>2. Seq(GoodMessage(clock)) \subseteq Seq(Message)
      BY <2>1, SeqWidens
  <2>3. wire \in [Node -> [Node -> Seq(Message)]] /\ mailbox \in [Node -> Seq(Message)]
      BY <2>2 DEF Inv, NetInv
  <2> QED
      BY <2>3 DEF TypeOK, Inv, CrdtInv, CrdtType, OtherType
<1> QED
    BY <1>1, InvInvariant, PTL

(* merge(), remove_down_replica() and the untracks: a presence that left a *)
(* server does not come back to it, in whatever order deltas, full states  *)
(* and losses of connections reach the servers.                            *)
THEOREM RemovalCorrect == Spec => []RemovedStaysRemoved
<1>1. Inv => RemovedStaysRemoved
    BY DEF Inv, CrdtInv
<1> QED
    BY <1>1, InvInvariant, PTL

(* untrack_all() finds every entry of its process by way of pid_index.     *)
THEOREM IndexCorrect == Spec => []IndexCovers
<1>1. Inv => IndexCovers
    BY DEF Inv, CrdtInv
<1> QED
    BY <1>1, InvInvariant, PTL

-----------------------------------------------------------------------------
(* Two servers.  Of an entry that only one of them holds something is on its *)
(* way: the join, which will be news when it comes, or a leave of the one    *)
(* that had the entry and has it no more.                                    *)

(* What is on its way from the server of n to that of m, which are the only *)
(* two and know each other.                                                 *)
Way(n, m) == mailbox[m] \o wire[n][m]
Together == started = Stable /\ drops = 0

(* They stay connected, and nothing reaches them from elsewhere.            *)
Connected(n, m) ==
    /\ m \in up[n] /\ n \notin up[n] /\ m \in members[n] /\ m \in monitored[n]
    /\ \A x \in Node : x \notin Stable \/ x = m => wire[x][m] = <<>>

(* Only deltas pass, with joins of the sender and leaves of what it removed, *)
(* and their contexts are behind that of the sender.                         *)
Passing(n, m) ==
    \A i \in DOMAIN Way(n, m) :
        /\ Way(n, m)[i].type = "delta"
        /\ \A e \in Way(n, m)[i].joins : e.tag.replica = n
        /\ Way(n, m)[i].leaves \subseteq gone[n]
        /\ \A r \in Node : Way(n, m)[i].context[r] <= context[n][r]

(* A join is news when it comes: to the receiver as it is, and as it will be *)
(* when it has taken what is before the join.                                *)
StillNews(n, m) ==
    \A i \in DOMAIN Way(n, m) : \A e \in Way(n, m)[i].joins :
        /\ e.tag.clock > context[m][n]
        /\ \A j \in DOMAIN Way(n, m) : j < i => Way(n, m)[j].context[n] < e.tag.clock

(* What joins is held by the sender, or the leave is behind.                 *)
Revoked(n, m) ==
    \A i \in DOMAIN Way(n, m) : \A e \in Way(n, m)[i].joins :
        \/ e \in values[n]
        \/ \E j \in DOMAIN Way(n, m) : i < j /\ e.tag \in Way(n, m)[j].leaves

(* An entry that only one of the two holds is about to join the other, or to *)
(* leave the one.                                                            *)
WillAgree(n, m) ==
    \A e \in values[n] : e \notin values[m] =>
        \/ \E i \in DOMAIN Way(n, m) : e \in Way(n, m)[i].joins
        \/ \E i \in DOMAIN Way(m, n) : e.tag \in Way(m, n)[i].leaves

Agreed(n, m) ==
    /\ Connected(n, m) /\ Passing(n, m)
    /\ StillNews(n, m) /\ Revoked(n, m) /\ WillAgree(n, m)

-----------------------------------------------------------------------------
(* What sending, taking and delivering make of the way.                     *)
Longer(old, new, msg) ==
    /\ \A i \in DOMAIN old : i \in DOMAIN new /\ new[i] = old[i]
    /\ \A i \in DOMAIN new : i \notin DOMAIN old =>
           new[i] = msg /\ \A j \in DOMAIN old : j < i
Shorter(old, new) ==
    /\ \A i \in DOMAIN new : i + 1 \in DOMAIN old /\ new[i] = old[i + 1]
    /\ \A i \in DOMAIN old : i = 1 \/ i - 1 \in DOMAIN new
    /\ DOMAIN old \subseteq Nat \ {0} /\ DOMAIN new \subseteq Nat \ {0} /\ 1 \in DOMAIN old

LEMMA WayOf ==
    ASSUME NEW M, NEW s \in Seq(M), NEW w \in Seq(M)
    PROVE  /\ Len(s) \in Nat /\ Len(w) \in Nat /\ DOMAIN s = 1 .. Len(s) /\ DOMAIN w = 1 .. Len(w)
           /\ s \o w \in Seq(M) /\ DOMAIN (s \o w) = 1 .. Len(s) + Len(w)
           /\ \A i \in 1 .. Len(s) + Len(w) :
                 (s \o w)[i] = IF i <= Len(s) THEN s[i] ELSE w[i - Len(s)]
<1>1. Len(s) \in Nat /\ Len(w) \in Nat /\ DOMAIN s = 1 .. Len(s) /\ DOMAIN w = 1 .. Len(w)
    BY LenProperties
<1>2. s \o w \in Seq(M) /\ Len(s \o w) = Len(s) + Len(w)
    BY ConcatProperties
<1>3. \A i \in 1 .. Len(s) + Len(w) : (s \o w)[i] = IF i <= Len(s) THEN s[i] ELSE w[i - Len(s)]
    BY ConcatProperties
<1> QED
    BY <1>1, <1>2, <1>3, LenProperties

LEMMA SendingWay ==
    ASSUME NEW M, NEW s \in Seq(M), NEW w \in Seq(M), NEW x \in Seq(M), NEW msg,
           \A i \in DOMAIN x : x[i] = msg
    PROVE  /\ Longer(s \o w, s \o (w \o x), msg)
           /\ x # <<>> => \E i \in DOMAIN (s \o (w \o x)) : i \notin DOMAIN (s \o w)
           /\ Len(x) <= 1 => \A i, j \in DOMAIN (s \o (w \o x)) :
                 i \notin DOMAIN (s \o w) /\ j \notin DOMAIN (s \o w) => i = j
<1>1. /\ Len(s) \in Nat /\ Len(w) \in Nat /\ Len(x) \in Nat /\ DOMAIN x = 1 .. Len(x)
      /\ w \o x \in Seq(M) /\ Len(w \o x) = Len(w) + Len(x)
      /\ \A i \in 1 .. Len(w) + Len(x) : (w \o x)[i] = IF i <= Len(w) THEN w[i] ELSE x[i - Len(w)]
    BY WayOf, LenProperties, ConcatProperties
<1>2. /\ DOMAIN (s \o w) = 1 .. Len(s) + Len(w)
      /\ DOMAIN (s \o (w \o x)) = 1 .. Len(s) + Len(w) + Len(x)
      /\ \A i \in 1 .. Len(s) + Len(w) : (s \o w)[i] = IF i <= Len(s) THEN s[i] ELSE w[i - Len(s)]
      /\ \A i \in 1 .. Len(s) + Len(w) + Len(x) :
            (s \o (w \o x))[i] = IF i <= Len(s) THEN s[i] ELSE (w \o x)[i - Len(s)]
  <2>1. Len(s) + (Len(w) + Len(x)) = Len(s) + Len(w) + Len(x)
      BY <1>1
  <2> QED
      BY <1>1, <2>1, WayOf
<1>3. x # <<>> => Len(x) > 0
    BY <1>1, EmptySeq
<1>4. \A i \in 1 .. Len(s) + Len(w) : (s \o (w \o x))[i] = (s \o w)[i]
    BY <1>1, <1>2
<1>5. \A i \in 1 .. Len(s) + Len(w) + Len(x) : i > Len(s) + Len(w) => (s \o (w \o x))[i] = msg
  <2> SUFFICES ASSUME NEW i \in 1 .. Len(s) + Len(w) + Len(x), i > Len(s) + Len(w)
               PROVE  (s \o (w \o x))[i] = msg
      OBVIOUS
  <2>1. (s \o (w \o x))[i] = (w \o x)[i - Len(s)]
      BY <1>1, <1>2
  <2>2. i - Len(s) \in 1 .. Len(w) + Len(x) /\ ~ i - Len(s) <= Len(w)
      BY <1>1
  <2>3. (w \o x)[i - Len(s)] = x[i - Len(s) - Len(w)] /\ i - Len(s) - Len(w) \in DOMAIN x
      BY <1>1, <2>2
  <2> QED
      BY <2>1, <2>3
<1>6. \A i \in DOMAIN (s \o (w \o x)) :
          i \notin DOMAIN (s \o w) => (s \o (w \o x))[i] = msg /\ \A j \in DOMAIN (s \o w) : j < i
    BY <1>1, <1>2, <1>5
<1>7. Longer(s \o w, s \o (w \o x), msg)
  <2>1. \A i \in DOMAIN (s \o w) : i \in DOMAIN (s \o (w \o x))
      BY <1>1, <1>2
  <2>2. \A i \in DOMAIN (s \o w) : (s \o (w \o x))[i] = (s \o w)[i]
      BY <1>2, <1>4
  <2> QED
      BY <1>6, <2>1, <2>2 DEF Longer
<1>8. x # <<>> => Len(s) + Len(w) + Len(x) \in DOMAIN (s \o (w \o x)) \ DOMAIN (s \o w)
    BY <1>1, <1>2, <1>3
<1>9. Len(x) <= 1 => \A i, j \in DOMAIN (s \o (w \o x)) :
          i \notin DOMAIN (s \o w) /\ j \notin DOMAIN (s \o w) => i = j
    BY <1>1, <1>2
<1> QED
    BY <1>7, <1>8, <1>9

LEMMA TakingWay ==
    ASSUME NEW M, NEW s \in Seq(M), NEW w \in Seq(M), s # <<>>
    PROVE  Shorter(s \o w, Tail(s) \o w) /\ (s \o w)[1] = Head(s)
<1>1. /\ Len(s) \in Nat /\ Len(w) \in Nat /\ Len(s) > 0
      /\ Tail(s) \in Seq(M) /\ Len(Tail(s)) = Len(s) - 1 /\ Head(s) = s[1]
      /\ \A i \in 1 .. Len(s) - 1 : Tail(s)[i] = s[i + 1]
    BY EmptySeq, LenProperties, HeadTailProperties
<1>2. /\ DOMAIN (s \o w) = 1 .. Len(s) + Len(w) /\ DOMAIN (Tail(s) \o w) = 1 .. Len(s) - 1 + Len(w)
      /\ \A i \in 1 .. Len(s) + Len(w) : (s \o w)[i] = IF i <= Len(s) THEN s[i] ELSE w[i - Len(s)]
      /\ \A i \in 1 .. Len(s) - 1 + Len(w) :
            (Tail(s) \o w)[i] = IF i <= Len(s) - 1 THEN Tail(s)[i] ELSE w[i - (Len(s) - 1)]
    BY <1>1, WayOf
<1>3. \A i \in 1 .. Len(s) - 1 + Len(w) : (Tail(s) \o w)[i] = (s \o w)[i + 1]
    BY <1>1, <1>2
<1> QED
    BY <1>1, <1>2, <1>3 DEF Shorter

LEMMA ComesNext ==
    ASSUME NEW M, NEW s \in Seq(M), NEW w \in Seq(M), w # <<>>
    PROVE  Len(s) + 1 \in DOMAIN (s \o w) /\ (s \o w)[Len(s) + 1] = Head(w)
<1>1. Len(s) \in Nat /\ Len(w) \in Nat /\ Len(w) > 0 /\ Head(w) = w[1]
    BY EmptySeq, LenProperties, HeadTailProperties
<1>2. /\ DOMAIN (s \o w) = 1 .. Len(s) + Len(w)
      /\ \A i \in 1 .. Len(s) + Len(w) : (s \o w)[i] = IF i <= Len(s) THEN s[i] ELSE w[i - Len(s)]
    BY WayOf
<1>3. /\ Len(s) + 1 \in 1 .. Len(s) + Len(w) /\ ~ Len(s) + 1 <= Len(s) /\ Len(s) + 1 - Len(s) = 1
    BY <1>1
<1> QED
    BY <1>1, <1>2, <1>3

LEMMA DeliveringWay ==
    ASSUME NEW M, NEW s \in Seq(M), NEW w \in Seq(M), w # <<>>
    PROVE  Append(s, Head(w)) \o Tail(w) = s \o w
<1>1. /\ Len(s) \in Nat /\ Len(w) \in Nat /\ Len(w) > 0
      /\ Tail(w) \in Seq(M) /\ Len(Tail(w)) = Len(w) - 1 /\ Head(w) = w[1] /\ Head(w) \in M
      /\ \A i \in 1 .. Len(w) - 1 : Tail(w)[i] = w[i + 1]
    BY EmptySeq, LenProperties, HeadTailProperties
<1>2. /\ Append(s, Head(w)) \in Seq(M) /\ Len(Append(s, Head(w))) = Len(s) + 1
      /\ \A i \in 1 .. Len(s) : Append(s, Head(w))[i] = s[i]
      /\ Append(s, Head(w))[Len(s) + 1] = Head(w)
    BY <1>1, AppendProperties
<1>3. /\ Append(s, Head(w)) \o Tail(w) \in Seq(M) /\ s \o w \in Seq(M)
      /\ Len(Append(s, Head(w)) \o Tail(w)) = Len(s) + Len(w) /\ Len(s \o w) = Len(s) + Len(w)
    BY <1>1, <1>2, ConcatProperties
<1>4. \A i \in 1 .. Len(s) + Len(w) : (Append(s, Head(w)) \o Tail(w))[i] = (s \o w)[i]
  <2>1. \A i \in 1 .. Len(s) + Len(w) : (s \o w)[i] = IF i <= Len(s) THEN s[i] ELSE w[i - Len(s)]
      BY WayOf
  <2>2. \A i \in 1 .. Len(s) + Len(w) : (Append(s, Head(w)) \o Tail(w))[i] =
            IF i <= Len(s) + 1 THEN Append(s, Head(w))[i] ELSE Tail(w)[i - (Len(s) + 1)]
      BY <1>1, <1>2, ConcatProperties
  <2> QED
      BY <1>1, <1>2, <2>1, <2>2
<1> QED
    BY <1>1, <1>3, <1>4, SeqEqual

(* What is on its way is well formed.                                        *)
LEMMA PairContexts ==
    ASSUME Inv, NEW n \in Node, NEW m \in Node
    PROVE  /\ mailbox[m] \in Seq(GoodMessage(clock)) /\ wire[n][m] \in Seq(GoodMessage(clock))
           /\ Way(n, m) \in Seq(GoodMessage(clock)) /\ DOMAIN Way(n, m) \subseteq Nat
           /\ \A i \in DOMAIN Way(n, m) :
                 /\ Way(n, m)[i] \in GoodMessage(clock)
                 /\ \A r \in Node : Way(n, m)[i].context[r] \in Nat
<1>1. mailbox[m] \in Seq(GoodMessage(clock)) /\ wire[n][m] \in Seq(GoodMessage(clock))
    BY DEF Inv, NetInv
<1>2. Way(n, m) \in Seq(GoodMessage(clock))
    BY <1>1, ConcatProperties DEF Way
<1>3. DOMAIN Way(n, m) \subseteq Nat /\ \A i \in DOMAIN Way(n, m) : Way(n, m)[i] \in GoodMessage(clock)
    BY <1>2, LenProperties, ElementOfSeq
<1> QED
    BY <1>1, <1>2, <1>3 DEF GoodMessage, Message, Context

-----------------------------------------------------------------------------
(* A call at n: entries go, and perhaps one comes, and m will hear of it.   *)
LEMMA PairCall ==
    ASSUME Inv, Inv', NEW n \in Node, NEW m \in Node, n # m, Agreed(n, m), Agreed(m, n),
           NEW removed \in SUBSET values[n], NEW new, NEW msg,
           \A e \in new : e.tag = [replica |-> n, clock |-> clock[n] + 1],
           values' = [values EXCEPT ![n] = (@ \ removed) \cup new],
           gone' = [gone EXCEPT ![n] = @ \cup TagsOf(removed)],
           \A r \in Node : r # n => context'[n][r] = context[n][r],
           context[n][n] <= context'[n][n],
           context'[m] = context[m],
           msg.type = "delta", msg.joins = new, msg.leaves = TagsOf(removed), msg.context = context'[n],
           Longer(Way(n, m), Way(n, m)', msg), Way(m, n)' = Way(m, n),
           removed # {} \/ new # {} => \E i \in DOMAIN Way(n, m)' : i \notin DOMAIN Way(n, m),
           new # {} => \A i, j \in DOMAIN Way(n, m)' :
                           i \notin DOMAIN Way(n, m) /\ j \notin DOMAIN Way(n, m) => i = j,
           DOMAIN Way(n, m)' \subseteq Nat
    PROVE  /\ Passing(n, m)' /\ StillNews(n, m)' /\ Revoked(n, m)' /\ WillAgree(n, m)'
           /\ Passing(m, n)' /\ StillNews(m, n)' /\ Revoked(m, n)' /\ WillAgree(m, n)'
<1>1. /\ values'[n] = (values[n] \ removed) \cup new /\ values'[m] = values[m]
      /\ gone'[n] = gone[n] \cup TagsOf(removed) /\ gone'[m] = gone[m]
    BY DEF Inv, CrdtInv, CrdtType
<1>2. /\ \A r, x \in Node : context[x][r] \in Nat /\ context'[x][r] \in Nat /\ clock[r] \in Nat
      /\ \A r, x \in Node : context[x][r] <= clock[r]
    BY DEF Inv, CrdtInv, CrdtType, Ceiling, Context
<1>3. PICK W, V : W = Way(n, m) /\ V = Way(n, m)'
    OBVIOUS
<1>4. /\ \A i \in DOMAIN W : i \in DOMAIN V /\ V[i] = W[i]
      /\ \A i \in DOMAIN V : i \notin DOMAIN W => V[i] = msg /\ \A j \in DOMAIN W : j < i
    BY <1>3 DEF Longer
<1>5. \A i \in DOMAIN W : \A r \in Node : W[i].context[r] <= context[n][r] /\ W[i].context[r] \in Nat
    BY <1>3, PairContexts DEF Agreed, Passing
<1>6. Passing(n, m)'
  <2> SUFFICES ASSUME NEW i \in DOMAIN V
               PROVE  /\ V[i].type = "delta"
                      /\ \A e \in V[i].joins : e.tag.replica = n
                      /\ V[i].leaves \subseteq gone'[n]
                      /\ \A r \in Node : V[i].context[r] <= context'[n][r]
      BY <1>3 DEF Passing
  <2>1. CASE i \in DOMAIN W
    <3>1. \A r \in Node : context[n][r] <= context'[n][r]
        BY <1>2
    <3>2. \A r \in Node : W[i].context[r] <= context'[n][r]
        BY <1>2, <1>5, <2>1, <3>1
    <3> QED
        BY <1>1, <1>3, <1>4, <2>1, <3>2 DEF Agreed, Passing
  <2>2. CASE i \notin DOMAIN W
    <3>1. V[i] = msg
        BY <1>4, <2>2
    <3> QED
        BY <1>1, <1>2, <3>1
  <2> QED
      BY <2>1, <2>2
<1>7. StillNews(n, m)'
  <2> SUFFICES ASSUME NEW i \in DOMAIN V, NEW e \in V[i].joins
               PROVE  /\ e.tag.clock > context'[m][n]
                      /\ \A j \in DOMAIN V : j < i => V[j].context[n] < e.tag.clock
      BY <1>3 DEF StillNews
  <2>1. CASE i \in DOMAIN W
    <3>1. \A j \in DOMAIN V : j < i => j \in DOMAIN W
        BY <1>3, <1>4, <2>1
    <3> QED
        BY <1>3, <1>4, <2>1, <3>1 DEF Agreed, StillNews
  <2>2. CASE i \notin DOMAIN W
    <3>1. e \in new /\ e.tag.clock = clock[n] + 1
        BY <1>4, <2>2
    <3>2. \A j \in DOMAIN V : j < i => j \in DOMAIN W
        BY <1>3, <2>2, <3>1
    <3>3. \A j \in DOMAIN W : V[j].context[n] < e.tag.clock
        BY <1>2, <1>4, <1>5, <3>1
    <3> QED
        BY <1>2, <3>1, <3>2, <3>3
  <2> QED
      BY <2>1, <2>2
<1>8. \A e \in removed : \E j \in DOMAIN V : e.tag \in V[j].leaves /\ \A i \in DOMAIN W : i < j
    BY <1>3, <1>4 DEF TagsOf
<1>9. Revoked(n, m)'
  <2> SUFFICES ASSUME NEW i \in DOMAIN V, NEW e \in V[i].joins, e \notin values'[n]
               PROVE  \E j \in DOMAIN V : i < j /\ e.tag \in V[j].leaves
      BY <1>3 DEF Revoked
  <2>1. i \in DOMAIN W
      BY <1>1, <1>4
  <2>2. e \in values[n] \/ \E j \in DOMAIN W : i < j /\ e.tag \in W[j].leaves
      BY <1>3, <1>4, <2>1 DEF Agreed, Revoked
  <2> QED
      BY <1>1, <1>4, <1>8, <2>1, <2>2
<1>10. WillAgree(n, m)'
  <2> SUFFICES ASSUME NEW e \in values'[n], e \notin values'[m]
               PROVE  \/ \E i \in DOMAIN V : e \in V[i].joins
                      \/ \E i \in DOMAIN Way(m, n) : e.tag \in Way(m, n)[i].leaves
      BY <1>3 DEF WillAgree
  <2>1. CASE e \in new
      BY <1>3, <1>4, <2>1
  <2>2. CASE e \in values[n]
    <3>1. \/ \E i \in DOMAIN W : e \in W[i].joins
          \/ \E i \in DOMAIN Way(m, n) : e.tag \in Way(m, n)[i].leaves
        BY <1>1, <1>3, <2>2 DEF Agreed, WillAgree
    <3> QED
        BY <1>4, <3>1
  <2> QED
      BY <1>1, <2>1, <2>2
<1>11. Passing(m, n)' /\ StillNews(m, n)' /\ Revoked(m, n)'
    BY <1>1 DEF Agreed, Passing, StillNews, Revoked
<1>12. WillAgree(m, n)'
  <2> SUFFICES ASSUME NEW e \in values'[m], e \notin values'[n]
               PROVE  \/ \E i \in DOMAIN Way(m, n) : e \in Way(m, n)[i].joins
                      \/ \E i \in DOMAIN V : e.tag \in V[i].leaves
      BY <1>3 DEF WillAgree
  <2>1. CASE e \in values[n]
      BY <1>1, <1>8, <2>1
  <2>2. CASE e \notin values[n]
    <3>1. \/ \E i \in DOMAIN Way(m, n) : e \in Way(m, n)[i].joins
          \/ \E i \in DOMAIN W : e.tag \in W[i].leaves
        BY <1>1, <1>3, <2>2 DEF Agreed, WillAgree
    <3> QED
        BY <1>4, <3>1
  <2> QED
      BY <2>1, <2>2
<1> QED
    BY <1>6, <1>7, <1>9, <1>10, <1>11, <1>12

(* m takes the first message on its way from n.                              *)
LEMMA PairMerge ==
    ASSUME Inv, NEW n \in Node, NEW m \in Node, n # m, Agreed(n, m), Agreed(m, n),
           Shorter(Way(n, m), Way(n, m)'), Way(m, n)' = Way(m, n), Merge(m, Way(n, m)[1])
    PROVE  /\ Passing(n, m)' /\ StillNews(n, m)' /\ Revoked(n, m)' /\ WillAgree(n, m)'
           /\ Passing(m, n)' /\ StillNews(m, n)' /\ Revoked(m, n)' /\ WillAgree(m, n)'
<1>1. PICK W, V, msg : W = Way(n, m) /\ V = Way(n, m)' /\ msg = Way(n, m)[1]
    OBVIOUS
<1>2. /\ \A i \in DOMAIN V : i + 1 \in DOMAIN W /\ V[i] = W[i + 1]
      /\ \A i \in DOMAIN W : i = 1 \/ i - 1 \in DOMAIN V
      /\ DOMAIN W \subseteq Nat \ {0} /\ DOMAIN V \subseteq Nat \ {0} /\ 1 \in DOMAIN W /\ W[1] = msg
    BY <1>1 DEF Shorter
<1>3. /\ \A i \in DOMAIN W : \A r \in Node : W[i].context[r] \in Nat
      /\ msg \in GoodMessage(clock)
    BY <1>1, <1>2, PairContexts
<1>4. /\ msg.joins \subseteq TrackedEntry /\ msg.leaves \subseteq Tag /\ \A r \in Node : msg.context[r] \in Nat
      /\ \A t \in msg.leaves : t.clock <= msg.context[t.replica]
      /\ TagsOf(msg.joins) \cap msg.leaves = {}
    BY <1>3 DEF GoodMessage, Message, Context
<1>5. /\ values \in [Node -> SUBSET TrackedEntry] /\ gone \in [Node -> SUBSET Tag]
      /\ context \in [Node -> Context] /\ \A x, r \in Node : context[x][r] \in Nat
    BY DEF Inv, CrdtInv, CrdtType, Context
<1>6. /\ values'[m] = Kept(m, msg) \cup News(m, msg) /\ values'[n] = values[n]
      /\ gone'[m] = gone[m] \cup msg.leaves /\ gone'[n] = gone[n]
      /\ context'[m] = [r \in Node |-> Later(context[m][r], msg.context[r])] /\ context'[n] = context[n]
    BY <1>1, <1>5 DEF Merge
<1>7. \A r \in Node : /\ context'[m][r] = context[m][r] \/ context'[m][r] = msg.context[r]
                      /\ context[m][r] <= context'[m][r] /\ context'[m][r] \in Nat
    BY <1>4, <1>5, <1>6 DEF Later
<1>8. /\ \A e \in msg.joins : e.tag.replica = n /\ e.tag.clock > context[m][n]
      /\ msg.leaves \subseteq gone[n] /\ \A r \in Node : msg.context[r] <= context[n][r]
    BY <1>1, <1>2 DEF Agreed, Passing, StillNews
<1>9. News(m, msg) = msg.joins
    BY <1>8 DEF News
<1>10. Passing(n, m)'
    BY <1>1, <1>2, <1>6 DEF Agreed, Passing
<1>11. StillNews(n, m)'
  <2> SUFFICES ASSUME NEW i \in DOMAIN V, NEW e \in V[i].joins
               PROVE  /\ e.tag.clock > context'[m][n]
                      /\ \A j \in DOMAIN V : j < i => V[j].context[n] < e.tag.clock
      BY <1>1 DEF StillNews
  <2>1. /\ i + 1 \in DOMAIN W /\ e \in W[i + 1].joins /\ 1 < i + 1
        /\ \A j \in DOMAIN V : j < i => j + 1 \in DOMAIN W /\ j + 1 < i + 1 /\ V[j] = W[j + 1]
    <3>1. i \in Nat /\ i + 1 \in Nat /\ i # 0
        BY <1>2
    <3> QED
        BY <1>2, <3>1
  <2>2. /\ e.tag.clock > context[m][n]
        /\ \A j \in DOMAIN W : j < i + 1 => W[j].context[n] < e.tag.clock
      BY <1>1, <2>1 DEF Agreed, StillNews
  <2>3. msg.context[n] < e.tag.clock
      BY <1>2, <2>1, <2>2
  <2>4. e.tag.clock > context'[m][n]
      BY <1>4, <1>5, <1>7, <2>2, <2>3
  <2> QED
      BY <2>1, <2>2, <2>4
<1>12. Revoked(n, m)'
  <2> SUFFICES ASSUME NEW i \in DOMAIN V, NEW e \in V[i].joins, e \notin values[n]
               PROVE  \E j \in DOMAIN V : i < j /\ e.tag \in V[j].leaves
      BY <1>1, <1>6 DEF Revoked
  <2>1. PICK j \in DOMAIN W : i + 1 < j /\ e.tag \in W[j].leaves
      BY <1>1, <1>2 DEF Agreed, Revoked
  <2>2. j - 1 \in DOMAIN V /\ i < j - 1 /\ V[j - 1] = W[j]
      BY <1>2, <2>1
  <2> QED
      BY <2>1, <2>2
<1>13. WillAgree(n, m)'
  <2> SUFFICES ASSUME NEW e \in values[n], e \notin values'[m]
               PROVE  \/ \E i \in DOMAIN V : e \in V[i].joins
                      \/ \E i \in DOMAIN Way(m, n) : e.tag \in Way(m, n)[i].leaves
      BY <1>1, <1>6 DEF WillAgree
  <2>1. e.tag \notin gone[n]
      BY DEF Inv, CrdtInv, RemovedStaysRemoved, TagsOf
  <2>2. e \notin values[m]
      BY <1>6, <1>8, <2>1 DEF Kept
  <2>3. \/ \E i \in DOMAIN W : e \in W[i].joins
        \/ \E i \in DOMAIN Way(m, n) : e.tag \in Way(m, n)[i].leaves
      BY <1>1, <2>2 DEF Agreed, WillAgree
  <2>4. ASSUME NEW i \in DOMAIN W, e \in W[i].joins
        PROVE  i - 1 \in DOMAIN V /\ V[i - 1] = W[i]
    <3>1. i # 1
        BY <1>2, <1>6, <1>9, <2>4
    <3> QED
        BY <1>2, <3>1
  <2> QED
      BY <2>3, <2>4
<1>14. Passing(m, n)'
  <2>1. \A i \in DOMAIN Way(m, n) : \A r \in Node :
            Way(m, n)[i].context[r] <= context[m][r] /\ Way(m, n)[i].context[r] \in Nat
      BY PairContexts DEF Agreed, Passing
  <2>2. \A i \in DOMAIN Way(m, n) : \A r \in Node : Way(m, n)[i].context[r] <= context'[m][r]
      BY <1>5, <1>7, <2>1
  <2> QED
      BY <1>6, <2>2 DEF Agreed, Passing
<1>15. StillNews(m, n)'
    BY <1>6 DEF Agreed, StillNews
<1>16. Revoked(m, n)'
  <2> SUFFICES ASSUME NEW i \in DOMAIN Way(m, n), NEW e \in Way(m, n)[i].joins, e \in values[m]
               PROVE  e \in values'[m]
      BY DEF Agreed, Revoked
  <2>1. e.tag.replica = m /\ e.tag.clock > context[n][m]
      BY DEF Agreed, Passing, StillNews
  <2>2. e.tag.clock \in Nat
      BY <1>5 DEF TrackedEntry, Tag
  <2>3. e.tag \notin msg.leaves
      BY <1>4, <1>5, <1>8, <2>1, <2>2
  <2> QED
      BY <1>6, <2>3 DEF Kept
<1>17. WillAgree(m, n)'
  <2> SUFFICES ASSUME NEW e \in values'[m], e \notin values[n]
               PROVE  \/ \E i \in DOMAIN Way(m, n) : e \in Way(m, n)[i].joins
                      \/ \E i \in DOMAIN V : e.tag \in V[i].leaves
      BY <1>1, <1>6 DEF WillAgree
  <2>1. CASE e \in Kept(m, msg)
    <3>1. \/ \E i \in DOMAIN Way(m, n) : e \in Way(m, n)[i].joins
          \/ \E i \in DOMAIN W : e.tag \in W[i].leaves
        BY <1>1, <2>1 DEF Agreed, WillAgree, Kept
    <3>2. ASSUME NEW i \in DOMAIN W, e.tag \in W[i].leaves
          PROVE  i - 1 \in DOMAIN V /\ V[i - 1] = W[i]
      <4>1. i # 1
          BY <1>2, <2>1, <3>2 DEF Kept
      <4> QED
          BY <1>2, <4>1
    <3> QED
        BY <3>1, <3>2
  <2>2. CASE e \in News(m, msg)
    <3>1. PICK j \in DOMAIN W : 1 < j /\ e.tag \in W[j].leaves
        BY <1>1, <1>2, <1>9, <2>2 DEF Agreed, Revoked
    <3>2. j - 1 \in DOMAIN V /\ V[j - 1] = W[j]
        BY <1>2, <3>1
    <3> QED
        BY <3>1, <3>2
  <2> QED
      BY <1>6, <2>1, <2>2
<1> QED
    BY <1>10, <1>11, <1>12, <1>13, <1>14, <1>15, <1>16, <1>17

-----------------------------------------------------------------------------
(* n sends to the members of its group, of which m is one.                   *)
LEMMA PairSends ==
    ASSUME Inv, NEW n \in Node, NEW m \in Node, n # m, Agreed(n, m), Agreed(m, n), Stable = {n, m},
           NEW x \in Seq(Message), NEW msg, \A i \in DOMAIN x : x[i] = msg,
           Send(n, members[n], x), UNCHANGED <<netVars, monitorVars, mailbox>>
    PROVE  /\ Connected(n, m)' /\ Connected(m, n)'
           /\ Longer(Way(n, m), Way(n, m)', msg) /\ Way(m, n)' = Way(m, n)
           /\ x # <<>> => \E i \in DOMAIN Way(n, m)' : i \notin DOMAIN Way(n, m)
           /\ Len(x) <= 1 => \A i, j \in DOMAIN Way(n, m)' :
                 i \notin DOMAIN Way(n, m) /\ j \notin DOMAIN Way(n, m) => i = j
           /\ DOMAIN Way(n, m)' \subseteq Nat
<1>1. wire \in [Node -> [Node -> Seq(Message)]] /\ mailbox \in [Node -> Seq(Message)]
  <2>1. GoodMessage(clock) \subseteq Message
      BY DEF GoodMessage
  <2>2. Seq(GoodMessage(clock)) \subseteq Seq(Message)
      BY <2>1, SeqWidens
  <2> QED
      BY <2>2 DEF Inv, NetInv
<1>2. /\ \A y \in Node : wire'[n][y] = IF y \in members[n] /\ Arrives(n, y)
                                       THEN wire[n][y] \o x ELSE wire[n][y]
      /\ \A z \in Node \ {n} : wire'[z] = wire[z]
    BY <1>1 DEF Send
<1>3. Arrives(n, m) /\ m \in members[n] /\ ~Arrives(n, n)
    BY DEF Agreed, Connected, Arrives
<1>4. wire'[n][m] = wire[n][m] \o x /\ wire'[n][n] = wire[n][n] /\ wire'[m] = wire[m] /\ mailbox' = mailbox
    BY <1>2, <1>3
<1>5. Way(n, m) = mailbox[m] \o wire[n][m] /\ Way(n, m)' = mailbox[m] \o (wire[n][m] \o x)
    BY <1>4 DEF Way
<1>6. Way(m, n)' = Way(m, n)
    BY <1>4 DEF Way
<1>7. mailbox[m] \in Seq(Message) /\ wire[n][m] \in Seq(Message) /\ wire[n][m] \o x \in Seq(Message)
    BY <1>1, ConcatProperties
<1>8. DOMAIN Way(n, m)' \subseteq Nat
  <2>1. Way(n, m)' \in Seq(Message)
      BY <1>5, <1>7, ConcatProperties
  <2> QED
      BY <2>1, LenProperties
<1>9. Connected(n, m)' /\ Connected(m, n)'
    BY <1>2, <1>4 DEF Agreed, Connected, netVars, monitorVars
<1>10. PICK s, w : s = mailbox[m] /\ w = wire[n][m]
    OBVIOUS
<1>11. /\ Longer(s \o w, s \o (w \o x), msg)
       /\ x # <<>> => \E i \in DOMAIN (s \o (w \o x)) : i \notin DOMAIN (s \o w)
       /\ Len(x) <= 1 => \A i, j \in DOMAIN (s \o (w \o x)) :
             i \notin DOMAIN (s \o w) /\ j \notin DOMAIN (s \o w) => i = j
  <2>1. s \in Seq(Message) /\ w \in Seq(Message)
      BY <1>7, <1>10
  <2>2. \A i \in DOMAIN x : x[i] = msg
      OBVIOUS
  <2> QED
      BY <2>1, <2>2, SendingWay
<1>12. Way(n, m) = s \o w /\ Way(n, m)' = s \o (w \o x)
    BY <1>5, <1>10
<1> QED
    BY <1>6, <1>8, <1>9, <1>11, <1>12

(* Nothing happens to the two.                                               *)
LEMMA PairRests ==
    ASSUME NEW n \in Node, NEW m \in Node, Agreed(n, m), Agreed(m, n),
           UNCHANGED <<wire, mailbox, values, gone, context, up, members, monitored>>
    PROVE  Agreed(n, m)' /\ Agreed(m, n)'
<1>1. ASSUME NEW x, NEW y, Agreed(x, y) PROVE Agreed(x, y)'
  <2>1. Way(x, y)' = Way(x, y) /\ Way(y, x)' = Way(y, x)
      BY DEF Way
  <2>2. Connected(x, y)'
      BY <1>1 DEF Agreed, Connected
  <2>3. Passing(x, y)'
      BY <1>1, <2>1 DEF Agreed, Passing
  <2>4. StillNews(x, y)'
      BY <1>1, <2>1 DEF Agreed, StillNews
  <2>5. Revoked(x, y)' /\ WillAgree(x, y)'
      BY <1>1, <2>1 DEF Agreed, Revoked, WillAgree
  <2> QED
      BY <2>2, <2>3, <2>4, <2>5 DEF Agreed
<1> QED
    BY <1>1

LEMMA PairCalls ==
    ASSUME Inv, Inv', NEW n \in Node, NEW m \in Node, n # m, Agreed(n, m), Agreed(m, n), Stable = {n, m},
           Client(n)
    PROVE  Agreed(n, m)' /\ Agreed(m, n)'
<1>1. /\ values \in [Node -> SUBSET TrackedEntry] /\ gone \in [Node -> SUBSET Tag]
      /\ context \in [Node -> Context] /\ clock \in Context
      /\ \A x, r \in Node : context[x][r] \in Nat /\ context[x][r] <= clock[r] /\ clock[r] \in Nat
    BY DEF Inv, CrdtInv, CrdtType, Ceiling, Context
<1>2. ASSUME NEW slot \in Slot, NEW p \in Pid, Track(n, slot, p) \/ Update(n, slot, p)
      PROVE  Agreed(n, m)' /\ Agreed(m, n)'
  <2>1. PICK removed \in SUBSET values[n] :
            /\ values' = [values EXCEPT ![n] = (@ \ removed) \cup {NewEntry(n, slot, p)}]
            /\ gone' = [gone EXCEPT ![n] = @ \cup TagsOf(removed)]
            /\ Send(n, members[n], <<Delta(n, {NewEntry(n, slot, p)}, TagsOf(removed), context'[n])>>)
    <3>1. CASE Track(n, slot, p)
      <4>1. {} \in SUBSET values[n] /\ values[n] \ {} = values[n] /\ TagsOf({}) = {}
          BY DEF TagsOf
      <4>2. gone' = [gone EXCEPT ![n] = @ \cup {}]
          BY <1>1, <3>1 DEF Track
      <4> QED
          BY <3>1, <4>1, <4>2 DEF Track, Broadcast
    <3>2. CASE Update(n, slot, p)
        BY <3>2 DEF Update, Held, Broadcast
    <3> QED
        BY <1>2, <3>1, <3>2
  <2>2. Stamp(n, slot, p) /\ UNCHANGED <<netVars, monitorVars, mailbox>>
      BY <1>2 DEF Track, Update
  <2>3. PICK msg : msg = Delta(n, {NewEntry(n, slot, p)}, TagsOf(removed), context'[n])
      OBVIOUS
  <2>4. msg \in Message
      BY <2>1, <2>2, <2>3, StampKeeps DEF Inv, GoodMessage
  <2>5. <<msg>> \in Seq(Message) /\ Len(<<msg>>) <= 1 /\ <<msg>> # <<>> /\ \A i \in DOMAIN <<msg>> : <<msg>>[i] = msg
      BY <2>4
  <2>6. /\ Connected(n, m)' /\ Connected(m, n)'
        /\ Longer(Way(n, m), Way(n, m)', msg) /\ Way(m, n)' = Way(m, n)
        /\ \E i \in DOMAIN Way(n, m)' : i \notin DOMAIN Way(n, m)
        /\ \A i, j \in DOMAIN Way(n, m)' : i \notin DOMAIN Way(n, m) /\ j \notin DOMAIN Way(n, m) => i = j
        /\ DOMAIN Way(n, m)' \subseteq Nat
    <3>1. PICK x : x = <<msg>>
        OBVIOUS
    <3>2. /\ x \in Seq(Message) /\ Len(x) <= 1 /\ x # <<>> /\ \A i \in DOMAIN x : x[i] = msg
          /\ Send(n, members[n], x)
        BY <2>1, <2>3, <2>5, <3>1
    <3> QED
      <4>1. /\ Connected(n, m)' /\ Connected(m, n)'
            /\ Longer(Way(n, m), Way(n, m)', msg) /\ Way(m, n)' = Way(m, n)
            /\ x # <<>> => \E i \in DOMAIN Way(n, m)' : i \notin DOMAIN Way(n, m)
            /\ Len(x) <= 1 => \A i, j \in DOMAIN Way(n, m)' :
                 i \notin DOMAIN Way(n, m) /\ j \notin DOMAIN Way(n, m) => i = j
            /\ DOMAIN Way(n, m)' \subseteq Nat
        <5>1. x \in Seq(Message)
            BY <3>2
        <5>2. \A i \in DOMAIN x : x[i] = msg
            BY <3>2
        <5>3. Send(n, members[n], x)
            BY <3>2
        <5>4. UNCHANGED <<netVars, monitorVars, mailbox>>
            BY <2>2
        <5> QED
            BY <5>1, <5>2, <5>3, <5>4, PairSends
      <4> QED
          BY <3>2, <4>1
  <2>7. /\ \A r \in Node : r # n => context'[n][r] = context[n][r]
        /\ context[n][n] <= context'[n][n] /\ context'[m] = context[m]
      BY <1>1, <2>2 DEF Stamp, Context
  <2>8. /\ msg.type = "delta" /\ msg.joins = {NewEntry(n, slot, p)} /\ msg.leaves = TagsOf(removed)
        /\ msg.context = context'[n]
      BY <2>3 DEF Delta
  <2>9. \A e \in {NewEntry(n, slot, p)} : e.tag = [replica |-> n, clock |-> clock[n] + 1]
      BY DEF NewEntry
  <2> QED
    <3>1. PICK new : new = {NewEntry(n, slot, p)}
        OBVIOUS
    <3>2. /\ values' = [values EXCEPT ![n] = (@ \ removed) \cup new] /\ msg.joins = new
          /\ \A e \in new : e.tag = [replica |-> n, clock |-> clock[n] + 1]
        BY <2>1, <2>8, <2>9, <3>1
    <3>3. /\ Passing(n, m)' /\ StillNews(n, m)' /\ Revoked(n, m)' /\ WillAgree(n, m)'
          /\ Passing(m, n)' /\ StillNews(m, n)' /\ Revoked(m, n)' /\ WillAgree(m, n)'
      <4>1. gone' = [gone EXCEPT ![n] = @ \cup TagsOf(removed)]
          BY <2>1
      <4>2. msg.type = "delta" /\ msg.leaves = TagsOf(removed) /\ msg.context = context'[n]
          BY <2>8
      <4>3. /\ Longer(Way(n, m), Way(n, m)', msg) /\ Way(m, n)' = Way(m, n)
            /\ removed # {} \/ new # {} => \E i \in DOMAIN Way(n, m)' : i \notin DOMAIN Way(n, m)
            /\ new # {} => \A i, j \in DOMAIN Way(n, m)' :
                               i \notin DOMAIN Way(n, m) /\ j \notin DOMAIN Way(n, m) => i = j
            /\ DOMAIN Way(n, m)' \subseteq Nat
          BY <2>6
      <4> QED
          BY <2>7, <3>2, <4>1, <4>2, <4>3, PairCall
    <3> QED
        BY <2>6, <3>3 DEF Agreed
<1>3. ASSUME NEW removed \in SUBSET values[n], NEW x \in Seq(Message), NEW msg,
             msg = Delta(n, {}, TagsOf(removed), context[n]), \A i \in DOMAIN x : x[i] = msg,
             removed # {} => x # <<>>,
             values' = [values EXCEPT ![n] = @ \ removed],
             gone' = [gone EXCEPT ![n] = @ \cup TagsOf(removed)],
             Send(n, members[n], x), UNCHANGED <<netVars, monitorVars, mailbox, context>>
      PROVE  Agreed(n, m)' /\ Agreed(m, n)'
  <2>1. /\ Connected(n, m)' /\ Connected(m, n)'
        /\ Longer(Way(n, m), Way(n, m)', msg) /\ Way(m, n)' = Way(m, n)
        /\ removed # {} => \E i \in DOMAIN Way(n, m)' : i \notin DOMAIN Way(n, m)
        /\ DOMAIN Way(n, m)' \subseteq Nat
    <3>1. UNCHANGED <<netVars, monitorVars, mailbox>>
        BY <1>3
    <3>2. /\ Connected(n, m)' /\ Connected(m, n)'
          /\ Longer(Way(n, m), Way(n, m)', msg) /\ Way(m, n)' = Way(m, n)
          /\ x # <<>> => \E i \in DOMAIN Way(n, m)' : i \notin DOMAIN Way(n, m)
          /\ DOMAIN Way(n, m)' \subseteq Nat
      <4>1. \A i \in DOMAIN x : x[i] = msg
          BY <1>3
      <4>2. Send(n, members[n], x)
          BY <1>3
      <4> QED
          BY <3>1, <4>1, <4>2, PairSends
    <3> QED
        BY <1>3, <3>2
  <2>2. msg.type = "delta" /\ msg.joins = {} /\ msg.leaves = TagsOf(removed) /\ msg.context = context'[n]
      BY <1>3 DEF Delta
  <2>3. values' = [values EXCEPT ![n] = (@ \ removed) \cup {}]
      BY <1>3
  <2>4. /\ context[n][n] <= context'[n][n] /\ context'[m] = context[m]
        /\ \A r \in Node : r # n => context'[n][r] = context[n][r]
      BY <1>1, <1>3
  <2>5. PICK new : new = {}
      OBVIOUS
  <2>6. /\ gone' = [gone EXCEPT ![n] = @ \cup TagsOf(removed)]
        /\ \A e \in new : e.tag = [replica |-> n, clock |-> clock[n] + 1]
        /\ values' = [values EXCEPT ![n] = (@ \ removed) \cup new] /\ msg.joins = new
        /\ removed # {} \/ new # {} => removed # {}
        /\ new # {} => \A i, j \in DOMAIN Way(n, m)' :
                           i \notin DOMAIN Way(n, m) /\ j \notin DOMAIN Way(n, m) => i = j
      BY <1>3, <2>2, <2>3, <2>5
  <2>7. /\ Passing(n, m)' /\ StillNews(n, m)' /\ Revoked(n, m)' /\ WillAgree(n, m)'
        /\ Passing(m, n)' /\ StillNews(m, n)' /\ Revoked(m, n)' /\ WillAgree(m, n)'
      BY <2>1, <2>2, <2>4, <2>6, PairCall
  <2> QED
      BY <2>1, <2>7 DEF Agreed
<1>4. ASSUME NEW slot \in Slot, NEW p \in Pid, Untrack(n, slot, p)
      PROVE  Agreed(n, m)' /\ Agreed(m, n)'
  <2>1. PICK removed, msg : removed = Held(n, slot, p) /\ msg = Delta(n, {}, TagsOf(removed), context[n])
      OBVIOUS
  <2>2. removed \in SUBSET values[n]
      BY <2>1 DEF Held
  <2>3. msg \in Message
      BY <2>1, <2>2, LeavesGood DEF Inv, GoodMessage
  <2>4. /\ values' = [values EXCEPT ![n] = @ \ removed]
        /\ gone' = [gone EXCEPT ![n] = @ \cup TagsOf(removed)]
        /\ UNCHANGED <<netVars, monitorVars, mailbox, context>>
      BY <1>4, <2>1 DEF Untrack
  <2>5. CASE removed # {}
    <3>1. Send(n, members[n], <<msg>>)
        BY <1>4, <2>1, <2>5 DEF Untrack, Broadcast
    <3>2. <<msg>> \in Seq(Message) /\ <<msg>> # <<>> /\ \A i \in DOMAIN <<msg>> : <<msg>>[i] = msg
        BY <2>3
    <3> QED
      <4>1. PICK x : x = <<msg>>
          OBVIOUS
      <4>2. x \in Seq(Message) /\ x # <<>> /\ (\A i \in DOMAIN x : x[i] = msg) /\ Send(n, members[n], x)
          BY <3>1, <3>2, <4>1
      <4> QED
          BY <1>3, <2>1, <2>2, <2>4, <4>2
  <2>6. CASE removed = {}
    <3>1. UNCHANGED wire /\ values' = values /\ gone' = gone
      <4>1. TagsOf({}) = {}
          BY DEF TagsOf
      <4> QED
          BY <1>1, <1>4, <2>1, <2>4, <2>6, <4>1 DEF Untrack
    <3> QED
        BY <2>4, <3>1, PairRests DEF netVars, monitorVars
  <2> QED
      BY <2>5, <2>6
<1>5. ASSUME NEW p \in Pid, UntrackAll(n, p)
      PROVE  Agreed(n, m)' /\ Agreed(m, n)'
  <2>1. PICK removed, msg, k, topics :
            /\ removed = {e \in values[n] : e.pid = p /\ e.slot \in pidIndex[n][p]}
            /\ msg = Delta(n, {}, TagsOf(removed), context[n])
            /\ topics = {e.slot[1] : e \in removed} /\ k = Cardinality(topics)
      OBVIOUS
  <2>2. removed \in SUBSET values[n]
      BY <2>1
  <2>3. msg \in Message
      BY <2>1, <2>2, LeavesGood DEF Inv, GoodMessage
  <2>4. /\ values' = [values EXCEPT ![n] = @ \ removed]
        /\ gone' = [gone EXCEPT ![n] = @ \cup TagsOf(removed)]
        /\ UNCHANGED <<netVars, monitorVars, mailbox, context>>
        /\ Send(n, members[n], [i \in 1 .. k |-> msg])
      BY <1>5, <2>1 DEF UntrackAll
  <2>5. k \in Nat /\ (removed # {} => k # 0)
    <3>1. topics \subseteq Topic
        BY <1>1, <2>1, <2>2 DEF TrackedEntry, Slot
    <3>2. IsFiniteSet(topics)
        BY <3>1, PresenceAssumption, FS_Subset
    <3>3. removed # {} => topics # {}
        BY <2>1
    <3> QED
        BY <2>1, <3>2, <3>3, FS_CardinalityType, FS_EmptySet
  <2>6. PICK x : x = [i \in 1 .. k |-> msg]
      OBVIOUS
  <2>7. x \in Seq(Message) /\ (removed # {} => x # <<>>) /\ \A i \in DOMAIN x : x[i] = msg
      BY <2>3, <2>5, <2>6
  <2> QED
      BY <1>3, <2>1, <2>2, <2>4, <2>6, <2>7
<1> QED
    BY <1>2, <1>4, <1>5 DEF Client

(* m handles what is in its mailbox, all of it deltas of n.                  *)
LEMMA PairHandles ==
    ASSUME Inv, NEW n \in Node, NEW m \in Node, n # m, Agreed(n, m), Agreed(m, n), Stable = {n, m},
           Together, Together', Server(m)
    PROVE  Agreed(n, m)' /\ Agreed(m, n)'
<1>1. ~CompleteInit(m)
    BY DEF CompleteInit, Together
<1>2. mailbox[m] # <<>> /\ mailbox' = [mailbox EXCEPT ![m] = Tail(@)]
    BY <1>1 DEF Server, HandleDelta, HandleSyncRequest, HandleSyncResponse, HandleNodeDown, Receive
<1>3. PICK G : G = GoodMessage(clock)
    OBVIOUS
<1>4. wire \in [Node -> [Node -> Seq(G)]] /\ mailbox \in [Node -> Seq(G)]
    BY <1>3 DEF Inv, NetInv
<1>5. mailbox[m] \in Seq(G) /\ wire[n][m] \in Seq(G)
    BY <1>4
<1>6. Shorter(Way(n, m), Tail(mailbox[m]) \o wire[n][m]) /\ Way(n, m)[1] = Head(mailbox[m])
    BY <1>2, <1>5, TakingWay DEF Way
<1>7. 1 \in DOMAIN Way(n, m)
    BY <1>6 DEF Shorter
<1>8. Head(mailbox[m]).type = "delta"
    BY <1>6, <1>7 DEF Agreed, Passing
<1>9. HandleDelta(m)
    BY <1>1, <1>8 DEF Server, HandleSyncRequest, HandleSyncResponse, HandleNodeDown, Receive
<1>10. {e.tag.replica : e \in Head(mailbox[m]).joins} \ (monitored[m] \cup {m}) = {}
    BY <1>6, <1>7 DEF Agreed, Passing, Connected
<1>11. Merge(m, Way(n, m)[1]) /\ Watch(m, {}) /\ UNCHANGED netVars
    BY <1>6, <1>9, <1>10 DEF HandleDelta
<1>12. wire' = wire
  <2>1. {} \cap members[m] = {}
      OBVIOUS
  <2>2. wire' = wire \/ \E x : Send(m, {}, x)
      BY <1>9, <1>10, <2>1 DEF HandleDelta
  <2>3. ASSUME NEW x, Send(m, {}, x) PROVE wire' = wire
    <3>1. [y \in Node |-> IF y \in {} /\ Arrives(m, y) THEN wire[m][y] \o x ELSE wire[m][y]] = wire[m]
        BY <1>4
    <3> QED
        BY <1>4, <2>3, <3>1 DEF Send
  <2> QED
      BY <2>2, <2>3
<1>13. Way(n, m)' = Tail(mailbox[m]) \o wire[n][m] /\ Way(m, n)' = Way(m, n)
    BY <1>2, <1>4, <1>12 DEF Way
<1>14. monitored' = monitored
    BY <1>11 DEF Watch, Inv, OtherType
<1>15. Connected(n, m)' /\ Connected(m, n)'
    BY <1>11, <1>12, <1>14 DEF Agreed, Connected, netVars
<1> QED
    BY <1>6, <1>11, <1>13, <1>15, PairMerge DEF Agreed

(* The network between the two, and between them and the others.             *)
LEMMA PairNetwork ==
    ASSUME Inv, NEW n \in Node, NEW m \in Node, n # m, Agreed(n, m), Agreed(m, n), Stable = {n, m},
           Together, Together', NEW x \in Node, NEW y \in Node, Network(x, y)
    PROVE  Connected(n, m)' /\ Way(n, m)' = Way(n, m)
<1>1. /\ wire \in [Node -> [Node -> Seq(GoodMessage(clock))]] /\ mailbox \in [Node -> Seq(GoodMessage(clock))]
      /\ up \in [Node -> SUBSET Node] /\ members \in [Node -> SUBSET Node] /\ drops \in Nat
    BY DEF Inv, NetInv, OtherType
<1>2. /\ m \in up[n] /\ n \in up[m] /\ n \notin up[n] /\ m \notin up[m]
      /\ m \in members[n] /\ m \in monitored[n]
      /\ \A z \in Node : z \notin Stable \/ z = m => wire[z][m] = <<>>
    BY DEF Agreed, Connected
<1>3. monitored' = monitored
    BY DEF Network, Deliver, Connect, Lose, monitorVars
<1>4. ~Lose(x, y)
    BY <1>1 DEF Lose, Together
<1>5. CASE Deliver(x, y)
  <2>1. /\ y = m => x = n
        /\ up' = up /\ \A z \in Node : members[z] \subseteq members'[z]
        /\ wire' = [wire EXCEPT ![x][y] = Tail(@)] /\ wire[x][y] # <<>>
    <3>1. x \in up[y] /\ wire[x][y] # <<>> /\ wire' = [wire EXCEPT ![x][y] = Tail(@)] /\ up' = up
        BY <1>5 DEF Deliver
    <3>2. y = m => x # m /\ x \in Stable
        BY <1>2, <3>1
    <3>3. \A z \in Node : members[z] \subseteq members'[z]
        BY <1>1, <1>5 DEF Deliver
    <3> QED
        BY <3>1, <3>2, <3>3
  <2>2. \A z \in Node : z \notin Stable \/ z = m => wire'[z][m] = <<>>
      BY <1>1, <1>2, <2>1
  <2>3. CASE y = m
    <3>1. Head(wire[n][m]) = Way(n, m)[Len(mailbox[m]) + 1] /\ Len(mailbox[m]) + 1 \in DOMAIN Way(n, m)
      <4>1. mailbox[m] \in Seq(GoodMessage(clock)) /\ wire[n][m] \in Seq(GoodMessage(clock)) /\ wire[n][m] # <<>>
          BY <1>1, <2>1, <2>3
      <4> QED
          BY <4>1, ComesNext DEF Way
    <3>2. Head(wire[n][m]).type = "delta"
        BY <3>1 DEF Agreed, Passing
    <3>3. mailbox'[m] = Append(mailbox[m], Head(wire[n][m])) /\ wire'[n][m] = Tail(wire[n][m])
        BY <1>1, <1>5, <2>1, <2>3, <3>2 DEF Deliver
    <3>4. Way(n, m)' = Way(n, m)
      <4>1. PICK s, w : s = mailbox[m] /\ w = wire[n][m]
          OBVIOUS
      <4>2. s \in Seq(GoodMessage(clock)) /\ w \in Seq(GoodMessage(clock)) /\ w # <<>>
          BY <1>1, <2>1, <2>3, <4>1
      <4>3. Append(s, Head(w)) \o Tail(w) = s \o w
          BY <4>2, DeliveringWay
      <4>4. Way(n, m)' = Append(s, Head(w)) \o Tail(w) /\ Way(n, m) = s \o w
          BY <3>3, <4>1 DEF Way
      <4> QED
          BY <4>3, <4>4
    <3> QED
        BY <1>2, <1>3, <2>1, <2>2, <3>4 DEF Connected
  <2>4. CASE y # m
    <3>1. mailbox'[m] = mailbox[m] /\ wire'[n][m] = wire[n][m]
      <4>1. mailbox' = mailbox \/ \E msgs : mailbox' = [mailbox EXCEPT ![y] = msgs]
          BY <1>5 DEF Deliver
      <4>2. mailbox'[m] = mailbox[m]
          BY <1>1, <2>4, <4>1
      <4>3. wire'[n][m] = wire[n][m]
          BY <1>1, <2>1, <2>4
      <4> QED
          BY <4>2, <4>3
    <3> QED
        BY <1>2, <1>3, <2>1, <2>2, <3>1 DEF Connected, Way
  <2> QED
      BY <2>3, <2>4
<1>6. CASE Connect(x, y)
  <2>1. /\ y \notin up[x] /\ x # y
        /\ up' = [up EXCEPT ![x] = @ \cup {y}, ![y] = @ \cup {x}]
        /\ members' = [members EXCEPT ![y] = @ \ {x}]
        /\ wire' = [wire EXCEPT ![x][y] = Greeting(x), ![y][x] = Greeting(y)] /\ mailbox' = mailbox
      BY <1>6 DEF Connect
  <2>2. ~(x = n /\ y = m) /\ ~(x = m /\ y = n)
      BY <1>2, <2>1
  <2>3. /\ x = m => y \notin Stable /\ Greeting(y) = <<>>
        /\ y = m => x \notin Stable /\ Greeting(x) = <<>>
        /\ x = n => y # m
        /\ y = n => x # m
      BY <2>1, <2>2 DEF Greeting, Together
  <2>4. m \in up'[n] /\ n \notin up'[n] /\ m \in members'[n]
      BY <1>1, <1>2, <2>1, <2>3
  <2>5. wire'[n][m] = wire[n][m]
      BY <1>1, <2>1, <2>2
  <2>6. \A z \in Node : wire'[z][m] = wire[z][m] \/ wire'[z][m] = <<>>
    <3>1. \A z \in Node : \/ wire'[z][m] = wire[z][m]
                          \/ z = x /\ m = y /\ wire'[z][m] = Greeting(x)
                          \/ z = y /\ m = x /\ wire'[z][m] = Greeting(y)
        BY <1>1, <2>1
    <3> QED
        BY <2>3, <3>1
  <2> QED
      BY <1>2, <1>3, <2>1, <2>4, <2>5, <2>6 DEF Connected, Way
<1> QED
    BY <1>4, <1>5, <1>6 DEF Network

-----------------------------------------------------------------------------
(* Servers start and connections get lost, and neither is undone.            *)
Grown == IsFiniteSet(started) /\ Stable \subseteq started

LEMMA GrownOn ==
    ASSUME NEW a \in Node, NEW b \in Node, Stable = {a, b}
    PROVE  /\ Init => Grown
           /\ Grown /\ [Next]_vars => Grown' /\ started \subseteq started'
<1>1. Init => Grown
  <2>1. IsFiniteSet({} \cup {a})
      BY FS_EmptySet, FS_AddElement
  <2>2. IsFiniteSet(({} \cup {a}) \cup {b})
      BY <2>1, FS_AddElement
  <2>3. ({} \cup {a}) \cup {b} = {a, b}
      OBVIOUS
  <2> QED
      BY <2>2, <2>3 DEF Init, Grown
<1>2. Grown /\ [Next]_vars => Grown' /\ started \subseteq started'
  <2> SUFFICES ASSUME Grown, [Next]_vars PROVE Grown' /\ started \subseteq started'
      OBVIOUS
  <2>1. started' = started \/ \E n \in Node : started' = started \cup {n}
    <3>1. ASSUME NEW n \in Node, Client(n) PROVE started' = started
        BY <3>1 DEF Client, Track, Untrack, UntrackAll, Update, netVars
    <3>2. ASSUME NEW n \in Node, Server(n) PROVE started' = started \/ started' = started \cup {n}
        BY <3>2 DEF Server, CompleteInit, HandleDelta, HandleSyncRequest, HandleSyncResponse,
                    HandleNodeDown, netVars
    <3>3. ASSUME NEW n \in Node, NEW m \in Node, Network(n, m) PROVE started' = started
        BY <3>3 DEF Network, Deliver, Connect, Lose
    <3> QED
        BY <3>1, <3>2, <3>3 DEF Next, vars, netVars
  <2> QED
      BY <2>1, FS_AddElement DEF Grown
<1> QED
    BY <1>1, <1>2

PairInv(a, b) == Grown /\ (Together => Agreed(a, b) /\ Agreed(b, a))

LEMMA PairInit ==
    ASSUME NEW a \in Node, NEW b \in Node, a # b, Stable = {a, b}, Init
    PROVE  PairInv(a, b)
<1>1. ASSUME NEW n \in Node, NEW m \in Node, n # m, Stable = {n, m} PROVE Agreed(n, m)
  <2>1. Way(n, m) = <<>> /\ Way(m, n) = <<>>
      BY <1>1 DEF Init, Way
  <2>2. Passing(n, m) /\ StillNews(n, m) /\ Revoked(n, m)
      BY <2>1 DEF Passing, StillNews, Revoked
  <2>3. WillAgree(n, m)
      BY DEF Init, WillAgree
  <2>4. Connected(n, m)
      BY <1>1 DEF Init, Connected, Others
  <2> QED
      BY <2>2, <2>3, <2>4 DEF Agreed
<1>2. Agreed(a, b) /\ Agreed(b, a)
    BY <1>1
<1> QED
    BY <1>2, GrownOn DEF PairInv

LEMMA PairNext ==
    ASSUME NEW a \in Node, NEW b \in Node, a # b, Stable = {a, b},
           Inv, Inv', PairInv(a, b), [Next]_vars
    PROVE  PairInv(a, b)'
<1>1. Grown' /\ started \subseteq started'
    BY GrownOn DEF PairInv
<1>2. drops \in Nat /\ drops' \in Nat /\ drops <= drops'
  <2>1. drops \in Nat /\ drops' \in Nat
      BY DEF Inv, OtherType
  <2>2. drops' = drops \/ drops' = drops + 1
    <3>1. ASSUME NEW n \in Node, Client(n) PROVE drops' = drops
        BY <3>1 DEF Client, Track, Untrack, UntrackAll, Update
    <3>2. ASSUME NEW n \in Node, Server(n) PROVE drops' = drops
        BY <3>2 DEF Server, CompleteInit, HandleDelta, HandleSyncRequest, HandleSyncResponse, HandleNodeDown
    <3>3. ASSUME NEW n \in Node, NEW m \in Node, Network(n, m) PROVE drops' = drops \/ drops' = drops + 1
        BY <3>3 DEF Network, Deliver, Connect, Lose
    <3> QED
        BY <3>1, <3>2, <3>3 DEF Next, vars
  <2> QED
      BY <2>1, <2>2
<1> SUFFICES ASSUME Together' PROVE Agreed(a, b)' /\ Agreed(b, a)'
    BY <1>1 DEF PairInv
<1>3. Together
    BY <1>1, <1>2 DEF Together, PairInv, Grown
<1>4. Agreed(a, b) /\ Agreed(b, a) /\ Stable = {b, a}
    BY <1>3 DEF PairInv
<1>5. ASSUME NEW n \in Node, Client(n) PROVE Agreed(a, b)' /\ Agreed(b, a)'
  <2>1. n \in {a, b}
      BY <1>3, <1>5 DEF Client, Track, Untrack, UntrackAll, Update, Together
  <2> QED
      BY <1>4, <1>5, <2>1, PairCalls
<1>6. ASSUME NEW n \in Node, Server(n) PROVE Agreed(a, b)' /\ Agreed(b, a)'
  <2>1. ~CompleteInit(n)
      BY <1>3 DEF CompleteInit, Together
  <2>2. n \in {a, b}
      BY <1>3, <1>6, <2>1 DEF Server, HandleDelta, HandleSyncRequest, HandleSyncResponse,
                             HandleNodeDown, Receive, Together
  <2> QED
      BY <1>3, <1>4, <1>6, <2>2, PairHandles
<1>7. ASSUME NEW x \in Node, NEW y \in Node, Network(x, y) PROVE Agreed(a, b)' /\ Agreed(b, a)'
  <2>1. /\ Connected(a, b)' /\ Way(a, b)' = Way(a, b)
        /\ Connected(b, a)' /\ Way(b, a)' = Way(b, a)
      BY <1>3, <1>4, <1>7, PairNetwork
  <2>2. UNCHANGED <<values, gone, context>>
      BY <1>7 DEF Network, Deliver, Connect, Lose, crdtVars
  <2> QED
      BY <1>4, <2>1, <2>2 DEF Agreed, Passing, StillNews, Revoked, WillAgree
<1>8. CASE UNCHANGED vars
    BY <1>4, <1>8, PairRests DEF vars, netVars, crdtVars, monitorVars
<1> QED
    BY <1>5, <1>6, <1>7, <1>8 DEF Next

(* The deltas of two servers that know each other from the start, and stay   *)
(* connected, bring both to the same entries, in whatever order calls and    *)
(* messages come: a presence of either that is tracked, updated or removed   *)
(* at one or at both.                                                        *)
THEOREM PairCorrect ==
    ASSUME NEW a \in Node, NEW b \in Node, a # b, Stable = {a, b}
    PROVE  Spec => []PairConverges
<1>1. Init => PairInv(a, b)
    BY PairInit
<1>2. Inv /\ Inv' /\ PairInv(a, b) /\ [Next]_vars => PairInv(a, b)'
    BY PairNext
<1>3. PairInv(a, b) => PairConverges
  <2> SUFFICES ASSUME PairInv(a, b), Quiet, Cardinality(started) = 2, drops = 0
               PROVE  \A n, m \in started : values[n] = values[m]
      BY DEF PairConverges
  <2>1. started = Stable
    <3>1. IsFiniteSet(started) /\ Stable \subseteq started
        BY DEF PairInv, Grown
    <3>2. Cardinality(Stable) = 2
      <4>1. Cardinality({}) = 0 /\ IsFiniteSet({})
          BY FS_EmptySet
      <4>2. Cardinality({a}) = 1 /\ IsFiniteSet({a})
          BY FS_Singleton
      <4>3. Cardinality({a} \cup {b}) = 2
          BY <4>2, FS_AddElement
      <4>4. {a} \cup {b} = {a, b}
          OBVIOUS
      <4> QED
          BY <4>3, <4>4
    <3> QED
        BY <3>1, <3>2, FS_Subset
  <2>2. Agreed(a, b) /\ Agreed(b, a)
      BY <2>1 DEF PairInv, Together
  <2>3. Way(a, b) = <<>> /\ Way(b, a) = <<>>
      BY DEF Quiet, Way
  <2>4. values[a] = values[b]
    <3>1. DOMAIN Way(a, b) = {} /\ DOMAIN Way(b, a) = {}
        BY <2>3
    <3>2. values[a] \subseteq values[b] /\ values[b] \subseteq values[a]
        BY <2>2, <3>1 DEF Agreed, WillAgree
    <3> QED
        BY <3>2
  <2> QED
      BY <2>1, <2>4
<1> QED
    BY <1>1, <1>2, <1>3, InvInvariant, PTL DEF Spec

=============================================================================
