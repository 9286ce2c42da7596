---------------------------- MODULE CacheProofs ----------------------------
(***************************************************************************)
(* Proofs about Cache, for any number of processes, calls and writes, and  *)
(* about the CircuitBreaker that stands before its store.                  *)
(***************************************************************************)
EXTENDS Cache, CircuitBreaker, FiniteSetTheorems, TLAPS

\* loading is exactly the number of calls between beginLoad and endLoad.
CountOK == \A i \in Instances : loading[i] = Cardinality(Active(i))

\* A mark belongs to a running load.
MarkOK == \A i \in Instances : mark[i] => loading[i] > 0

\* The call that runs the loader is the one in the inFlight slot.
SlotOK == \A r \in Callers : cpc[r] \in Owning => inFlight[Home[r]] = r

\* What a call's local variables hold by where it is.
LocalsOK ==
  /\ \A r \in Callers : cpc[r] \in {"read", "setting", "settled", "returned"} => val[r] \in Nat
  /\ \A r \in Callers : cpc[r] = "joined" => owner[r] \in Callers

\* The inductive invariant behind type correctness and single flight.
Shape == TypeOK /\ CountOK /\ MarkOK /\ SlotOK /\ LocalsOK

-----------------------------------------------------------------------------
\* The counted calls of a process are finitely many.
LEMMA ActiveFinite == \A i \in Instances : IsFiniteSet(Active(i)) /\ Cardinality(Active(i)) \in Nat
<1>1. SUFFICES ASSUME NEW i \in Instances
               PROVE IsFiniteSet(Active(i)) /\ Cardinality(Active(i)) \in Nat
  OBVIOUS
<1>2. Active(i) \subseteq Callers
  BY DEF Active
<1> QED
  BY <1>2, CallersFinite, FS_Subset, FS_CardinalityType

\* A call that moves without crossing beginLoad or endLoad keeps the count.
LEMMA CountKept ==
  ASSUME TypeOK, CountOK, NEW r \in Callers, NEW x \in CallerPC,
         cpc' = [cpc EXCEPT ![r] = x], x \in Counted <=> cpc[r] \in Counted,
         UNCHANGED loading
  PROVE  CountOK'
<1>1. \A i \in Instances : Active(i)' = Active(i)
  BY DEF Active, TypeOK
<1> QED
  BY <1>1 DEF CountOK

\* beginLoad and the move of its call into the counted region.
LEMMA CountBegins ==
  ASSUME TypeOK, CountOK, NEW r \in Callers, NEW x \in Counted,
         cpc' = [cpc EXCEPT ![r] = x], cpc[r] \notin Counted,
         beginLoad(Home[r])
  PROVE  CountOK'
<1>1. Home[r] \in Instances
  BY HomeType
<1>2. Active(Home[r])' = Active(Home[r]) \cup {r} /\ r \notin Active(Home[r])
  BY DEF Active, TypeOK
<1>3. \A i \in Instances : i # Home[r] => Active(i)' = Active(i)
  BY DEF Active, TypeOK
<1>4. Cardinality(Active(Home[r]) \cup {r}) = Cardinality(Active(Home[r])) + 1
  BY <1>1, <1>2, ActiveFinite, FS_AddElement
<1>5. loading'[Home[r]] = loading[Home[r]] + 1
       /\ \A i \in Instances : i # Home[r] => loading'[i] = loading[i]
  BY <1>1 DEF beginLoad, TypeOK
<1> QED
  BY <1>1, <1>2, <1>3, <1>4, <1>5 DEF CountOK

\* endLoad and the move of its call out of the counted region: the counter was
\* positive, stays exact, and a mark survives only with another counted call.
LEMMA CountEnds ==
  ASSUME TypeOK, CountOK, MarkOK, NEW r \in Callers, NEW x \in CallerPC \ Counted,
         cpc' = [cpc EXCEPT ![r] = x], cpc[r] \in Counted,
         endLoad(Home[r])
  PROVE  /\ CountOK' /\ MarkOK'
         /\ loading' \in [Instances -> Nat] /\ mark' \in [Instances -> BOOLEAN]
<1>1. Home[r] \in Instances
  BY HomeType
<1>2. Active(Home[r])' = Active(Home[r]) \ {r} /\ r \in Active(Home[r])
  BY DEF Active, TypeOK
<1>3. \A i \in Instances : i # Home[r] => Active(i)' = Active(i)
  BY DEF Active, TypeOK
<1>4. Cardinality(Active(Home[r]) \ {r}) = Cardinality(Active(Home[r])) - 1
  BY <1>1, <1>2, ActiveFinite, FS_RemoveElement
<1>5. IsFiniteSet(Active(Home[r]) \ {r})
  BY <1>1, ActiveFinite, FS_RemoveElement
<1>6. Cardinality(Active(Home[r]) \ {r}) \in Nat
  BY <1>5, FS_CardinalityType
<1>7. loading' = [loading EXCEPT ![Home[r]] = @ - 1]
       /\ mark' = [mark EXCEPT ![Home[r]] = mark[Home[r]] /\ loading[Home[r]] > 1]
  BY DEF endLoad, MarkAfterEndLoad
<1>8. loading[Home[r]] \in Nat /\ loading[Home[r]] - 1 \in Nat
  BY <1>1, <1>4, <1>6 DEF CountOK, TypeOK
<1>9. loading' \in [Instances -> Nat] /\ mark' \in [Instances -> BOOLEAN]
  BY <1>7, <1>8 DEF TypeOK
<1>10. CountOK'
  BY <1>1, <1>2, <1>3, <1>4, <1>7 DEF CountOK, TypeOK
<1>11. MarkOK'
  <2>1. mark \in [Instances -> BOOLEAN] /\ loading \in [Instances -> Nat]
    BY DEF TypeOK
  <2>2. mark'[Home[r]] => loading[Home[r]] > 1
    BY <1>1, <1>7, <2>1, Zenon
  <2>3. \A i \in Instances : i # Home[r] => mark'[i] = mark[i]
    BY <1>1, <1>7, <2>1, Zenon
  <2>4. loading'[Home[r]] = loading[Home[r]] - 1
        /\ \A i \in Instances : i # Home[r] => loading'[i] = loading[i]
    BY <1>1, <1>7, <2>1
  <2>5. mark'[Home[r]] => loading'[Home[r]] > 0
    BY <2>2, <2>4, <1>8
  <2>6. ASSUME NEW i \in Instances, i # Home[r] PROVE mark'[i] => loading'[i] > 0
    BY <2>3, <2>4, <2>6 DEF MarkOK
  <2> QED
    BY <2>5, <2>6 DEF MarkOK
<1> QED
  BY <1>9, <1>10, <1>11

\* Sending keeps the connection a sequence of commands.
LEMMA SendType ==
  ASSUME TypeOK, NEW i \in Instances, NEW c \in Commands, MaybeSend(i, c)
  PROVE  wire' \in [Instances -> Seq(Commands)]
<1>1. Append(wire[i], c) \in Seq(Commands)
  BY DEF TypeOK
<1> QED
  BY <1>1 DEF MaybeSend, TypeOK

\* The DEL of tryDecode too.
LEMMA DropCorruptType ==
  ASSUME TypeOK, NEW r \in Callers, DropCorrupt(r)
  PROVE  wire' \in [Instances -> Seq(Commands)]
<1>1. Command("del", 0, r) \in Commands
  BY DEF Command, Commands
<1>2. Home[r] \in Instances
  BY HomeType
<1> QED
  BY <1>1, <1>2, SendType DEF DropCorrupt, TypeOK

\* A mark set by delete is about a counted call.
LEMMA MarkSet ==
  ASSUME TypeOK, MarkOK, NEW i \in Instances,
         mark' = [mark EXCEPT ![i] = MarkAfterDelete(i)], UNCHANGED loading
  PROVE  MarkOK' /\ mark' \in [Instances -> BOOLEAN]
<1>1. mark \in [Instances -> BOOLEAN] /\ MarkAfterDelete(i) \in BOOLEAN
  BY DEF TypeOK, MarkAfterDelete
<1>2. mark' \in [Instances -> BOOLEAN]
  BY <1>1
<1>3. mark'[i] => loading[i] > 0
  BY <1>1, Zenon DEF MarkAfterDelete, MarkOK
<1>4. \A j \in Instances : j # i => mark'[j] = mark[j]
  BY <1>1, Zenon
<1> QED
  BY <1>2, <1>3, <1>4, Zenon DEF MarkOK

LEMMA ShapeInit == Init => Shape
<1> SUFFICES ASSUME Init PROVE Shape
  OBVIOUS
<1>1. TypeOK
  BY DEF Init, TypeOK, Contents, Absent, Corrupt, CallerPC, WriterPC, Progress
<1>2. \A i \in Instances : Active(i) = {}
  BY DEF Init, Active, Counted
<1>3. CountOK
  BY <1>2, FS_EmptySet DEF Init, CountOK
<1>4. MarkOK /\ SlotOK /\ LocalsOK
  BY DEF Init, MarkOK, SlotOK, LocalsOK, Owning
<1> QED
  BY <1>1, <1>3, <1>4 DEF Shape

\* Every step of a getOrSet call keeps Shape.
LEMMA ShapeCaller ==
  ASSUME Shape, NEW r \in Callers, CallerStep(r)
  PROVE  Shape'
<1> USE DEF Shape
<1>h. Home[r] \in Instances
  BY HomeType
<1>1. CASE BeginLoad(r)
  <2>1. Command("get", 0, r) \in Commands
    BY DEF Command, Commands
  <2>2. wire' \in [Instances -> Seq(Commands)]
    BY <1>1, <1>h, <2>1, SendType DEF BeginLoad
  <2>3. loading' \in [Instances -> Nat]
    BY <1>1, <1>h DEF BeginLoad, beginLoad, TypeOK
  <2>4. asOf' \in [Callers -> [Writers -> Progress]]
    BY <1>1 DEF BeginLoad, TypeOK, Seen, Progress
  <2>5. TypeOK'
    BY <1>1, <2>2, <2>3, <2>4 DEF BeginLoad, TypeOK, CallerPC
  <2>6. CountOK'
    BY <1>1, CountBegins DEF BeginLoad, Counted
  <2>7. MarkOK'
    BY <1>1, <1>h DEF BeginLoad, beginLoad, MarkOK, TypeOK
  <2>8. SlotOK' /\ LocalsOK'
    BY <1>1 DEF BeginLoad, SlotOK, LocalsOK, Owning, TypeOK
  <2> QED
    BY <2>5, <2>6, <2>7, <2>8
<1>2. CASE Hit(r)
  <2>1. CountOK' /\ MarkOK' /\ loading' \in [Instances -> Nat] /\ mark' \in [Instances -> BOOLEAN]
    BY <1>2, CountEnds DEF Hit, Counted, CallerPC
  <2>2. TypeOK'
    BY <1>2, <2>1 DEF Hit, TypeOK, CallerPC
  <2>3. SlotOK' /\ LocalsOK'
    BY <1>2 DEF Hit, SlotOK, LocalsOK, Owning, TypeOK
  <2> QED
    BY <2>1, <2>2, <2>3
<1>3. CASE Join(r)
  <2>1. cpc[r] \in Counted
    BY <1>3 DEF Join, Missed, Counted
  <2>2. CountOK' /\ MarkOK' /\ loading' \in [Instances -> Nat] /\ mark' \in [Instances -> BOOLEAN]
    BY <1>3, <2>1, CountEnds DEF Join, Counted, CallerPC
  <2>3. wire' \in [Instances -> Seq(Commands)]
    BY <1>3, DropCorruptType DEF Join
  <2>4. inFlight[Home[r]] \in Callers
    BY <1>3, <1>h DEF Join, TypeOK
  <2>5. TypeOK'
    BY <1>3, <2>2, <2>3, <2>4 DEF Join, TypeOK, CallerPC
  <2>6. SlotOK' /\ LocalsOK'
    BY <1>3, <2>4 DEF Join, SlotOK, LocalsOK, Owning, TypeOK
  <2> QED
    BY <2>2, <2>5, <2>6
<1>4. CASE StartLoader(r)
  <2>1. cpc[r] \in Counted
    BY <1>4 DEF StartLoader, Missed, Counted
  <2>2. wire' \in [Instances -> Seq(Commands)]
    BY <1>4, DropCorruptType DEF StartLoader
  <2>3. TypeOK'
    BY <1>4, <2>2, <1>h DEF StartLoader, TypeOK, CallerPC
  <2>4. CountOK'
    BY <1>4, <2>1, CountKept DEF StartLoader, Counted, CallerPC
  <2>5. SlotOK'
    BY <1>4, <1>h, NoOneIsNoCall DEF StartLoader, MayStart, SlotOK, Owning, TypeOK
  <2>6. MarkOK' /\ LocalsOK'
    BY <1>4 DEF StartLoader, MarkOK, LocalsOK, TypeOK
  <2> QED
    BY <2>3, <2>4, <2>5, <2>6
<1>5. CASE LoaderReads(r)
  <2>1. TypeOK'
    BY <1>5 DEF LoaderReads, TypeOK, CallerPC, Contents
  <2>2. CountOK'
    BY <1>5, CountKept DEF LoaderReads, Counted, CallerPC
  <2>3. MarkOK' /\ SlotOK' /\ LocalsOK'
    BY <1>5 DEF LoaderReads, MarkOK, SlotOK, LocalsOK, Owning, TypeOK
  <2> QED
    BY <2>1, <2>2, <2>3
<1>6. CASE LoaderFails(r)
  <2>1. TypeOK'
    BY <1>6 DEF LoaderFails, TypeOK, CallerPC, Contents
  <2>2. CountOK'
    BY <1>6, CountKept DEF LoaderFails, Counted, CallerPC
  <2>3. MarkOK' /\ SlotOK' /\ LocalsOK'
    BY <1>6 DEF LoaderFails, MarkOK, SlotOK, LocalsOK, Owning, TypeOK
  <2> QED
    BY <2>1, <2>2, <2>3
<1>7. CASE LoaderReturns(r)
  <2>1. PICK x \in {"setting", "settled"} : cpc' = [cpc EXCEPT ![r] = x]
    BY <1>7 DEF LoaderReturns
  <2>2. Command("set", val[r], r) \in Commands
    BY <1>7 DEF LoaderReturns, LocalsOK, Command, Commands
  <2>3. wire' \in [Instances -> Seq(Commands)]
    BY <1>7, <1>h, <2>2, SendType DEF LoaderReturns, TypeOK
  <2>4. TypeOK'
    BY <1>7, <2>1, <2>3 DEF LoaderReturns, TypeOK, CallerPC
  <2>5. CountOK'
    BY <1>7, <2>1, CountKept DEF LoaderReturns, Counted, CallerPC
  <2>6. MarkOK' /\ SlotOK' /\ LocalsOK'
    BY <1>7, <2>1 DEF LoaderReturns, MarkOK, SlotOK, LocalsOK, Owning, TypeOK
  <2> QED
    BY <2>4, <2>5, <2>6
<1>8. CASE SetSettles(r)
  <2>1. TypeOK'
    BY <1>8 DEF SetSettles, TypeOK, CallerPC
  <2>2. CountOK'
    BY <1>8, CountKept DEF SetSettles, Counted, CallerPC
  <2>3. MarkOK' /\ SlotOK' /\ LocalsOK'
    BY <1>8 DEF SetSettles, MarkOK, SlotOK, LocalsOK, Owning, TypeOK
  <2> QED
    BY <2>1, <2>2, <2>3
<1>9. CASE OwnerEnds(r)
  <2>1. PICK x \in {"returned", "threw"} :
           cpc' = [cpc EXCEPT ![r] = x] /\ (x = "returned" => cpc[r] = "settled")
    BY <1>9 DEF OwnerEnds, TypeOK
  <2>2. CountOK' /\ MarkOK' /\ loading' \in [Instances -> Nat] /\ mark' \in [Instances -> BOOLEAN]
    BY <1>9, <2>1, CountEnds DEF OwnerEnds, Counted, CallerPC
  <2>3. TypeOK'
    BY <1>9, <2>1, <2>2 DEF OwnerEnds, TypeOK, CallerPC
  <2>4. inFlight[Home[r]] = r
    BY <1>9 DEF OwnerEnds, SlotOK, Owning
  <2>5. SlotOK'
    BY <1>9, <1>h, <2>1, <2>4 DEF OwnerEnds, SlotOK, Owning, TypeOK
  <2>6. LocalsOK'
    BY <1>9, <2>1 DEF OwnerEnds, LocalsOK, TypeOK
  <2> QED
    BY <2>2, <2>3, <2>5, <2>6
<1>10. CASE JoinerEnds(r)
  <2>1. PICK x \in {"returned", "threw"} : cpc' = [cpc EXCEPT ![r] = x]
    BY <1>10 DEF JoinerEnds
  <2>2. owner[r] \in Callers
    BY <1>10 DEF JoinerEnds, LocalsOK
  <2>3. TypeOK'
    BY <1>10, <2>1, <2>2 DEF JoinerEnds, TypeOK, CallerPC
  <2>4. CountOK'
    BY <1>10, <2>1, CountKept DEF JoinerEnds, Counted, CallerPC
  <2>5. MarkOK' /\ SlotOK'
    BY <1>10, <2>1 DEF JoinerEnds, MarkOK, SlotOK, Owning, TypeOK
  <2>6. LocalsOK'
    BY <1>10, <2>2 DEF JoinerEnds, Resolved, LocalsOK, TypeOK
  <2> QED
    BY <2>3, <2>4, <2>5, <2>6
<1> QED
  BY <1>1, <1>2, <1>3, <1>4, <1>5, <1>6, <1>7, <1>8, <1>9, <1>10 DEF CallerStep

\* Every step of a write request keeps Shape.
LEMMA ShapeWriter ==
  ASSUME Shape, NEW w \in Writers, WriterStep(w)
  PROVE  Shape'
<1> USE DEF Shape
<1>h. Home[w] \in Instances
  BY HomeType
<1>1. UNCHANGED <<inFlight, loading, cpc, val, owner>>
  BY DEF WriterStep, Commit, Delete, DeleteAcked, DeleteFails
<1>2. CountOK' /\ SlotOK' /\ LocalsOK'
  BY <1>1 DEF CountOK, Active, SlotOK, LocalsOK
<1>3. CASE Delete(w)
  <2>1. Command("del", 0, w) \in Commands
    BY DEF Command, Commands
  <2>2. Append(wire[Home[w]], Command("del", 0, w)) \in Seq(Commands)
    BY <1>h, <2>1 DEF TypeOK
  <2>3. MarkOK' /\ mark' \in [Instances -> BOOLEAN]
    BY <1>3, <1>h, MarkSet DEF Delete
  <2>4. wire' \in [Instances -> Seq(Commands)]
    BY <1>3, <1>h, <2>2 DEF Delete, TypeOK
  <2>5. wpc' \in [Writers -> WriterPC]
    BY <1>3 DEF Delete, TypeOK, WriterPC
  <2>6. TypeOK'
    BY <1>3, <1>1, <2>3, <2>4, <2>5 DEF Delete, TypeOK
  <2> QED
    BY <1>2, <2>3, <2>6
<1>4. CASE Commit(w)
  <2>1. db' \in Nat /\ ver' \in [Writers -> Nat]
    BY <1>4 DEF Commit, TypeOK
  <2>2. wpc' \in [Writers -> WriterPC]
    BY <1>4 DEF Commit, TypeOK, WriterPC
  <2>3. TypeOK'
    BY <1>4, <1>1, <2>1, <2>2 DEF Commit, TypeOK
  <2>4. MarkOK'
    BY <1>4 DEF Commit, MarkOK
  <2> QED
    BY <1>2, <2>3, <2>4
<1>5. CASE DeleteAcked(w) \/ DeleteFails(w)
  <2>1. wpc' \in [Writers -> WriterPC]
    BY <1>5 DEF DeleteAcked, DeleteFails, TypeOK, WriterPC
  <2>2. TypeOK'
    BY <1>5, <1>1, <2>1 DEF DeleteAcked, DeleteFails, TypeOK
  <2>3. MarkOK'
    BY <1>5 DEF DeleteAcked, DeleteFails, MarkOK
  <2> QED
    BY <1>2, <2>2, <2>3
<1> QED
  BY <1>3, <1>4, <1>5 DEF WriterStep

\* Redis, the connection, the TTL and a crash keep Shape.
LEMMA ShapeEnvironment ==
  ASSUME Shape,
         (\E i \in Instances : Deliver(i) \/ ConnectionFlushed(i) \/ Crash(i)) \/ Expire
  PROVE  Shape'
<1> USE DEF Shape
<1>1. CASE Expire
  <2>1. TypeOK'
    BY <1>1 DEF Expire, TypeOK, Contents
  <2>2. CountOK' /\ MarkOK' /\ SlotOK' /\ LocalsOK'
    BY <1>1 DEF Expire, CountOK, Active, MarkOK, SlotOK, LocalsOK
  <2> QED
    BY <2>1, <2>2
<1>2. ASSUME NEW i \in Instances, ConnectionFlushed(i) PROVE Shape'
  <2>1. TypeOK'
    BY <1>2 DEF ConnectionFlushed, TypeOK
  <2>2. CountOK' /\ MarkOK' /\ SlotOK' /\ LocalsOK'
    BY <1>2 DEF ConnectionFlushed, CountOK, Active, MarkOK, SlotOK, LocalsOK
  <2> QED
    BY <2>1, <2>2
<1>3. ASSUME NEW i \in Instances, Deliver(i) PROVE Shape'
  <2> DEFINE c == Head(wire[i])
  <2>1. wire[i] \in Seq(Commands) /\ wire[i] # <<>>
    BY <1>3 DEF Deliver, TypeOK
  <2>2. c \in Commands /\ Tail(wire[i]) \in Seq(Commands)
    BY <2>1
  <2>3. c.ver \in Nat /\ (c.op = "get" => c.by \in Callers)
    BY <2>2 DEF Commands
  <2>4. CASE c.op = "get" /\ cpc[c.by] = "getting"
    <3>1. val' = [val EXCEPT ![c.by] = store] /\ cpc' = [cpc EXCEPT ![c.by] = "got"]
           /\ UNCHANGED <<db, store, inFlight, loading, mark, owner, wpc, ver, asOf>>
      BY <1>3, <2>4 DEF Deliver
    <3>2. TypeOK'
      BY <1>3, <2>2, <2>3, <2>4, <3>1 DEF Deliver, TypeOK, CallerPC
    <3>3. CountOK'
      BY <2>3, <2>4, <3>1, CountKept DEF Counted, CallerPC
    <3>4. MarkOK' /\ SlotOK' /\ LocalsOK'
      BY <2>3, <2>4, <3>1 DEF MarkOK, SlotOK, LocalsOK, Owning, TypeOK
    <3> QED
      BY <3>2, <3>3, <3>4
  <2>5. CASE ~(c.op = "get" /\ cpc[c.by] = "getting")
    <3>1. UNCHANGED <<db, inFlight, loading, mark, cpc, val, owner, ver, asOf>>
      BY <1>3, <2>5 DEF Deliver
    <3>2. store' \in Contents /\ wpc' \in [Writers -> WriterPC]
      BY <1>3, <2>3 DEF Deliver, TypeOK, Contents, WriterPC
    <3>3. TypeOK'
      BY <1>3, <2>2, <3>1, <3>2 DEF Deliver, TypeOK
    <3>4. CountOK' /\ MarkOK' /\ SlotOK' /\ LocalsOK'
      BY <3>1 DEF CountOK, Active, MarkOK, SlotOK, LocalsOK
    <3> QED
      BY <3>3, <3>4
  <2> QED
    BY <2>4, <2>5
<1>4. ASSUME NEW i \in Instances, Crash(i) PROVE Shape'
  <2>1. TypeOK'
    BY <1>4 DEF Crash, TypeOK, CallerPC, WriterPC
  <2>2. Active(i)' = {}
    BY <1>4 DEF Crash, Active, Counted
  <2>3. \A j \in Instances : j # i => Active(j)' = Active(j)
    BY <1>4 DEF Crash, Active
  <2>4. CountOK'
    BY <1>4, <2>2, <2>3, FS_EmptySet DEF Crash, CountOK, TypeOK
  <2>5. MarkOK'
    BY <1>4 DEF Crash, MarkOK, TypeOK
  <2>6. SlotOK' /\ LocalsOK'
    BY <1>4 DEF Crash, SlotOK, LocalsOK, TypeOK, Owning, Counted
  <2> QED
    BY <2>1, <2>4, <2>5, <2>6
<1> QED
  BY <1>1, <1>2, <1>3, <1>4

\* Shape is an invariant of the cache.
THEOREM ShapeInvariant == Spec => []Shape
<1>1. Init => Shape
  BY ShapeInit
<1>2. Shape /\ [Next]_vars => Shape'
  <2> SUFFICES ASSUME Shape, [Next]_vars PROVE Shape'
    OBVIOUS
  <2>1. CASE \E r \in Callers : CallerStep(r)
    BY <2>1, ShapeCaller
  <2>2. CASE \E w \in Writers : WriterStep(w)
    BY <2>2, ShapeWriter
  <2>3. CASE (\E i \in Instances : Deliver(i) \/ ConnectionFlushed(i) \/ Crash(i)) \/ Expire
    BY <2>3, ShapeEnvironment
  <2>4. CASE UNCHANGED vars
    BY <2>4 DEF vars, Shape, TypeOK, CountOK, Active, MarkOK, SlotOK, LocalsOK
  <2> QED
    BY <2>1, <2>2, <2>3, <2>4 DEF Next
<1> QED
  BY <1>1, <1>2, PTL DEF Spec

\* Every variable keeps its type: in particular the beginLoad / endLoad counter
\* never goes below zero, whatever calls fail, join or crash.
THEOREM TypeCorrect == Spec => []TypeOK
<1>1. Shape => TypeOK
  BY DEF Shape
<1> QED
  BY <1>1, ShapeInvariant, PTL

\* Stampede protection for any number of processes and calls: a process never
\* runs two loaders of one key.
THEOREM SingleFlightHolds == Spec => []SingleFlight
<1>1. Shape => SingleFlight
  BY DEF Shape, SlotOK, SingleFlight
<1> QED
  BY <1>1, ShapeInvariant, PTL

\* The invalidation mark of a process is gone as soon as no call is between
\* beginLoad and endLoad.
THEOREM MarkDies == Spec => []MarkDiesWithLoads
<1>1. Shape => MarkDiesWithLoads
  <2> SUFFICES ASSUME Shape, NEW i \in Instances, mark[i] PROVE Active(i) # {}
    BY DEF MarkDiesWithLoads
  <2>1. Cardinality(Active(i)) > 0
    BY DEF Shape, MarkOK, CountOK
  <2> QED
    BY <2>1, FS_EmptySet
<1> QED
  BY <1>1, ShapeInvariant, PTL

-----------------------------------------------------------------------------
(***************************************************************************)
(* Freshness in one process.  The argument follows a version through the   *)
(* places an old value can hide: a loader's local variable, a SET on the   *)
(* connection, Redis itself.                                               *)
(***************************************************************************)
\* Requests that have marked and sent DEL, and those whose DEL was executed.
Promised == {"deleting", "acked", "done"}
Kept == {"acked", "done"}

\* Nobody holds a version that was never committed.
Bounds ==
  /\ store <= db
  /\ \A w \in Writers : ver[w] <= db
  /\ \A r \in Callers : val[r] <= db
  /\ \A i \in Instances : \A q \in 1..Len(wire[i]) : wire[i][q].ver <= db

\* The current version was written by a request that has begun.
LastWriter == db > 0 => \E w \in Writers : ver[w] = db /\ wpc[w] # "idle"

\* Redis is not behind an executed DEL.
StoreFresh == \A w \in Writers : wpc[w] \in Kept => NotOlder(ver[w])

\* No old SET is left on the connection once DEL was executed.
WireFresh ==
  \A w \in Writers : wpc[w] \in Kept =>
    \A i \in Instances : \A q \in 1..Len(wire[i]) :
      wire[i][q].op = "set" => wire[i][q].ver >= ver[w]

\* No old SET follows a DEL that is still on the connection.
BehindDel ==
  \A w \in Writers : wpc[w] = "deleting" =>
    \A i \in Instances : \A a, b \in 1..Len(wire[i]) :
      (a < b /\ wire[i][a].op = "del" /\ wire[i][a].by = w /\ wire[i][b].op = "set")
        => wire[i][b].ver >= ver[w]

\* A loader that holds an old value finds the mark when it returns.
LoadMarked ==
  \A w \in Writers : wpc[w] \in Promised =>
    \A r \in Callers : cpc[r] = "read" /\ val[r] < ver[w] => mark[Home[r]]

\* A call that began after an acknowledgement holds nothing older, unless it
\* joined another call.
ReadsFresh ==
  \A r \in Callers : \A w \in Writers : asOf[r][w] = "acked" =>
    /\ wpc[w] = "done"
    /\ owner[r] = NoOne /\ cpc[r] \in {"got", "read", "setting", "settled", "returned"}
         /\ val[r] \in Nat => val[r] >= ver[w]

\* A request's DEL is on the connection only once the request has sent it.
DelsIssued ==
  \A w \in Writers : wpc[w] \in {"idle", "committed"} =>
    \A i \in Instances : \A q \in 1..Len(wire[i]) : wire[i][q].by # w

Fresh ==
  Bounds /\ LastWriter /\ DelsIssued /\ StoreFresh /\ WireFresh /\ BehindDel /\ LoadMarked /\ ReadsFresh

\* A command that is no SET of an old value, and no request's DEL, may be sent.
LEMMA SendFresh ==
  ASSUME TypeOK, Fresh, NEW i \in Instances, NEW c \in Commands, MaybeSend(i, c),
         c.ver <= db, c.by \notin Writers,
         c.op = "set" => \A w \in Writers : wpc[w] \in Promised => c.ver >= ver[w],
         UNCHANGED <<db, wpc, ver>>
  PROVE  /\ \A j \in Instances : \A q \in 1..Len(wire'[j]) : wire'[j][q].ver <= db'
         /\ DelsIssued' /\ WireFresh' /\ BehindDel'
<1>0. CASE UNCHANGED wire
  BY <1>0 DEF Fresh, Bounds, DelsIssued, WireFresh, BehindDel
<1>1. CASE wire' = [wire EXCEPT ![i] = Append(@, c)]
  <2>1. wire[i] \in Seq(Commands) /\ wire \in [Instances -> Seq(Commands)]
    BY DEF TypeOK
  <2>2. Len(wire'[i]) = Len(wire[i]) + 1 /\ Len(wire[i]) \in Nat
    BY <1>1, <2>1
  <2>3. \A q \in 1..Len(wire'[i]) :
           \/ q \in 1..Len(wire[i]) /\ wire'[i][q] = wire[i][q]
           \/ q = Len(wire[i]) + 1 /\ wire'[i][q] = c
    BY <1>1, <2>1, <2>2
  <2>4. \A j \in Instances : j # i => wire'[j] = wire[j]
    BY <1>1, <2>1
  <2>5. \A j \in Instances : \A q \in 1..Len(wire'[j]) : wire'[j][q].ver <= db'
    BY <2>3, <2>4 DEF Fresh, Bounds
  <2>6. WireFresh'
    BY <2>3, <2>4 DEF Fresh, WireFresh, Promised, Kept
  <2>7. BehindDel'
    <3> SUFFICES ASSUME NEW w \in Writers, wpc[w] = "deleting", NEW j \in Instances,
                        NEW a \in 1..Len(wire'[j]), NEW b \in 1..Len(wire'[j]), a < b,
                        wire'[j][a].op = "del", wire'[j][a].by = w, wire'[j][b].op = "set"
                 PROVE  wire'[j][b].ver >= ver[w]
      BY DEF BehindDel
    <3>1. CASE j # i
      BY <3>1, <2>4 DEF Fresh, BehindDel
    <3>2. CASE j = i
      <4>1. a \in 1..Len(wire[i]) /\ wire'[i][a] = wire[i][a]
        BY <3>2, <2>3
      <4>2. CASE b \in 1..Len(wire[i]) /\ wire'[i][b] = wire[i][b]
        BY <3>2, <4>1, <4>2 DEF Fresh, BehindDel
      <4>3. CASE wire'[i][b] = c
        BY <3>2, <4>3 DEF Promised
      <4> QED
        BY <3>2, <2>3, <4>2, <4>3
    <3> QED
      BY <3>1, <3>2
  <2>8. DelsIssued'
    BY <2>3, <2>4 DEF Fresh, DelsIssued
  <2> QED
    BY <2>5, <2>6, <2>7, <2>8
<1> QED
  BY <1>0, <1>1 DEF MaybeSend

\* Two counted calls of a process: its counter is above one.
LEMMA TwoCounted ==
  ASSUME Shape, NEW i \in Instances, NEW r \in Active(i), NEW s \in Active(i), r # s
  PROVE  loading[i] > 1
<1>1. IsFiniteSet(Active(i)) /\ Cardinality(Active(i)) \in Nat
  BY ActiveFinite
<1>2. IsFiniteSet(Active(i) \ {r}) /\ Cardinality(Active(i) \ {r}) = Cardinality(Active(i)) - 1
  BY <1>1, FS_RemoveElement
<1>3. Cardinality(Active(i) \ {r}) # 0
  BY <1>2, FS_EmptySet
<1>4. Cardinality(Active(i) \ {r}) \in Nat
  BY <1>2, FS_CardinalityType
<1> QED
  BY <1>1, <1>2, <1>3, <1>4 DEF Shape, CountOK

LEMMA FreshInit == Init => Fresh
<1> SUFFICES ASSUME Init PROVE Fresh
  OBVIOUS
<1>1. Bounds /\ LastWriter
  BY DEF Init, Bounds, LastWriter, Absent, Corrupt
<1>2. DelsIssued /\ StoreFresh /\ WireFresh /\ BehindDel /\ LoadMarked /\ ReadsFresh
  BY DEF Init, DelsIssued, StoreFresh, WireFresh, BehindDel, LoadMarked, ReadsFresh, Promised, Kept
<1> QED
  BY <1>1, <1>2 DEF Fresh

\* endLoad clears no mark that a running loader still needs.
LEMMA LoadMarkedEnds ==
  ASSUME NEW p, Instances = {p}, Shape, LoadMarked, NEW r \in Callers, cpc[r] \in Counted,
         NEW x, x # "read", cpc' = [cpc EXCEPT ![r] = x], endLoad(Home[r]),
         UNCHANGED <<val, wpc, ver>>
  PROVE  LoadMarked'
<1> SUFFICES ASSUME NEW w \in Writers, wpc[w] \in Promised, NEW s \in Callers,
                    cpc'[s] = "read", val[s] < ver[w]
             PROVE  mark'[Home[s]]
  BY DEF LoadMarked
<1>1. Home[r] = p /\ Home[s] = p
  BY HomeType
<1>2. s # r /\ cpc[s] = "read" /\ mark[p]
  BY <1>1 DEF LoadMarked, Shape, TypeOK
<1>3. r \in Active(p) /\ s \in Active(p) /\ r # s
  BY <1>1, <1>2 DEF Active, Counted
<1>4. loading[p] > 1
  BY <1>3, TwoCounted
<1> QED
  BY <1>1, <1>2, <1>4, Zenon DEF endLoad, MarkAfterEndLoad, Shape, TypeOK

\* Every step of a getOrSet call keeps Fresh.
LEMMA FreshCaller ==
  ASSUME NEW p, Instances = {p}, Shape, Fresh, NEW r \in Callers, CallerStep(r)
  PROVE  Fresh'
<1>h. Home[r] \in Instances /\ r \notin Writers
  BY HomeType, CallersAreNotWriters
<1>t. TypeOK /\ MarkOK /\ LocalsOK
  BY DEF Shape
<1>u. UNCHANGED <<db, store, wpc, ver>>
  BY DEF CallerStep, BeginLoad, Hit, Join, StartLoader, LoaderReads, LoaderFails,
         LoaderReturns, SetSettles, OwnerEnds, JoinerEnds
<1>v. LastWriter' /\ StoreFresh'
  BY <1>u DEF Fresh, LastWriter, StoreFresh, NotOlder
<1> DEFINE WireOK == /\ \A j \in Instances : \A q \in 1..Len(wire'[j]) : wire'[j][q].ver <= db'
                     /\ DelsIssued' /\ WireFresh' /\ BehindDel'
<1>w. UNCHANGED wire => WireOK
  BY <1>u DEF Fresh, Bounds, DelsIssued, WireFresh, BehindDel
<1>x. DropCorrupt(r) => WireOK
  <2> SUFFICES ASSUME DropCorrupt(r) PROVE WireOK
    OBVIOUS
  <2>1. Command("del", 0, r) \in Commands /\ Command("del", 0, r).ver = 0
         /\ Command("del", 0, r).by = r /\ Command("del", 0, r).op = "del"
    BY DEF Command, Commands
  <2>2. 0 <= db
    BY <1>t DEF TypeOK
  <2>3. CASE MaybeSend(Home[r], Command("del", 0, r))
    BY <2>1, <2>2, <2>3, <1>h, <1>t, <1>u, SendFresh
  <2> QED
    BY <2>3, <1>w DEF DropCorrupt
<1>1. CASE BeginLoad(r)
  <2>1. Command("get", 0, r) \in Commands /\ Command("get", 0, r).ver = 0
         /\ Command("get", 0, r).by = r /\ Command("get", 0, r).op = "get"
    BY DEF Command, Commands
  <2>2. 0 <= db
    BY <1>t DEF TypeOK
  <2>3. WireOK
    BY <1>1, <2>1, <2>2, <1>h, <1>t, <1>u, SendFresh DEF BeginLoad
  <2>4. Bounds'
    BY <1>1, <2>3 DEF BeginLoad, Fresh, Bounds
  <2>5. LoadMarked'
    BY <1>1, <1>t DEF BeginLoad, Fresh, LoadMarked, TypeOK
  <2>6. ReadsFresh'
    BY <1>1, <1>t DEF BeginLoad, Fresh, ReadsFresh, TypeOK, Seen
  <2> QED
    BY <1>v, <2>3, <2>4, <2>5, <2>6 DEF Fresh
<1>2. CASE Hit(r)
  <2>1. WireOK
    BY <1>2, <1>w DEF Hit
  <2>2. Bounds'
    BY <1>2, <2>1 DEF Hit, Fresh, Bounds
  <2>3. LoadMarked'
    BY <1>2, <1>u, LoadMarkedEnds DEF Hit, Fresh, Counted
  <2>4. ReadsFresh'
    BY <1>2, <1>t DEF Hit, Fresh, ReadsFresh, TypeOK
  <2> QED
    BY <1>v, <2>1, <2>2, <2>3, <2>4 DEF Fresh
<1>3. CASE Join(r)
  <2>1. WireOK
    BY <1>3, <1>x DEF Join
  <2>2. Bounds'
    BY <1>3, <2>1 DEF Join, Fresh, Bounds
  <2>3. LoadMarked'
    BY <1>3, <1>u, LoadMarkedEnds DEF Join, Missed, Fresh, Counted
  <2>4. ReadsFresh'
    BY <1>3, <1>t DEF Join, Fresh, ReadsFresh, TypeOK
  <2> QED
    BY <1>v, <2>1, <2>2, <2>3, <2>4 DEF Fresh
<1>4. CASE StartLoader(r)
  <2>1. WireOK
    BY <1>4, <1>x DEF StartLoader
  <2>2. Bounds'
    BY <1>4, <2>1 DEF StartLoader, Fresh, Bounds
  <2>3. LoadMarked' /\ ReadsFresh'
    BY <1>4, <1>t DEF StartLoader, Fresh, LoadMarked, ReadsFresh, TypeOK
  <2> QED
    BY <1>v, <2>1, <2>2, <2>3 DEF Fresh
<1>5. CASE LoaderReads(r)
  <2>1. WireOK
    BY <1>5, <1>w DEF LoaderReads
  <2>2. Bounds'
    BY <1>5, <1>t, <2>1 DEF LoaderReads, Fresh, Bounds, TypeOK
  <2>3. \A w \in Writers : db >= ver[w]
    BY <1>t DEF Fresh, Bounds, TypeOK
  <2>4. LoadMarked'
    BY <1>5, <1>t, <2>3 DEF LoaderReads, Fresh, LoadMarked, TypeOK
  <2>5. ReadsFresh'
    BY <1>5, <1>t, <2>3 DEF LoaderReads, Fresh, ReadsFresh, TypeOK
  <2> QED
    BY <1>v, <2>1, <2>2, <2>4, <2>5 DEF Fresh
<1>6. CASE LoaderFails(r)
  <2>1. WireOK
    BY <1>6, <1>w DEF LoaderFails
  <2>2. Bounds'
    BY <1>6, <1>t, <2>1 DEF LoaderFails, Fresh, Bounds, TypeOK, Absent
  <2>3. LoadMarked' /\ ReadsFresh'
    BY <1>6, <1>t DEF LoaderFails, Fresh, LoadMarked, ReadsFresh, TypeOK
  <2> QED
    BY <1>v, <2>1, <2>2, <2>3 DEF Fresh
<1>7. CASE LoaderReturns(r)
  <2> DEFINE c == Command("set", val[r], r)
  <2>1. c \in Commands /\ c.ver = val[r] /\ c.by = r /\ c.op = "set" /\ val[r] \in Nat
    BY <1>7, <1>t DEF LoaderReturns, LocalsOK, Command, Commands
  <2>2. val[r] <= db
    BY DEF Fresh, Bounds
  <2>3. ASSUME MayCache(Home[r], val[r]), MaybeSend(Home[r], c) PROVE WireOK
    <3>1. ~mark[Home[r]]
      BY <2>3 DEF MayCache
    <3>2. \A w \in Writers : wpc[w] \in Promised => val[r] >= ver[w]
      BY <1>7, <1>t, <2>1, <3>1 DEF LoaderReturns, Fresh, LoadMarked, TypeOK
    <3> QED
      BY <1>h, <1>t, <1>u, <2>1, <2>2, <2>3, <3>2, SendFresh
  <2>4. WireOK
    BY <1>7, <1>w, <2>3 DEF LoaderReturns
  <2>5. Bounds'
    BY <1>7, <2>4 DEF LoaderReturns, Fresh, Bounds
  <2>6. LoadMarked' /\ ReadsFresh'
    BY <1>7, <1>t DEF LoaderReturns, Fresh, LoadMarked, ReadsFresh, TypeOK
  <2> QED
    BY <1>v, <2>4, <2>5, <2>6 DEF Fresh
<1>8. CASE SetSettles(r)
  <2>1. WireOK
    BY <1>8, <1>w DEF SetSettles
  <2>2. Bounds'
    BY <1>8, <2>1 DEF SetSettles, Fresh, Bounds
  <2>3. LoadMarked' /\ ReadsFresh'
    BY <1>8, <1>t DEF SetSettles, Fresh, LoadMarked, ReadsFresh, TypeOK
  <2> QED
    BY <1>v, <2>1, <2>2, <2>3 DEF Fresh
<1>9. CASE OwnerEnds(r)
  <2>1. WireOK
    BY <1>9, <1>w DEF OwnerEnds
  <2>2. Bounds'
    BY <1>9, <2>1 DEF OwnerEnds, Fresh, Bounds
  <2>3. PICK x \in {"returned", "threw"} :
           cpc' = [cpc EXCEPT ![r] = x] /\ (x = "returned" => cpc[r] = "settled")
    BY <1>9, <1>t DEF OwnerEnds, TypeOK
  <2>4. LoadMarked'
    BY <1>9, <1>u, <2>3, LoadMarkedEnds DEF OwnerEnds, Fresh, Counted
  <2>5. ReadsFresh'
    BY <1>9, <1>t, <2>3 DEF OwnerEnds, Fresh, ReadsFresh, TypeOK
  <2> QED
    BY <1>v, <2>1, <2>2, <2>4, <2>5 DEF Fresh
<1>10. CASE JoinerEnds(r)
  <2>1. WireOK
    BY <1>10, <1>w DEF JoinerEnds
  <2>2. owner[r] \in Callers /\ owner[r] # NoOne
    BY <1>10, <1>t, NoOneIsNoCall DEF JoinerEnds, LocalsOK
  <2>3. Bounds'
    BY <1>10, <1>t, <2>1, <2>2 DEF JoinerEnds, Fresh, Bounds, TypeOK
  <2>4. LoadMarked'
    BY <1>10, <1>t DEF JoinerEnds, Fresh, LoadMarked, TypeOK
  <2>5. ReadsFresh'
    BY <1>10, <1>t, <2>2 DEF JoinerEnds, Fresh, ReadsFresh, TypeOK
  <2> QED
    BY <1>v, <2>1, <2>3, <2>4, <2>5 DEF Fresh
<1> QED
  BY <1>1, <1>2, <1>3, <1>4, <1>5, <1>6, <1>7, <1>8, <1>9, <1>10 DEF CallerStep

\* Every step of a write request keeps Fresh.
LEMMA FreshWriter ==
  ASSUME NEW p, Instances = {p}, Shape, Fresh, NEW w \in Writers, WriterStep(w)
  PROVE  Fresh'
<1>h. Home[w] = p /\ \A r \in Callers : Home[r] = p
  BY HomeType
<1>t. TypeOK
  BY DEF Shape
<1>1. CASE Commit(w)
  <2>1. db' = db + 1 /\ ver' = [ver EXCEPT ![w] = db + 1] /\ wpc' = [wpc EXCEPT ![w] = "committed"]
         /\ UNCHANGED <<store, wire, mark, cpc, val, owner, asOf>> /\ wpc[w] = "idle"
    BY <1>1 DEF Commit
  <2>2. Bounds'
    <3>0. db \in Nat /\ store \in Int /\ ver \in [Writers -> Nat] /\ \A r \in Callers : val[r] \in Int
      <4>1. Contents \subseteq Int
        BY DEF Contents, Absent, Corrupt
      <4> QED
        BY <1>t, <4>1 DEF TypeOK
    <3>1. store' <= db' /\ \A r \in Callers : val'[r] <= db'
      BY <2>1, <3>0 DEF Fresh, Bounds
    <3>3. \A v \in Writers : ver'[v] <= db'
      BY <2>1, <3>0 DEF Fresh, Bounds
    <3>2. ASSUME NEW i \in Instances, NEW q \in 1..Len(wire[i]) PROVE wire[i][q].ver <= db + 1
      <4>1. wire[i][q] \in Commands
        BY <1>t DEF TypeOK
      <4>2. wire[i][q].ver \in Nat
        BY <4>1 DEF Commands
      <4> QED
        BY <4>2, <1>t DEF Fresh, Bounds, TypeOK
    <3> QED
      BY <2>1, <3>1, <3>2, <3>3 DEF Bounds
  <2>3. LastWriter'
    BY <1>t, <2>1 DEF LastWriter, TypeOK
  <2>4. ASSUME NEW v \in Writers
        PROVE  \/ v # w /\ wpc'[v] = wpc[v] /\ ver'[v] = ver[v]
               \/ v = w /\ wpc[v] = "idle" /\ wpc'[v] = "committed"
    BY <1>t, <2>1 DEF TypeOK
  <2>6. DelsIssued'
    BY <2>1, <2>4 DEF Fresh, DelsIssued
  <2>7. StoreFresh'
    BY <2>1, <2>4 DEF Fresh, StoreFresh, NotOlder, Kept
  <2>8. WireFresh'
    BY <2>1, <2>4 DEF Fresh, WireFresh, Kept
  <2>9. BehindDel'
    BY <2>1, <2>4 DEF Fresh, BehindDel
  <2>5. LoadMarked' /\ ReadsFresh'
    BY <1>t, <2>1 DEF Fresh, LoadMarked, ReadsFresh, Promised, TypeOK
  <2> QED
    BY <2>2, <2>3, <2>5, <2>6, <2>7, <2>8, <2>9 DEF Fresh
<1>2. CASE Delete(w)
  <2>1. UNCHANGED <<db, store, loading, cpc, val, owner, ver, asOf>> /\ wpc[w] = "committed"
    BY <1>2 DEF Delete
  <2>2. PICK x \in {"deleting", "failed"} : wpc' = [wpc EXCEPT ![w] = x]
    BY <1>2 DEF Delete
  <2>3. wire \in [Instances -> Seq(Commands)] /\ wire[p] \in Seq(Commands) /\ Len(wire[p]) \in Nat
    BY <1>t DEF TypeOK
  <2>4. \A q \in 1..Len(wire'[p]) :
           \/ q \in 1..Len(wire[p]) /\ wire'[p][q] = wire[p][q]
           \/ q = Len(wire'[p]) /\ wire'[p][q] = Command("del", 0, w)
    BY <1>2, <1>h, <2>3 DEF Delete
  <2>5. Command("del", 0, w).op = "del" /\ Command("del", 0, w).ver = 0
    BY DEF Command
  <2>6. Bounds'
    <3>1. 0 <= db
      BY <1>t DEF TypeOK
    <3>2. \A q \in 1..Len(wire'[p]) : wire'[p][q].ver <= db
      BY <2>4, <2>5, <3>1 DEF Fresh, Bounds
    <3> QED
      BY <2>1, <3>2 DEF Fresh, Bounds
  <2>7. LastWriter'
    BY <1>t, <2>1, <2>2 DEF Fresh, LastWriter, TypeOK
  <2>8. StoreFresh'
    BY <1>t, <2>1, <2>2 DEF Fresh, StoreFresh, NotOlder, Kept, TypeOK
  <2>9. WireFresh'
    BY <1>t, <2>1, <2>2, <2>4, <2>5 DEF Fresh, WireFresh, Kept, TypeOK
  <2>10. BehindDel'
    <3> SUFFICES ASSUME NEW v \in Writers, wpc'[v] = "deleting",
                        NEW a \in 1..Len(wire'[p]), NEW b \in 1..Len(wire'[p]), a < b,
                        wire'[p][a].op = "del", wire'[p][a].by = v, wire'[p][b].op = "set"
                 PROVE  wire'[p][b].ver >= ver[v]
      BY <2>1 DEF BehindDel
    <3>1. b \in 1..Len(wire[p]) /\ wire'[p][b] = wire[p][b]
      BY <2>4, <2>5
    <3>2. Len(wire'[p]) \in Nat /\ a # Len(wire'[p])
      <4>1. wire' \in [Instances -> Seq(Commands)]
        BY ShapeWriter DEF Shape, TypeOK
      <4>2. Len(wire'[p]) \in Nat
        BY <4>1
      <4> QED
        BY <4>2
    <3>3. a \in 1..Len(wire[p]) /\ wire'[p][a] = wire[p][a]
      BY <2>4, <3>2
    <3>4. CASE v # w
      BY <1>t, <2>2, <3>1, <3>3, <3>4 DEF Fresh, BehindDel, TypeOK
    <3>5. CASE v = w
      BY <2>1, <3>3, <3>5 DEF Fresh, DelsIssued
    <3> QED
      BY <3>4, <3>5
  <2>11. DelsIssued'
    <3>1. Command("del", 0, w).by = w
      BY DEF Command
    <3>2. \A v \in Writers : wpc'[v] \in {"idle", "committed"} => v # w /\ wpc[v] = wpc'[v]
      BY <1>t, <2>2 DEF TypeOK
    <3> QED
      BY <2>4, <3>1, <3>2 DEF Fresh, DelsIssued
  <2>12. LoadMarked'
    <3> SUFFICES ASSUME NEW v \in Writers, wpc'[v] \in Promised, NEW r \in Callers,
                        cpc[r] = "read", val[r] < ver[v]
                 PROVE  mark'[p]
      BY <1>h, <2>1 DEF LoadMarked
    <3>1. r \in Active(p)
      BY <1>h DEF Active, Counted
    <3>2. loading[p] > 0
      <4>1. Cardinality(Active(p)) \in Nat /\ IsFiniteSet(Active(p))
        BY ActiveFinite
      <4>2. Cardinality(Active(p)) # 0
        BY <3>1, <4>1, FS_EmptySet
      <4> QED
        BY <4>1, <4>2 DEF Shape, CountOK
    <3> QED
      BY <1>2, <1>h, <1>t, <3>2, Zenon DEF Delete, MarkAfterDelete, TypeOK
  <2>13. ReadsFresh'
    BY <1>t, <2>1, <2>2 DEF Fresh, ReadsFresh, TypeOK
  <2> QED
    BY <2>6, <2>7, <2>8, <2>9, <2>10, <2>11, <2>12, <2>13 DEF Fresh
<1>3. CASE DeleteAcked(w) \/ DeleteFails(w)
  <2>1. PICK x \in {"done", "failed"} :
           wpc' = [wpc EXCEPT ![w] = x] /\ (x = "done" => wpc[w] = "acked")
           /\ wpc[w] \in {"committed", "deleting", "acked"}
    BY <1>3 DEF DeleteAcked, DeleteFails
  <2>2. UNCHANGED <<db, store, wire, mark, cpc, val, owner, ver, asOf>>
    BY <1>3 DEF DeleteAcked, DeleteFails
  <2>3. Bounds' /\ LastWriter'
    BY <1>t, <2>1, <2>2 DEF Fresh, Bounds, LastWriter, TypeOK
  <2>4. DelsIssued' /\ StoreFresh' /\ WireFresh' /\ BehindDel'
    BY <1>t, <2>1, <2>2 DEF Fresh, DelsIssued, StoreFresh, WireFresh, BehindDel, NotOlder, Kept, TypeOK
  <2>5. LoadMarked' /\ ReadsFresh'
    BY <1>t, <2>1, <2>2 DEF Fresh, LoadMarked, ReadsFresh, Promised, TypeOK
  <2> QED
    BY <2>3, <2>4, <2>5 DEF Fresh
<1> QED
  BY <1>1, <1>2, <1>3 DEF WriterStep

\* Taking the first command off the connection keeps what is said of the rest.
LEMMA WirePops ==
  ASSUME NEW p, Instances = {p}, Fresh, UNCHANGED <<wpc, ver>>,
         \A q \in 1..Len(wire'[p]) : q + 1 \in 1..Len(wire[p]) /\ wire'[p][q] = wire[p][q + 1]
  PROVE  DelsIssued' /\ WireFresh' /\ BehindDel'
<1>1. DelsIssued'
  BY DEF Fresh, DelsIssued
<1>2. WireFresh'
  BY DEF Fresh, WireFresh
<1>3. BehindDel'
  <2> SUFFICES ASSUME NEW w \in Writers, wpc[w] = "deleting",
                      NEW a \in 1..Len(wire'[p]), NEW b \in 1..Len(wire'[p]), a < b,
                      wire'[p][a].op = "del", wire'[p][a].by = w, wire'[p][b].op = "set"
               PROVE  wire'[p][b].ver >= ver[w]
    BY DEF BehindDel
  <2>1. a + 1 \in 1..Len(wire[p]) /\ b + 1 \in 1..Len(wire[p]) /\ a + 1 < b + 1
    OBVIOUS
  <2> QED
    BY <2>1 DEF Fresh, BehindDel
<1> QED
  BY <1>1, <1>2, <1>3

\* Redis, the connection, the TTL and a crash keep Fresh.
LEMMA FreshEnvironment ==
  ASSUME NEW p, Instances = {p}, Shape, Fresh,
         (\E i \in Instances : Deliver(i) \/ ConnectionFlushed(i) \/ Crash(i)) \/ Expire
  PROVE  Fresh'
<1>h. \A r \in Callers : Home[r] = p
  BY HomeType
<1>t. TypeOK
  BY DEF Shape
<1>1. CASE Expire
  <2>1. Bounds'
    BY <1>1, <1>t DEF Expire, Fresh, Bounds, Absent, TypeOK
  <2>2. LastWriter' /\ DelsIssued' /\ WireFresh' /\ BehindDel' /\ LoadMarked' /\ ReadsFresh'
    BY <1>1 DEF Expire, Fresh, LastWriter, DelsIssued, WireFresh, BehindDel, LoadMarked, ReadsFresh
  <2>3. StoreFresh'
    BY <1>1 DEF Expire, StoreFresh, NotOlder, Absent
  <2> QED
    BY <2>1, <2>2, <2>3 DEF Fresh
<1>2. CASE ConnectionFlushed(p)
  <2>1. wire'[p] = <<>> /\ Len(wire'[p]) = 0
    BY <1>2, <1>t DEF ConnectionFlushed, TypeOK
  <2>2. Bounds'
    BY <1>2, <2>1 DEF ConnectionFlushed, Fresh, Bounds
  <2>3. DelsIssued' /\ WireFresh' /\ BehindDel'
    BY <2>1 DEF DelsIssued, WireFresh, BehindDel
  <2>4. LastWriter' /\ StoreFresh' /\ LoadMarked' /\ ReadsFresh'
    BY <1>2 DEF ConnectionFlushed, Fresh, LastWriter, StoreFresh, NotOlder, LoadMarked, ReadsFresh
  <2> QED
    BY <2>2, <2>3, <2>4 DEF Fresh
<1>3. CASE Crash(p)
  <2>1. wire'[p] = <<>> /\ Len(wire'[p]) = 0
    BY <1>3, <1>t DEF Crash, TypeOK
  <2>2. Bounds'
    BY <1>3, <2>1 DEF Crash, Fresh, Bounds
  <2>3. DelsIssued' /\ WireFresh' /\ BehindDel'
    BY <2>1 DEF DelsIssued, WireFresh, BehindDel
  <2>4. \A w \in Writers : wpc'[w] = wpc[w] \/ (wpc'[w] = "crashed" /\ wpc[w] \notin {"idle", "done"})
    <3> SUFFICES ASSUME NEW w \in Writers
                 PROVE  wpc'[w] = wpc[w] \/ (wpc'[w] = "crashed" /\ wpc[w] \notin {"idle", "done"})
      OBVIOUS
    <3>1. wpc'[w] = IF Home[w] = p /\ wpc[w] \in {"committed", "deleting", "acked"}
                    THEN "crashed" ELSE wpc[w]
      BY <1>3 DEF Crash
    <3> QED
      BY <3>1
  <2>5. LastWriter' /\ StoreFresh'
    BY <1>3, <2>4 DEF Crash, Fresh, LastWriter, StoreFresh, NotOlder, Kept
  <2>6. \A r \in Callers : cpc'[r] # "read"
    BY <1>3, <1>h DEF Crash, Counted
  <2>7. LoadMarked'
    BY <2>6 DEF LoadMarked
  <2>8. \A r \in Callers : cpc'[r] = cpc[r] \/ cpc'[r] = "crashed"
    BY <1>3 DEF Crash
  <2>9. ReadsFresh'
    BY <1>3, <2>4, <2>8 DEF Crash, Fresh, ReadsFresh
  <2> QED
    BY <2>2, <2>3, <2>5, <2>7, <2>9 DEF Fresh
<1>4. CASE Deliver(p)
  <2> DEFINE c == Head(wire[p])
  <2>1. wire \in [Instances -> Seq(Commands)] /\ wire[p] \in Seq(Commands) /\ wire[p] # <<>>
    BY <1>4, <1>t DEF Deliver, TypeOK
  <2>2. c = wire[p][1] /\ 1 \in 1..Len(wire[p]) /\ c \in Commands /\ Len(wire[p]) \in Nat
    BY <2>1
  <2>3. wire'[p] = Tail(wire[p]) /\ Len(wire'[p]) = Len(wire[p]) - 1
    BY <1>4, <2>1, <2>2 DEF Deliver
  <2>4. \A q \in 1..Len(wire'[p]) : q + 1 \in 1..Len(wire[p]) /\ wire'[p][q] = wire[p][q + 1]
    BY <2>1, <2>2, <2>3
  <2>5. UNCHANGED <<db, mark, owner, ver, asOf>>
    BY <1>4 DEF Deliver
  <2>6. c.ver \in Nat /\ (c.op = "get" => c.by \in Callers) /\ c.op \in {"get", "set", "del"}
    BY <2>2 DEF Commands
  <2>7. \A i \in Instances : \A q \in 1..Len(wire'[i]) : wire'[i][q].ver <= db'
    BY <2>4, <2>5 DEF Fresh, Bounds
  <2>8. CASE c.op = "get"
    <3>1. UNCHANGED <<store, wpc>>
      BY <1>4, <2>8 DEF Deliver
    <3>2. LastWriter' /\ StoreFresh'
      BY <2>5, <3>1 DEF Fresh, LastWriter, StoreFresh, NotOlder
    <3>3. DelsIssued' /\ WireFresh' /\ BehindDel'
      BY <2>4, <2>5, <3>1, WirePops
    <3>4. CASE cpc[c.by] = "getting"
      <4>1. val' = [val EXCEPT ![c.by] = store] /\ cpc' = [cpc EXCEPT ![c.by] = "got"]
        BY <1>4, <2>8, <3>4 DEF Deliver
      <4>2. Bounds'
        BY <1>t, <2>5, <2>6, <2>7, <2>8, <3>1, <4>1 DEF Fresh, Bounds, TypeOK
      <4>3. LoadMarked'
        BY <1>t, <2>5, <2>6, <2>8, <3>1, <4>1 DEF Fresh, LoadMarked, TypeOK
      <4>4. ReadsFresh'
        BY <1>t, <2>5, <2>6, <2>8, <3>1, <4>1 DEF Fresh, ReadsFresh, StoreFresh, NotOlder, Kept, TypeOK
      <4> QED
        BY <3>2, <3>3, <4>2, <4>3, <4>4 DEF Fresh
    <3>5. CASE cpc[c.by] # "getting"
      <4>1. UNCHANGED <<val, cpc>>
        BY <1>4, <2>8, <3>5 DEF Deliver
      <4>2. Bounds' /\ LoadMarked' /\ ReadsFresh'
        BY <2>5, <2>7, <3>1, <4>1 DEF Fresh, Bounds, LoadMarked, ReadsFresh
      <4> QED
        BY <3>2, <3>3, <4>2 DEF Fresh
    <3> QED
      BY <3>4, <3>5
  <2>9. CASE c.op = "set"
    <3>1. store' = c.ver /\ UNCHANGED <<val, cpc, wpc>>
      BY <1>4, <2>9 DEF Deliver
    <3>2. Bounds'
      BY <2>2, <2>5, <2>7, <3>1 DEF Fresh, Bounds
    <3>3. StoreFresh'
      BY <2>2, <2>5, <2>9, <3>1 DEF Fresh, StoreFresh, WireFresh, NotOlder
    <3>4. DelsIssued' /\ WireFresh' /\ BehindDel'
      BY <2>4, <2>5, <3>1, WirePops
    <3>5. LastWriter' /\ LoadMarked' /\ ReadsFresh'
      BY <2>5, <3>1 DEF Fresh, LastWriter, LoadMarked, ReadsFresh
    <3> QED
      BY <3>2, <3>3, <3>4, <3>5 DEF Fresh
  <2>10. CASE c.op = "del"
    <3>1. store' = Absent /\ UNCHANGED <<val, cpc>>
      BY <1>4, <2>10 DEF Deliver
    <3>2. \A w \in Writers :
             (wpc'[w] = wpc[w]) \/ (wpc[w] = "deleting" /\ wpc'[w] = "acked" /\ c.by = w)
      <4>1. CASE c.by \in Writers /\ wpc[c.by] = "deleting"
        <5>1. wpc' = [wpc EXCEPT ![c.by] = "acked"]
          BY <1>4, <2>10, <4>1 DEF Deliver
        <5> QED
          BY <1>t, <4>1, <5>1 DEF TypeOK
      <4>2. CASE ~(c.by \in Writers /\ wpc[c.by] = "deleting")
        BY <1>4, <2>10, <4>2 DEF Deliver
      <4> QED
        BY <4>1, <4>2
    <3>3. Bounds' /\ StoreFresh'
      <4>1. store' \notin Nat
        BY <3>1 DEF Absent
      <4>2. store' <= db'
        BY <1>t, <2>5, <3>1 DEF Absent, TypeOK
      <4>3. Bounds'
        BY <2>5, <2>7, <3>1, <4>2 DEF Fresh, Bounds
      <4> QED
        BY <4>1, <4>3 DEF StoreFresh, NotOlder
    <3>4. LastWriter'
      BY <2>5, <3>2 DEF Fresh, LastWriter
    <3>9. DelsIssued'
      <4> SUFFICES ASSUME NEW w \in Writers, wpc'[w] \in {"idle", "committed"},
                          NEW q \in 1..Len(wire'[p])
                   PROVE  wire'[p][q].by # w
        BY DEF DelsIssued
      <4>1. wpc[w] \in {"idle", "committed"}
        BY <3>2
      <4>2. q + 1 \in 1..Len(wire[p]) /\ wire'[p][q] = wire[p][q + 1]
        BY <2>4
      <4> QED
        BY <4>1, <4>2 DEF Fresh, DelsIssued
    <3>5. WireFresh'
      <4> SUFFICES ASSUME NEW w \in Writers, wpc'[w] \in Kept, NEW q \in 1..Len(wire'[p]),
                          wire'[p][q].op = "set"
                   PROVE  wire'[p][q].ver >= ver[w]
        BY <2>5 DEF WireFresh
      <4>1. q + 1 \in 1..Len(wire[p]) /\ wire'[p][q] = wire[p][q + 1] /\ 1 < q + 1
        BY <2>3, <2>4, <2>2
      <4>2. CASE wpc'[w] = wpc[w]
        BY <4>1, <4>2 DEF Fresh, WireFresh
      <4>3. CASE wpc[w] = "deleting" /\ c.by = w
        BY <2>2, <2>10, <4>1, <4>3 DEF Fresh, BehindDel
      <4> QED
        BY <3>2, <4>2, <4>3
    <3>6. BehindDel'
      <4> SUFFICES ASSUME NEW w \in Writers, wpc'[w] = "deleting",
                          NEW a \in 1..Len(wire'[p]), NEW b \in 1..Len(wire'[p]), a < b,
                          wire'[p][a].op = "del", wire'[p][a].by = w, wire'[p][b].op = "set"
                   PROVE  wire'[p][b].ver >= ver[w]
        BY <2>5 DEF BehindDel
      <4>1. wpc[w] = "deleting"
        BY <3>2
      <4>2. a + 1 \in 1..Len(wire[p]) /\ b + 1 \in 1..Len(wire[p]) /\ a + 1 < b + 1
        BY <2>3, <2>4, <2>2
      <4> QED
        BY <2>4, <4>1, <4>2 DEF Fresh, BehindDel
    <3>7. LoadMarked' /\ ReadsFresh'
      BY <2>5, <3>1, <3>2 DEF Fresh, LoadMarked, ReadsFresh, Promised
    <3> QED
      BY <3>3, <3>4, <3>5, <3>6, <3>7, <3>9 DEF Fresh
  <2> QED
    BY <2>6, <2>8, <2>9, <2>10
<1> QED
  BY <1>1, <1>2, <1>3, <1>4

\* With one process, Fresh is an invariant.
LEMMA FreshInvariant ==
  ASSUME NEW p, Instances = {p}
  PROVE  Spec => [](Shape /\ Fresh)
<1>1. Init => Fresh
  BY FreshInit
<1>2. Shape /\ Fresh /\ [Next]_vars => Fresh'
  <2> SUFFICES ASSUME Shape, Fresh, [Next]_vars PROVE Fresh'
    OBVIOUS
  <2>1. CASE \E r \in Callers : CallerStep(r)
    BY <2>1, FreshCaller
  <2>2. CASE \E w \in Writers : WriterStep(w)
    BY <2>2, FreshWriter
  <2>3. CASE (\E i \in Instances : Deliver(i) \/ ConnectionFlushed(i) \/ Crash(i)) \/ Expire
    BY <2>3, FreshEnvironment
  <2>4. CASE UNCHANGED vars
    BY <2>4 DEF vars, Fresh, Bounds, LastWriter, DelsIssued, StoreFresh, NotOlder, WireFresh,
                BehindDel, LoadMarked, ReadsFresh
  <2> QED
    BY <2>1, <2>2, <2>3, <2>4 DEF Next
<1> QED
  BY <1>1, <1>2, ShapeInvariant, PTL DEF Spec

\* With one process, an acknowledged invalidation is final: no load, however
\* slow, brings a value older than the acknowledged write back into Redis.
THEOREM AckedSticks ==
  ASSUME NEW p, Instances = {p}
  PROVE  Spec => []AckedInvalidationSticks
<1>1. Fresh => AckedInvalidationSticks
  BY DEF Fresh, StoreFresh, AckedInvalidationSticks, Kept
<1> QED
  BY <1>1, FreshInvariant, PTL

\* With one process, Redis is stale only while the request that wrote the
\* current version owes its invalidation or failed to deliver it.
THEOREM StaleIsOwed ==
  ASSUME NEW p, Instances = {p}
  PROVE  Spec => []StaleOnlyIfOwed
<1>1. Shape /\ Fresh => StaleOnlyIfOwed
  <2> SUFFICES ASSUME Shape, Fresh, store \in Nat, store # db
               PROVE  \E w \in Writers : /\ ver[w] > store
                                         /\ wpc[w] \in {"committed", "deleting", "failed", "crashed"}
    BY DEF StaleOnlyIfOwed
  <2>1. store < db /\ db \in Nat
    BY DEF Shape, TypeOK, Fresh, Bounds
  <2>2. PICK w \in Writers : ver[w] = db /\ wpc[w] # "idle"
    BY <2>1 DEF Fresh, LastWriter
  <2>3. wpc[w] \notin Kept
    BY <2>1, <2>2 DEF Fresh, StoreFresh, NotOlder
  <2>4. wpc[w] \in {"committed", "deleting", "failed", "crashed"}
    BY <2>2, <2>3 DEF Shape, TypeOK, WriterPC, Kept
  <2> QED
    BY <2>1, <2>2, <2>4
<1> QED
  BY <1>1, FreshInvariant, PTL

\* With one process, a call that loads or hits for itself never returns a
\* value older than a write acknowledged before the call began.
THEOREM DirectReads ==
  ASSUME NEW p, Instances = {p}
  PROVE  Spec => []DirectReadsFresh
<1>1. Shape /\ Fresh => DirectReadsFresh
  BY DEF Shape, LocalsOK, Fresh, ReadsFresh, DirectReadsFresh
<1> QED
  BY <1>1, FreshInvariant, PTL

-----------------------------------------------------------------------------
(***************************************************************************)
(* The half-open protocol of the circuit breaker, for any number of        *)
(* concurrent operations, any threshold, and any durations with a timeout  *)
(* shorter than the open period.                                           *)
(***************************************************************************)
\* A probe that is still in flight while the circuit is open again was sent
\* before the circuit opened: the period outlives it.
OldProbeEndsFirst ==
  state = "open" => \A c \in Probing : openLeft >= OpenFor - age[c]

\* The inductive invariant: no two probes can meet, because a second one
\* needs an open period to elapse and the first one times out before that.
BreakerInv == BreakerTypeOK /\ OneProbe /\ HalfOpenIsProbing /\ OldProbeEndsFirst

LEMMA BreakerInvInit == BreakerInit => BreakerInv
<1> SUFFICES ASSUME BreakerInit PROVE BreakerInv
  OBVIOUS
<1>0. probeInFlight \in BOOLEAN /\ wasProbe \in [Calls -> BOOLEAN] /\ up \in BOOLEAN
  BY DEF BreakerInit
<1>1. BreakerTypeOK
  BY <1>0, DurationsType DEF BreakerInit, BreakerTypeOK
<1>2. OneProbe /\ HalfOpenIsProbing /\ OldProbeEndsFirst
  BY DEF BreakerInit, OneProbe, HalfOpenIsProbing, OldProbeEndsFirst, Probing
<1> QED
  BY <1>1, <1>2 DEF BreakerInv

\* Sending an operation, as a probe or not.
LEMMA InvRequest ==
  ASSUME BreakerInv, NEW c \in Calls, Request(c)
  PROVE  BreakerInv'
<1> USE DEF BreakerInv
<1>1. BreakerTypeOK'
  BY DurationsType DEF Request, BreakerTypeOK
<1>2. CASE state = "closed"
  <2>1. state' = "closed" /\ wasProbe' = [wasProbe EXCEPT ![c] = FALSE]
    BY <1>2 DEF Request
  <2>2. Probing' = Probing
    BY <2>1 DEF Request, Probing, BreakerTypeOK
  <2>3. OneProbe' /\ HalfOpenIsProbing' /\ OldProbeEndsFirst'
    BY <2>1, <2>2 DEF OneProbe, HalfOpenIsProbing, OldProbeEndsFirst
  <2> QED
    BY <1>1, <2>3
<1>3. CASE state # "closed"
  <2>1. state = "open" /\ openLeft = 0
    BY <1>3 DEF Request, Allowed, HalfOpenIsProbing, BreakerTypeOK
  <2>2. Probing = {}
    <3> SUFFICES ASSUME NEW d \in Probing PROVE FALSE
      OBVIOUS
    <3>1. d \in Calls /\ age[d] \in 0..Timeout
      BY DEF Probing, BreakerTypeOK
    <3>2. 0 >= OpenFor - age[d]
      BY <2>1 DEF OldProbeEndsFirst
    <3> QED
      BY <3>1, <3>2, DurationsType, TimeoutShorter
  <2>3. state' = "half-open" /\ probeInFlight'
    BY <1>3, <2>1 DEF Request
  <2>4. wasProbe' = [wasProbe EXCEPT ![c] = TRUE] /\ flying' = flying \cup {c} /\ c \notin flying
    BY <1>3 DEF Request
  <2>5. Probing' = {c}
    BY <2>2, <2>4 DEF Probing, BreakerTypeOK
  <2>6. OneProbe' /\ HalfOpenIsProbing' /\ OldProbeEndsFirst'
    BY <2>3, <2>5 DEF OneProbe, HalfOpenIsProbing, OldProbeEndsFirst
  <2> QED
    BY <1>1, <2>6
<1> QED
  BY <1>2, <1>3

\* The end of an operation.
LEMMA InvLand ==
  ASSUME BreakerInv, NEW c \in Calls, Succeed(c) \/ Fail(c)
  PROVE  BreakerInv'
<1> USE DEF BreakerInv
<1>1. PICK how \in {"ok", "failed"} : Land(c, how)
  BY DEF Succeed, Fail
<1>2. UNCHANGED <<wasProbe, up>>
  BY DEF Succeed, Fail
<1>3. consecutiveFailures' \in Nat /\ openLeft' \in 0..OpenFor /\ state' \in {"closed", "open", "half-open"}
  BY DurationsType DEF Succeed, Fail, Open, BreakerTypeOK
<1>4. BreakerTypeOK'
  BY <1>1, <1>2, <1>3, DurationsType DEF Land, BreakerTypeOK
<1>5. Probing' = Probing \ {c}
  BY <1>1, <1>2 DEF Land, Probing
<1>6. OneProbe'
  BY <1>5 DEF OneProbe
<1>7. \A d \in Probing' : d \in Calls /\ age'[d] = age[d] /\ age[d] \in 0..Timeout
  BY <1>1, <1>5 DEF Land, Probing, BreakerTypeOK
<1>8. CASE state' = "closed"
  BY <1>4, <1>6, <1>8 DEF HalfOpenIsProbing, OldProbeEndsFirst
<1>9. CASE state' = "open" /\ openLeft' = OpenFor
  <2>1. OldProbeEndsFirst'
    BY <1>7, <1>9, DurationsType DEF OldProbeEndsFirst
  <2> QED
    BY <1>4, <1>6, <1>9, <2>1 DEF HalfOpenIsProbing
<1>10. CASE ~wasProbe[c] /\ UNCHANGED <<state, openLeft>>
  <2>1. c \notin Probing
    BY <1>10 DEF Probing
  <2>2. probeInFlight' = (probeInFlight /\ ~wasProbe[c])
    BY <1>1 DEF Land
  <2>3. Probing' = Probing
    BY <1>5, <2>1
  <2>4. HalfOpenIsProbing'
    BY <1>10, <2>2, <2>3 DEF HalfOpenIsProbing
  <2>5. OldProbeEndsFirst'
    BY <1>7, <1>10, <2>3 DEF OldProbeEndsFirst
  <2> QED
    BY <1>4, <1>6, <2>4, <2>5
<1> QED
  BY <1>8, <1>9, <1>10 DEF Succeed, Fail, Open, Trips

\* Time.
LEMMA InvTick ==
  ASSUME BreakerInv, Tick
  PROVE  BreakerInv'
<1> USE DEF BreakerInv
<1>1. BreakerTypeOK'
  BY DurationsType DEF Tick, BreakerTypeOK
<1>2. Probing' = Probing /\ UNCHANGED <<state, probeInFlight>>
  BY DEF Tick, Probing
<1>3. OneProbe' /\ HalfOpenIsProbing'
  BY <1>2 DEF OneProbe, HalfOpenIsProbing
<1>4. OldProbeEndsFirst'
  <2> SUFFICES ASSUME state = "open", NEW c \in Probing PROVE openLeft' >= OpenFor - age'[c]
    BY <1>2 DEF OldProbeEndsFirst
  <2>1. c \in Calls /\ c \in flying /\ age[c] \in 0..Timeout /\ openLeft \in 0..OpenFor
    BY DEF Probing, BreakerTypeOK
  <2>2. age'[c] = age[c] + 1
    BY <2>1 DEF Tick
  <2>3. openLeft >= OpenFor - age[c]
    BY DEF OldProbeEndsFirst
  <2>4. openLeft' = openLeft - 1
    BY <2>1, <2>3, DurationsType, TimeoutShorter DEF Tick
  <2> QED
    BY <2>1, <2>2, <2>3, <2>4, DurationsType
<1> QED
  BY <1>1, <1>3, <1>4

\* BreakerInv is an invariant of the breaker.
THEOREM BreakerInvariant == BreakerSpec => []BreakerInv
<1>1. BreakerInit => BreakerInv
  BY BreakerInvInit
<1>2. BreakerInv /\ [BreakerNext]_breakerVars => BreakerInv'
  <2> SUFFICES ASSUME BreakerInv, [BreakerNext]_breakerVars PROVE BreakerInv'
    OBVIOUS
  <2>1. ASSUME NEW c \in Calls, Request(c) PROVE BreakerInv'
    BY <2>1, InvRequest
  <2>2. ASSUME NEW c \in Calls, Succeed(c) \/ Fail(c) PROVE BreakerInv'
    BY <2>2, InvLand
  <2>3. CASE Tick
    BY <2>3, InvTick
  <2>4. ASSUME NEW c \in Calls, Reject(c) PROVE BreakerInv'
    BY <2>4 DEF Reject, BreakerInv, BreakerTypeOK, OneProbe, HalfOpenIsProbing, OldProbeEndsFirst, Probing
  <2>5. CASE RedisFlips
    BY <2>5 DEF RedisFlips, BreakerInv, BreakerTypeOK, OneProbe, HalfOpenIsProbing, OldProbeEndsFirst, Probing
  <2>6. CASE UNCHANGED breakerVars
    BY <2>6 DEF breakerVars, BreakerInv, BreakerTypeOK, OneProbe, HalfOpenIsProbing, OldProbeEndsFirst, Probing
  <2> QED
    BY <2>1, <2>2, <2>3, <2>4, <2>5, <2>6 DEF BreakerNext
<1> QED
  BY <1>1, <1>2, PTL DEF BreakerSpec

\* The circuit's counters and its periods stay within their bounds.
THEOREM BreakerTypes == BreakerSpec => []BreakerTypeOK
<1>1. BreakerInv => BreakerTypeOK
  BY DEF BreakerInv
<1> QED
  BY <1>1, BreakerInvariant, PTL

\* At most one probe is in flight, for any timeout shorter than the open
\* period.
THEOREM OneProbeAtATime == BreakerSpec => []OneProbe
<1>1. BreakerInv => OneProbe
  BY DEF BreakerInv
<1> QED
  BY <1>1, BreakerInvariant, PTL

\* A half-open breaker always has the probe in flight that will decide its
\* state.
THEOREM HalfOpenDecides == BreakerSpec => []HalfOpenIsProbing
<1>1. BreakerInv => HalfOpenIsProbing
  BY DEF BreakerInv
<1> QED
  BY <1>1, BreakerInvariant, PTL
=============================================================================
