--------------------------- MODULE DeliveryProofs ---------------------------
(***************************************************************************)
(* What reaches people, the lists they read and the process that serves    *)
(* them, proved for every value of the constants.  Each part of MCDelivery *)
(* has its inductive invariant and its theorem; the last section shows     *)
(* that a behaviour of MCDelivery is a behaviour of each part, whichever   *)
(* it works on.                                                            *)
(***************************************************************************)
EXTENDS MCDelivery, FiniteSetTheorems, TLAPS

-----------------------------------------------------------------------------
(***************************************************************************)
(* NotificationFanout.  A run still owes a row to those in todo and a      *)
(* message to those in rows; whoever it owes neither was reached, had      *)
(* muted it, or belongs to a run that was cut short.                       *)
(***************************************************************************)
FanJobs == [pc : Started \cup {"none", "queued", "over"}, todo : SUBSET Recipients, rows : SUBSET Recipients,
            stalls : 0..MaxStalls]
Waiting == {"none", "queued", "filter"}

FanoutTypes ==
  /\ mutes \subseteq MuteKeys /\ job \in [Fanouts -> FanJobs]
  /\ inserted \in [Fanouts -> [Recipients -> Nat]] /\ published \in [Fanouts -> [Recipients -> Nat]]
  /\ muteChanges \in 0..MaxMuteChanges /\ failed \subseteq Fanouts \X Recipients
  /\ mutedAlways \in [Fanouts -> SUBSET Recipients] /\ mutedOnce \in [Fanouts -> SUBSET Recipients]

\* What a run knows of each user.
RowsCounted(e, u) ==
  /\ inserted[e][u] <= 1 + job[e].stalls /\ published[e][u] <= inserted[e][u]
  /\ job[e].pc \in Waiting \/ u \in job[e].todo => inserted[e][u] <= job[e].stalls
  /\ u \in job[e].rows => published[e][u] < inserted[e][u]
Reached(e, u) ==
  /\ job[e].pc \in Waiting \/ u \in job[e].todo => inserted[e][u] = 0
  /\ u \in job[e].rows => published[e][u] = 0
  /\ job[e].pc \notin Waiting /\ u \notin job[e].todo \cup job[e].rows =>
       published[e][u] = 1 \/ (e \notin Mandatory /\ u \in mutedOnce[e] /\ inserted[e][u] = 0)
FanJobOK(e) ==
  /\ job[e].pc = "none" => \A u \in Recipients : inserted[e][u] = 0
  /\ job[e].pc \in {"none", "deliver", "over"} => job[e].todo = {}
  /\ job[e].pc = "over" => job[e].rows = {}
  /\ mutedAlways[e] \subseteq Muters(mutes, e)
  /\ job[e].pc # "none" => Muters(mutes, e) \subseteq mutedOnce[e]
  /\ e \notin Mandatory => \A u \in mutedAlways[e] : u \notin job[e].todo /\ inserted[e][u] = 0
  /\ \A u \in Recipients : RowsCounted(e, u) /\ (<<e, u>> \notin failed => Reached(e, u))

FanoutInv == FanoutTypes /\ \A e \in Fanouts : FanJobOK(e)

\* The query of the filter finds those who muted it.
LEMMA MutedAreMuters ==
  ASSUME mutes \subseteq MuteKeys, NEW e
  PROVE  Muters(mutes, e) = Muted(mutes, TypeOf[e], ClubOf[e]) /\ Muters(mutes, e) \subseteq Recipients
<1>1. Muters(mutes, e) \subseteq Recipients
  BY DEF Muters
<1>2. ASSUME NEW u \in Muters(mutes, e) PROVE u \in Muted(mutes, TypeOf[e], ClubOf[e])
  <2>1. PICK t \in {TypeOf[e], Every}, c \in {ClubOf[e], Every} : [user |-> u, type |-> t, club |-> c] \in mutes
    BY DEF Muters
  <2>. DEFINE m == [user |-> u, type |-> t, club |-> c]
  <2>2. m.user = u /\ m.type = t /\ m.club = c
    OBVIOUS
  <2>. QED
    BY <2>1, <2>2 DEF Muted
<1>3. ASSUME NEW u \in Muted(mutes, TypeOf[e], ClubOf[e]) PROVE u \in Muters(mutes, e)
  <2>1. PICK m \in mutes : m.user = u /\ m.type \in {Every, TypeOf[e]} /\ m.club \in {Every, ClubOf[e]}
    BY DEF Muted
  <2>2. m = [user |-> u, type |-> m.type, club |-> m.club] /\ u \in Recipients
    BY <2>1 DEF MuteKeys
  <2>. QED
    BY <2>1, <2>2 DEF Muters
<1>. QED
  BY <1>1, <1>2, <1>3

LEMMA FanoutInvInit == FanoutInit => FanoutInv
<1>. SUFFICES ASSUME FanoutInit PROVE FanoutInv
  OBVIOUS
<1>. DEFINE j == [pc |-> "none", todo |-> {}, rows |-> {}, stalls |-> 0]
<1>1. j \in FanJobs /\ j.pc = "none" /\ j.todo = {} /\ j.rows = {} /\ j.stalls = 0
  BY FanoutAssumption DEF FanJobs
<1>2. /\ job = [e \in Fanouts |-> j] /\ inserted = NoRows /\ published = NoRows /\ failed = {} /\ mutes = {}
      /\ muteChanges = 0 /\ mutedAlways = [e \in Fanouts |-> {}] /\ mutedOnce = [e \in Fanouts |-> {}]
  BY DEF FanoutInit
<1>. HIDE DEF j
<1>3. NoRows \in [Fanouts -> [Recipients -> Nat]]
      /\ \A e \in Fanouts, u \in Recipients : inserted[e][u] = 0 /\ published[e][u] = 0
  BY <1>2 DEF NoRows
<1>4. FanoutTypes
  BY <1>1, <1>2, <1>3, FanoutAssumption DEF FanoutTypes
<1>5. ASSUME NEW e \in Fanouts PROVE FanJobOK(e)
  <2>1. job[e] = j /\ mutedAlways[e] = {}
    BY <1>2
  <2>. QED
    BY <1>1, <1>3, <2>1 DEF FanJobOK, RowsCounted, Reached, Waiting
<1>. QED
  BY <1>4, <1>5 DEF FanoutInv

LEMMA FanoutInvStep == FanoutInv /\ [FanoutNext]_fanoutVars => FanoutInv'
<1>. SUFFICES ASSUME FanoutInv, [FanoutNext]_fanoutVars PROVE FanoutInv'
  OBVIOUS
<1>t. FanoutTypes /\ (\A e \in Fanouts : FanJobOK(e)) /\ MaxStalls \in Nat /\ MaxMuteChanges \in Nat
  BY FanoutAssumption DEF FanoutInv
<1>n. \A e \in Fanouts : /\ job[e] \in FanJobs /\ job[e].stalls \in Nat
                         /\ \A u \in Recipients : inserted[e][u] \in Nat /\ published[e][u] \in Nat
  BY <1>t DEF FanoutTypes, FanJobs
<1>1. CASE UNCHANGED fanoutVars
  BY <1>1, <1>t DEF fanoutVars, FanoutInv, FanoutTypes, FanJobOK, RowsCounted, Reached
<1>2. ASSUME NEW key \in MuteKeys, NEW on \in BOOLEAN, SetMute(key, on) PROVE FanoutInv'
  <2>0. /\ muteChanges < MaxMuteChanges /\ mutes' = IF on THEN mutes \cup {key} ELSE mutes \ {key}
        /\ muteChanges' = muteChanges + 1
        /\ mutedAlways' = [e \in Fanouts |-> mutedAlways[e] \cap Muters(mutes', e)]
        /\ mutedOnce' = [e \in Fanouts |->
                           IF job[e].pc = "none" THEN {} ELSE mutedOnce[e] \cup Muters(mutes', e)]
        /\ UNCHANGED <<job, inserted, published, failed>>
    BY <1>2 DEF SetMute
  <2>1. \A e \in Fanouts : Muters(mutes', e) \subseteq Recipients
    BY DEF Muters
  <2>2. FanoutTypes'
    <3>1. mutes' \subseteq MuteKeys
      BY <1>t, <2>0 DEF FanoutTypes
    <3>2. mutedAlways' \in [Fanouts -> SUBSET Recipients]
      BY <1>t, <2>0 DEF FanoutTypes
    <3>3. mutedOnce' \in [Fanouts -> SUBSET Recipients]
      BY <1>t, <2>0, <2>1 DEF FanoutTypes
    <3>4. muteChanges' \in 0..MaxMuteChanges
      BY <1>t, <2>0 DEF FanoutTypes
    <3>. QED
      BY <1>t, <2>0, <3>1, <3>2, <3>3, <3>4 DEF FanoutTypes
  <2>3. ASSUME NEW e \in Fanouts PROVE FanJobOK(e)'
    <3>1. mutedAlways'[e] = mutedAlways[e] \cap Muters(mutes', e)
          /\ (job[e].pc # "none" => mutedOnce'[e] = mutedOnce[e] \cup Muters(mutes', e))
      BY <2>0
    <3>2. Muters(mutes, e)' = Muters(mutes', e)
      BY DEF Muters
    <3>3. FanJobOK(e)
      BY <1>t
    <3>4. \A u \in Recipients : RowsCounted(e, u)' /\ (<<e, u>> \notin failed => Reached(e, u)')
      BY <2>0, <3>1, <3>3 DEF FanJobOK, RowsCounted, Reached, Waiting
    <3>. QED
      BY <2>0, <3>1, <3>2, <3>3, <3>4 DEF FanJobOK
  <2>. QED
    BY <2>2, <2>3 DEF FanoutInv
\* What happens to one fan-out is no matter of another.
<1>3. ASSUME NEW f \in Fanouts, FanoutTypes', FanJobOK(f)', mutes' = mutes,
             \A e \in Fanouts \ {f} :
               /\ job'[e] = job[e] /\ inserted'[e] = inserted[e] /\ published'[e] = published[e]
               /\ mutedAlways'[e] = mutedAlways[e] /\ mutedOnce'[e] = mutedOnce[e]
               /\ \A u \in Recipients : <<e, u>> \in failed => <<e, u>> \in failed'
      PROVE  FanoutInv'
  <2>1. ASSUME NEW e \in Fanouts, e # f PROVE FanJobOK(e)'
    <3>1. FanJobOK(e) /\ Muters(mutes, e)' = Muters(mutes, e)
      BY <1>3, <1>t DEF Muters
    <3>2. /\ job'[e] = job[e] /\ inserted'[e] = inserted[e] /\ published'[e] = published[e]
          /\ mutedAlways'[e] = mutedAlways[e] /\ mutedOnce'[e] = mutedOnce[e]
          /\ \A u \in Recipients : <<e, u>> \in failed => <<e, u>> \in failed'
      BY <1>3, <2>1
    <3>. QED
      BY <3>1, <3>2 DEF FanJobOK, RowsCounted, Reached
  <2>. QED
    BY <1>3, <2>1 DEF FanoutInv
\* A job moves on without a row written or sent.
<1>4. ASSUME NEW f \in Fanouts, NEW x \in FanJobs, job' = [job EXCEPT ![f] = x], x.stalls = job[f].stalls,
             UNCHANGED <<mutes, inserted, published, muteChanges, mutedAlways, mutedOnce, failed>>,
             \/ job[f].pc = "queued" /\ x.pc = "filter" /\ x.todo = job[f].todo /\ x.rows = job[f].rows
             \/ job[f].pc = "insert" /\ x.pc = "deliver" /\ job[f].todo = {} /\ x.todo = {} /\ x.rows = job[f].rows
             \/ job[f].pc = "deliver" /\ x.pc = "over" /\ x.todo = job[f].todo /\ job[f].rows = {} /\ x.rows = {}
      PROVE  FanoutInv'
  <2>1. \A e \in Fanouts : job'[e] = IF e = f THEN x ELSE job[e]
    BY <1>4, <1>t DEF FanoutTypes
  <2>2. FanoutTypes'
    BY <1>4, <1>t DEF FanoutTypes
  <2>3. FanJobOK(f) /\ Muters(mutes, f)' = Muters(mutes, f)
    BY <1>4, <1>t DEF Muters
  <2>4. FanJobOK(f)'
    BY <1>4, <2>1, <2>3 DEF FanJobOK, RowsCounted, Reached, Waiting
  <2>. QED
    BY <1>3, <1>4, <2>1, <2>2, <2>4
<1>5. ASSUME NEW f \in Fanouts, TakeJob(f) \/ Added(f) \/ FinishFanout(f) PROVE FanoutInv'
  <2>. DEFINE pc == IF TakeJob(f) THEN "filter" ELSE IF Added(f) THEN "deliver" ELSE "over"
              x == [job[f] EXCEPT !.pc = pc]
  <2>1. /\ job' = [job EXCEPT ![f] = x]
        /\ UNCHANGED <<mutes, inserted, published, muteChanges, mutedAlways, mutedOnce, failed>>
        /\ \/ job[f].pc = "queued" /\ pc = "filter"
           \/ job[f].pc = "insert" /\ pc = "deliver" /\ job[f].todo = {}
           \/ job[f].pc = "deliver" /\ pc = "over" /\ job[f].rows = {}
    BY <1>5, <1>n DEF TakeJob, Added, FinishFanout
  <2>. HIDE DEF pc
  <2>2. x \in FanJobs /\ x.pc = pc /\ x.todo = job[f].todo /\ x.rows = job[f].rows /\ x.stalls = job[f].stalls
    BY <1>n, <2>1 DEF FanJobs, Started
  <2>. HIDE DEF x
  <2>. QED
    BY <1>4, <2>1, <2>2
<1>6. ASSUME NEW f \in Fanouts, Dispatch(f) PROVE FanoutInv'
  <2>. DEFINE pc == IF f \in Large THEN "queued" ELSE "filter"
              x == [job[f] EXCEPT !.pc = pc]
  <2>0. /\ job[f].pc = "none" /\ job' = [job EXCEPT ![f] = x]
        /\ mutedAlways' = [mutedAlways EXCEPT ![f] = Muters(mutes, f)]
        /\ mutedOnce' = [mutedOnce EXCEPT ![f] = Muters(mutes, f)]
        /\ UNCHANGED <<mutes, inserted, published, muteChanges, failed>>
    BY <1>6, <1>n DEF Dispatch
  <2>1. pc \in {"queued", "filter"}
    OBVIOUS
  <2>. HIDE DEF pc
  <2>2. x \in FanJobs /\ x.pc = pc /\ x.todo = job[f].todo /\ x.rows = job[f].rows /\ x.stalls = job[f].stalls
    BY <1>n, <2>1 DEF FanJobs, Started
  <2>. HIDE DEF x
  <2>3. Muters(mutes, f) \subseteq Recipients /\ Muters(mutes, f)' = Muters(mutes, f)
    BY <2>0 DEF Muters
  <2>4. FanoutTypes'
    BY <1>t, <2>0, <2>2, <2>3 DEF FanoutTypes
  <2>5. /\ \A e \in Fanouts : job'[e] = IF e = f THEN x ELSE job[e]
        /\ \A e \in Fanouts : mutedAlways'[e] = IF e = f THEN Muters(mutes, f) ELSE mutedAlways[e]
        /\ \A e \in Fanouts : mutedOnce'[e] = IF e = f THEN Muters(mutes, f) ELSE mutedOnce[e]
    BY <1>t, <2>0 DEF FanoutTypes
  <2>6. FanJobOK(f)'
    <3>1. FanJobOK(f)
      BY <1>t
    <3>2. ASSUME NEW u \in Recipients
          PROVE  inserted[f][u] = 0 /\ published[f][u] = 0 /\ u \notin x.rows
      <4>1. inserted[f][u] = 0 /\ RowsCounted(f, u)
        BY <2>0, <3>1 DEF FanJobOK
      <4>2. published[f][u] \in Nat /\ published[f][u] <= 0
        BY <1>n, <4>1 DEF RowsCounted
      <4>3. published[f][u] = 0
        BY <4>2
      <4>. QED
        BY <2>2, <4>1, <4>3 DEF RowsCounted
    <3>5. ASSUME NEW u \in Recipients PROVE RowsCounted(f, u)' /\ Reached(f, u)'
      <4>1. /\ job'[f] = x /\ inserted'[f][u] = 0 /\ published'[f][u] = 0 /\ u \notin x.rows
            /\ x.stalls \in Nat /\ x.pc \in Waiting
        BY <1>n, <2>0, <2>1, <2>2, <2>5, <3>2 DEF Waiting
      <4>. QED
        BY <4>1 DEF RowsCounted, Reached
    <3>. QED
      <4>1. /\ job'[f] = x /\ mutedAlways'[f] = Muters(mutes, f) /\ mutedOnce'[f] = Muters(mutes, f)
            /\ x.pc \in {"queued", "filter"} /\ \A u \in Recipients : inserted'[f][u] = 0
        BY <2>0, <2>1, <2>2, <2>5, <3>2
      <4>2. x.todo \cap Recipients = {}
        BY <2>0, <2>2, <3>1 DEF FanJobOK
      <4>. QED
        BY <2>3, <3>5, <4>1, <4>2 DEF FanJobOK
  <2>. QED
    BY <1>3, <2>0, <2>4, <2>5, <2>6
<1>7. ASSUME NEW f \in Fanouts, FilterMuted(f) PROVE FanoutInv'
  <2>. DEFINE todo == IF OptOutable(f) THEN Recipients \ Muted(mutes, TypeOf[f], ClubOf[f]) ELSE Recipients
              x == [job[f] EXCEPT !.pc = "insert", !.rows = {}, !.todo = todo]
  <2>0. /\ job[f].pc = "filter" /\ job' = [job EXCEPT ![f] = x]
        /\ UNCHANGED <<mutes, inserted, published, muteChanges, mutedAlways, mutedOnce, failed>>
    BY <1>7, <1>n DEF FilterMuted
  <2>1. todo \in SUBSET Recipients /\ (f \in Mandatory => todo = Recipients)
        /\ (f \notin Mandatory => todo = Recipients \ Muters(mutes, f))
    <3>1. Muters(mutes, f) = Muted(mutes, TypeOf[f], ClubOf[f])
      BY <1>t, MutedAreMuters DEF FanoutTypes
    <3>. QED
      BY <3>1 DEF OptOutable
  <2>. HIDE DEF todo
  <2>2. x \in FanJobs /\ x.pc = "insert" /\ x.todo = todo /\ x.rows = {} /\ x.stalls = job[f].stalls
    BY <1>n, <2>1 DEF FanJobs, Started
  <2>. HIDE DEF x
  <2>3. FanoutTypes' /\ \A e \in Fanouts : job'[e] = IF e = f THEN x ELSE job[e]
    BY <1>t, <2>0, <2>2 DEF FanoutTypes
  <2>4. FanJobOK(f)'
    <3>1. FanJobOK(f) /\ Muters(mutes, f)' = Muters(mutes, f)
      BY <1>t, <2>0 DEF Muters
    <3>2. \A u \in Recipients : RowsCounted(f, u)' /\ (<<f, u>> \notin failed => Reached(f, u)')
      BY <2>0, <2>1, <2>2, <2>3, <3>1 DEF FanJobOK, RowsCounted, Reached, Waiting
    <3>. QED
      BY <2>0, <2>1, <2>2, <2>3, <3>1, <3>2 DEF FanJobOK
  <2>. QED
    BY <1>3, <2>0, <2>3, <2>4
<1>8. ASSUME NEW f \in Fanouts, NEW chunk \in SUBSET job[f].todo, AddChunk(f, chunk) PROVE FanoutInv'
  <2>. DEFINE more == [u \in Recipients |-> IF u \in chunk THEN inserted[f][u] + 1 ELSE inserted[f][u]]
              x == [job[f] EXCEPT !.todo = job[f].todo \ chunk, !.rows = job[f].rows \cup chunk]
  <2>0. /\ job[f].pc = "insert" /\ job' = [job EXCEPT ![f] = x] /\ inserted' = [inserted EXCEPT ![f] = more]
        /\ UNCHANGED <<mutes, published, muteChanges, mutedAlways, mutedOnce, failed>>
    BY <1>8, <1>n, <1>t DEF AddChunk, FanoutTypes
  <2>1. more \in [Recipients -> Nat]
        /\ \A u \in Recipients : more[u] = IF u \in chunk THEN inserted[f][u] + 1 ELSE inserted[f][u]
    BY <1>n
  <2>2. x \in FanJobs /\ x.pc = "insert" /\ x.todo = job[f].todo \ chunk /\ x.rows = job[f].rows \cup chunk
        /\ x.stalls = job[f].stalls
    BY <1>n, <2>0 DEF FanJobs
  <2>. HIDE DEF x, more
  <2>3. FanoutTypes' /\ (\A e \in Fanouts : job'[e] = IF e = f THEN x ELSE job[e])
        /\ \A e \in Fanouts : inserted'[e] = IF e = f THEN more ELSE inserted[e]
    BY <1>t, <2>0, <2>1, <2>2 DEF FanoutTypes
  <2>4. FanJobOK(f)'
    <3>1. FanJobOK(f) /\ Muters(mutes, f)' = Muters(mutes, f)
      BY <1>t, <2>0 DEF Muters
    <3>2. ASSUME NEW u \in Recipients PROVE RowsCounted(f, u)' /\ (<<f, u>> \notin failed => Reached(f, u)')
      <4>1. /\ inserted'[f][u] = IF u \in chunk THEN inserted[f][u] + 1 ELSE inserted[f][u]
            /\ published'[f][u] = published[f][u] /\ job'[f] = x
            /\ inserted[f][u] \in Nat /\ published[f][u] \in Nat /\ job[f].stalls \in Nat
        BY <1>n, <2>0, <2>1, <2>3
      <4>2. RowsCounted(f, u) /\ (<<f, u>> \notin failed => Reached(f, u))
        BY <3>1 DEF FanJobOK
      <4>3. RowsCounted(f, u)'
        BY <1>8, <2>0, <2>2, <4>1, <4>2 DEF RowsCounted, Waiting
      <4>4. <<f, u>> \notin failed => Reached(f, u)'
        BY <1>8, <2>0, <2>2, <4>1, <4>2 DEF RowsCounted, Reached, Waiting
      <4>. QED
        BY <4>3, <4>4
    <3>3. \A u \in mutedAlways[f] : f \notin Mandatory => u \notin x.todo /\ inserted'[f][u] = 0
      BY <1>8, <1>t, <2>1, <2>2, <2>3, <3>1 DEF FanJobOK, FanoutTypes
    <3>. QED
      BY <2>0, <2>2, <2>3, <3>1, <3>2, <3>3 DEF FanJobOK
  <2>. QED
    BY <1>3, <2>0, <2>3, <2>4
<1>9. ASSUME NEW f \in Fanouts, NEW v \in Recipients, NEW fails \in BOOLEAN, Deliver(f, v, fails) PROVE FanoutInv'
  <2>. DEFINE x == [job[f] EXCEPT !.rows = job[f].rows \ {v}]
              n == IF fails THEN published[f][v] ELSE published[f][v] + 1
  <2>0. /\ job[f].pc = "deliver" /\ v \in job[f].rows /\ job' = [job EXCEPT ![f] = x]
        /\ UNCHANGED <<mutes, inserted, muteChanges, mutedAlways, mutedOnce>>
        /\ failed \subseteq failed' /\ failed' \subseteq failed \cup {<<f, v>>} /\ (fails => <<f, v>> \in failed')
    BY <1>9, <1>n DEF Deliver, RowsAfter
  <2>1. /\ n \in Nat /\ (~fails => n = published[f][v] + 1) /\ n <= published[f][v] + 1
    BY <1>n
  <2>2. x \in FanJobs /\ x.pc = "deliver" /\ x.todo = job[f].todo /\ x.rows = job[f].rows \ {v}
        /\ x.stalls = job[f].stalls
    BY <1>n, <2>0 DEF FanJobs
  <2>3. published' \in [Fanouts -> [Recipients -> Nat]]
        /\ (\A e \in Fanouts \ {f} : published'[e] = published[e])
        /\ \A u \in Recipients : published'[f][u] = IF u = v THEN n ELSE published[f][u]
    <3>1. CASE fails
      BY <1>9, <1>t, <3>1 DEF Deliver, FanoutTypes
    <3>2. CASE ~fails
      <4>1. published' = [published EXCEPT ![f] = [@ EXCEPT ![v] = n]]
        BY <1>9, <3>2 DEF Deliver
      <4>. HIDE DEF n
      <4>. QED
        BY <1>t, <2>1, <4>1 DEF FanoutTypes
    <3>. QED
      BY <3>1, <3>2
  <2>. HIDE DEF x, n
  <2>4. FanoutTypes' /\ (\A e \in Fanouts : job'[e] = IF e = f THEN x ELSE job[e])
    <3>1. failed' \subseteq Fanouts \X Recipients
      BY <1>t, <2>0 DEF FanoutTypes
    <3>2. job' \in [Fanouts -> FanJobs] /\ \A e \in Fanouts : job'[e] = IF e = f THEN x ELSE job[e]
      BY <1>t, <2>0, <2>2 DEF FanoutTypes
    <3>. QED
      BY <1>t, <2>0, <2>3, <3>1, <3>2 DEF FanoutTypes
  <2>5. FanJobOK(f)'
    <3>1. FanJobOK(f) /\ Muters(mutes, f)' = Muters(mutes, f)
      BY <1>t, <2>0 DEF Muters
    <3>2. ASSUME NEW u \in Recipients PROVE RowsCounted(f, u)' /\ (<<f, u>> \notin failed' => Reached(f, u)')
      <4>1. /\ published'[f][u] = IF u = v THEN n ELSE published[f][u]
            /\ inserted'[f][u] = inserted[f][u] /\ job'[f] = x /\ job[f].todo = {}
            /\ inserted[f][u] \in Nat /\ published[f][u] \in Nat /\ job[f].stalls \in Nat
        BY <1>n, <2>0, <2>3, <2>4, <3>1 DEF FanJobOK
      <4>2. RowsCounted(f, u) /\ (<<f, u>> \notin failed => Reached(f, u))
        BY <3>1 DEF FanJobOK
      <4>3. RowsCounted(f, u)'
        BY <2>0, <2>1, <2>2, <4>1, <4>2 DEF RowsCounted, Waiting
      <4>4. <<f, u>> \notin failed' => Reached(f, u)'
        BY <2>0, <2>1, <2>2, <4>1, <4>2 DEF Reached, Waiting
      <4>. QED
        BY <4>3, <4>4
    <3>. QED
      BY <2>0, <2>2, <2>4, <3>1, <3>2 DEF FanJobOK
  <2>. QED
    BY <1>3, <2>0, <2>3, <2>4, <2>5
\* A run that an error or a crash ends.
<1>10. ASSUME NEW f \in Fanouts, NEW x \in FanJobs, job' = [job EXCEPT ![f] = x], x.todo = {}, x.rows = {},
              job[f].pc # "none", x.pc \in {"queued", "over"},
              x.stalls >= job[f].stalls, x.pc = "queued" => x.stalls = job[f].stalls + 1,
              failed' = failed \cup {<<f, u>> : u \in Recipients},
              UNCHANGED <<mutes, inserted, published, muteChanges, mutedAlways, mutedOnce>>
       PROVE  FanoutInv'
  <2>1. \A e \in Fanouts : job'[e] = IF e = f THEN x ELSE job[e]
    BY <1>10, <1>t DEF FanoutTypes
  <2>2. FanoutTypes'
    BY <1>10, <1>t DEF FanoutTypes
  <2>3. FanJobOK(f) /\ Muters(mutes, f)' = Muters(mutes, f) /\ x.stalls \in Nat
    BY <1>10, <1>t DEF Muters, FanJobs
  <2>4. ASSUME NEW u \in Recipients PROVE RowsCounted(f, u)'
    <3>1. RowsCounted(f, u) /\ job'[f] = x /\ inserted'[f][u] = inserted[f][u] /\ published'[f][u] = published[f][u]
          /\ inserted[f][u] \in Nat /\ published[f][u] \in Nat /\ job[f].stalls \in Nat
      BY <1>10, <1>n, <2>1, <2>3 DEF FanJobOK
    <3>2. inserted[f][u] <= 1 + job[f].stalls /\ published[f][u] <= inserted[f][u]
      BY <3>1 DEF RowsCounted
    <3>. QED
      BY <1>10, <2>3, <3>1, <3>2 DEF RowsCounted, Waiting
  <2>5. FanJobOK(f)'
    BY <1>10, <2>1, <2>3, <2>4 DEF FanJobOK
  <2>. QED
    BY <1>10, <1>3, <2>1, <2>2, <2>5
<1>11. ASSUME NEW f \in Fanouts, GiveUp(f) PROVE FanoutInv'
  <2>. DEFINE x == [job[f] EXCEPT !.pc = "over", !.todo = {}, !.rows = {}]
  <2>1. x \in FanJobs /\ x.todo = {} /\ x.rows = {} /\ x.pc = "over" /\ x.stalls = job[f].stalls
    BY <1>n DEF FanJobs, Started
  <2>2. job[f].pc # "none" /\ failed' = failed \cup {<<f, u>> : u \in Recipients}
        /\ UNCHANGED <<mutes, inserted, published, muteChanges, mutedAlways, mutedOnce>>
    BY <1>11 DEF GiveUp
  <2>3. job' = [job EXCEPT ![f] = x]
    BY <1>11, <1>n DEF GiveUp
  <2>. HIDE DEF x
  <2>4. x.stalls >= job[f].stalls
    BY <1>n, <2>1
  <2>. QED
    BY <1>10, <2>1, <2>2, <2>3, <2>4
<1>12. ASSUME NEW f \in Fanouts, StallJob(f) PROVE FanoutInv'
  <2>. DEFINE again == f \in Large /\ job[f].stalls < MaxStalls
              x == [pc |-> IF again THEN "queued" ELSE "over", todo |-> {}, rows |-> {},
                    stalls |-> IF again THEN job[f].stalls + 1 ELSE job[f].stalls]
  <2>1. x \in FanJobs /\ x.todo = {} /\ x.rows = {} /\ x.pc \in {"queued", "over"}
        /\ x.stalls >= job[f].stalls /\ (x.pc = "queued" => x.stalls = job[f].stalls + 1)
    <3>1. CASE again
      BY <1>n, <1>t, <3>1 DEF FanJobs
    <3>2. CASE ~again
      BY <1>n, <1>t, <3>2 DEF FanJobs
    <3>. QED
      BY <3>1, <3>2
  <2>2. job[f].pc # "none" /\ failed' = failed \cup {<<f, u>> : u \in Recipients}
        /\ UNCHANGED <<mutes, inserted, published, muteChanges, mutedAlways, mutedOnce>>
    BY <1>12 DEF StallJob, Started
  <2>3. job' = [job EXCEPT ![f] = x]
    <3>1. CASE again
      BY <1>12, <3>1 DEF StallJob
    <3>2. CASE ~again
      BY <1>12, <3>2 DEF StallJob
    <3>. QED
      BY <3>1, <3>2
  <2>. HIDE DEF x
  <2>. QED
    BY <1>10, <2>1, <2>2, <2>3
<1>. QED
  BY <1>1, <1>2, <1>5, <1>6, <1>7, <1>8, <1>9, <1>11, <1>12 DEF FanoutNext

LEMMA FanoutInvIsSound == FanoutInv => FanoutSound
<1>. SUFFICES ASSUME FanoutInv PROVE FanoutSound
  OBVIOUS
<1>1. FanoutTypeOK
  BY DEF FanoutInv, FanoutTypes, FanoutTypeOK, FanJobs
<1>2. NoRowTwice /\ KeptFirst /\ MutesKept
  BY DEF FanoutInv, FanJobOK, RowsCounted, NoRowTwice, KeptFirst, MutesKept
<1>3. ReachesAll
  BY DEF FanoutInv, FanJobOK, Reached, Waiting, ReachesAll
<1>. QED
  BY <1>1, <1>2, <1>3 DEF FanoutSound

(* Whatever is muted, dies or fails while notifications go out: a row is   *)
(* repeated only when its job was, what is published is in the table,      *)
(* whoever muted it all along has no row, and everybody else of a run that *)
(* was not cut short is reached once (notifications.service.ts,            *)
(* notifications.fanout.ts).                                               *)
THEOREM FanoutIsSound == FanoutSpec => []FanoutSound
<1>1. FanoutSpec => []FanoutInv
  BY FanoutInvInit, FanoutInvStep, PTL DEF FanoutSpec
<1>. QED
  BY <1>1, FanoutInvIsSound, PTL

-----------------------------------------------------------------------------
(***************************************************************************)
(* NotificationSockets.  A ticket that opened a socket is spent, and a     *)
(* socket that was told something since a revocation stands on an instance *)
(* that had served it.                                                     *)
(***************************************************************************)
SocketKinds == [phase : {"none", "opening", "open", "gone"}, at : Servers \cup {NoServer},
                ticket : WsTickets \cup {NoTicket}, client : {"there", "away", "cut"}, missed : 0..PingsMissed]
TicketsSpent ==
  /\ \A s \in SocketIds : socket[s].ticket \in WsTickets => wsTicket[socket[s].ticket] = "spent"
  /\ \A s, q \in SocketIds : socket[s].ticket \in WsTickets /\ socket[q].ticket = socket[s].ticket => s = q
ToldWhereRevoked == \A s \in told : socket[s].phase # "none" /\ socket[s].at \in revokedOn
SocketsInv ==
  SocketsTypeOK /\ TicketsSpent /\ ToldWhereRevoked /\ RevokedAreClosed /\ hasty = {}

LEMMA SocketsInvInit == SocketsInit => SocketsInv
<1>. SUFFICES ASSUME SocketsInit PROVE SocketsInv
  OBVIOUS
<1>1. NoSocket \in SocketKinds /\ NoSocket.ticket = NoTicket
  BY SocketsAssumption DEF NoSocket, SocketKinds
<1>2. SocketsTypeOK
  BY <1>1 DEF SocketsInit, SocketsTypeOK, SocketKinds
<1>. QED
  BY <1>1, <1>2, SocketsAssumption DEF SocketsInit, SocketsInv, TicketsSpent, ToldWhereRevoked, RevokedAreClosed

LEMMA SocketsInvStep == SocketsInv /\ [SocketsNext]_socketsVars => SocketsInv'
<1>. SUFFICES ASSUME SocketsInv, [SocketsNext]_socketsVars PROVE SocketsInv'
  OBVIOUS
<1>t. /\ wsTicket \in [WsTickets -> {"none", "live", "spent"}] /\ socket \in [SocketIds -> SocketKinds]
      /\ revokedOn \subseteq Servers /\ told \subseteq SocketIds /\ closedThen \subseteq SocketIds
      /\ hasty = {} /\ TicketsSpent /\ ToldWhereRevoked /\ RevokedAreClosed
  BY DEF SocketsInv, SocketsTypeOK, SocketKinds
<1>p. PingsMissed \in Nat /\ NoTicket \notin WsTickets
  BY SocketsAssumption
<1>1. CASE UNCHANGED socketsVars
  BY <1>1 DEF socketsVars, SocketsInv, SocketsTypeOK, TicketsSpent, ToldWhereRevoked, RevokedAreClosed
<1>2. ASSUME NEW t \in WsTickets, IssueTicket(t) \/ TicketLapses(t) PROVE SocketsInv'
  <2>1. /\ UNCHANGED <<socket, revokedOn, told, closedThen, hasty>>
        /\ wsTicket' \in [WsTickets -> {"none", "live", "spent"}]
        /\ \A k \in WsTickets : wsTicket[k] = "spent" => wsTicket'[k] = "spent"
    BY <1>2, <1>t DEF IssueTicket, TicketLapses
  <2>. QED
    BY <1>t, <2>1 DEF SocketsInv, SocketsTypeOK, SocketKinds, TicketsSpent, ToldWhereRevoked, RevokedAreClosed
\* Sockets change, but keep their tickets; none opens that was revoked.
<1>3. ASSUME UNCHANGED <<wsTicket, told, hasty>>, socket' \in [SocketIds -> SocketKinds],
             \A s \in SocketIds :
               /\ socket'[s].ticket = socket[s].ticket /\ socket'[s].at = socket[s].at
               /\ socket[s].phase # "none" => socket'[s].phase # "none"
               /\ socket[s].phase = "gone" => socket'[s].phase = "gone",
             revokedOn \subseteq revokedOn', revokedOn' \subseteq Servers, closedThen' \subseteq SocketIds,
             \A s \in closedThen' \ closedThen : socket'[s].phase = "gone" /\ s \notin told
      PROVE  SocketsInv'
  <2>1. SocketsTypeOK'
    BY <1>3, <1>t DEF SocketsTypeOK, SocketKinds
  <2>2. TicketsSpent'
    BY <1>3, <1>t DEF TicketsSpent
  <2>3. ToldWhereRevoked'
    BY <1>3, <1>t DEF ToldWhereRevoked
  <2>4. RevokedAreClosed'
    BY <1>3, <1>t DEF RevokedAreClosed
  <2>. QED
    BY <1>3, <1>t, <2>1, <2>2, <2>3, <2>4 DEF SocketsInv
<1>4. ASSUME NEW s \in SocketIds, NEW i \in Servers, NEW t \in WsTickets, Open(s, i, t) PROVE SocketsInv'
  <2>. DEFINE x == [NoSocket EXCEPT !.phase = "opening", !.at = i, !.ticket = t]
  <2>1. /\ socket[s].phase = "none" /\ wsTicket[t] = "live"
        /\ wsTicket' = [wsTicket EXCEPT ![t] = "spent"] /\ socket' = [socket EXCEPT ![s] = x]
        /\ UNCHANGED <<revokedOn, told, closedThen, hasty>>
    BY <1>4 DEF Open, TicketAfter
  <2>2. x \in SocketKinds /\ x.ticket = t
    <3>1. NoSocket \in SocketKinds
      BY <1>p DEF SocketKinds, NoSocket
    <3>. QED
      BY <3>1 DEF SocketKinds
  <2>. HIDE DEF x
  <2>3. SocketsTypeOK'
    BY <1>t, <2>1, <2>2 DEF SocketsTypeOK, SocketKinds
  <2>4. TicketsSpent'
    <3>1. \A q \in SocketIds : socket[q].ticket # t
      BY <1>t, <2>1 DEF TicketsSpent
    <3>2. \A q \in SocketIds : socket'[q] = IF q = s THEN x ELSE socket[q]
      BY <1>t, <2>1
    <3>3. \A k \in WsTickets : wsTicket'[k] = IF k = t THEN "spent" ELSE wsTicket[k]
      BY <1>t, <2>1
    <3>. QED
      BY <1>t, <2>2, <3>1, <3>2, <3>3 DEF TicketsSpent
  <2>5. s \notin told /\ s \notin closedThen
    BY <1>t, <2>1 DEF ToldWhereRevoked, RevokedAreClosed
  <2>6. ToldWhereRevoked' /\ RevokedAreClosed'
    BY <1>t, <2>1, <2>5 DEF ToldWhereRevoked, RevokedAreClosed
  <2>. QED
    BY <1>t, <2>1, <2>3, <2>4, <2>6 DEF SocketsInv
<1>5. ASSUME NEW s \in SocketIds, AddSocket(s) \/ Close(s) \/ Cut(s) \/ Pong(s) PROVE SocketsInv'
  <2>1. UNCHANGED <<wsTicket, revokedOn, told, closedThen, hasty>>
    BY <1>5 DEF AddSocket, Close, Cut, Pong
  <2>2. PICK x \in SocketKinds :
          /\ socket' = [socket EXCEPT ![s] = x]
          /\ x.ticket = socket[s].ticket /\ x.at = socket[s].at /\ x.phase # "none"
          /\ socket[s].phase \in {"opening", "open"}
    <3>1. socket[s] \in SocketKinds
      BY <1>t
    <3>2. CASE AddSocket(s)
      <4>. DEFINE x == [socket[s] EXCEPT !.phase = "open"]
      <4>1. x \in SocketKinds /\ x.ticket = socket[s].ticket /\ x.at = socket[s].at /\ x.phase = "open"
        BY <3>1 DEF SocketKinds
      <4>2. socket' = [socket EXCEPT ![s] = x] /\ socket[s].phase = "opening"
        BY <1>t, <3>1, <3>2 DEF AddSocket
      <4>. HIDE DEF x
      <4>. QED
        BY <4>1, <4>2
    <3>3. CASE Close(s)
      <4>. DEFINE x == [socket[s] EXCEPT !.client = "away", !.phase = IF @ = "open" THEN "gone" ELSE @]
      <4>1. x \in SocketKinds /\ x.ticket = socket[s].ticket /\ x.at = socket[s].at
            /\ x.phase = IF socket[s].phase = "open" THEN "gone" ELSE socket[s].phase
        BY <3>1 DEF SocketKinds
      <4>2. socket' = [socket EXCEPT ![s] = x] /\ socket[s].phase \in {"opening", "open"}
        BY <1>t, <3>1, <3>3 DEF Close
      <4>. HIDE DEF x
      <4>. QED
        BY <4>1, <4>2
    <3>4. CASE Cut(s)
      <4>. DEFINE x == [socket[s] EXCEPT !.client = "cut"]
      <4>1. x \in SocketKinds /\ x.ticket = socket[s].ticket /\ x.at = socket[s].at /\ x.phase = socket[s].phase
        BY <3>1 DEF SocketKinds
      <4>2. socket' = [socket EXCEPT ![s] = x] /\ socket[s].phase = "open"
        BY <1>t, <3>1, <3>4 DEF Cut
      <4>. HIDE DEF x
      <4>. QED
        BY <4>1, <4>2
    <3>5. CASE Pong(s)
      <4>. DEFINE x == [socket[s] EXCEPT !.missed = 0]
      <4>1. x \in SocketKinds /\ x.ticket = socket[s].ticket /\ x.at = socket[s].at /\ x.phase = socket[s].phase
        BY <1>p, <3>1 DEF SocketKinds
      <4>2. socket' = [socket EXCEPT ![s] = x] /\ socket[s].phase = "open"
        BY <1>t, <3>1, <3>5 DEF Pong
      <4>. HIDE DEF x
      <4>. QED
        BY <4>1, <4>2
    <3>. QED
      BY <1>5, <3>2, <3>3, <3>4, <3>5
  <2>3. /\ socket' \in [SocketIds -> SocketKinds]
        /\ \A q \in SocketIds :
             /\ socket'[q].ticket = socket[q].ticket /\ socket'[q].at = socket[q].at
             /\ socket[q].phase # "none" => socket'[q].phase # "none"
             /\ socket[q].phase = "gone" => socket'[q].phase = "gone"
    BY <1>t, <2>2 DEF SocketKinds
  <2>. QED
    BY <1>3, <1>t, <2>1, <2>3
<1>6. ASSUME NEW i \in Servers, Heartbeat(i) PROVE SocketsInv'
  <2>1. UNCHANGED <<wsTicket, revokedOn, told, closedThen>>
        /\ socket' = [s \in SocketIds |->
             IF s \notin Registered(i) THEN socket[s]
             ELSE IF socket[s].missed >= PingsMissed THEN [socket[s] EXCEPT !.phase = "gone"]
             ELSE [socket[s] EXCEPT !.missed = @ + 1]]
    BY <1>6 DEF Heartbeat, Stale
  <2>2. hasty' = hasty
    <3>1. \A s \in Registered(i) : ~(socket[s].missed >= PingsMissed /\ socket[s].missed < PingsMissed)
      BY <1>p, <1>t DEF Registered, SocketKinds
    <3>. QED
      BY <1>6, <3>1 DEF Heartbeat, Stale
  <2>3. ASSUME NEW s \in SocketIds
        PROVE  /\ socket'[s] \in SocketKinds
               /\ socket'[s].ticket = socket[s].ticket /\ socket'[s].at = socket[s].at
               /\ socket[s].phase # "none" => socket'[s].phase # "none"
               /\ socket[s].phase = "gone" => socket'[s].phase = "gone"
    <3>1. socket[s] \in SocketKinds
      BY <1>t
    <3>2. CASE s \notin Registered(i)
      BY <2>1, <3>1, <3>2
    <3>3. CASE s \in Registered(i) /\ socket[s].missed >= PingsMissed
      BY <2>1, <3>1, <3>3 DEF SocketKinds
    <3>4. CASE s \in Registered(i) /\ ~(socket[s].missed >= PingsMissed)
      <4>1. socket'[s] = [socket[s] EXCEPT !.missed = @ + 1] /\ socket[s].phase = "open"
        BY <2>1, <3>4 DEF Registered
      <4>2. socket[s].missed + 1 \in 0..PingsMissed
        BY <1>p, <3>1, <3>4 DEF SocketKinds
      <4>. QED
        BY <3>1, <4>1, <4>2 DEF SocketKinds
    <3>. QED
      BY <3>2, <3>3, <3>4
  <2>4. socket' \in [SocketIds -> SocketKinds]
    BY <2>1, <2>3
  <2>. QED
    BY <1>3, <1>t, <2>1, <2>2, <2>3, <2>4
<1>7. ASSUME NEW i \in Servers, RevokeOn(i) PROVE SocketsInv'
  <2>1. /\ i \notin revokedOn /\ revokedOn' = revokedOn \cup {i} /\ closedThen' = closedThen \cup Registered(i)
        /\ socket' = [s \in SocketIds |->
             IF s \in Registered(i) THEN [socket[s] EXCEPT !.phase = "gone"] ELSE socket[s]]
        /\ UNCHANGED <<wsTicket, told, hasty>>
    BY <1>7 DEF RevokeOn, ToClose
  <2>2. /\ socket' \in [SocketIds -> SocketKinds]
        /\ \A s \in SocketIds :
             /\ socket'[s].ticket = socket[s].ticket /\ socket'[s].at = socket[s].at
             /\ socket[s].phase # "none" => socket'[s].phase # "none"
             /\ socket[s].phase = "gone" => socket'[s].phase = "gone"
             /\ s \in Registered(i) => socket'[s].phase = "gone"
    BY <1>t, <2>1 DEF SocketKinds
  <2>3. Registered(i) \subseteq SocketIds /\ \A s \in Registered(i) : s \notin told
    BY <1>t, <2>1 DEF Registered, ToldWhereRevoked
  <2>. QED
    BY <1>3, <1>t, <2>1, <2>2, <2>3
<1>8. ASSUME NEW i \in Servers, DeliverLocal(i) PROVE SocketsInv'
  <2>1. /\ i \in revokedOn /\ told' = told \cup Registered(i)
        /\ UNCHANGED <<wsTicket, socket, revokedOn, closedThen, hasty>>
    BY <1>8 DEF DeliverLocal
  <2>2. \A s \in Registered(i) : s \in SocketIds /\ socket[s].phase = "open" /\ socket[s].at = i
    BY DEF Registered
  <2>. QED
    BY <1>t, <2>1, <2>2 DEF SocketsInv, SocketsTypeOK, SocketKinds, TicketsSpent, ToldWhereRevoked, RevokedAreClosed
<1>. QED
  BY <1>1, <1>2, <1>4, <1>5, <1>6, <1>7, <1>8 DEF SocketsNext

LEMMA SocketsInvIsSound == SocketsInv => SocketsSound
<1>. SUFFICES ASSUME SocketsInv PROVE SocketsSound
  OBVIOUS
<1>1. OneSocketPerTicket
  <2>. SUFFICES ASSUME NEW t \in WsTickets
                PROVE  Cardinality({s \in SocketIds : socket[s].ticket = t}) <= 1
    BY DEF OneSocketPerTicket
  <2>. DEFINE S == {s \in SocketIds : socket[s].ticket = t}
  <2>1. S = {} \/ \E s \in SocketIds : S = {s}
    BY DEF SocketsInv, TicketsSpent
  <2>. HIDE DEF S
  <2>2. Cardinality(S) <= 1
    <3>1. CASE S = {}
      BY <3>1, FS_EmptySet
    <3>2. ASSUME NEW s \in SocketIds, S = {s} PROVE Cardinality(S) = 1
      BY <3>2, FS_Singleton
    <3>. QED
      BY <2>1, <3>1, <3>2
  <2>. QED
    BY <2>2 DEF S
<1>. QED
  BY <1>1 DEF SocketsInv, SocketsSound

(* A ticket opens one socket, a socket that answers is not dropped, and    *)
(* one that was open where its session was revoked is closed and told      *)
(* nothing more, on any number of servers and sockets                      *)
(* (notifications.gateway.ts, notifications.routes.ts).                    *)
THEOREM SocketsAreSound == SocketsSpec => []SocketsSound
<1>1. SocketsSpec => []SocketsInv
  BY SocketsInvInit, SocketsInvStep, PTL DEF SocketsSpec
<1>. QED
  BY <1>1, SocketsInvIsSound, PTL

-----------------------------------------------------------------------------
(***************************************************************************)
(* PushDevices.  A sender calls an endpoint dead only when the push        *)
(* service has forgotten it, which it does for good.                       *)
(***************************************************************************)
PushTypes ==
  /\ subscription \in [Devices -> Owners \cup {Nobody}] /\ wanted \in [Devices -> Owners \cup {Nobody}]
  /\ sending \in [Sends -> [pc : {"idle", "sending", "done"}, waiting : SUBSET Devices, dead : SUBSET Devices]]
DeadAreForgotten == \A s \in Sends : sending[s].dead \subseteq forgotten
PushInv == PushTypes /\ DeadAreForgotten /\ PushSound

LEMMA PushInvInit == PushInit => PushInv
<1>. SUFFICES ASSUME PushInit PROVE PushInv
  OBVIOUS
<1>1. NoSend \in [pc : {"idle", "sending", "done"}, waiting : SUBSET Devices, dead : SUBSET Devices]
      /\ NoSend.dead = {}
  BY DEF NoSend
<1>. QED
  BY <1>1 DEF PushInit, PushInv, PushTypes, DeadAreForgotten, PushSound

LEMMA PushInvStep == PushInv /\ [PushNext]_pushVars => PushInv'
<1>. SUFFICES ASSUME PushInv, [PushNext]_pushVars PROVE PushInv'
  OBVIOUS
<1>. USE DEF PushInv
<1>0. NoSend = [pc |-> "idle", waiting |-> {}, dead |-> {}]
  BY DEF NoSend
<1>1. CASE UNCHANGED pushVars
  BY <1>1 DEF pushVars, PushTypes, DeadAreForgotten, PushSound
<1>2. ASSUME NEW d \in Devices, unsubscribePush(d) PROVE PushInv'
  BY <1>2 DEF unsubscribePush, PushTypes, DeadAreForgotten, PushSound
<1>3. ASSUME NEW d \in Devices, Forget(d) PROVE PushInv'
  BY <1>3 DEF Forget, PushTypes, DeadAreForgotten, PushSound
<1>4. ASSUME NEW d \in Devices, NEW u \in Owners, subscribePush(d, u) PROVE PushInv'
  BY <1>4 DEF subscribePush, Upserted, PushTypes, DeadAreForgotten, PushSound
\* A sender that lists its devices, or asks about one of them.
<1>5. ASSUME NEW s \in Sends, UNCHANGED <<subscription, forgotten, wanted>>,
             NEW x \in [pc : {"idle", "sending", "done"}, waiting : SUBSET Devices, dead : SUBSET Devices],
             sending' = [sending EXCEPT ![s] = x], x.dead \subseteq forgotten
      PROVE  PushInv'
  BY <1>5 DEF PushTypes, DeadAreForgotten, PushSound
<1>6. ASSUME NEW s \in Sends, NEW u \in Owners, ListDevices(s, u) PROVE PushInv'
  <2>. DEFINE mine == {d \in Devices : subscription[d] = u}
              x == [NoSend EXCEPT !.pc = IF mine = {} THEN "done" ELSE "sending", !.waiting = mine]
  <2>1. sending' = [sending EXCEPT ![s] = x] /\ UNCHANGED <<subscription, forgotten, wanted>>
    BY <1>6 DEF ListDevices
  <2>2. x \in [pc : {"idle", "sending", "done"}, waiting : SUBSET Devices, dead : SUBSET Devices] /\ x.dead = {}
    BY <1>0
  <2>. HIDE DEF x
  <2>. QED
    BY <1>5, <2>1, <2>2
<1>7. ASSUME NEW s \in Sends, NEW d \in Devices, NEW answer \in {"sent", "gone", "failed"}, Answered(s, d, answer)
      PROVE  PushInv'
  <2>. DEFINE x == [sending[s] EXCEPT !.waiting = @ \ {d}, !.dead = IF Gone(answer) THEN @ \cup {d} ELSE @]
  <2>1. sending' = [sending EXCEPT ![s] = x] /\ UNCHANGED <<subscription, forgotten, wanted>>
    BY <1>7 DEF Answered, PushTypes
  <2>2. x \in [pc : {"idle", "sending", "done"}, waiting : SUBSET Devices, dead : SUBSET Devices]
    BY DEF PushTypes
  <2>3. x.dead \subseteq forgotten
    BY <1>7 DEF Answered, Gone, PushTypes, DeadAreForgotten
  <2>. HIDE DEF x
  <2>. QED
    BY <1>5, <2>1, <2>2, <2>3
<1>8. ASSUME NEW s \in Sends, Prune(s) PROVE PushInv'
  <2>. DEFINE x == [NoSend EXCEPT !.pc = "done"]
  <2>1. sending' = [sending EXCEPT ![s] = x] /\ UNCHANGED <<forgotten, wanted>>
    BY <1>8 DEF Prune
  <2>0. x \in [pc : {"idle", "sending", "done"}, waiting : SUBSET Devices, dead : SUBSET Devices] /\ x.dead = {}
    BY <1>0
  <2>. HIDE DEF x
  <2>2. \A d \in Devices : subscription'[d] = subscription[d]
                           \/ (d \in forgotten /\ subscription'[d] = Nobody)
    BY <1>8 DEF Prune, PushTypes, DeadAreForgotten
  <2>3. subscription' \in [Devices -> Owners \cup {Nobody}]
    BY <1>8, <2>2 DEF Prune, PushTypes
  <2>4. PushTypes' /\ DeadAreForgotten'
    BY <2>0, <2>1, <2>3 DEF PushTypes, DeadAreForgotten
  <2>. QED
    BY <2>1, <2>2, <2>4 DEF PushSound
<1>. QED
  BY <1>1, <1>2, <1>3, <1>4, <1>6, <1>7, <1>8 DEF PushNext

(* A browser keeps its subscription, and it is that of whoever used it     *)
(* last, whatever senders find dead meanwhile (push.sender.ts).            *)
THEOREM PushIsSound == PushSpec => []PushSound
<1>1. PushInv => PushSound
  BY DEF PushInv
<1>. QED
  BY <1>1, PushInvInit, PushInvStep, PTL DEF PushSpec

-----------------------------------------------------------------------------
(***************************************************************************)
(* AnnouncementBoard.  As long as no two requests that pin overlapped, the *)
(* post of one that was let through still fits into what is allowed,       *)
(* whether it was counted or was pinned already when it was asked for; and *)
(* a cached list is the table's unless a change is owed to it or was       *)
(* missed.                                                                 *)
(***************************************************************************)
BoardRows == [status : {"none", "draft", "published"}, pinned : BOOLEAN, visibility : Audiences \cup {Kept}]
BoardOps == {"create", "draft", "publish", "update", "remove"}
BoardAsked == [pc : {"idle", "counting", "checked", "refused", "unannounced", "written", "done", "failed"},
               op : BoardOps \cup {"none"}, post : Posts, pinned : BOOLEAN \cup {Kept},
               visibility : Audiences \cup {Kept}]
WellAsked(x) ==
  /\ x.pc # "idle" => x.op \in BoardOps
  /\ x.op \in {"create", "draft"} => x.pinned \in BOOLEAN

BoardTypes ==
  /\ posts \in [Posts -> BoardRows] /\ DOMAIN boardLists = {"staff", "published"}
  /\ boardLists = [list \in {"staff", "published"} |-> boardLists[list]]
  /\ asked \in [BoardRequests -> BoardAsked] /\ \A r \in BoardRequests : WellAsked(asked[r])
  /\ raced \in BOOLEAN
  /\ pinLimit \in PinLimits /\ allowed \in Nat /\ pinLimit <= allowed
PinsFit == \A r \in BoardRequests : PinsNow(r) => Cardinality(Pinned \cup {asked[r].post}) <= allowed
ListsFresh ==
  \A list \in {"staff", "published"} :
    list \in missed \/ Owed \/ boardLists[list] = NoList \/ boardLists[list] = Load(list)

BoardInv == BoardTypes /\ (raced \/ PinsFit) /\ PinsBounded /\ ListsFresh

LEMMA PostsAreFinite ==
  ASSUME NEW S \in SUBSET Posts
  PROVE  /\ IsFiniteSet(S) /\ Cardinality(S) \in Nat
         /\ \A T \in SUBSET S : Cardinality(T) <= Cardinality(S) /\ Cardinality(T) \in Nat
         /\ \A p \in Posts : Cardinality(S \cup {p}) <= Cardinality(S) + 1
<1>1. IsFiniteSet(S) /\ Cardinality(S) \in Nat
  BY BoardAssumption, FS_Subset, FS_CardinalityType
<1>2. ASSUME NEW T \in SUBSET S PROVE Cardinality(T) <= Cardinality(S) /\ Cardinality(T) \in Nat
  BY <1>1, FS_Subset, FS_CardinalityType
<1>3. ASSUME NEW p \in Posts PROVE Cardinality(S \cup {p}) <= Cardinality(S) + 1
  <2>1. Cardinality(S \cup {p}) = IF p \in S THEN Cardinality(S) ELSE Cardinality(S) + 1
    BY <1>1, FS_AddElement
  <2>. QED
    BY <1>1, <2>1
<1>. QED
  BY <1>1, <1>2, <1>3

LEMMA BoardInvInit == BoardInit => BoardInv
<1>. SUFFICES ASSUME BoardInit PROVE BoardInv
  OBVIOUS
<1>p. OldPost \in Posts /\ DraftPost \in Posts /\ OldPost # DraftPost
  BY BoardAssumption
<1>1. NoRequest \in BoardAsked /\ WellAsked(NoRequest) /\ NoRequest.pc = "idle"
  BY <1>p DEF NoRequest, BoardAsked, WellAsked
<1>2. ASSUME NEW p \in Posts
      PROVE  posts[p] \in BoardRows /\ (posts[p].pinned <=> p = OldPost)
  <2>0. posts[p] = CASE p = OldPost -> NewPost("published", TRUE, "university")
                     [] p = DraftPost -> NewPost("draft", FALSE, "members")
                     [] OTHER -> NoPost
    BY DEF BoardInit
  <2>1. CASE p = OldPost
    <3>1. posts[p] = NewPost("published", TRUE, "university")
      BY <1>p, <2>0, <2>1
    <3>. QED
      BY <2>1, <3>1 DEF NewPost, BoardRows, Audiences
  <2>2. CASE p = DraftPost
    <3>1. posts[p] = NewPost("draft", FALSE, "members")
      BY <1>p, <2>0, <2>2
    <3>. QED
      BY <1>p, <2>2, <3>1 DEF NewPost, BoardRows, Audiences
  <2>3. CASE p # OldPost /\ p # DraftPost
    <3>1. posts[p] = NoPost
      BY <2>0, <2>3
    <3>. QED
      BY <2>3, <3>1 DEF NoPost, BoardRows, Audiences
  <2>. QED
    BY <2>1, <2>2, <2>3
<1>3. BoardTypes
  <2>1. posts \in [Posts -> BoardRows]
    BY <1>2 DEF BoardInit
  <2>2. boardLists = [staff |-> NoList, published |-> NoList]
    BY DEF BoardInit
  <2>3. DOMAIN boardLists = {"staff", "published"}
        /\ boardLists = [list \in {"staff", "published"} |-> boardLists[list]]
    BY <2>2
  <2>4. pinLimit \in PinLimits /\ allowed \in Nat /\ pinLimit <= allowed
    BY BoardAssumption DEF BoardInit
  <2>. QED
    BY <1>1, <2>1, <2>3, <2>4 DEF BoardInit, BoardTypes
<1>4. Pinned = {OldPost}
  BY <1>p, <1>2 DEF Pinned
<1>5. PinsBounded /\ PinsFit
  BY <1>1, <1>4, BoardAssumption, FS_Singleton DEF BoardInit, PinsBounded, PinsFit, PinsNow
<1>6. ListsFresh
  BY DEF BoardInit, ListsFresh
<1>. QED
  BY <1>3, <1>5, <1>6 DEF BoardInv

LEMMA BoardInvStep == BoardInv /\ [BoardNext]_boardVars => BoardInv'
<1>. SUFFICES ASSUME BoardInv, [BoardNext]_boardVars PROVE BoardInv'
  OBVIOUS
<1>t. BoardTypes /\ (raced \/ PinsFit) /\ PinsBounded /\ ListsFresh
  BY DEF BoardInv
<1>k. Kept \notin BOOLEAN /\ OldPost \in Posts /\ pinLimit \in Nat /\ allowed \in Nat /\ pinLimit <= allowed
  BY <1>t, BoardAssumption DEF BoardTypes
<1>c. IsFiniteSet(Pinned) /\ Cardinality(Pinned) \in Nat
      /\ \A p \in Posts : Cardinality(Pinned \cup {p}) <= Cardinality(Pinned) + 1
                          /\ Cardinality(Pinned \cup {p}) \in Nat
  <2>1. Pinned \in SUBSET Posts /\ \A p \in Posts : Pinned \cup {p} \in SUBSET Posts
    BY DEF Pinned
  <2>. QED
    BY <2>1, PostsAreFinite
<1>1. CASE UNCHANGED boardVars
  BY <1>1, <1>t DEF boardVars, BoardInv, BoardTypes, WellAsked, PinsFit, PinsNow, PinsBounded, Pinned, ListsFresh, Owed,
                    Load, findByClubForStaff, findPublishedByClub, RowsOf
\* The lists change, the board does not.
<1>2. ASSUME UNCHANGED <<posts, pinLimit, asked, allowed, raced>>, DOMAIN boardLists' = {"staff", "published"},
             boardLists' = [list \in {"staff", "published"} |-> boardLists'[list]],
             \A list \in {"staff", "published"} :
               \/ boardLists'[list] \in {NoList, Load(list)}
               \/ boardLists'[list] = boardLists[list] /\ (list \in missed => list \in missed')
      PROVE  BoardInv'
  <2>1. \A list \in {"staff", "published"} : Load(list)' = Load(list)
    BY <1>2 DEF Load, findByClubForStaff, findPublishedByClub, RowsOf
  <2>2. Owed' = Owed
    BY <1>2 DEF Owed
  <2>3. ListsFresh'
    BY <1>2, <1>t, <2>1, <2>2 DEF ListsFresh
  <2>4. BoardTypes' /\ (raced \/ PinsFit)' /\ PinsBounded'
    BY <1>2, <1>t DEF BoardTypes, WellAsked, PinsFit, PinsNow, PinsBounded, Pinned
  <2>. QED
    BY <2>3, <2>4 DEF BoardInv
<1>3. ASSUME NEW list \in {"staff", "published"}, ReadList(list) \/ ListExpires(list) PROVE BoardInv'
  BY <1>2, <1>3, <1>t DEF ReadList, ListExpires, BoardTypes
\* A request moves, and the board and its lists do not.
<1>4. ASSUME NEW r \in BoardRequests, NEW x \in BoardAsked, WellAsked(x), asked' = [asked EXCEPT ![r] = x],
             UNCHANGED <<posts, pinLimit, boardLists, allowed, raced, missed>>,
             asked[r].pc \in {"unannounced", "written"} => x.pc = "written",
             x.pc = "checked" /\ x.pinned = TRUE /\ ~raced => Cardinality(Pinned \cup {x.post}) <= allowed
      PROVE  BoardInv'
  <2>1. \A q \in BoardRequests : asked'[q] = IF q = r THEN x ELSE asked[q]
    BY <1>4, <1>t DEF BoardTypes
  <2>2. BoardTypes'
    <3>1. asked' \in [BoardRequests -> BoardAsked]
      BY <1>4, <1>t DEF BoardTypes
    <3>2. \A q \in BoardRequests : WellAsked(asked[q])'
      BY <1>4, <1>t, <2>1 DEF BoardTypes, WellAsked
    <3>. QED
      BY <1>4, <1>t, <3>1, <3>2 DEF BoardTypes
  <2>3. Pinned' = Pinned
    BY <1>4 DEF Pinned
  <2>4. (raced \/ PinsFit)' /\ PinsBounded'
    BY <1>4, <1>t, <2>1, <2>3 DEF PinsFit, PinsNow, PinsBounded
  <2>5. Owed => Owed'
    BY <1>4, <2>1 DEF Owed
  <2>6. \A list \in {"staff", "published"} : Load(list)' = Load(list)
    BY <1>4 DEF Load, findByClubForStaff, findPublishedByClub, RowsOf
  <2>7. ListsFresh'
    BY <1>4, <1>t, <2>5, <2>6 DEF ListsFresh
  <2>. QED
    BY <2>2, <2>4, <2>7 DEF BoardInv
<1>5. ASSUME NEW r \in BoardRequests, NEW p \in Posts, NEW publish \in BOOLEAN, NEW pinned \in BOOLEAN,
             NEW visibility \in Audiences, AskCreate(r, p, publish, pinned, visibility)
      PROVE  BoardInv'
  <2>. DEFINE x == [pc |-> IF pinned THEN "counting" ELSE "checked", post |-> p, pinned |-> pinned,
                    op |-> IF publish THEN "create" ELSE "draft", visibility |-> visibility]
  <2>1. asked[r].pc = "idle" /\ asked' = [asked EXCEPT ![r] = x] /\ UNCHANGED <<posts, pinLimit, boardLists, allowed, raced, missed>>
    BY <1>5 DEF AskCreate, Begin
  <2>2. x \in BoardAsked /\ WellAsked(x)
    BY DEF BoardAsked, WellAsked, BoardOps
  <2>3. ~(x.pc = "checked" /\ x.pinned = TRUE)
    OBVIOUS
  <2>. HIDE DEF x
  <2>. QED
    BY <1>4, <2>1, <2>2, <2>3
<1>6. ASSUME NEW r \in BoardRequests, NEW p \in Posts, NEW pinned \in {TRUE, FALSE, Kept},
             NEW visibility \in Audiences \cup {Kept}, AskUpdate(r, p, pinned, visibility)
      PROVE  BoardInv'
  <2>. DEFINE x == [pc |-> IF Counts(posts[p], pinned) THEN "counting" ELSE "checked",
                    op |-> "update", post |-> p, pinned |-> pinned, visibility |-> visibility]
  <2>1. asked[r].pc = "idle" /\ asked' = [asked EXCEPT ![r] = x] /\ UNCHANGED <<posts, pinLimit, boardLists, allowed, raced, missed>>
    BY <1>6 DEF AskUpdate, Begin
  <2>2. x \in BoardAsked /\ WellAsked(x)
    BY DEF BoardAsked, WellAsked, BoardOps
  <2>3. x.pc = "checked" /\ x.pinned = TRUE => p \in Pinned /\ x.post = p
    BY DEF Counts, Pinned
  <2>4. x.pc = "checked" /\ x.pinned = TRUE => Pinned \cup {x.post} = Pinned
    BY <2>3
  <2>. HIDE DEF x
  <2>. QED
    BY <1>4, <1>t, <2>1, <2>2, <2>4 DEF PinsBounded
<1>7. ASSUME NEW r \in BoardRequests, NEW p \in Posts, AskPublish(r, p) \/ AskRemove(r, p) PROVE BoardInv'
  <2>0. PICK op \in {"publish", "remove"} :
          /\ asked[r].pc = "idle"
          /\ asked' = [asked EXCEPT ![r] = [NoRequest EXCEPT !.pc = "checked", !.op = op, !.post = p]]
          /\ UNCHANGED <<posts, pinLimit, boardLists, allowed, raced, missed>>
    BY <1>7 DEF AskPublish, AskRemove, Begin
  <2>. DEFINE x == [NoRequest EXCEPT !.pc = "checked", !.op = op, !.post = p]
  <2>1. NoRequest \in BoardAsked /\ NoRequest.pinned = Kept
    BY <1>k DEF NoRequest, BoardAsked
  <2>2. x \in BoardAsked /\ x.pinned = Kept /\ x.pc = "checked" /\ x.op = op
    BY <2>1 DEF BoardAsked, BoardOps
  <2>. HIDE DEF x
  <2>3. WellAsked(x) /\ asked' = [asked EXCEPT ![r] = x]
    BY <2>0, <2>2 DEF WellAsked, BoardOps, x
  <2>. QED
    BY <1>4, <1>k, <2>0, <2>2, <2>3
<1>8. ASSUME NEW r \in BoardRequests, assertPinnedCapacity(r) \/ Notify(r) PROVE BoardInv'
  <2>1. CASE assertPinnedCapacity(r)
    <3>. DEFINE pc == IF HasRoom THEN "checked" ELSE "refused"
                x == [asked[r] EXCEPT !.pc = pc]
    <3>0. asked[r] \in BoardAsked /\ WellAsked(asked[r]) /\ asked[r].pc = "counting"
      BY <1>t, <2>1 DEF assertPinnedCapacity, BoardTypes
    <3>1. pc \in {"checked", "refused"} /\ (pc = "checked" => HasRoom)
      OBVIOUS
    <3>2. asked' = [asked EXCEPT ![r].pc = pc] /\ UNCHANGED <<posts, pinLimit, boardLists, allowed, raced, missed>>
      BY <2>1 DEF assertPinnedCapacity
    <3>. HIDE DEF pc
    <3>3. x \in BoardAsked /\ WellAsked(x) /\ x.post = asked[r].post /\ x.post \in Posts /\ x.pc = pc
      BY <3>0, <3>1 DEF BoardAsked, WellAsked
    <3>4. asked' = [asked EXCEPT ![r] = x]
      BY <1>t, <3>2 DEF BoardTypes
    <3>. HIDE DEF x
    <3>5. x.pc = "checked" => Cardinality(Pinned \cup {x.post}) <= allowed
      BY <1>c, <1>k, <3>1, <3>3 DEF HasRoom
    <3>. QED
      BY <1>4, <3>0, <3>2, <3>3, <3>4, <3>5
  <2>2. CASE Notify(r)
    <3>. DEFINE x == [asked[r] EXCEPT !.pc = "written"]
    <3>0. asked[r] \in BoardAsked /\ WellAsked(asked[r]) /\ asked[r].pc = "unannounced"
      BY <1>t, <2>2 DEF Notify, BoardTypes
    <3>1. asked' = [asked EXCEPT ![r] = x] /\ UNCHANGED <<posts, pinLimit, boardLists, allowed, raced, missed>>
      BY <1>t, <2>2 DEF Notify, BoardTypes
    <3>3. x \in BoardAsked /\ WellAsked(x) /\ x.pc = "written"
      BY <3>0 DEF BoardAsked, WellAsked
    <3>. HIDE DEF x
    <3>. QED
      BY <1>4, <3>1, <3>3
  <2>. QED
    BY <1>8, <2>1, <2>2
<1>9. ASSUME NEW r \in BoardRequests, Write(r) PROVE BoardInv'
  <2>. DEFINE y == asked[r]
  <2>0. y \in BoardAsked /\ y.pc = "checked" /\ y.op \in BoardOps /\ y.post \in Posts
        /\ (y.op \in {"create", "draft"} => y.pinned \in BOOLEAN)
    BY <1>9, <1>t DEF Write, BoardTypes, BoardAsked, WellAsked
  <2>1. CASE ~MayWrite(y)
    <3>. DEFINE x == [asked[r] EXCEPT !.pc = "refused"]
    <3>1. asked' = [asked EXCEPT ![r] = x] /\ UNCHANGED <<posts, pinLimit, boardLists, allowed, raced, missed>>
      BY <1>9, <1>t, <2>1 DEF Write, BoardTypes
    <3>3. x \in BoardAsked /\ WellAsked(x) /\ x.pc = "refused"
      BY <1>t, <2>0 DEF BoardAsked, WellAsked
    <3>. HIDE DEF x
    <3>. QED
      BY <1>4, <2>0, <3>1, <3>3
  <2>2. CASE MayWrite(y)
    <3>. DEFINE z == Written(y)
                pc == IF y.op \in {"create", "publish"} THEN "unannounced" ELSE "written"
                x == [asked[r] EXCEPT !.pc = pc]
    <3>0. /\ posts' = [posts EXCEPT ![y.post] = z] /\ asked' = [asked EXCEPT ![r].pc = pc]
          /\ raced' = (raced \/ (PinsNow(r) /\ \E q \in BoardRequests \ {r} : PinsNow(q)))
          /\ UNCHANGED <<pinLimit, boardLists, allowed, missed>>
      BY <1>9, <2>2 DEF Write
    <3>1. pc \in {"unannounced", "written"}
      OBVIOUS
    <3>2. x \in BoardAsked /\ WellAsked(x) /\ x.pc = pc /\ x.post = y.post
      BY <1>t, <2>0, <3>1 DEF BoardAsked, WellAsked
    <3>3. asked' = [asked EXCEPT ![r] = x]
      BY <1>t, <3>0 DEF BoardTypes
    <3>. HIDE DEF pc
    <3>4. asked' \in [BoardRequests -> BoardAsked]
          /\ \A q \in BoardRequests : asked'[q] = IF q = r THEN x ELSE asked[q]
      BY <1>t, <3>2, <3>3 DEF BoardTypes
    <3>5. z \in BoardRows /\ (z.pinned => posts[y.post].pinned \/ y.pinned = TRUE)
      <4>. DEFINE row == posts[y.post]
      <4>0. row \in BoardRows /\ y.pinned \in BOOLEAN \cup {Kept} /\ y.visibility \in Audiences \cup {Kept}
        BY <1>t, <2>0 DEF BoardTypes, BoardAsked
      <4>1. CASE y.op = "create"
        <5>1. z = NewPost("published", y.pinned, y.visibility)
          BY <4>1 DEF Written
        <5>. QED
          BY <2>0, <4>0, <4>1, <5>1 DEF NewPost, BoardRows
      <4>2. CASE y.op = "draft"
        <5>1. z = NewPost("draft", y.pinned, y.visibility)
          BY <4>2 DEF Written
        <5>. QED
          BY <2>0, <4>0, <4>2, <5>1 DEF NewPost, BoardRows
      <4>3. CASE y.op = "remove"
        <5>1. z = NoPost
          BY <4>3 DEF Written
        <5>. QED
          BY <5>1 DEF NoPost, BoardRows, Audiences
      <4>4. CASE y.op = "publish"
        <5>1. z = [row EXCEPT !.status = "published"]
          BY <4>4 DEF Written
        <5>. QED
          BY <4>0, <5>1 DEF BoardRows
      <4>5. CASE y.op = "update"
        <5>1. z = [row EXCEPT !.pinned = IF y.pinned = Kept THEN @ ELSE y.pinned,
                              !.visibility = IF y.visibility = Kept THEN @ ELSE y.visibility]
          BY <4>5 DEF Written, Patch
        <5>. DEFINE pin == IF y.pinned = Kept THEN row.pinned ELSE y.pinned
                    vis == IF y.visibility = Kept THEN row.visibility ELSE y.visibility
        <5>2. pin \in BOOLEAN /\ vis \in Audiences \cup {Kept} /\ (pin = TRUE => row.pinned = TRUE \/ y.pinned = TRUE)
          BY <4>0 DEF BoardRows
        <5>3. z = [row EXCEPT !.pinned = pin, !.visibility = vis]
          BY <5>1, <4>0 DEF BoardRows
        <5>. HIDE DEF pin, vis
        <5>. QED
          BY <4>0, <5>2, <5>3 DEF BoardRows
      <4>. QED
        BY <2>0, <4>1, <4>2, <4>3, <4>4, <4>5 DEF BoardOps
    <3>. HIDE DEF z, x
    <3>6. BoardTypes'
      <4>1. posts' \in [Posts -> BoardRows] /\ raced' \in BOOLEAN
        BY <1>t, <2>0, <3>0, <3>5 DEF BoardTypes
      <4>2. \A q \in BoardRequests : WellAsked(asked[q])'
        BY <1>t, <3>2, <3>4 DEF BoardTypes, WellAsked
      <4>. QED
        BY <1>t, <3>0, <3>4, <4>1, <4>2 DEF BoardTypes
    <3>7. Pinned' \subseteq Pinned \cup (IF y.pinned = TRUE THEN {y.post} ELSE {})
      BY <1>t, <2>0, <3>0, <3>5 DEF Pinned, BoardTypes
    <3>8. (raced \/ PinsFit)' /\ PinsBounded'
      <4>. SUFFICES ASSUME ~raced' PROVE PinsFit' /\ Cardinality(Pinned') <= allowed'
        BY DEF PinsBounded
      <4>1. ~raced /\ (PinsNow(r) => \A q \in BoardRequests \ {r} : ~PinsNow(q))
        BY <3>0
      <4>2. Cardinality(Pinned) <= allowed /\ PinsFit
        BY <1>t, <4>1 DEF PinsBounded
      <4>3. ~PinsNow(r)' /\ \A q \in BoardRequests \ {r} : PinsNow(q)' = PinsNow(q) /\ asked'[q].post = asked[q].post
        BY <3>1, <3>2, <3>4 DEF PinsNow
      <4>4. CASE y.pinned = TRUE
        <5>1. PinsNow(r)
          BY <2>0, <4>4 DEF PinsNow
        <5>2. Cardinality(Pinned \cup {y.post}) <= allowed
          BY <4>2, <5>1 DEF PinsFit
        <5>3. Pinned' \subseteq Pinned \cup {y.post} /\ Pinned \cup {y.post} \in SUBSET Posts
          BY <2>0, <3>7, <4>4 DEF Pinned
        <5>4. Cardinality(Pinned') <= allowed'
          BY <1>k, <3>0, <5>2, <5>3, PostsAreFinite
        <5>5. PinsFit'
          BY <4>1, <4>3, <5>1 DEF PinsFit
        <5>. QED
          BY <5>4, <5>5
      <4>5. CASE y.pinned # TRUE
        <5>1. Pinned' \subseteq Pinned /\ Pinned \in SUBSET Posts
          BY <3>7, <4>5 DEF Pinned
        <5>2. Cardinality(Pinned') <= allowed'
          BY <1>k, <3>0, <4>2, <5>1, PostsAreFinite
        <5>3. ASSUME NEW q \in BoardRequests, PinsNow(q)'
              PROVE  Cardinality(Pinned' \cup {asked'[q].post}) <= allowed'
          <6>1. q # r /\ PinsNow(q) /\ asked'[q].post = asked[q].post
            BY <4>3, <5>3
          <6>2. Cardinality(Pinned \cup {asked[q].post}) <= allowed
            BY <4>2, <6>1 DEF PinsFit
          <6>3. Pinned' \cup {asked'[q].post} \in SUBSET (Pinned \cup {asked[q].post})
                /\ Pinned \cup {asked[q].post} \in SUBSET Posts
            BY <1>t, <5>1, <6>1 DEF BoardTypes, BoardAsked
          <6>. QED
            BY <1>k, <3>0, <6>2, <6>3, PostsAreFinite
        <5>. QED
          BY <5>2, <5>3 DEF PinsFit
      <4>. QED
        BY <4>4, <4>5
    <3>9. ListsFresh'
      <4>1. Owed'
        BY <3>1, <3>2, <3>4 DEF Owed
      <4>. QED
        BY <4>1 DEF ListsFresh
    <3>. QED
      BY <3>6, <3>8, <3>9 DEF BoardInv
  <2>. QED
    BY <2>1, <2>2
\* A request that ends, its lists dropped or left.
<1>10. ASSUME NEW r \in BoardRequests, NEW pc \in {"done", "failed"}, asked' = [asked EXCEPT ![r].pc = pc],
              asked[r].pc \in {"unannounced", "written"},
              UNCHANGED <<posts, pinLimit, allowed, raced>>, DOMAIN boardLists' = {"staff", "published"},
              boardLists' = [list \in {"staff", "published"} |-> boardLists'[list]],
              \A list \in {"staff", "published"} : boardLists'[list] = NoList \/ list \in missed'
       PROVE  BoardInv'
  <2>. DEFINE x == [asked[r] EXCEPT !.pc = pc]
  <2>0. asked[r] \in BoardAsked /\ WellAsked(asked[r])
    BY <1>t DEF BoardTypes
  <2>1. x \in BoardAsked /\ WellAsked(x) /\ x.pc = pc
    BY <1>10, <2>0 DEF BoardAsked, WellAsked
  <2>2. asked' \in [BoardRequests -> BoardAsked]
        /\ \A q \in BoardRequests : asked'[q] = IF q = r THEN x ELSE asked[q]
    BY <1>10, <1>t, <2>1 DEF BoardTypes
  <2>. HIDE DEF x
  <2>3. BoardTypes'
    <3>1. \A q \in BoardRequests : WellAsked(asked[q])'
      BY <1>t, <2>1, <2>2 DEF BoardTypes, WellAsked
    <3>. QED
      BY <1>10, <1>t, <2>2, <3>1 DEF BoardTypes
  <2>4. (raced \/ PinsFit)' /\ PinsBounded'
    BY <1>10, <1>t, <2>1, <2>2 DEF PinsFit, PinsNow, PinsBounded, Pinned
  <2>5. ListsFresh'
    BY <1>10 DEF ListsFresh
  <2>. QED
    BY <2>3, <2>4, <2>5 DEF BoardInv
<1>11. ASSUME NEW r \in BoardRequests, Changed(r) PROVE BoardInv'
  BY <1>10, <1>11, <1>t DEF Changed, Dropped, BoardTypes
<1>12. ASSUME NEW r \in BoardRequests, FailAfterWrite(r) PROVE BoardInv'
  BY <1>10, <1>12, <1>t DEF FailAfterWrite, BoardTypes
<1>13. \A r \in AnyOne({q \in BoardRequests : asked[q].pc = "idle"}) : r \in BoardRequests
  BY DEF AnyOne
\* What is pinned or let through when the limit changes stays within what is allowed.
<1>14. ASSUME NEW n \in PinLimits \ {pinLimit}, SetLimit(n) PROVE BoardInv'
  <2>. DEFINE committed == Pinned \cup {asked[r].post : r \in {q \in BoardRequests : PinsNow(q)}}
  <2>0. \A r \in BoardRequests : asked[r].post \in Posts
    BY <1>t DEF BoardTypes, BoardAsked
  <2>1. committed \in SUBSET Posts /\ Pinned \in SUBSET committed
        /\ \A r \in BoardRequests : PinsNow(r) => Pinned \cup {asked[r].post} \in SUBSET committed
    BY <2>0 DEF Pinned
  <2>2. pinLimit' = n /\ UNCHANGED <<posts, boardLists, asked, raced, missed>>
        /\ allowed' = IF n < Cardinality(committed) THEN Cardinality(committed) ELSE n
    BY <1>14 DEF SetLimit
  <2>. HIDE DEF committed
  <2>3. n \in Nat /\ Cardinality(committed) \in Nat
    BY <2>1, PostsAreFinite, BoardAssumption
  <2>4. allowed' \in Nat /\ n <= allowed' /\ Cardinality(committed) <= allowed'
    BY <2>2, <2>3
  <2>5. \A S \in SUBSET committed : Cardinality(S) <= allowed'
    BY <2>1, <2>3, <2>4, PostsAreFinite
  <2>6. \A r \in BoardRequests : PinsNow(r)' = PinsNow(r) /\ asked'[r].post = asked[r].post
    BY <2>2 DEF PinsNow
  <2>7. Pinned' = Pinned
    BY <2>2 DEF Pinned
  <2>8. PinsFit' /\ PinsBounded'
    BY <2>1, <2>5, <2>6, <2>7 DEF PinsFit, PinsBounded
  <2>9. BoardTypes'
    BY <1>t, <2>2, <2>4 DEF BoardTypes, WellAsked
  <2>10. ListsFresh'
    BY <1>t, <2>2 DEF ListsFresh, Owed, Load, findByClubForStaff, findPublishedByClub, RowsOf
  <2>. QED
    BY <2>8, <2>9, <2>10 DEF BoardInv
<1>. QED
  BY <1>1, <1>3, <1>5, <1>6, <1>7, <1>8, <1>9, <1>11, <1>12, <1>13, <1>14 DEF BoardNext

LEMMA BoardInvIsSound == BoardInv => BoardSound
<1>. SUFFICES ASSUME BoardInv, ~Owed PROVE BoardIsShown
  BY DEF BoardInv, BoardSound, BoardIsShown
<1>1. \A list \in {"staff", "published"} : list \in missed \/ Listed(list) = Load(list)
  BY DEF BoardInv, ListsFresh, Listed
<1>2. "staff" \in missed \/ listByClub("staff") = {p \in Posts : posts[p].status # "none"}
  BY <1>1 DEF listByClub, Load, findByClubForStaff, RowsOf
<1>3. ASSUME "published" \notin missed, NEW viewer \in {"member", "visitor"}
      PROVE  listByClub(viewer) = {p \in Posts : posts[p].status = "published"
                                   /\ (posts[p].visibility = "university" \/ viewer = "member")}
  <2>1. Listed("published") = [p \in {q \in Posts : posts[q].status = "published"} |-> posts[p]]
    BY <1>1, <1>3 DEF Load, findPublishedByClub, RowsOf
  <2>. QED
    BY <1>3, <2>1 DEF listByClub, VisibleTo
<1>. QED
  BY <1>2, <1>3 DEF BoardIsShown

(* However requests, expiries, failures and changes of the limit fall: no  *)
(* more is pinned than the limit, or than already was when it was lowered, *)
(* unless two requests that pin overlapped; and once everything is         *)
(* answered each viewer is shown the board as it is, up to a list that a   *)
(* failed request left (announcements.service.ts).                         *)
THEOREM BoardIsSound == BoardSpec => []BoardSound
<1>1. BoardSpec => []BoardInv
  BY BoardInvInit, BoardInvStep, PTL DEF BoardSpec
<1>. QED
  BY <1>1, BoardInvIsSound, PTL

-----------------------------------------------------------------------------
(***************************************************************************)
(* PosterQr.  The last write of the row was announced, or the edit that    *)
(* made it has still to announce it or failed to; a load carries a version *)
(* the row has had, and only a scan that read an active row is answered.   *)
(***************************************************************************)
CodeRows == [status : {"none", "active", "cancelled"}, type : {"club", "activity", Same},
             club : PosterClubs \cup {NoTarget, Same}, act : PosterActs \cup {NoTarget, Same},
             window : {"before", "open", "over", Same}, count : Nat, version : Nat]
ScanPcs == {"idle", "row", "inactive", "loading", "loaded", "missing", "found", "counted", "uncounted"}
ScanKinds == [pc : ScanPcs, row : CodeRows, to : Targets \cup {NoTarget}, version : Nat,
              marked : BOOLEAN, live : BOOLEAN]
PatchKinds == [type : {"club", "activity", Same}, club : PosterClubs \cup {NoTarget, Same},
               act : PosterActs \cup {NoTarget, Same}, window : {"over", Same}]
EditKinds == [pc : {"idle", "updating", "cancelling", "written", "done", "failed"}, patch : PatchKinds,
              version : Nat]
CountedScans == {s \in Scans : scan[s].pc = "counted"}

PosterTypes ==
  /\ qr \in CodeRows /\ openTargets \subseteq Targets
  /\ resolved \in [to : Targets \cup {NoTarget}, version : Nat]
  /\ scan \in [Scans -> ScanKinds] /\ edit \in [Edits -> EditKinds]
  /\ emitted \in Nat /\ lateFill \in BOOLEAN
CodeBegun ==
  /\ qr.status = "none" => qr = NoCodeRow
  /\ qr.status # "none" => qr.version >= 1
  /\ \A e \in Edits : edit[e].pc # "idle" => qr.status # "none"
  /\ resolved # NoAnswer => resolved.version \in 1..qr.version
WellScanned(x) ==
  /\ x.pc \in {"row", "loading", "loaded", "found", "counted", "uncounted"} => x.live
  /\ x.pc \in {"row", "loading"} => x.row.version \in 1..qr.version
  /\ x.pc = "loaded" => x.version \in 1..qr.version
  /\ x.pc \in {"row", "loading", "loaded", "found"} => qr.status # "none"
LastAnnounced ==
  \/ qr.version <= 1 \/ emitted >= qr.version
  \/ \E e \in Edits : edit[e].pc \in {"written", "failed"} /\ edit[e].version = qr.version

PosterInv ==
  /\ PosterTypes /\ CodeBegun /\ LastAnnounced /\ EntryIsFresh /\ ScansAreCounted
  /\ \A s \in Scans : WellScanned(scan[s])

LEMMA PosterInvInit == PosterInit => PosterInv
<1>. SUFFICES ASSUME PosterInit PROVE PosterInv
  OBVIOUS
<1>1. NoCodeRow \in CodeRows /\ NoCodeRow.status = "none" /\ NoCodeRow.version = 0 /\ NoCodeRow.count = 0
  BY DEF NoCodeRow, CodeRows
<1>2. NoScan \in ScanKinds /\ NoScan.pc = "idle"
  BY <1>1 DEF NoScan, ScanKinds, ScanPcs
<1>3. NoAnswer \in [to : Targets \cup {NoTarget}, version : Nat]
  BY DEF NoAnswer
<1>4. [pc |-> "idle", patch |-> NoChanges, version |-> 0] \in EditKinds
  BY DEF EditKinds, PatchKinds, NoChanges
<1>5. PosterTypes /\ CodeBegun /\ LastAnnounced /\ EntryIsFresh
  <2>1. PosterTypes
    BY <1>1, <1>2, <1>3, <1>4 DEF PosterInit, PosterTypes
  <2>2. CodeBegun /\ LastAnnounced /\ EntryIsFresh
    BY <1>1 DEF PosterInit, CodeBegun, LastAnnounced, EntryIsFresh
  <2>. QED
    BY <2>1, <2>2
<1>6. CountedScans = {}
  BY <1>2 DEF PosterInit, CountedScans
<1>7. ScansAreCounted
  BY <1>1, <1>6, FS_EmptySet DEF PosterInit, ScansAreCounted, CountedScans
<1>8. \A s \in Scans : WellScanned(scan[s])
  BY <1>2 DEF PosterInit, WellScanned
<1>. QED
  BY <1>5, <1>7, <1>8 DEF PosterInv

LEMMA PosterInvStep == PosterInv /\ [PosterNext]_posterVars => PosterInv'
<1>. SUFFICES ASSUME PosterInv, [PosterNext]_posterVars PROVE PosterInv'
  OBVIOUS
<1>t. /\ PosterTypes /\ CodeBegun /\ LastAnnounced /\ EntryIsFresh /\ ScansAreCounted
      /\ \A s \in Scans : WellScanned(scan[s])
  BY DEF PosterInv
<1>r. /\ qr \in CodeRows /\ qr.version \in Nat /\ qr.count \in Nat /\ emitted \in Nat /\ resolved.version \in Nat
      /\ scan \in [Scans -> ScanKinds] /\ edit \in [Edits -> EditKinds] /\ lateFill \in BOOLEAN
      /\ \A s \in Scans : scan[s].version \in Nat /\ scan[s].row.version \in Nat
      /\ \A e \in Edits : edit[e].version \in Nat
  BY <1>t DEF PosterTypes, CodeRows, ScanKinds, EditKinds
<1>n. NoAnswer \in [to : Targets \cup {NoTarget}, version : Nat]
  BY DEF NoAnswer
\* Nothing but the world and the cache's forgetting changes.
<1>1. ASSUME UNCHANGED <<scan, edit, emitted>>, openTargets' \subseteq openTargets, qr' \in CodeRows,
             qr'.version = qr.version, qr'.count = qr.count, qr'.status = qr.status,
             qr.status = "none" => qr' = qr,
             \/ UNCHANGED <<resolved, lateFill>>
             \/ resolved' = NoAnswer /\ lateFill' = FALSE
      PROVE  PosterInv'
  <2>1. PosterTypes'
    BY <1>1, <1>n, <1>t DEF PosterTypes
  <2>2. CodeBegun' /\ LastAnnounced' /\ EntryIsFresh'
    BY <1>1, <1>t DEF CodeBegun, LastAnnounced, EntryIsFresh, Owes
  <2>3. ScansAreCounted' /\ \A s \in Scans : WellScanned(scan[s])'
    BY <1>1, <1>t DEF ScansAreCounted, WellScanned
  <2>. QED
    BY <2>1, <2>2, <2>3 DEF PosterInv
<1>2. CASE UNCHANGED posterVars
  BY <1>1, <1>2, <1>r DEF posterVars
<1>3. CASE WindowMoves
  <2>1. PICK window \in {"open", "over"} : qr' = [qr EXCEPT !.window = window]
    BY <1>3 DEF WindowMoves
  <2>2. /\ qr.status # "none" /\ UNCHANGED <<openTargets, resolved, scan, edit, emitted, lateFill>>
    BY <1>3 DEF WindowMoves
  <2>3. /\ qr' \in CodeRows /\ qr'.version = qr.version /\ qr'.count = qr.count /\ qr'.status = qr.status
    BY <1>r, <2>1 DEF CodeRows
  <2>. QED
    BY <1>1, <2>2, <2>3
<1>4. CASE EntryExpires
  BY <1>1, <1>4, <1>r DEF EntryExpires
<1>5. ASSUME NEW t \in Targets, TargetCloses(t) PROVE PosterInv'
  BY <1>1, <1>5, <1>r DEF TargetCloses
\* A scan moves, and nothing else does but the count of the row.
<1>6. ASSUME NEW s \in Scans, NEW x \in ScanKinds, scan' = [scan EXCEPT ![s] = x], WellScanned(x),
             UNCHANGED <<openTargets, edit, emitted>>, scan[s].pc # "counted",
             qr' = [qr EXCEPT !.count = IF x.pc = "counted" THEN @ + 1 ELSE @],
             qr.status = "none" => x.pc # "counted",
             \/ UNCHANGED <<resolved, lateFill>>
             \/ /\ resolved' \in [to : Targets \cup {NoTarget}, version : Nat] /\ lateFill' \in BOOLEAN
                /\ resolved'.version \in 1..qr.version /\ (~lateFill' => resolved'.version >= emitted)
      PROVE  PosterInv'
  <2>. DEFINE n == IF x.pc = "counted" THEN qr.count + 1 ELSE qr.count
  <2>0. qr' = [qr EXCEPT !.count = n] /\ n \in Nat
    BY <1>6, <1>r
  <2>1. /\ qr' \in CodeRows /\ qr'.version = qr.version /\ qr'.status = qr.status /\ qr'.count = n
        /\ (n = qr.count => qr' = qr)
    <3>. HIDE DEF n
    <3>. QED
      BY <1>r, <2>0 DEF CodeRows
  <2>2. scan' \in [Scans -> ScanKinds] /\ \A q \in Scans : scan'[q] = IF q = s THEN x ELSE scan[q]
    BY <1>6, <1>r
  <2>3. PosterTypes'
    BY <1>6, <1>t, <2>1, <2>2 DEF PosterTypes
  <2>4. CodeBegun' /\ LastAnnounced'
    BY <1>6, <1>t, <2>1 DEF CodeBegun, LastAnnounced
  <2>5. EntryIsFresh'
    <3>1. CASE UNCHANGED <<resolved, lateFill>>
      BY <1>6, <1>t, <2>1, <3>1 DEF EntryIsFresh, Owes
    <3>2. CASE /\ resolved'.version \in 1..qr.version /\ (~lateFill' => resolved'.version >= emitted)
      <4>. SUFFICES ASSUME resolved'.version < qr.version, ~lateFill'
                    PROVE  \E e \in Edits : edit[e].pc \in {"written", "failed"}
                                            /\ edit[e].version > resolved'.version
        BY <1>6, <2>1 DEF EntryIsFresh, Owes
      <4>1. ~(qr.version <= 1) /\ ~(emitted >= qr.version)
        BY <1>r, <3>2
      <4>. QED
        BY <1>r, <1>t, <3>2, <4>1 DEF LastAnnounced
    <3>. QED
      BY <1>6, <3>1, <3>2
  <2>6. ScansAreCounted'
    <3>1. CountedScans \in SUBSET Scans /\ s \notin CountedScans
          /\ CountedScans' = IF x.pc = "counted" THEN CountedScans \cup {s} ELSE CountedScans
      BY <1>6, <2>2 DEF CountedScans
    <3>2. IsFiniteSet(CountedScans)
      BY <3>1, PosterQrAssumption, FS_Subset
    <3>3. Cardinality(CountedScans \cup {s}) = Cardinality(CountedScans) + 1
      BY <3>1, <3>2, FS_AddElement
    <3>4. qr.count = Cardinality(CountedScans)
      BY <1>t DEF ScansAreCounted, CountedScans
    <3>5. qr'.count = Cardinality(CountedScans')
      BY <2>1, <3>1, <3>3, <3>4
    <3>. QED
      BY <3>5 DEF ScansAreCounted, CountedScans
  <2>7. \A q \in Scans : WellScanned(scan[q])'
    BY <1>6, <1>t, <2>1, <2>2 DEF WellScanned
  <2>. QED
    BY <2>3, <2>4, <2>5, <2>6, <2>7 DEF PosterInv
\* A scan that is not counted leaves the row alone.
<1>7. ASSUME NEW s \in Scans, NEW x \in ScanKinds, scan' = [scan EXCEPT ![s] = x], WellScanned(x),
             UNCHANGED <<qr, openTargets, edit, emitted>>, scan[s].pc # "counted", x.pc # "counted",
             \/ UNCHANGED <<resolved, lateFill>>
             \/ /\ resolved' \in [to : Targets \cup {NoTarget}, version : Nat] /\ lateFill' \in BOOLEAN
                /\ resolved'.version \in 1..qr.version /\ (~lateFill' => resolved'.version >= emitted)
      PROVE  PosterInv'
  <2>1. qr' = [qr EXCEPT !.count = IF x.pc = "counted" THEN @ + 1 ELSE @]
    BY <1>7, <1>r DEF CodeRows
  <2>. QED
    BY <1>6, <1>7, <2>1
<1>8. ASSUME NEW s \in Scans, ReadRow(s) PROVE PosterInv'
  <2>. DEFINE live == computeAvailability(qr) = "active"
              row == [qr EXCEPT !.count = 0]
              x == [scan[s] EXCEPT !.row = row, !.live = live, !.pc = IF live THEN "row" ELSE "inactive"]
  <2>0. /\ scan[s].pc = "idle" /\ qr.status # "none" /\ scan' = [scan EXCEPT ![s] = x]
        /\ UNCHANGED <<qr, openTargets, resolved, edit, emitted, lateFill>>
    BY <1>8, <1>r DEF ReadRow
  <2>1. row \in CodeRows /\ row.version = qr.version
    BY <1>r DEF CodeRows
  <2>2. live \in BOOLEAN /\ qr.version \in 1..qr.version
    BY <1>r, <1>t, <2>0 DEF CodeBegun
  <2>. HIDE DEF live, row
  <2>3. x \in ScanKinds /\ x.pc \in {"row", "inactive"} /\ (x.pc = "row" => x.live) /\ x.row = row
    BY <1>r, <2>1, <2>2 DEF ScanKinds, ScanPcs
  <2>4. WellScanned(x)
    BY <2>0, <2>1, <2>2, <2>3 DEF WellScanned
  <2>. HIDE DEF x
  <2>. QED
    BY <1>7, <2>0, <2>3, <2>4
<1>9. ASSUME NEW s \in Scans, AskCache(s) PROVE PosterInv'
  <2>0. /\ scan[s].pc = "row" /\ scan[s] \in ScanKinds /\ WellScanned(scan[s])
        /\ UNCHANGED <<qr, openTargets, resolved, edit, emitted, lateFill>>
        /\ resolved \in [to : Targets \cup {NoTarget}, version : Nat]
    BY <1>9, <1>r, <1>t DEF AskCache, PosterTypes
  <2>1. CASE resolved # NoAnswer
    <3>. DEFINE x == [scan[s] EXCEPT !.pc = "found", !.to = resolved.to, !.version = resolved.version]
    <3>1. scan' = [scan EXCEPT ![s] = x]
      BY <1>9, <1>r, <2>1 DEF AskCache
    <3>2. x \in ScanKinds /\ x.pc = "found" /\ WellScanned(x)
      BY <2>0 DEF ScanKinds, ScanPcs, WellScanned
    <3>. HIDE DEF x
    <3>. QED
      BY <1>7, <2>0, <3>1, <3>2
  <2>2. CASE resolved = NoAnswer
    <3>. DEFINE x == [scan[s] EXCEPT !.pc = "loading"]
    <3>1. scan' = [scan EXCEPT ![s] = x]
      BY <1>9, <1>r, <2>2 DEF AskCache
    <3>2. x \in ScanKinds /\ x.pc = "loading" /\ WellScanned(x)
      BY <2>0 DEF ScanKinds, ScanPcs, WellScanned
    <3>. HIDE DEF x
    <3>. QED
      BY <1>7, <2>0, <3>1, <3>2
  <2>. QED
    BY <2>1, <2>2
<1>10. ASSUME NEW s \in Scans, LoadTarget(s) PROVE PosterInv'
  <2>. DEFINE target == buildActiveTarget(scan[s].row)
              pc == IF target = NoTarget THEN "missing" ELSE "loaded"
              x == [scan[s] EXCEPT !.pc = pc, !.to = target, !.version = scan[s].row.version]
  <2>0. /\ scan[s].pc = "loading" /\ scan[s] \in ScanKinds /\ WellScanned(scan[s])
        /\ scan' = [scan EXCEPT ![s] = x]
        /\ UNCHANGED <<qr, openTargets, resolved, edit, emitted, lateFill>>
    BY <1>10, <1>r, <1>t DEF LoadTarget
  <2>1. target \in Targets \cup {NoTarget} /\ pc \in {"missing", "loaded"} /\ scan[s].row.version \in Nat
    BY <1>r, <1>t DEF buildActiveTarget, PosterTypes
  <2>. HIDE DEF target, pc
  <2>2. x \in ScanKinds /\ x.pc = pc /\ WellScanned(x)
    BY <2>0, <2>1 DEF ScanKinds, ScanPcs, WellScanned
  <2>. HIDE DEF x
  <2>. QED
    BY <1>7, <2>0, <2>1, <2>2
<1>11. ASSUME NEW s \in Scans, NEW t \in Scans, JoinLoad(s, t) PROVE PosterInv'
  <2>. DEFINE x == [scan[s] EXCEPT !.pc = "found", !.to = scan[t].to, !.version = scan[t].version]
  <2>0. /\ scan[s].pc = "row" /\ scan[s] \in ScanKinds /\ WellScanned(scan[s]) /\ scan[t] \in ScanKinds
        /\ scan' = [scan EXCEPT ![s] = x]
        /\ UNCHANGED <<qr, openTargets, resolved, edit, emitted, lateFill>>
    BY <1>11, <1>r, <1>t DEF JoinLoad
  <2>1. x \in ScanKinds /\ x.pc = "found" /\ WellScanned(x)
    BY <2>0 DEF ScanKinds, ScanPcs, WellScanned
  <2>. HIDE DEF x
  <2>. QED
    BY <1>7, <2>0, <2>1
<1>12. ASSUME NEW s \in Scans, Fill(s) PROVE PosterInv'
  <2>. DEFINE x == [scan[s] EXCEPT !.pc = "found"]
  <2>0. /\ scan[s].pc = "loaded" /\ scan[s] \in ScanKinds /\ WellScanned(scan[s])
        /\ scan' = [scan EXCEPT ![s] = x]
        /\ UNCHANGED <<qr, openTargets, edit, emitted>>
    BY <1>12, <1>r, <1>t DEF Fill
  <2>1. x \in ScanKinds /\ x.pc = "found" /\ WellScanned(x)
    BY <2>0 DEF ScanKinds, ScanPcs, WellScanned
  <2>. HIDE DEF x
  <2>2. CASE UNCHANGED <<resolved, lateFill>>
    BY <1>7, <2>0, <2>1, <2>2
  <2>3. CASE /\ MayFill(s) /\ resolved' = [to |-> scan[s].to, version |-> scan[s].version]
             /\ lateFill' = (scan[s].version < emitted /\ ~scan[s].marked)
    <3>1. resolved' \in [to : Targets \cup {NoTarget}, version : Nat] /\ resolved'.version = scan[s].version
      BY <2>0, <2>3 DEF ScanKinds
    <3>2. scan[s].version \in 1..qr.version
      BY <2>0 DEF WellScanned
    <3>3. lateFill' \in BOOLEAN
      BY <2>3, Zenon
    <3>4. ~lateFill' => scan[s].version >= emitted
      <4>1. ~lateFill' => ~(scan[s].version < emitted)
        BY <2>3, Zenon DEF MayFill
      <4>. QED
        BY <1>r, <4>1
    <3>. QED
      BY <1>7, <2>0, <2>1, <3>1, <3>2, <3>3, <3>4
  <2>. QED
    BY <1>12, <2>2, <2>3 DEF Fill
<1>13. ASSUME NEW s \in Scans, RecordScan(s) PROVE PosterInv'
  <2>0. /\ scan[s].pc = "found" /\ scan[s] \in ScanKinds /\ WellScanned(scan[s])
        /\ UNCHANGED <<openTargets, resolved, edit, emitted, lateFill>>
    BY <1>13, <1>r, <1>t DEF RecordScan
  <2>1. NoScan \in ScanKinds
    BY DEF NoScan, ScanKinds, ScanPcs, NoCodeRow, CodeRows
  <2>2. ASSUME NEW pc \in {"counted", "uncounted"}
        PROVE  /\ AfterScan(s, pc) \in ScanKinds /\ AfterScan(s, pc).pc = pc /\ WellScanned(AfterScan(s, pc))
    BY <2>0, <2>1 DEF AfterScan, ScanKinds, ScanPcs, WellScanned
  <2>3. CASE qr' = [qr EXCEPT !.count = @ + 1] /\ scan' = [scan EXCEPT ![s] = AfterScan(s, "counted")]
    <3>. DEFINE x == AfterScan(s, "counted")
    <3>1. x \in ScanKinds /\ x.pc = "counted" /\ WellScanned(x)
      BY <2>2
    <3>. HIDE DEF x
    <3>2. scan' = [scan EXCEPT ![s] = x]
      BY <2>3 DEF x
    <3>3. qr' = [qr EXCEPT !.count = IF x.pc = "counted" THEN @ + 1 ELSE @]
      BY <2>3, <3>1
    <3>4. qr.status # "none" /\ UNCHANGED <<resolved, lateFill>> /\ scan[s].pc # "counted"
      BY <2>0 DEF WellScanned
    <3>. QED
      BY <1>6, <2>0, <3>1, <3>2, <3>3, <3>4
  <2>4. CASE qr' = qr /\ scan' = [scan EXCEPT ![s] = AfterScan(s, "uncounted")]
    <3>. DEFINE x == AfterScan(s, "uncounted")
    <3>1. x \in ScanKinds /\ x.pc = "uncounted" /\ WellScanned(x)
      BY <2>2
    <3>. HIDE DEF x
    <3>2. scan' = [scan EXCEPT ![s] = x]
      BY <2>4 DEF x
    <3>. QED
      BY <1>7, <2>0, <2>4, <3>1, <3>2
  <2>. QED
    BY <1>13, <2>3, <2>4 DEF RecordScan
<1>14. ASSUME NEW by \in PosterClubs \cup {University}, NEW target \in Targets, NEW type \in {"club", "activity"},
              Create(by, type, target)
       PROVE  PosterInv'
  <2>0. /\ qr.status = "none" /\ qr = NoCodeRow
        /\ UNCHANGED <<openTargets, resolved, scan, edit, emitted, lateFill>>
    BY <1>14, <1>t DEF Create, CodeBegun
  <2>1. NoCodeRow \in CodeRows /\ NoCodeRow.count = 0 /\ NoCodeRow.version = 0
    BY DEF NoCodeRow, CodeRows
  <2>2. qr' \in CodeRows /\ qr'.status = "active" /\ qr'.version = 1 /\ qr'.count = 0
    <3>1. CASE type = "club"
      <4>1. qr' = [NoCodeRow EXCEPT !.status = "active", !.type = "club", !.version = 1, !.club = target]
            /\ target \in PosterClubs
        BY <1>14, <3>1 DEF Create
      <4>. QED
        BY <2>1, <4>1 DEF CodeRows
    <3>2. CASE type = "activity"
      <4>1. qr' = [NoCodeRow EXCEPT !.status = "active", !.type = "activity", !.version = 1, !.act = target]
            /\ target \in PosterActs
        BY <1>14, <3>2 DEF Create
      <4>. QED
        BY <2>1, <4>1 DEF CodeRows
    <3>. QED
      BY <3>1, <3>2
  <2>3. resolved = NoAnswer
    BY <1>r, <1>t, <2>0, <2>1 DEF CodeBegun
  <2>4. PosterTypes'
    BY <1>t, <2>0, <2>2 DEF PosterTypes
  <2>5. CodeBegun' /\ LastAnnounced' /\ EntryIsFresh'
    BY <1>t, <2>0, <2>2, <2>3 DEF CodeBegun, LastAnnounced, EntryIsFresh
  <2>6. ScansAreCounted'
    BY <1>t, <2>0, <2>1, <2>2 DEF ScansAreCounted
  <2>7. ASSUME NEW s \in Scans PROVE WellScanned(scan[s])'
    <3>1. scan[s].pc \notin {"row", "loading", "loaded", "found"}
      BY <1>t, <2>0 DEF WellScanned
    <3>. QED
      BY <1>t, <2>0, <3>1 DEF WellScanned
  <2>. QED
    BY <2>4, <2>5, <2>6, <2>7 DEF PosterInv
\* A request moves and writes nothing.
<1>15. ASSUME NEW e \in Edits, NEW x \in EditKinds, edit' = [edit EXCEPT ![e] = x],
              UNCHANGED <<qr, openTargets, resolved, scan, emitted, lateFill>>, qr.status # "none",
              \/ edit[e].pc = "idle"
              \/ edit[e].pc = "written" /\ x.pc = "failed" /\ x.version = edit[e].version
       PROVE  PosterInv'
  <2>1. edit' \in [Edits -> EditKinds] /\ \A d \in Edits : edit'[d] = IF d = e THEN x ELSE edit[d]
    BY <1>15, <1>r
  <2>2. PosterTypes'
    BY <1>15, <1>t, <2>1 DEF PosterTypes
  <2>3. CodeBegun'
    BY <1>15, <1>t DEF CodeBegun
  <2>4. \A d \in Edits : edit[d].pc \in {"written", "failed"} =>
          edit'[d].pc \in {"written", "failed"} /\ edit'[d].version = edit[d].version
    BY <1>15, <2>1
  <2>5. LastAnnounced' /\ EntryIsFresh'
    BY <1>15, <1>t, <2>4 DEF LastAnnounced, EntryIsFresh, Owes
  <2>6. ScansAreCounted' /\ \A s \in Scans : WellScanned(scan[s])'
    BY <1>15, <1>t DEF ScansAreCounted, WellScanned
  <2>. QED
    BY <2>2, <2>3, <2>5, <2>6 DEF PosterInv
<1>16. ASSUME NEW e \in Updates, NEW by \in PosterClubs \cup {University}, NEW patch \in PosterPatches,
              CheckUpdate(e, by, patch)
       PROVE  PosterInv'
  <2>. DEFINE x == [edit[e] EXCEPT !.pc = "updating", !.patch = patch]
  <2>0. patch \in PatchKinds
    BY DEF PosterPatches, PatchKinds, NoChanges
  <2>1. e \in Edits /\ edit[e] \in EditKinds /\ edit[e].pc = "idle" /\ qr.status # "none"
        /\ edit' = [edit EXCEPT ![e] = x] /\ UNCHANGED <<qr, openTargets, resolved, scan, emitted, lateFill>>
    BY <1>16, <1>r DEF CheckUpdate, Edits
  <2>2. x \in EditKinds
    BY <2>0, <2>1 DEF EditKinds
  <2>. HIDE DEF x
  <2>. QED
    BY <1>15, <2>1, <2>2
<1>17. ASSUME NEW e \in Cancels, NEW by \in PosterClubs \cup {University}, CheckCancel(e, by) PROVE PosterInv'
  <2>. DEFINE x == [edit[e] EXCEPT !.pc = "cancelling"]
  <2>1. e \in Edits /\ edit[e] \in EditKinds /\ edit[e].pc = "idle" /\ qr.status # "none"
        /\ edit' = [edit EXCEPT ![e] = x] /\ UNCHANGED <<qr, openTargets, resolved, scan, emitted, lateFill>>
    BY <1>17, <1>r DEF CheckCancel, Edits
  <2>2. x \in EditKinds
    BY <2>1 DEF EditKinds
  <2>. HIDE DEF x
  <2>. QED
    BY <1>15, <2>1, <2>2
<1>18. ASSUME NEW e \in Edits, EmitFails(e) PROVE PosterInv'
  <2>. DEFINE x == [edit[e] EXCEPT !.pc = "failed"]
  <2>1. edit[e] \in EditKinds /\ edit[e].pc = "written" /\ qr.status # "none"
        /\ edit' = [edit EXCEPT ![e] = x] /\ UNCHANGED <<qr, openTargets, resolved, scan, emitted, lateFill>>
    BY <1>18, <1>r, <1>t DEF EmitFails, CodeBegun
  <2>2. x \in EditKinds /\ x.pc = "failed" /\ x.version = edit[e].version
    BY <2>1 DEF EditKinds
  <2>. HIDE DEF x
  <2>. QED
    BY <1>15, <2>1, <2>2
\* The row is written.
<1>19. ASSUME NEW e \in Edits, qr.status # "none", qr' \in CodeRows, qr'.version = qr.version + 1,
              qr'.status # "none", qr'.count = qr.count, edit[e].pc \in {"updating", "cancelling"},
              edit' = [edit EXCEPT ![e] = [pc |-> "written", patch |-> NoChanges, version |-> qr'.version]],
              UNCHANGED <<openTargets, resolved, scan, emitted, lateFill>>
       PROVE  PosterInv'
  <2>. DEFINE x == [pc |-> "written", patch |-> NoChanges, version |-> qr'.version]
  <2>0. x \in EditKinds /\ x.pc = "written" /\ x.version = qr'.version /\ edit' = [edit EXCEPT ![e] = x]
    BY <1>19, <1>r DEF EditKinds, PatchKinds, NoChanges
  <2>. HIDE DEF x
  <2>1. edit' \in [Edits -> EditKinds] /\ \A d \in Edits : edit'[d] = IF d = e THEN x ELSE edit[d]
    BY <1>r, <2>0
  <2>2. PosterTypes'
    BY <1>19, <1>t, <2>1 DEF PosterTypes
  <2>3. edit'[e].pc = "written" /\ edit'[e].version = qr'.version
    BY <2>0, <2>1
  <2>4. resolved # NoAnswer => resolved.version \in 1..qr.version
    BY <1>t DEF CodeBegun
  <2>5. CodeBegun'
    BY <1>19, <1>r, <2>4 DEF CodeBegun
  <2>6. LastAnnounced'
    BY <2>3 DEF LastAnnounced
  <2>7. EntryIsFresh'
    BY <1>19, <1>r, <2>3, <2>4 DEF EntryIsFresh, Owes
  <2>8. ScansAreCounted'
    BY <1>19, <1>t DEF ScansAreCounted
  <2>9. \A s \in Scans : WellScanned(scan[s])'
    BY <1>19, <1>r, <1>t DEF WellScanned
  <2>. QED
    BY <2>2, <2>5, <2>6, <2>7, <2>8, <2>9 DEF PosterInv
<1>20. ASSUME NEW e \in Edits, WriteUpdate(e) PROVE PosterInv'
  <2>. DEFINE patch == edit[e].patch
              club_ == IF patch.type = "activity" THEN NoTarget ELSE Merge(patch.club, qr.club)
              act_ == IF patch.type = "club" THEN NoTarget ELSE Merge(patch.act, qr.act)
              type_ == Merge(patch.type, qr.type)
              window_ == Merge(patch.window, qr.window)
  <2>0. edit[e].pc = "updating" /\ qr.status # "none" /\ patch \in PatchKinds
        /\ edit' = [edit EXCEPT ![e] = [pc |-> "written", patch |-> NoChanges, version |-> qr'.version]]
        /\ UNCHANGED <<openTargets, resolved, scan, emitted, lateFill>>
    BY <1>20, <1>r, <1>t DEF WriteUpdate, CodeBegun, EditKinds
  <2>1. /\ club_ \in PosterClubs \cup {NoTarget, Same} /\ act_ \in PosterActs \cup {NoTarget, Same}
        /\ type_ \in {"club", "activity", Same} /\ window_ \in {"before", "open", "over", Same}
    BY <1>r, <2>0 DEF Merge, PatchKinds, CodeRows
  <2>2. qr' = [qr EXCEPT !.version = qr.version + 1, !.window = window_, !.type = type_, !.club = club_,
                         !.act = act_]
    BY <1>20, <1>r DEF WriteUpdate, Patched, CodeRows
  <2>. HIDE DEF patch, club_, act_, type_, window_
  <2>3. qr' \in CodeRows /\ qr'.version = qr.version + 1 /\ qr'.status = qr.status /\ qr'.count = qr.count
    <3>. DEFINE v == qr.version + 1
    <3>1. v \in Nat /\ qr' = [qr EXCEPT !.version = v, !.window = window_, !.type = type_, !.club = club_,
                                      !.act = act_]
      BY <1>r, <2>2
    <3>. HIDE DEF v
    <3>2. qr' \in CodeRows /\ qr'.version = v /\ qr'.status = qr.status /\ qr'.count = qr.count
      BY <1>r, <2>1, <3>1 DEF CodeRows
    <3>. QED
      BY <3>2 DEF v
  <2>. QED
    BY <1>19, <2>0, <2>3
<1>21. ASSUME NEW e \in Edits, WriteCancel(e) PROVE PosterInv'
  <2>0. edit[e].pc = "cancelling" /\ qr.status # "none"
        /\ edit' = [edit EXCEPT ![e] = [pc |-> "written", patch |-> NoChanges, version |-> qr'.version]]
        /\ UNCHANGED <<openTargets, resolved, scan, emitted, lateFill>>
        /\ qr' = [qr EXCEPT !.status = "cancelled", !.version = qr.version + 1]
    BY <1>21, <1>r, <1>t DEF WriteCancel, CodeBegun, CodeRows
  <2>1. qr' \in CodeRows /\ qr'.version = qr.version + 1 /\ qr'.status = "cancelled" /\ qr'.count = qr.count
    <3>. DEFINE v == qr.version + 1
    <3>1. v \in Nat /\ qr' = [qr EXCEPT !.status = "cancelled", !.version = v]
      BY <1>r, <2>0
    <3>. HIDE DEF v
    <3>2. qr' \in CodeRows /\ qr'.version = v /\ qr'.status = "cancelled" /\ qr'.count = qr.count
      BY <1>r, <3>1 DEF CodeRows
    <3>. QED
      BY <3>2 DEF v
  <2>. QED
    BY <1>19, <2>0, <2>1
<1>22. ASSUME NEW e \in Edits, Emit(e) PROVE PosterInv'
  <2>. DEFINE x == [pc |-> "done", patch |-> NoChanges, version |-> 0]
  <2>0. /\ edit[e].pc = "written" /\ edit' = [edit EXCEPT ![e] = x] /\ resolved' = NoAnswer /\ lateFill' = FALSE
        /\ emitted' = IF edit[e].version > emitted THEN edit[e].version ELSE emitted
        /\ UNCHANGED <<qr, openTargets>>
    BY <1>22 DEF Emit, Drops
  <2>1. PICK near \in SUBSET Scans : scan' = [s \in Scans |-> [scan[s] EXCEPT !.marked = @ \/ s \in near]]
    BY <1>22 DEF Emit
  <2>2. x \in EditKinds /\ x.pc = "done"
    BY DEF EditKinds, PatchKinds, NoChanges
  <2>. HIDE DEF x
  <2>3. edit' \in [Edits -> EditKinds] /\ \A d \in Edits : edit'[d] = IF d = e THEN x ELSE edit[d]
    BY <1>r, <2>0, <2>2
  <2>4. ASSUME NEW s \in Scans
        PROVE  /\ scan'[s] \in ScanKinds /\ scan'[s].pc = scan[s].pc /\ scan'[s].live = scan[s].live
               /\ scan'[s].row = scan[s].row /\ scan'[s].version = scan[s].version
    <3>. DEFINE mark == scan[s].marked \/ s \in near
    <3>1. mark \in BOOLEAN
      BY Zenon
    <3>2. scan'[s] = [scan[s] EXCEPT !.marked = mark] /\ scan[s] \in ScanKinds
      BY <1>r, <2>1 DEF ScanKinds
    <3>. HIDE DEF mark
    <3>. QED
      BY <3>1, <3>2 DEF ScanKinds
  <2>5. emitted' \in Nat /\ emitted' >= emitted /\ emitted' >= edit[e].version
    BY <1>r, <2>0
  <2>6. PosterTypes'
    <3>1. scan' \in [Scans -> ScanKinds]
      BY <2>1, <2>4
    <3>. QED
      BY <1>n, <1>t, <2>0, <2>3, <2>5, <3>1 DEF PosterTypes
  <2>7. CodeBegun' /\ EntryIsFresh'
    <3>1. qr.status # "none"
      BY <1>t, <2>0 DEF CodeBegun
    <3>. QED
      BY <1>t, <2>0, <3>1 DEF CodeBegun, EntryIsFresh
  <2>8. LastAnnounced'
    BY <1>r, <1>t, <2>0, <2>3, <2>5 DEF LastAnnounced
  <2>9. ScansAreCounted'
    BY <1>t, <2>0, <2>4 DEF ScansAreCounted
  <2>10. \A s \in Scans : WellScanned(scan[s])'
    BY <1>t, <2>0, <2>4 DEF WellScanned
  <2>. QED
    BY <2>6, <2>7, <2>8, <2>9, <2>10 DEF PosterInv
<1>23. \A s \in AnyOne({v \in Scans : scan[v].pc = "idle"}) : s \in Scans
  BY DEF AnyOne
<1>. QED
  BY <1>2, <1>3, <1>4, <1>5, <1>8, <1>9, <1>10, <1>11, <1>12, <1>13, <1>14, <1>16, <1>17, <1>18, <1>20, <1>21,
     <1>22, <1>23 DEF PosterNext

(* Whoever scans a code that is not active is never sent on, each recorded *)
(* answer is counted once, and an answer older than the row stands in the  *)
(* cache only while an edit has to announce a later one, or cannot, or a   *)
(* load that no announcement met stored it (poster-qr.service.ts).         *)
THEOREM PosterIsSound == PosterSpec => []PosterSound
<1>1. PosterInv => PosterSound
  BY DEF PosterInv, PosterSound, ClosedCodesAreSilent, ScanAnswered, WellScanned
<1>. QED
  BY <1>1, PosterInvInit, PosterInvStep, PTL DEF PosterSpec

-----------------------------------------------------------------------------
(***************************************************************************)
(* Gallery.  An upload under way has a key nobody else holds, whose file   *)
(* no removal touches; every other request works on a key whose address a  *)
(* client was given, and such a key was either removed or is in the store. *)
(***************************************************************************)
JobPcs == {"idle", "put", "row", "unlink", "forget", "insert", "delete", "emit"}
Jobs == [pc : JobPcs, key : Uploads \cup {NoEntry}, on : Entries \cup {NoEntry}]

GalleryTypes ==
  /\ mediaJob \in [MediaRequests -> Jobs] /\ entries \in [Entries -> Uploads \cup {NoEntry}]
  /\ files \subseteq Uploads /\ answered \subseteq Uploads /\ unnoted \in BOOLEAN

\* A request with its key.
KeyHeld(j) ==
  /\ j.pc \in {"put", "row"} => j.key \in Uploads /\ j.key \notin answered \cup halfUp
  /\ j.pc \in {"unlink", "forget", "insert"} => j.key \in answered
  /\ j.pc = "delete" => j.key = NoEntry
  /\ j.pc = "row" => j.key \in files
  /\ j.pc = "forget" => j.key \notin files
KeysHeld ==
  /\ \A r \in MediaRequests : KeyHeld(mediaJob[r])
  /\ \A r, q \in MediaRequests :
       mediaJob[r].pc \in {"put", "row"} /\ q # r => mediaJob[q].key # mediaJob[r].key
  /\ media \subseteq answered /\ answered \subseteq files \cup unlinked

GalleryInv == GalleryTypes /\ KeysHeld /\ GallerySound

LEMMA GalleryInvInit == GalleryInit => GalleryInv
<1>. SUFFICES ASSUME GalleryInit PROVE GalleryInv
  OBVIOUS
<1>1. NoJob \in Jobs /\ NoJob.pc = "idle" /\ NoJob.key = NoEntry
  BY DEF NoJob, Jobs, JobPcs
<1>2. GalleryTypes /\ KeysHeld
  BY <1>1 DEF GalleryInit, GalleryTypes, KeysHeld, KeyHeld
<1>3. GallerySound
  BY DEF GalleryInit, GallerySound, RowsHaveFiles, FilesHaveRows, EntriesServed, GalleryIsShown,
         ListByClub
<1>. QED
  BY <1>2, <1>3 DEF GalleryInv

\* One request moves.
LEMMA JobMoves ==
  ASSUME GalleryTypes, NEW r \in MediaRequests, NEW x \in Jobs, mediaJob' = [mediaJob EXCEPT ![r] = x]
  PROVE  /\ mediaJob' \in [MediaRequests -> Jobs]
         /\ \A q \in MediaRequests : mediaJob'[q] = IF q = r THEN x ELSE mediaJob[q]
         /\ \A pc \in JobPcs : Doing(pc)' =
              {mediaJob[q].key : q \in {p \in MediaRequests : p # r /\ mediaJob[p].pc = pc}}
                \cup (IF x.pc = pc THEN {x.key} ELSE {})
<1>1. mediaJob' \in [MediaRequests -> Jobs]
      /\ \A q \in MediaRequests : mediaJob'[q] = IF q = r THEN x ELSE mediaJob[q]
  BY DEF GalleryTypes
<1>. QED
  BY <1>1 DEF Doing

LEMMA GalleryInvStep == GalleryInv /\ [GalleryNext]_galleryVars => GalleryInv'
<1>. SUFFICES ASSUME GalleryInv, [GalleryNext]_galleryVars PROVE GalleryInv'
  OBVIOUS
<1>t. /\ GalleryTypes /\ KeysHeld
      /\ RowsHaveFiles /\ FilesHaveRows /\ EntriesServed /\ GalleryIsShown
  BY DEF GalleryInv, GallerySound
<1>n. NoJob \in Jobs /\ NoJob.pc = "idle" /\ NoJob.key = NoEntry /\ NoEntry \notin Uploads
  BY GalleryAssumption DEF NoJob, Jobs, JobPcs
<1>1. CASE UNCHANGED galleryVars
  BY <1>1, <1>t DEF galleryVars, GalleryInv, GallerySound, GalleryTypes, KeysHeld, KeyHeld, RowsHaveFiles,
                    FilesHaveRows, EntriesServed, GalleryIsShown, ListByClub, Doing, Served
\* A request begins: nothing but its job changes.
<1>2. ASSUME NEW r \in MediaRequests, NEW x \in Jobs, mediaJob[r] = NoJob,
             mediaJob' = [mediaJob EXCEPT ![r] = x], UNCHANGED <<mediaVars, entries, copy, unnoted>>,
             x.pc \in {"put", "unlink", "insert", "delete"}, KeyHeld(x),
             \A q \in MediaRequests \ {r} :
               /\ x.pc = "put" => mediaJob[q].key # x.key
               /\ mediaJob[q].pc \in {"put", "row"} => mediaJob[q].key # x.key
      PROVE  GalleryInv'
  <2>0. UNCHANGED <<files, media, answered, halfUp, halfGone, unlinked, entries, copy, unnoted>>
    BY <1>2 DEF mediaVars
  <2>1. /\ mediaJob' \in [MediaRequests -> Jobs]
        /\ \A q \in MediaRequests : mediaJob'[q] = IF q = r THEN x ELSE mediaJob[q]
        /\ mediaJob[r].pc = "idle"
    BY <1>2, <1>t, <1>n, JobMoves
  <2>2. GalleryTypes'
    BY <1>t, <2>0, <2>1 DEF GalleryTypes
  <2>3. KeysHeld'
    BY <1>2, <1>t, <2>0, <2>1 DEF KeysHeld, KeyHeld
  <2>4. /\ Doing("forget") \subseteq Doing("forget")' /\ Doing("row") \subseteq Doing("row")'
        /\ \A q \in MediaRequests : mediaJob[q].pc = "emit" => mediaJob'[q].pc = "emit"
    BY <2>1 DEF Doing
  <2>. QED
    BY <1>t, <2>0, <2>2, <2>3, <2>4 DEF GalleryInv, GallerySound, RowsHaveFiles, FilesHaveRows, EntriesServed,
                                        GalleryIsShown, ListByClub, Served
<1>3. ASSUME NEW r \in MediaRequests, mediaJob[r] = NoJob, NEW k \in Uploads, AskUpload(r, k)
      PROVE  GalleryInv'
  <2>. DEFINE x == [pc |-> "put", key |-> k, on |-> NoEntry]
  <2>1. x \in Jobs /\ x.pc = "put" /\ x.key = k /\ mediaJob' = [mediaJob EXCEPT ![r] = x] /\ k \in Unused
        /\ UNCHANGED <<mediaVars, entries, copy, unnoted>>
    BY <1>3 DEF AskUpload, GalleryBegins, Jobs, JobPcs
  <2>. HIDE DEF x
  <2>2. KeyHeld(x) /\ \A q \in MediaRequests : mediaJob[q].key # k
    BY <2>1 DEF KeyHeld, Unused
  <2>. QED
    BY <1>2, <1>3, <2>1, <2>2
<1>4. ASSUME NEW r \in MediaRequests, mediaJob[r] = NoJob, NEW k \in Uploads, AskRemoveMedia(r, k)
      PROVE  GalleryInv'
  <2>. DEFINE x == [pc |-> "unlink", key |-> k, on |-> NoEntry]
  <2>1. x \in Jobs /\ x.pc = "unlink" /\ x.key = k /\ mediaJob' = [mediaJob EXCEPT ![r] = x] /\ k \in media
        /\ UNCHANGED <<mediaVars, entries, copy, unnoted>>
    BY <1>4 DEF AskRemoveMedia, GalleryBegins, Jobs, JobPcs
  <2>. HIDE DEF x
  <2>2. KeyHeld(x) /\ \A q \in MediaRequests : mediaJob[q].pc \in {"put", "row"} => mediaJob[q].key # k
    BY <1>t, <2>1 DEF KeyHeld, KeysHeld
  <2>. QED
    BY <1>2, <1>4, <2>1, <2>2
<1>5. ASSUME NEW r \in MediaRequests, mediaJob[r] = NoJob, NEW k \in Uploads, NEW e \in Entries,
             AskAddImage(r, e, k)
      PROVE  GalleryInv'
  <2>. DEFINE x == [pc |-> "insert", key |-> k, on |-> e]
  <2>1. x \in Jobs /\ x.pc = "insert" /\ x.key = k /\ mediaJob' = [mediaJob EXCEPT ![r] = x] /\ k \in answered
        /\ UNCHANGED <<mediaVars, entries, copy, unnoted>>
    BY <1>5 DEF AskAddImage, GalleryBegins, Jobs, JobPcs
  <2>. HIDE DEF x
  <2>2. KeyHeld(x) /\ \A q \in MediaRequests : mediaJob[q].pc \in {"put", "row"} => mediaJob[q].key # k
    BY <1>t, <2>1 DEF KeyHeld, KeysHeld
  <2>. QED
    BY <1>2, <1>5, <2>1, <2>2
<1>6. ASSUME NEW r \in MediaRequests, mediaJob[r] = NoJob, NEW e \in Entries, AskRemoveImage(r, e)
      PROVE  GalleryInv'
  <2>. DEFINE x == [pc |-> "delete", key |-> NoEntry, on |-> e]
  <2>1. x \in Jobs /\ x.pc = "delete" /\ x.key = NoEntry /\ mediaJob' = [mediaJob EXCEPT ![r] = x]
        /\ UNCHANGED <<mediaVars, entries, copy, unnoted>>
    BY <1>6 DEF AskRemoveImage, GalleryBegins, Jobs, JobPcs
  <2>. HIDE DEF x
  <2>2. KeyHeld(x) /\ \A q \in MediaRequests : mediaJob[q].pc \in {"put", "row"} => mediaJob[q].key # NoEntry
    BY <1>t, <1>n, <2>1 DEF KeyHeld, KeysHeld
  <2>. QED
    BY <1>2, <1>6, <2>1, <2>2
<1>7. ASSUME NEW r \in MediaRequests, PutFile(r) PROVE GalleryInv'
  <2>. DEFINE x == [mediaJob[r] EXCEPT !.pc = "row"]  k == mediaJob[r].key
  <2>0. /\ mediaJob[r].pc = "put" /\ files' = files \cup {k}
        /\ UNCHANGED <<media, answered, halfUp, halfGone, unlinked, entries, copy, unnoted>>
    BY <1>7 DEF PutFile
  <2>1. x \in Jobs /\ x.pc = "row" /\ x.key = k /\ mediaJob' = [mediaJob EXCEPT ![r] = x]
    BY <1>7, <1>t DEF PutFile, JobGoto, Jobs, JobPcs, GalleryTypes
  <2>. HIDE DEF x
  <2>2. /\ mediaJob' \in [MediaRequests -> Jobs]
        /\ \A q \in MediaRequests : mediaJob'[q] = IF q = r THEN x ELSE mediaJob[q]
    BY <1>t, <2>1, JobMoves
  <2>3. k \in Uploads /\ k \notin answered \cup halfUp
        /\ \A q \in MediaRequests : q # r => mediaJob[q].key # k
    BY <1>t, <2>0 DEF KeysHeld, KeyHeld
  <2>4. GalleryTypes'
    BY <1>t, <2>0, <2>2, <2>3 DEF GalleryTypes
  <2>5. KeysHeld'
    <3>1. KeyHeld(mediaJob[r])'
      BY <2>0, <2>1, <2>3, <2>2 DEF KeyHeld
    <3>2. \A q \in MediaRequests : q # r => KeyHeld(mediaJob[q])'
      BY <1>t, <2>0, <2>2, <2>3 DEF KeyHeld, KeysHeld
    <3>3. \A q \in MediaRequests : KeyHeld(mediaJob[q])'
      BY <3>1, <3>2
    <3>. QED
      BY <1>t, <2>0, <2>1, <2>2, <2>3, <3>3 DEF KeysHeld
  <2>6. /\ Doing("forget") \subseteq Doing("forget")' /\ Doing("row") \cup {k} \subseteq Doing("row")'
        /\ \A q \in MediaRequests : mediaJob[q].pc = "emit" => mediaJob'[q].pc = "emit"
    BY <2>0, <2>1, <2>2 DEF Doing
  <2>. QED
    BY <1>t, <2>0, <2>4, <2>5, <2>6 DEF GalleryInv, GallerySound, RowsHaveFiles, FilesHaveRows, EntriesServed,
                                        GalleryIsShown, ListByClub, Served
<1>8. ASSUME NEW r \in MediaRequests, AddMedia(r) PROVE GalleryInv'
  <2>. DEFINE k == mediaJob[r].key
  <2>0. /\ mediaJob[r].pc = "row" /\ media' = media \cup {k} /\ answered' = answered \cup {k}
        /\ mediaJob' = [mediaJob EXCEPT ![r] = NoJob]
        /\ UNCHANGED <<files, halfUp, halfGone, unlinked, entries, copy, unnoted>>
    BY <1>8 DEF AddMedia, JobDone
  <2>2. /\ mediaJob' \in [MediaRequests -> Jobs]
        /\ \A q \in MediaRequests : mediaJob'[q] = IF q = r THEN NoJob ELSE mediaJob[q]
    BY <1>n, <1>t, <2>0, JobMoves
  <2>3. k \in Uploads /\ k \in files /\ \A q \in MediaRequests : q # r => mediaJob[q].key # k
    BY <1>t, <2>0 DEF KeysHeld, KeyHeld
  <2>4. GalleryTypes'
    BY <1>t, <2>0, <2>2, <2>3 DEF GalleryTypes
  <2>5. KeysHeld'
    <3>1. KeyHeld(mediaJob[r])'
      BY <1>n, <2>2 DEF KeyHeld
    <3>2. \A q \in MediaRequests : q # r => KeyHeld(mediaJob[q])'
      BY <1>t, <2>0, <2>2, <2>3 DEF KeyHeld, KeysHeld
    <3>3. \A q \in MediaRequests : KeyHeld(mediaJob[q])'
      BY <3>1, <3>2
    <3>4. \A q \in MediaRequests : mediaJob[q].pc \in {"put", "row"} => mediaJob[q].key # NoEntry
      BY <1>n, <1>t DEF KeysHeld, KeyHeld
    <3>. QED
      BY <1>n, <1>t, <2>0, <2>2, <2>3, <3>3, <3>4 DEF KeysHeld
  <2>6. /\ Doing("forget") \subseteq Doing("forget")' /\ Doing("row") \subseteq Doing("row")' \cup {k}
        /\ \A q \in MediaRequests : mediaJob[q].pc = "emit" => mediaJob'[q].pc = "emit"
    BY <2>0, <2>2 DEF Doing
  <2>. HIDE DEF k
  <2>. QED
    BY <1>t, <2>0, <2>3, <2>4, <2>5, <2>6 DEF GalleryInv, GallerySound, RowsHaveFiles, FilesHaveRows,
                                              EntriesServed, GalleryIsShown, ListByClub, Served
<1>9. ASSUME NEW r \in MediaRequests, DeleteFile(r) PROVE GalleryInv'
  <2>. DEFINE x == [mediaJob[r] EXCEPT !.pc = "forget"]  k == mediaJob[r].key
  <2>0. /\ mediaJob[r].pc = "unlink" /\ files' = files \ {k} /\ unlinked' = unlinked \cup {k}
        /\ UNCHANGED <<media, answered, halfUp, halfGone, entries, copy, unnoted>>
    BY <1>9 DEF DeleteFile, Unlink
  <2>1. x \in Jobs /\ x.pc = "forget" /\ x.key = k /\ mediaJob' = [mediaJob EXCEPT ![r] = x]
    BY <1>9, <1>t DEF DeleteFile, JobGoto, Jobs, JobPcs, GalleryTypes
  <2>. HIDE DEF x
  <2>2. /\ mediaJob' \in [MediaRequests -> Jobs]
        /\ \A q \in MediaRequests : mediaJob'[q] = IF q = r THEN x ELSE mediaJob[q]
    BY <1>t, <2>1, JobMoves
  <2>3. k \in answered
    BY <1>t, <2>0 DEF KeysHeld, KeyHeld
  <2>4. GalleryTypes'
    BY <1>t, <2>0, <2>2 DEF GalleryTypes
  <2>5. KeysHeld'
    <3>1. KeyHeld(mediaJob[r])'
      BY <2>0, <2>1, <2>3, <2>2 DEF KeyHeld
    <3>2. \A q \in MediaRequests : q # r => KeyHeld(mediaJob[q])'
      BY <1>t, <2>0, <2>2, <2>3 DEF KeyHeld, KeysHeld
    <3>3. \A q \in MediaRequests : KeyHeld(mediaJob[q])'
      BY <3>1, <3>2
    <3>. QED
      BY <1>t, <2>0, <2>1, <2>2, <2>3, <3>3 DEF KeysHeld
  <2>6. /\ Doing("forget") \cup {k} \subseteq Doing("forget")' /\ Doing("row") \subseteq Doing("row")'
        /\ \A q \in MediaRequests : mediaJob[q].pc = "emit" => mediaJob'[q].pc = "emit"
    BY <2>0, <2>1, <2>2 DEF Doing
  <2>. HIDE DEF k
  <2>. QED
    BY <1>t, <2>0, <2>4, <2>5, <2>6 DEF GalleryInv, GallerySound, RowsHaveFiles, FilesHaveRows, EntriesServed,
                                        GalleryIsShown, ListByClub, Served
<1>10. ASSUME NEW r \in MediaRequests, DeleteRow(r) PROVE GalleryInv'
  <2>. DEFINE k == mediaJob[r].key
  <2>0. /\ mediaJob[r].pc = "forget" /\ media' = media \ {k} /\ halfGone' = halfGone \ {k}
        /\ mediaJob' = [mediaJob EXCEPT ![r] = NoJob]
        /\ UNCHANGED <<files, answered, halfUp, unlinked, entries, copy, unnoted>>
    BY <1>10 DEF DeleteRow, JobDone
  <2>2. /\ mediaJob' \in [MediaRequests -> Jobs]
        /\ \A q \in MediaRequests : mediaJob'[q] = IF q = r THEN NoJob ELSE mediaJob[q]
    BY <1>n, <1>t, <2>0, JobMoves
  <2>3. k \notin files
    BY <1>t, <2>0 DEF KeysHeld, KeyHeld
  <2>4. GalleryTypes'
    BY <1>t, <2>0, <2>2 DEF GalleryTypes
  <2>5. KeysHeld'
    <3>1. KeyHeld(mediaJob[r])'
      BY <1>n, <2>2 DEF KeyHeld
    <3>2. \A q \in MediaRequests : q # r => KeyHeld(mediaJob[q])'
      BY <1>t, <2>0, <2>2 DEF KeyHeld, KeysHeld
    <3>3. \A q \in MediaRequests : KeyHeld(mediaJob[q])'
      BY <3>1, <3>2
    <3>4. \A q \in MediaRequests : mediaJob[q].pc \in {"put", "row"} => mediaJob[q].key # NoEntry
      BY <1>n, <1>t DEF KeysHeld, KeyHeld
    <3>. QED
      BY <1>n, <1>t, <2>0, <2>2, <3>3, <3>4 DEF KeysHeld
  <2>6. /\ Doing("forget") \subseteq Doing("forget")' \cup {k} /\ Doing("row") \subseteq Doing("row")'
        /\ \A q \in MediaRequests : mediaJob[q].pc = "emit" => mediaJob'[q].pc = "emit"
    BY <2>0, <2>2 DEF Doing
  <2>. HIDE DEF k
  <2>. QED
    BY <1>t, <2>0, <2>3, <2>4, <2>5, <2>6 DEF GalleryInv, GallerySound, RowsHaveFiles, FilesHaveRows,
                                              EntriesServed, GalleryIsShown, ListByClub, Served
<1>11. ASSUME NEW r \in MediaRequests, WriteEntry(r) PROVE GalleryInv'
  <2>. DEFINE x == [mediaJob[r] EXCEPT !.pc = "emit"]  k == mediaJob[r].key
  <2>0. /\ mediaJob[r].pc \in {"insert", "delete"} /\ entries' = [entries EXCEPT ![mediaJob[r].on] = k]
        /\ UNCHANGED <<files, media, answered, halfUp, halfGone, unlinked, copy, unnoted>>
    BY <1>11 DEF WriteEntry, mediaVars
  <2>1. x \in Jobs /\ x.pc = "emit" /\ x.key = k /\ mediaJob' = [mediaJob EXCEPT ![r] = x]
        /\ k \in Uploads \cup {NoEntry}
    BY <1>11, <1>t DEF WriteEntry, JobGoto, Jobs, JobPcs, GalleryTypes
  <2>. HIDE DEF x
  <2>2. /\ mediaJob' \in [MediaRequests -> Jobs]
        /\ \A q \in MediaRequests : mediaJob'[q] = IF q = r THEN x ELSE mediaJob[q]
    BY <1>t, <2>1, JobMoves
  <2>3. k = NoEntry \/ k \in files \cup unlinked
    BY <1>t, <2>0 DEF KeysHeld, KeyHeld
  <2>4. GalleryTypes'
    BY <1>t, <2>0, <2>1, <2>2 DEF GalleryTypes
  <2>5. KeysHeld'
    <3>1. KeyHeld(mediaJob[r])'
      BY <2>1, <2>2 DEF KeyHeld
    <3>2. \A q \in MediaRequests : q # r => KeyHeld(mediaJob[q])'
      BY <1>t, <2>0, <2>2 DEF KeyHeld, KeysHeld
    <3>3. \A q \in MediaRequests : KeyHeld(mediaJob[q])'
      BY <3>1, <3>2
    <3>. QED
      BY <1>t, <2>0, <2>1, <2>2, <3>3 DEF KeysHeld
  <2>6. Doing("forget") \subseteq Doing("forget")' /\ Doing("row") \subseteq Doing("row")'
    BY <2>0, <2>2 DEF Doing
  <2>7. EntriesServed'
    BY <1>t, <2>0, <2>3 DEF EntriesServed, Served, GalleryTypes
  <2>8. mediaJob'[r].pc = "emit"
    BY <2>1, <2>2
  <2>. HIDE DEF k
  <2>. QED
    BY <1>t, <2>0, <2>4, <2>5, <2>6, <2>7, <2>8 DEF GalleryInv, GallerySound, RowsHaveFiles, FilesHaveRows,
                                                    GalleryIsShown
\* A request that ends after its last step, or before.
<1>12. ASSUME NEW r \in MediaRequests, mediaJob' = [mediaJob EXCEPT ![r] = NoJob],
              UNCHANGED <<files, media, answered, unlinked, entries>>, unnoted' \in BOOLEAN,
              halfUp' = IF mediaJob[r].pc = "row" THEN halfUp \cup {mediaJob[r].key} ELSE halfUp,
              halfGone' = IF mediaJob[r].pc = "forget" THEN halfGone \cup {mediaJob[r].key} ELSE halfGone,
              GalleryIsShown'
       PROVE  GalleryInv'
  <2>2. /\ mediaJob' \in [MediaRequests -> Jobs]
        /\ \A q \in MediaRequests : mediaJob'[q] = IF q = r THEN NoJob ELSE mediaJob[q]
    BY <1>12, <1>n, <1>t, JobMoves
  <2>3. mediaJob[r].pc = "row" => \A q \in MediaRequests : q # r => mediaJob[q].key # mediaJob[r].key
    BY <1>t DEF KeysHeld
  <2>4. GalleryTypes'
    BY <1>12, <1>t, <2>2 DEF GalleryTypes
  <2>5. KeysHeld'
    <3>1. KeyHeld(mediaJob[r])'
      BY <1>n, <2>2 DEF KeyHeld
    <3>2. \A q \in MediaRequests : q # r => KeyHeld(mediaJob[q])'
      BY <1>12, <1>t, <2>2, <2>3 DEF KeyHeld, KeysHeld
    <3>3. \A q \in MediaRequests : KeyHeld(mediaJob[q])'
      BY <3>1, <3>2
    <3>4. \A q \in MediaRequests : mediaJob[q].pc \in {"put", "row"} => mediaJob[q].key # NoEntry
      BY <1>n, <1>t DEF KeysHeld, KeyHeld
    <3>. QED
      BY <1>12, <1>n, <1>t, <2>2, <3>3, <3>4 DEF KeysHeld
  <2>6. /\ Doing("forget") \cup halfGone \subseteq Doing("forget")' \cup halfGone'
        /\ Doing("row") \cup halfUp \subseteq Doing("row")' \cup halfUp'
    BY <1>12, <2>2 DEF Doing
  <2>. QED
    BY <1>12, <1>t, <2>4, <2>5, <2>6 DEF GalleryInv, GallerySound, RowsHaveFiles, FilesHaveRows, EntriesServed,
                                         Served
<1>13. ASSUME NEW r \in MediaRequests, EmitChanged(r) PROVE GalleryInv'
  BY <1>12, <1>13 DEF EmitChanged, DropList, JobDone, mediaVars, GalleryIsShown, ListByClub
<1>14. ASSUME NEW r \in MediaRequests, JobFails(r) PROVE GalleryInv'
  <2>0. /\ mediaJob[r].pc # "idle" /\ mediaJob' = [mediaJob EXCEPT ![r] = NoJob]
        /\ halfUp' = IF mediaJob[r].pc = "row" THEN halfUp \cup {mediaJob[r].key} ELSE halfUp
        /\ halfGone' = IF mediaJob[r].pc = "forget" THEN halfGone \cup {mediaJob[r].key} ELSE halfGone
        /\ unnoted' = (unnoted \/ (mediaJob[r].pc = "emit" /\ copy # NoCopy))
        /\ UNCHANGED <<files, media, answered, unlinked, entries, copy>>
    BY <1>14 DEF JobFails, JobDone
  <2>1. GalleryIsShown'
    <3>1. \A q \in MediaRequests : q # r => mediaJob'[q] = mediaJob[q]
      BY <1>n, <1>t, <2>0, JobMoves
    <3>. QED
      BY <1>t, <2>0, <3>1 DEF GalleryIsShown, ListByClub
  <2>2. unnoted' \in BOOLEAN
    BY <2>0, Zenon
  <2>. QED
    BY <1>12, <2>0, <2>1, <2>2
<1>15. CASE FillList \/ GalleryExpires
  <2>1. UNCHANGED <<files, media, answered, halfUp, halfGone, unlinked, entries, mediaJob>>
        /\ unnoted' \in BOOLEAN
    BY <1>15, <1>t DEF FillList, GalleryExpires, mediaVars, GalleryTypes
  <2>2. GalleryTypes' /\ KeysHeld' /\ RowsHaveFiles' /\ FilesHaveRows' /\ EntriesServed'
    BY <1>t, <2>1 DEF GalleryTypes, KeysHeld, KeyHeld, RowsHaveFiles, FilesHaveRows, EntriesServed, Served, Doing
  <2>3. GalleryIsShown'
    BY <1>15, <1>t DEF FillList, GalleryExpires, mediaVars, GalleryIsShown, ListByClub
  <2>. QED
    BY <2>2, <2>3 DEF GalleryInv, GallerySound
<1>16. \A r \in AnyOne({q \in MediaRequests : mediaJob[q] = NoJob}) : r \in MediaRequests /\ mediaJob[r] = NoJob
  BY DEF AnyOne
<1>17. \A k \in AnyOne(Unused) : k \in Uploads
  BY DEF AnyOne, Unused
<1>. QED
  BY <1>1, <1>3, <1>4, <1>5, <1>6, <1>7, <1>8, <1>9, <1>10, <1>11, <1>13, <1>14, <1>15, <1>16, <1>17
     DEF GalleryNext

(* Files, rows, addresses and the cached list agree, up to the requests    *)
(* under way and those that were cut short (media.service.ts,              *)
(* gallery.service.ts).                                                    *)
THEOREM GalleryIsSound == GallerySpec => []GallerySound
<1>1. GalleryInv => GallerySound
  BY DEF GalleryInv
<1>. QED
  BY <1>1, GalleryInvInit, GalleryInvStep, PTL DEF GallerySpec

-----------------------------------------------------------------------------
(***************************************************************************)
(* Paging: first what the operators of the lists do.  The first rows of a  *)
(* finite set in the order of times and ids exist, whatever the set.       *)
(***************************************************************************)
LEMMA LeastSubset ==
  ASSUME NEW S, IsFiniteSet(S), NEW F, F \subseteq SUBSET S, F # {}
  PROVE  \E U \in F : \A V \in F : V \subseteq U => V = U
<1>1. IsWellFoundedOn(StrictSubsetOrdering(S), SUBSET S)
  BY FS_FiniteSubsetsOfFinite, FS_StrictSubsetOrderingWellFounded
<1>2. PICK U \in F : \A V \in F : <<V, U>> \notin StrictSubsetOrdering(S)
  BY <1>1, WFMin
<1>3. \A V \in F : V \subseteq U => V = U
  BY <1>2 DEF StrictSubsetOrdering
<1>. QED
  BY <1>3

Dated == \A x \in Rows : x \in Nat /\ entry[x].at \in Nat

LEMMA FirstRow ==
  ASSUME Dated, NEW S \in SUBSET Rows, S # {}
  PROVE  \E z \in S : \A y \in S : ~ByTimeId(y, z)
<1>. DEFINE before(x) == {y \in S : ByTimeId(y, x)}
            F == {before(x) : x \in S}
<1>1. IsFiniteSet(S)
  BY FS_Subset, PagingAssumption
<1>2. F \subseteq SUBSET S /\ F # {}
  OBVIOUS
<1>3. PICK U \in F : \A V \in F : V \subseteq U => V = U
  <2>. HIDE DEF F
  <2>. QED
    BY <1>1, <1>2, LeastSubset
<1>4. PICK z \in S : U = before(z)
  BY <1>3
<1>5. ASSUME NEW y \in S, ByTimeId(y, z) PROVE FALSE
  <2>1. before(y) \subseteq before(z)
    BY <1>5 DEF ByTimeId, Dated
  <2>2. y \in before(z) /\ y \notin before(y)
    BY <1>5 DEF ByTimeId, Dated
  <2>3. before(y) \in F
    OBVIOUS
  <2>. QED
    BY <1>3, <1>4, <2>1, <2>2, <2>3
<1>. QED
  BY <1>5

LEMMA TopsExist ==
  ASSUME Dated, NEW S \in SUBSET Rows, NEW n \in Nat
  PROVE  Tops(S, n, ByTimeId) # {}
<1>. DEFINE Up(T) == \A x \in T, y \in S \ T : ~ByTimeId(y, x)
            F == {U \in SUBSET S : Up(S \ U) /\ Cardinality(S \ U) <= n}
<1>1. IsFiniteSet(S) /\ Cardinality(S) \in Nat
  BY FS_Subset, FS_CardinalityType, PagingAssumption
<1>2. S \in F
  <2>1. S \ S = {}
    OBVIOUS
  <2>2. Cardinality({}) = 0
    BY FS_EmptySet
  <2>. QED
    BY <2>1, <2>2
<1>3. PICK U \in F : \A V \in F : V \subseteq U => V = U
  <2>1. F \subseteq SUBSET S /\ F # {}
    BY <1>2
  <2>. HIDE DEF F
  <2>. QED
    BY <1>1, <2>1, LeastSubset
<1>. DEFINE T == S \ U
<1>4. /\ U \subseteq S /\ Up(T) /\ Cardinality(T) <= n /\ IsFiniteSet(T) /\ Cardinality(T) \in Nat
      /\ Cardinality(T) <= Cardinality(S) /\ (Cardinality(T) = Cardinality(S) => T = S) /\ S \ T = U
  <2>1. U \subseteq S /\ Up(T) /\ Cardinality(T) <= n
    BY <1>3
  <2>2. T \subseteq S /\ S \ T = U
    BY <2>1
  <2>. HIDE DEF T
  <2>. QED
    BY <1>1, <2>1, <2>2, FS_Subset, FS_CardinalityType
<1>5. CASE U = {}
  <2>1. T = S
    BY <1>5
  <2>2. T \in Tops(S, n, ByTimeId)
    BY <1>1, <1>4, <2>1 DEF Tops
  <2>. QED
    BY <2>2
<1>6. CASE U # {} /\ Cardinality(T) < n
  <2>1. PICK z \in U : \A y \in U : ~ByTimeId(y, z)
    BY <1>4, <1>6, FirstRow
  <2>. DEFINE V == U \ {z}
  <2>2. S \ V = T \cup {z} /\ V \subseteq S /\ z \notin T
    BY <1>4
  <2>3. Cardinality(T \cup {z}) = Cardinality(T) + 1
    BY <1>4, <2>2, FS_AddElement
  <2>4. Cardinality(S \ V) <= n
    BY <1>4, <1>6, <2>2, <2>3
  <2>5. Up(S \ V)
    BY <1>4, <2>1, <2>2
  <2>6. V \in F
    BY <2>2, <2>4, <2>5
  <2>. QED
    BY <1>3, <2>6
<1>7. CASE U # {} /\ Cardinality(T) = n
  <2>1. T \in SUBSET S /\ Cardinality(T) = (IF Cardinality(S) < n THEN Cardinality(S) ELSE n)
    BY <1>1, <1>4, <1>7
  <2>2. T \in Tops(S, n, ByTimeId)
    BY <1>4, <2>1 DEF Tops
  <2>. QED
    BY <2>2
<1>. QED
  BY <1>4, <1>5, <1>6, <1>7

\* Milliseconds.
LEMMA DivFacts ==
  ASSUME NEW d \in Nat \ {0}, NEW t \in Nat
  PROVE  t \div d \in Nat /\ d * (t \div d) <= t /\ t < d * (t \div d) + d
<1>. DEFINE q == t \div d
<1>1. q \in Int /\ d * q <= t /\ t < d * q + d
  OBVIOUS
<1>. QED
  BY <1>1

LEMMA MilliFacts ==
  ASSUME NEW t \in Nat, NEW u \in Nat
  PROVE  /\ Milli(t) \in Nat /\ Milli(u) \in Nat /\ Ticks * Milli(t) <= t
         /\ t <= u => Milli(t) <= Milli(u)
         /\ t < Ticks * Milli(u) => Milli(t) < Milli(u)
         /\ t >= Ticks * Milli(u) => Milli(t) >= Milli(u)
<1>. DEFINE p == Milli(t)
            q == Milli(u)
<1>1. p \in Nat /\ Ticks * p <= t /\ t < Ticks * p + Ticks
  BY DivFacts, PagingAssumption DEF Milli
<1>2. q \in Nat /\ Ticks * q <= u /\ u < Ticks * q + Ticks
  BY DivFacts, PagingAssumption DEF Milli
<1>3. Ticks \in Nat \ {0}
  BY PagingAssumption
<1>. HIDE DEF p, q
<1>4. ASSUME NEW m \in Nat, NEW k \in Nat, m < k PROVE Ticks * m + Ticks <= Ticks * k
  <2>1. m + 1 <= k
    BY <1>4
  <2>2. Ticks * (m + 1) <= Ticks * k
    BY <1>3, <2>1
  <2>. QED
    BY <1>3, <2>2
<1>5. p > q => t > u
  BY <1>1, <1>2, <1>3, <1>4
<1>6. p >= q => t >= Ticks * q
  <2>1. CASE p = q
    BY <1>1, <2>1
  <2>2. CASE p > q
    BY <1>1, <1>2, <1>3, <1>4, <2>2
  <2>. QED
    BY <1>1, <1>2, <2>1, <2>2
<1>7. p < q => t < Ticks * q
  BY <1>1, <1>2, <1>3, <1>4
<1>. QED
  <2>1. t <= u => p <= q
    BY <1>1, <1>2, <1>5
  <2>2. t < Ticks * q => p < q
    <3>1. Ticks * q \in Nat
      BY <1>2, <1>3
    <3>. QED
      BY <1>1, <1>2, <1>6, <3>1
  <2>3. t >= Ticks * q => p >= q
    <3>1. Ticks * q \in Nat
      BY <1>2, <1>3
    <3>. QED
      BY <1>1, <1>2, <1>7, <3>1
  <2>. QED
    BY <1>1, <1>2, <2>1, <2>2, <2>3 DEF p, q

\* What the order of a list makes of a cursor c: r comes after it.
Follows(c, r) ==
  \/ listing.order = "time" /\ entry[r].at < Ticks * Milli(entry[c].at)
  \/ listing.order = "timeId" /\ ByTimeId(c, r)
  \/ listing.order = "merged" /\ ByTuple(c, r)
  \/ listing.order = "whole" /\ ByWholeTime(c, r)
SameMilli(x, r) == Milli(entry[x].at) = Milli(entry[r].at)

PagingTypes == PagingTypeOK /\ (listing.order = "merged" => listing.next = "beyond")
\* The cursor is a row, and one of the table where the order asks for it.
CursorStands ==
  /\ walk = "start" => cursor = NoRow /\ stable = {} /\ \A r \in Rows : handed[r] = 0
  /\ walk = "more" =>
       /\ cursor \in Rows
       /\ listing.order = "timeId" => cursor \in stored
       /\ listing.order = "merged" => cursor \in stored \/ cursorGone
HandedBefore ==
  walk = "more" =>
    \A r \in Rows : handed[r] >= 1 => ~Follows(cursor, r) \/ (listing.order = "merged" /\ AtEdge(r))
StableAhead ==
  walk = "more" =>
    \A r \in stable : \/ handed[r] >= 1
                      \/ Follows(cursor, r)
                      \/ listing.order \in {"time", "merged"} /\ AtEdge(r)

PagingInv == PagingTypes /\ CursorStands /\ HandedBefore /\ StableAhead /\ NoneTwice /\ NoneMissed

LEMMA PagingTyped ==
  ASSUME PagingTypes
  PROVE  /\ listing.order \in {"time", "timeId", "merged", "whole"} /\ listing.next \in {"full", "beyond"}
         /\ listing.limit \in Nat \ {0} /\ (listing.order = "merged" => listing.next = "beyond")
         /\ Dated /\ \A x \in Rows : entry[x].at \in Nat /\ entry[x].kind \in Nat /\ entry[x].kind \in Kinds
         /\ visible \subseteq stored /\ stored \subseteq Rows /\ stable \subseteq visible /\ handed \in [Rows -> Nat]
<1>1. listing.order \in {"time", "timeId", "merged", "whole"} /\ listing.next \in {"full", "beyond"}
      /\ listing.limit \in Nat \ {0}
  BY PagingAssumption DEF PagingTypes, PagingTypeOK
<1>2. \A x \in Rows : x \in Nat /\ entry[x].at \in Nat /\ entry[x].kind \in Nat /\ entry[x].kind \in Kinds
  <2>1. \A x \in Rows : entry[x] \in [at : 0..MaxInstant, kind : Kinds]
    BY DEF PagingTypes, PagingTypeOK
  <2>2. \A x \in Rows : entry[x].at \in 0..MaxInstant /\ entry[x].kind \in Kinds
    BY <2>1
  <2>3. 0..MaxInstant \subseteq Nat /\ Kinds \subseteq Nat /\ Rows \subseteq Nat
    BY PagingAssumption
  <2>. QED
    BY <2>2, <2>3
<1>. QED
  BY <1>1, <1>2 DEF PagingTypes, PagingTypeOK, Dated

LEMMA FollowsTransitive ==
  ASSUME PagingTypes, NEW c \in Rows, NEW x \in Rows, NEW r \in Rows, Follows(c, x), Follows(x, r)
  PROVE  Follows(c, r)
<1>1. entry[c].at \in Nat /\ entry[x].at \in Nat /\ entry[r].at \in Nat /\ c \in Nat /\ x \in Nat /\ r \in Nat
  BY PagingTyped, PagingAssumption
<1>2. CASE listing.order = "time"
  <2>1. entry[x].at < Ticks * Milli(entry[c].at) /\ entry[r].at < Ticks * Milli(entry[x].at)
    BY <1>2 DEF Follows
  <2>2. Ticks * Milli(entry[x].at) <= entry[x].at /\ Milli(entry[x].at) \in Nat /\ Milli(entry[c].at) \in Nat
    BY <1>1, MilliFacts
  <2>3. Ticks * Milli(entry[x].at) \in Nat /\ Ticks * Milli(entry[c].at) \in Nat
    BY <2>2, PagingAssumption
  <2>4. entry[r].at < Ticks * Milli(entry[c].at)
    BY <1>1, <2>1, <2>2, <2>3
  <2>. QED
    BY <1>2, <2>4 DEF Follows
<1>3. CASE listing.order = "timeId"
  BY <1>1, <1>3 DEF Follows, ByTimeId
<1>4. CASE listing.order = "merged"
  <2>1. entry[c].kind \in Nat /\ entry[x].kind \in Nat /\ entry[r].kind \in Nat
    BY PagingTyped
  <2>. QED
    BY <1>1, <1>4, <2>1 DEF Follows, ByTuple
<1>5. CASE listing.order = "whole"
  <2>1. Milli(entry[c].at) \in Nat /\ Milli(entry[x].at) \in Nat /\ Milli(entry[r].at) \in Nat
    BY <1>1, MilliFacts
  <2>. QED
    BY <1>1, <1>5, <2>1 DEF Follows, ByWholeTime
<1>. QED
  BY <1>2, <1>3, <1>4, <1>5, PagingTyped

LEMMA LeftFacts ==
  ASSUME PagingTypes, CursorStands
  PROVE  /\ Left \subseteq visible /\ IsFiniteSet(Left) /\ Cardinality(Left) \in Nat
         /\ walk = "start" => Left = visible
         /\ walk = "more" =>
              Left = {x \in visible : /\ listing.order \in {"timeId", "merged"} => cursor \in stored
                                      /\ Follows(cursor, x)}
<1>1. Left \subseteq visible /\ visible \subseteq Rows
  BY PagingTyped DEF Left
<1>2. IsFiniteSet(Left) /\ Cardinality(Left) \in Nat
  BY <1>1, FS_Subset, FS_CardinalityType, PagingAssumption
<1>3. walk = "start" => Left = visible
  BY DEF CursorStands, Left
<1>4. ASSUME walk = "more"
      PROVE  Left = {x \in visible : /\ listing.order \in {"timeId", "merged"} => cursor \in stored
                                     /\ Follows(cursor, x)}
  <2>1. cursor # NoRow
    BY <1>4, PagingAssumption DEF CursorStands
  <2>2. \A x \in visible : Follows(cursor, x) => listing.order \in {"time", "timeId", "merged", "whole"}
    BY PagingTyped
  <2>. QED
    BY <2>1, <2>2 DEF Left, Follows, EarlierThan
<1>. QED
  BY <1>1, <1>2, <1>3, <1>4

\* The first n of a set are all of it unless it is longer.
LEMMA WholePage ==
  ASSUME NEW S, IsFiniteSet(S), NEW n \in Nat, NEW T \in SUBSET S,
         Cardinality(T) = (IF Cardinality(S) < n THEN Cardinality(S) ELSE n),
         Cardinality(T) # n \/ Cardinality(S) <= n
  PROVE  T = S
<1>1. Cardinality(S) \in Nat /\ Cardinality(T) = Cardinality(S)
  BY FS_CardinalityType
<1>. QED
  BY <1>1, FS_Subset

LEMMA NoNextIsWhole ==
  ASSUME PagingTypes, CursorStands, NEW T \in SUBSET Left,
         Cardinality(T) = (IF Cardinality(Left) < listing.limit THEN Cardinality(Left) ELSE listing.limit),
         ~HasNext(T)
  PROVE  T = Left
<1>1. IsFiniteSet(Left) /\ Cardinality(Left) \in Nat /\ listing.limit \in Nat
  BY LeftFacts, PagingTyped
<1>2. Cardinality(T) # listing.limit \/ Cardinality(Left) <= listing.limit
  BY <1>1 DEF HasNext
<1>. QED
  BY <1>1, <1>2, WholePage

\* What a page and the row it ends in are to what was left.
PageFits(T, x) ==
  /\ T \subseteq Left /\ x \in T
  /\ \A y \in T : ~Follows(x, y) \/ (listing.order = "merged" /\ SameMilli(x, y))
  /\ \A r \in Left \ T : Follows(x, r) \/ (listing.order \in {"time", "merged"} /\ SameMilli(x, r))
  /\ ~HasNext(T) => T = Left

LEMMA TieBroken ==
  ASSUME NEW t \in Nat, NEW u \in Nat, NEW m \in Nat, NEW k \in Nat, m # k, ~(t > u \/ (t = u /\ m > k))
  PROVE  u > t \/ (u = t /\ k > m)
OBVIOUS

LEMMA TimePages ==
  ASSUME PagingTypes, CursorStands, listing.order = "time", NEW p \in Pages PROVE PageFits(p[1], p[2])
<1>1. Pages = UNION {{<<T, x>> : x \in Lasts(T, ByTime)} : T \in Tops(Left, listing.limit, ByTime)}
  BY DEF Pages, PagesOf
<1>2. PICK T \in Tops(Left, listing.limit, ByTime) : \E x \in Lasts(T, ByTime) : p = <<T, x>>
  BY <1>1
<1>3. PICK x \in Lasts(T, ByTime) : p = <<T, x>>
  BY <1>2
<1>4. /\ T \in SUBSET Left /\ \A z \in T, y \in Left \ T : ~ByTime(y, z)
      /\ Cardinality(T) = (IF Cardinality(Left) < listing.limit THEN Cardinality(Left) ELSE listing.limit)
  BY <1>2 DEF Tops
<1>5. x \in T /\ \A y \in T : ~ByTime(x, y)
  BY <1>3 DEF Lasts
<1>6. \A y \in Left : y \in Rows /\ entry[y].at \in Nat
  BY LeftFacts, PagingTyped
<1>7. ASSUME NEW y \in T PROVE ~Follows(x, y)
  <2>1. entry[y].at >= entry[x].at /\ entry[y].at \in Nat /\ entry[x].at \in Nat
    <3>1. entry[y].at \in Nat /\ entry[x].at \in Nat
      BY <1>4, <1>5, <1>6
    <3>2. ~(entry[x].at > entry[y].at)
      BY <1>5 DEF ByTime
    <3>. QED
      BY <3>1, <3>2
  <2>2. Ticks * Milli(entry[x].at) <= entry[x].at /\ Milli(entry[x].at) \in Nat
    BY <2>1, MilliFacts
  <2>3. Ticks * Milli(entry[x].at) \in Nat
    BY <2>2, PagingAssumption
  <2>. QED
    BY <2>1, <2>2, <2>3 DEF Follows
<1>8. ASSUME NEW r \in Left \ T PROVE Follows(x, r) \/ SameMilli(x, r)
  <2>1. entry[r].at <= entry[x].at /\ entry[r].at \in Nat /\ entry[x].at \in Nat
    <3>1. entry[r].at \in Nat /\ entry[x].at \in Nat
      BY <1>4, <1>5, <1>6
    <3>2. ~(entry[r].at > entry[x].at)
      BY <1>4, <1>5 DEF ByTime
    <3>. QED
      BY <3>1, <3>2
  <2>2. /\ Milli(entry[r].at) <= Milli(entry[x].at) /\ Milli(entry[r].at) \in Nat /\ Milli(entry[x].at) \in Nat
        /\ entry[r].at >= Ticks * Milli(entry[x].at) => Milli(entry[r].at) >= Milli(entry[x].at)
    BY <2>1, MilliFacts
  <2>3. Ticks * Milli(entry[x].at) \in Nat
    BY <2>2, PagingAssumption
  <2>4. entry[r].at < Ticks * Milli(entry[x].at) \/ Milli(entry[r].at) = Milli(entry[x].at)
    BY <2>1, <2>2, <2>3
  <2>. QED
    BY <2>4 DEF Follows, SameMilli
<1>9. ~HasNext(T) => T = Left
  BY <1>4, NoNextIsWhole
<1>. QED
  BY <1>3, <1>4, <1>5, <1>7, <1>8, <1>9 DEF PageFits

LEMMA TimeIdPages ==
  ASSUME PagingTypes, CursorStands, listing.order = "timeId", NEW p \in Pages PROVE PageFits(p[1], p[2])
<1>1. Pages = UNION {{<<T, x>> : x \in Lasts(T, ByTimeId)} : T \in Tops(Left, listing.limit, ByTimeId)}
  BY DEF Pages, PagesOf
<1>2. PICK T \in Tops(Left, listing.limit, ByTimeId) : \E x \in Lasts(T, ByTimeId) : p = <<T, x>>
  BY <1>1
<1>3. PICK x \in Lasts(T, ByTimeId) : p = <<T, x>>
  BY <1>2
<1>4. /\ T \in SUBSET Left /\ \A z \in T, y \in Left \ T : ~ByTimeId(y, z)
      /\ Cardinality(T) = (IF Cardinality(Left) < listing.limit THEN Cardinality(Left) ELSE listing.limit)
  BY <1>2 DEF Tops
<1>5. x \in T /\ \A y \in T : ~ByTimeId(x, y)
  BY <1>3 DEF Lasts
<1>6. \A y \in Left : y \in Nat /\ entry[y].at \in Nat
  BY LeftFacts, PagingTyped, PagingAssumption
<1>7. \A y \in T : ~Follows(x, y)
  BY <1>5 DEF Follows
<1>8. ASSUME NEW r \in Left \ T PROVE ByTimeId(x, r)
  <2>1. r \in Nat /\ x \in Nat /\ entry[r].at \in Nat /\ entry[x].at \in Nat /\ r # x
    BY <1>4, <1>5, <1>6
  <2>2. ~ByTimeId(r, x)
    BY <1>4, <1>5
  <2>. QED
    BY <2>1, <2>2, TieBroken DEF ByTimeId
<1>9. ~HasNext(T) => T = Left
  BY <1>4, NoNextIsWhole
<1>. QED
  BY <1>3, <1>4, <1>5, <1>7, <1>8, <1>9 DEF PageFits, Follows

LEMMA WholeTimePages ==
  ASSUME PagingTypes, CursorStands, listing.order = "whole", NEW p \in Pages PROVE PageFits(p[1], p[2])
<1>1. Pages = UNION {{<<T, x>> : x \in Lasts(T, ByWholeTime)} : T \in Tops(Left, listing.limit, ByWholeTime)}
  BY DEF Pages, PagesOf
<1>2. PICK T \in Tops(Left, listing.limit, ByWholeTime) : \E x \in Lasts(T, ByWholeTime) : p = <<T, x>>
  BY <1>1
<1>3. PICK x \in Lasts(T, ByWholeTime) : p = <<T, x>>
  BY <1>2
<1>4. /\ T \in SUBSET Left /\ \A z \in T, y \in Left \ T : ~ByWholeTime(y, z)
      /\ Cardinality(T) = (IF Cardinality(Left) < listing.limit THEN Cardinality(Left) ELSE listing.limit)
  BY <1>2 DEF Tops
<1>5. x \in T /\ \A y \in T : ~ByWholeTime(x, y)
  BY <1>3 DEF Lasts
<1>6. \A y \in Left : y \in Nat /\ Milli(entry[y].at) \in Nat
  BY LeftFacts, PagingTyped, PagingAssumption, MilliFacts
<1>7. \A y \in T : ~Follows(x, y)
  BY <1>5 DEF Follows
<1>8. ASSUME NEW r \in Left \ T PROVE ByWholeTime(x, r)
  <2>1. r \in Nat /\ x \in Nat /\ Milli(entry[r].at) \in Nat /\ Milli(entry[x].at) \in Nat /\ r # x
    BY <1>4, <1>5, <1>6
  <2>2. ~ByWholeTime(r, x)
    BY <1>4, <1>5
  <2>. QED
    BY <2>1, <2>2, TieBroken DEF ByWholeTime
<1>9. ~HasNext(T) => T = Left
  BY <1>4, NoNextIsWhole
<1>. QED
  BY <1>3, <1>4, <1>5, <1>7, <1>8, <1>9 DEF PageFits, Follows

\* What one table of the feed gives.
Offered(k) == CHOOSE T \in Tops({x \in Left : entry[x].kind = k}, listing.limit + 1, ByTimeId) : TRUE

LEMMA OfferedFacts ==
  ASSUME PagingTypes, CursorStands, NEW k \in Kinds
  PROVE  /\ Offered(k) \subseteq {x \in Left : entry[x].kind = k}
         /\ \A x \in Offered(k), y \in Left \ Offered(k) : entry[y].kind = k => ~ByTimeId(y, x)
         /\ IsFiniteSet(Offered(k)) /\ Cardinality(Offered(k)) \in Nat
         /\ \/ Cardinality(Offered(k)) = listing.limit + 1
            \/ Offered(k) = {x \in Left : entry[x].kind = k}
         /\ Cardinality(Left) <= listing.limit => Offered(k) = {x \in Left : entry[x].kind = k}
<1>. DEFINE S == {x \in Left : entry[x].kind = k}
            n == listing.limit + 1
<1>1. /\ S \subseteq Left /\ S \in SUBSET Rows /\ IsFiniteSet(S) /\ Cardinality(S) \in Nat /\ n \in Nat
      /\ Cardinality(S) <= Cardinality(Left) /\ Cardinality(Left) \in Nat /\ listing.limit \in Nat
  <2>1. S \subseteq Left /\ IsFiniteSet(Left) /\ Cardinality(Left) \in Nat /\ S \in SUBSET Rows
    BY LeftFacts, PagingTyped
  <2>2. listing.limit \in Nat /\ n \in Nat
    BY PagingTyped
  <2>. HIDE DEF S, n
  <2>. QED
    BY <2>1, <2>2, FS_Subset, FS_CardinalityType
<1>2. Offered(k) = CHOOSE T \in Tops(S, n, ByTimeId) : TRUE
  BY DEF Offered
<1>3. Tops(S, n, ByTimeId) # {}
  <2>. HIDE DEF S, n
  <2>. QED
    BY <1>1, TopsExist, PagingTyped
<1>4. Offered(k) \in Tops(S, n, ByTimeId)
  <2>. DEFINE tops == Tops(S, n, ByTimeId)
  <2>1. tops # {} /\ Offered(k) = CHOOSE T \in tops : TRUE
    BY <1>2, <1>3
  <2>. HIDE DEF tops
  <2>2. Offered(k) \in tops
    BY <2>1
  <2>. QED
    BY <2>2 DEF tops
<1>. DEFINE G == Offered(k)
<1>5. /\ G \in SUBSET S /\ Cardinality(G) = (IF Cardinality(S) < n THEN Cardinality(S) ELSE n)
      /\ \A x \in G, y \in S \ G : ~ByTimeId(y, x)
  <2>. HIDE DEF S, n, G
  <2>. QED
    BY <1>4 DEF Tops, G
<1>6. \A x \in G, y \in Left \ G : entry[y].kind = k => ~ByTimeId(y, x)
  <2>. HIDE DEF n, G
  <2>. QED
    BY <1>5
<1>7. IsFiniteSet(G) /\ Cardinality(G) \in Nat /\ (Cardinality(G) = n \/ G = S)
      /\ (Cardinality(Left) <= listing.limit => G = S)
  <2>1. Cardinality(Left) <= listing.limit => Cardinality(S) <= n
    BY <1>1
  <2>. HIDE DEF S, n, G
  <2>. QED
    BY <1>1, <1>5, <2>1, WholePage, FS_Subset, FS_CardinalityType
<1>. QED
  BY <1>5, <1>6, <1>7

\* The times of rows that compare one way in the database and in the server.
LEMMA FeedKeys ==
  ASSUME PagingTypes, NEW x \in Rows, NEW y \in Rows
  PROVE  /\ ~ByFeedKey(x, y) => ~ByTuple(x, y) \/ SameMilli(x, y)
         /\ ~ByFeedKey(y, x) => ByTuple(x, y) \/ SameMilli(x, y)
         /\ ~ByFeedKey(y, x) => Milli(entry[y].at) <= Milli(entry[x].at)
<1>. DEFINE t == entry[x].at
            u == entry[y].at
<1>1. /\ t \in Nat /\ u \in Nat /\ Milli(t) \in Nat /\ Milli(u) \in Nat
      /\ t <= u => Milli(t) <= Milli(u)
      /\ u <= t => Milli(u) <= Milli(t)
  BY PagingTyped, MilliFacts
<1>. DEFINE p == Milli(t)
            q == Milli(u)
<1>2. /\ ~ByFeedKey(x, y) => p <= q
      /\ ~ByFeedKey(y, x) => q <= p
  <2>. HIDE DEF t, u
  <2>. QED
    BY <1>1 DEF ByFeedKey, t, u
<1>3. ByTuple(x, y) => t >= u
  <2>1. t \in Nat /\ u \in Nat
    BY <1>1
  <2>. QED
    BY <2>1 DEF ByTuple
<1>4. t > u => ByTuple(x, y)
  BY DEF ByTuple
<1>5. SameMilli(x, y) <=> p = q
  BY DEF SameMilli
<1>. HIDE DEF p, q, t, u
<1>6. ~ByFeedKey(x, y) => ~ByTuple(x, y) \/ p = q
  <2>1. p \in Nat /\ q \in Nat /\ (u <= t => q <= p)
    BY <1>1 DEF p, q
  <2>. QED
    BY <1>1, <1>2, <1>3, <2>1
<1>7. ~ByFeedKey(y, x) => ByTuple(x, y) \/ p = q
  <2>1. p \in Nat /\ q \in Nat /\ (t <= u => p <= q)
    BY <1>1 DEF p, q
  <2>. QED
    BY <1>1, <1>2, <1>4, <2>1
<1>8. ~ByFeedKey(y, x) => Milli(entry[y].at) <= Milli(entry[x].at)
  BY <1>2 DEF p, q, t, u
<1>. QED
  BY <1>5, <1>6, <1>7, <1>8

LEMMA MergedPages ==
  ASSUME PagingTypes, CursorStands, listing.order = "merged", NEW p \in Pages PROVE PageFits(p[1], p[2])
<1>1. Pages = UNION {{<<T, x>> : x \in Lasts(T, ByFeedKey)} : T \in Tops(FeedCandidates, listing.limit, ByFeedKey)}
  BY DEF Pages, PagesOf
<1>2. PICK T \in Tops(FeedCandidates, listing.limit, ByFeedKey) : \E x \in Lasts(T, ByFeedKey) : p = <<T, x>>
  BY <1>1
<1>3. PICK x \in Lasts(T, ByFeedKey) : p = <<T, x>>
  BY <1>2
<1>. DEFINE C == FeedCandidates
            n == listing.limit
<1>4. /\ T \in SUBSET C /\ \A z \in T, y \in C \ T : ~ByFeedKey(y, z)
      /\ Cardinality(T) = (IF Cardinality(C) < n THEN Cardinality(C) ELSE n)
  BY <1>2 DEF Tops
<1>5. x \in T /\ \A y \in T : ~ByFeedKey(x, y)
  BY <1>3 DEF Lasts
<1>6. C = UNION {Offered(k) : k \in Kinds}
  BY DEF FeedCandidates, Offered
<1>7. \A y \in Left : y \in Rows /\ entry[y].kind \in Kinds /\ entry[y].at \in Nat /\ Milli(entry[y].at) \in Nat
  BY LeftFacts, PagingTyped, MilliFacts
<1>8. /\ C \subseteq Left /\ IsFiniteSet(Left) /\ Cardinality(Left) \in Nat /\ n \in Nat
      /\ (\A k \in Kinds : Offered(k) \subseteq C)
  <2>. HIDE DEF C
  <2>. QED
    BY <1>6, OfferedFacts, LeftFacts, PagingTyped
<1>. HIDE DEF C, n
<1>9. /\ IsFiniteSet(C) /\ Cardinality(C) \in Nat /\ IsFiniteSet(T) /\ Cardinality(T) \in Nat /\ Cardinality(T) <= n
  <2>1. IsFiniteSet(C) /\ Cardinality(C) \in Nat
    BY <1>8, FS_Subset, FS_CardinalityType
  <2>2. IsFiniteSet(T) /\ Cardinality(T) \in Nat
    BY <1>4, <2>1, FS_Subset, FS_CardinalityType
  <2>. QED
    BY <1>4, <1>8, <2>1, <2>2
<1>10. ASSUME NEW y \in T PROVE ~Follows(x, y) \/ SameMilli(x, y)
  <2>1. ~ByTuple(x, y) \/ SameMilli(x, y)
    BY <1>4, <1>5, <1>7, <1>8, FeedKeys
  <2>. QED
    BY <2>1 DEF Follows
<1>11. ASSUME NEW r \in Left \ T PROVE ByTuple(x, r) \/ SameMilli(x, r)
  <2>. DEFINE k == entry[r].kind
  <2>1. CASE r \in C
    <3>1. ~ByFeedKey(r, x)
      BY <1>4, <1>5, <2>1
    <3>. QED
      BY <1>4, <1>5, <1>7, <1>8, <3>1, FeedKeys
  <2>2. CASE r \notin C
    <3>1. k \in Kinds /\ r \notin Offered(k)
      BY <1>7, <1>8, <2>2
    <3>2. Cardinality(Offered(k)) = n + 1 /\ IsFiniteSet(Offered(k)) /\ \A z \in Offered(k) : z \in C /\ ~ByTimeId(r, z)
      BY <1>8, <3>1, OfferedFacts DEF n
    <3>3. ~(Offered(k) \subseteq T)
      <4>. HIDE DEF k
      <4>. QED
        BY <1>8, <1>9, <3>2, FS_Subset
    <3>4. PICK z \in Offered(k) : z \notin T
      BY <3>3
    <3>5. z \in C /\ z \in Rows /\ x \in Rows /\ r \in Rows /\ ~ByFeedKey(z, x) /\ ~ByTimeId(r, z)
      BY <1>4, <1>5, <1>7, <1>8, <3>2, <3>4
    <3>6. Milli(entry[z].at) <= Milli(entry[x].at)
      BY <3>5, FeedKeys
    <3>7. entry[r].at \in Nat /\ entry[z].at \in Nat /\ entry[x].at \in Nat
      BY <3>5, PagingTyped
    <3>8. entry[r].at <= entry[z].at
      BY <3>5, <3>7 DEF ByTimeId
    <3>9. /\ Milli(entry[r].at) \in Nat /\ Milli(entry[z].at) \in Nat /\ Milli(entry[x].at) \in Nat
          /\ Milli(entry[r].at) <= Milli(entry[z].at)
          /\ entry[x].at <= entry[r].at => Milli(entry[x].at) <= Milli(entry[r].at)
      BY <3>7, <3>8, MilliFacts
    <3>10. entry[r].at < entry[x].at \/ Milli(entry[x].at) = Milli(entry[r].at)
      BY <3>6, <3>7, <3>9
    <3>. QED
      BY <3>10 DEF ByTuple, SameMilli
  <2>. QED
    BY <2>1, <2>2
<1>12. ~HasNext(T) => T = Left
  <2>. SUFFICES ASSUME ~HasNext(T) PROVE T = Left
    OBVIOUS
  <2>1. Cardinality(Left) <= n
    BY <1>8, PagingTyped DEF HasNext, n
  <2>2. \A y \in Left : y \in Offered(entry[y].kind)
    BY <1>7, <2>1, OfferedFacts DEF n
  <2>3. C = Left
    BY <1>7, <1>8, <2>2
  <2>. QED
    BY <1>4, <1>8, <2>1, <2>3, WholePage
<1>. QED
  BY <1>3, <1>4, <1>5, <1>8, <1>10, <1>11, <1>12 DEF PageFits, Follows

LEMMA PagingInvInit == PagingInit => PagingInv
<1>. SUFFICES ASSUME PagingInit PROVE PagingInv
  OBVIOUS
<1>1. \A l \in Listings : /\ l.order \in {"time", "timeId", "merged", "whole"} /\ l.next \in {"full", "beyond"}
                          /\ (l.order = "merged" => l.next = "beyond")
  <2>1. \A l \in {NotificationList, AuditTrail, ModerationHistory, MembershipHistory, AuditDecisions} :
          l.order \in {"time", "timeId"} /\ l.next = "full"
    BY DEF NotificationList, AuditTrail, ModerationHistory, MembershipHistory, AuditDecisions
  <2>2. \A l \in {AdminAnnouncements, AdminGallery, AdminActivities, TenantList, StudentFeed, DiscoverList} :
          l.order \in {"time", "timeId", "merged", "whole"} /\ l.next = "beyond"
    BY DEF AdminAnnouncements, AdminGallery, AdminActivities, TenantList, StudentFeed, DiscoverList
  <2>. QED
    BY <2>1, <2>2 DEF Listings
<1>2. /\ listing \in [order : {"time", "timeId", "merged", "whole"}, next : {"full", "beyond"}, limit : Limits]
      /\ listing.order = "merged" => listing.next = "beyond"
  BY <1>1 DEF PagingInit
<1>3. PagingTypes
  <2>1. handed \in [Rows -> Nat] /\ stable \subseteq visible /\ cursorGone \in BOOLEAN
    BY DEF PagingInit
  <2>. QED
    BY <1>2, <2>1 DEF PagingInit, PagingTypes, PagingTypeOK
<1>4. CursorStands /\ HandedBefore /\ StableAhead
  BY DEF PagingInit, CursorStands, HandedBefore, StableAhead
<1>5. NoneTwice /\ NoneMissed
  BY DEF PagingInit, NoneTwice, NoneMissed
<1>. QED
  BY <1>3, <1>4, <1>5 DEF PagingInv

\* The lists and the times of the rows stay; so do their orders.
LEMMA FollowsStays ==
  ASSUME UNCHANGED <<listing, entry>>, cursor' = cursor
  PROVE  \A r : Follows(cursor, r)' <=> Follows(cursor, r)
BY DEF Follows, ByTimeId, ByTuple, ByWholeTime, Milli

LEMMA HandOutKeepsPagingInv ==
  ASSUME PagingInv, walk # "end", NEW T \in SUBSET Left, NEW L, HandOut(T, L),
         ~HasNext(T) => T = Left, \A x \in L : PageFits(T, x)
  PROVE  PagingInv'
<1>t. PagingTypes /\ CursorStands /\ HandedBefore /\ StableAhead /\ NoneTwice /\ NoneMissed
  BY DEF PagingInv
<1>w. walk \in {"start", "more"}
  BY <1>t DEF PagingTypes, PagingTypeOK
<1>0. /\ handed' = [r \in Rows |-> IF r \in T THEN handed[r] + 1 ELSE handed[r]]
      /\ stable' = (IF walk = "start" THEN visible ELSE stable)
      /\ UNCHANGED <<listing, entry, visible, stored, cursorGone>>
      /\ \/ HasNext(T) /\ cursor' \in L /\ walk' = "more" /\ edges' = edges \cup {Milli(entry[cursor'].at)}
         \/ ~HasNext(T) /\ walk' = "end" /\ UNCHANGED <<cursor, edges>>
  BY DEF HandOut
<1>1. T \subseteq visible /\ visible \subseteq Rows /\ visible \subseteq stored /\ stable' \subseteq visible
  BY <1>t, <1>0, LeftFacts, PagingTyped
<1>2. /\ handed' \in [Rows -> Nat]
      /\ \A r \in Rows : /\ r \in T => handed'[r] >= 1
                         /\ r \notin T => handed'[r] = handed[r]
                         /\ handed[r] = 0 => handed'[r] <= 1
  <2>1. \A r \in Rows : handed[r] \in Nat
    BY <1>t, PagingTyped
  <2>. QED
    BY <1>0, <2>1
<1>. DEFINE Ended(r) == Milli(entry[r].at) \in edges'
<1>3. \A r \in Rows : AtEdge(r) => Ended(r)
  BY <1>0 DEF AtEdge
<1>e. \A r : AtEdge(r)' <=> Ended(r)
  BY <1>0 DEF AtEdge, Milli
<1>. HIDE DEF Ended
\* What is handed out had not been, but for rows of a millisecond a page ended in.
<1>4. ASSUME NEW r \in T PROVE handed[r] = 0 \/ (listing.order = "merged" /\ AtEdge(r))
  <2>1. r \in Rows /\ handed[r] \in Nat
    BY <1>1, <1>t, PagingTyped
  <2>2. CASE walk = "start"
    BY <1>t, <2>1, <2>2 DEF CursorStands
  <2>3. CASE walk = "more"
    <3>1. Follows(cursor, r)
      BY <1>t, <2>3, LeftFacts
    <3>. QED
      BY <1>t, <2>1, <2>3, <3>1 DEF HandedBefore
  <2>. QED
    BY <1>w, <2>2, <2>3
<1>5. NoneTwice'
  <2>1. ASSUME NEW r \in Rows PROVE handed'[r] <= 1 \/ (listing.order = "merged" /\ Ended(r))
    <3>1. CASE r \in T
      BY <1>2, <1>3, <1>4, <3>1
    <3>2. CASE r \notin T
      BY <1>2, <1>3, <1>t, <3>2 DEF NoneTwice
    <3>. QED
      BY <3>1, <3>2
  <2>. QED
    BY <1>0, <1>e, <2>1 DEF NoneTwice
\* What is stable and was not handed out is left, if the cursor still stands.
<1>6. ASSUME NEW r \in stable', listing.order = "merged" => ~cursorGone
      PROVE  \/ handed[r] >= 1
             \/ r \in Left
             \/ listing.order \in {"time", "merged"} /\ AtEdge(r)
  <2>1. CASE walk = "start"
    BY <1>0, <1>6, <1>t, <2>1, LeftFacts
  <2>2. CASE walk = "more"
    <3>1. r \in stable /\ r \in visible
      BY <1>0, <1>1, <1>6, <2>2
    <3>2. listing.order \in {"timeId", "merged"} => cursor \in stored
      BY <1>6, <1>t, <2>2 DEF CursorStands
    <3>. QED
      BY <1>t, <2>2, <3>1, <3>2, LeftFacts DEF StableAhead
  <2>. QED
    BY <1>w, <2>1, <2>2
<1>7. CASE ~HasNext(T)
  <2>1. T = Left /\ walk' = "end" /\ UNCHANGED <<cursor, edges>>
    BY <1>0, <1>7
  <2>2. PagingTypes'
    BY <1>0, <1>1, <1>2, <1>t, <2>1 DEF PagingTypes, PagingTypeOK
  <2>3. CursorStands' /\ HandedBefore' /\ StableAhead'
    BY <2>1 DEF CursorStands, HandedBefore, StableAhead
  <2>4. ASSUME NEW r \in stable'
        PROVE  \/ handed'[r] >= 1
               \/ listing.order \in {"time", "merged"} /\ Ended(r)
               \/ listing.order = "merged" /\ cursorGone
    <3>1. r \in Rows /\ handed[r] \in Nat
      BY <1>1, <1>t, PagingTyped
    <3>. QED
      BY <1>2, <1>3, <1>6, <2>1, <3>1
  <2>5. NoneMissed'
    BY <1>0, <1>e, <2>4 DEF NoneMissed
  <2>. QED
    BY <1>5, <2>2, <2>3, <2>5 DEF PagingInv
<1>8. CASE HasNext(T)
  <2>. DEFINE x == cursor'
  <2>1. x \in L /\ PageFits(T, x) /\ walk' = "more" /\ edges' = edges \cup {Milli(entry[x].at)}
    BY <1>0, <1>8
  <2>2. x \in T /\ x \in Left /\ x \in Rows /\ x \in stored
    BY <1>1, <2>1 DEF PageFits
  <2>3. \A r : Follows(cursor, r)' <=> Follows(x, r)
    BY <1>0 DEF Follows, ByTimeId, ByTuple, ByWholeTime, Milli
  <2>4. \A r \in Rows : SameMilli(x, r) => Ended(r)
    BY <2>1 DEF SameMilli, Ended
  <2>. HIDE DEF x
  <2>5. PagingTypes'
    <3>1. cursor' \in Rows \cup {NoRow}
      BY <2>2 DEF x
    <3>. QED
      BY <1>0, <1>1, <1>2, <1>t, <2>1, <3>1 DEF PagingTypes, PagingTypeOK
  <2>6. CursorStands'
    BY <1>0, <2>1, <2>2 DEF CursorStands, x
  <2>7. ASSUME NEW r \in Rows, handed'[r] >= 1 PROVE ~Follows(x, r) \/ (listing.order = "merged" /\ Ended(r))
    <3>1. CASE r \in T
      BY <2>1, <2>4, <3>1 DEF PageFits
    <3>2. CASE r \notin T
      <4>1. handed[r] >= 1
        BY <1>2, <2>7, <3>2
      <4>2. walk = "more"
        BY <1>t, <1>w, <4>1 DEF CursorStands
      <4>3. Follows(cursor, x) /\ cursor \in Rows
        BY <1>t, <2>2, <4>2, LeftFacts DEF CursorStands
      <4>4. Follows(x, r) => Follows(cursor, r)
        BY <1>t, <2>2, <4>3, FollowsTransitive
      <4>. QED
        BY <1>3, <1>t, <4>1, <4>2, <4>4 DEF HandedBefore
    <3>. QED
      BY <3>1, <3>2
  <2>8. HandedBefore'
    BY <1>0, <1>e, <2>3, <2>7 DEF HandedBefore
  <2>9. ASSUME NEW r \in stable'
        PROVE  handed'[r] >= 1 \/ Follows(x, r) \/ (listing.order \in {"time", "merged"} /\ Ended(r))
    <3>1. r \in Rows /\ handed[r] \in Nat
      BY <1>1, <1>t, PagingTyped
    <3>2. CASE r \in Left
      BY <1>2, <2>1, <2>4, <3>1, <3>2 DEF PageFits
    <3>3. CASE walk = "start"
      <4>1. r \in Left
        BY <1>0, <1>t, <3>3, LeftFacts
      <4>. QED
        BY <3>2, <4>1
    <3>4. CASE walk = "more" /\ r \notin Left
      <4>1. r \in stable /\ r \in visible
        BY <1>0, <1>1, <3>4
      <4>2. listing.order \in {"timeId", "merged"} => cursor \in stored
        BY <1>t, <2>2, <3>4, LeftFacts
      <4>3. handed[r] >= 1 \/ (listing.order \in {"time", "merged"} /\ AtEdge(r))
        BY <1>t, <3>4, <4>1, <4>2, LeftFacts DEF StableAhead
      <4>. QED
        BY <1>2, <1>3, <3>1, <4>3
    <3>. QED
      BY <1>w, <3>2, <3>3, <3>4
  <2>10. StableAhead'
    BY <1>0, <1>e, <2>3, <2>9 DEF StableAhead
  <2>11. NoneMissed'
    BY <2>1 DEF NoneMissed
  <2>. QED
    BY <1>5, <2>5, <2>6, <2>8, <2>10, <2>11 DEF PagingInv
<1>. QED
  BY <1>7, <1>8

LEMMA ReadPageKeepsPagingInv == ASSUME PagingInv, ReadPage PROVE PagingInv'
<1>t. PagingTypes /\ CursorStands
  BY DEF PagingInv
<1>1. CASE Left = {}
  <2>1. walk # "end" /\ HandOut({}, {})
    BY <1>1 DEF ReadPage
  <2>2. ~HasNext({}) => {} = Left
    BY <1>1
  <2>. QED
    BY <2>1, <2>2, HandOutKeepsPagingInv
<1>2. CASE Left # {}
  <2>1. walk # "end"
    BY DEF ReadPage
  <2>2. PICK p \in Pages : HandOut(p[1], {p[2]})
    BY <1>2 DEF ReadPage
  <2>3. PageFits(p[1], p[2])
    BY <1>t, TimePages, TimeIdPages, WholeTimePages, MergedPages, PagingTyped
  <2>. DEFINE T == p[1]
              L == {p[2]}
  <2>4. T \in SUBSET Left /\ (~HasNext(T) => T = Left) /\ HandOut(T, L) /\ \A x \in L : PageFits(T, x)
    BY <2>2, <2>3 DEF PageFits
  <2>. HIDE DEF T, L
  <2>. QED
    BY <2>1, <2>4, HandOutKeepsPagingInv
<1>. QED
  BY <1>1, <1>2

LEMMA PagingInvStep == PagingInv /\ [PagingNext]_pagingVars => PagingInv'
<1>. SUFFICES ASSUME PagingInv, [PagingNext]_pagingVars PROVE PagingInv'
  OBVIOUS
<1>t. PagingTypes /\ CursorStands /\ HandedBefore /\ StableAhead /\ NoneTwice /\ NoneMissed
  BY DEF PagingInv
\* The rows change between two pages; what was handed out does not.
<1>1. ASSUME UNCHANGED <<listing, entry, cursor, walk, handed, edges>>, cursorGone => cursorGone',
             visible' \subseteq stored', stored' \subseteq Rows, stable' \subseteq stable, stable' \subseteq visible',
             cursorGone' \in BOOLEAN, walk = "end" => cursorGone' = cursorGone,
             walk = "more" /\ listing.order = "timeId" => cursor \in stored',
             walk = "more" /\ listing.order = "merged" => cursor \in stored' \/ cursorGone'
      PROVE  PagingInv'
  <2>1. PagingTypes'
    BY <1>1, <1>t DEF PagingTypes, PagingTypeOK
  <2>2. CursorStands'
    BY <1>1, <1>t DEF CursorStands
  <2>3. \A r : AtEdge(r)' <=> AtEdge(r)
    BY <1>1 DEF AtEdge, Milli
  <2>4. \A r : Follows(cursor, r)' <=> Follows(cursor, r)
    BY <1>1, FollowsStays
  <2>5. HandedBefore'
    BY <1>1, <1>t, <2>3, <2>4 DEF HandedBefore
  <2>6. StableAhead'
    BY <1>1, <1>t, <2>3, <2>4 DEF StableAhead
  <2>7. NoneTwice' /\ NoneMissed'
    BY <1>1, <1>t, <2>3 DEF NoneTwice, NoneMissed
  <2>. QED
    BY <2>1, <2>2, <2>5, <2>6, <2>7 DEF PagingInv
<1>2. CASE UNCHANGED pagingVars
  BY <1>1, <1>2, <1>t, PagingTyped DEF pagingVars, CursorStands, PagingTypes, PagingTypeOK
<1>3. ASSUME NEW r \in Rows, Appear(r) PROVE PagingInv'
  <2>1. /\ visible' = visible \cup {r} /\ stored' = stored \cup {r}
        /\ UNCHANGED <<listing, entry, cursor, walk, handed, stable, edges, cursorGone>>
    BY <1>3 DEF Appear
  <2>. QED
    BY <1>1, <1>t, <2>1, PagingTyped DEF CursorStands, PagingTypes, PagingTypeOK
<1>4. ASSUME NEW r \in Rows, NEW erased \in BOOLEAN, Vanish(r, erased) PROVE PagingInv'
  <2>1. /\ walk = "more" /\ erased => listing.order # "timeId"
        /\ visible' = visible \ {r} /\ stored' = (IF erased THEN stored \ {r} ELSE stored) /\ stable' = stable \ {r}
        /\ cursorGone' = (cursorGone \/ (erased /\ r = cursor))
        /\ UNCHANGED <<listing, entry, cursor, walk, handed, edges>>
    BY <1>4 DEF Vanish
  <2>2. cursorGone' \in BOOLEAN /\ (cursorGone => cursorGone') /\ (erased /\ r = cursor => cursorGone')
    BY <2>1, Zenon
  <2>3. walk # "end" /\ visible' \subseteq stored' /\ stored' \subseteq Rows /\ stable' \subseteq stable
        /\ stable' \subseteq visible'
    BY <1>t, <1>4, <2>1, PagingTyped DEF Vanish
  <2>4. listing.order = "timeId" => cursor \in stored'
    BY <1>4, <1>t, <2>1 DEF CursorStands, Vanish
  <2>5. listing.order = "merged" => cursor \in stored' \/ cursorGone'
    BY <1>4, <1>t, <2>1, <2>2 DEF CursorStands, Vanish
  <2>. QED
    BY <1>1, <2>1, <2>2, <2>3, <2>4, <2>5
<1>. QED
  BY <1>2, <1>3, <1>4, ReadPageKeepsPagingInv DEF PagingNext

LEMMA PagingInvIsSound == PagingInv => PagingSound
BY DEF PagingInv, PagingTypes, PagingSound

(* For every list, page size and set of rows, and whatever appears and     *)
(* vanishes between two pages: no row is handed out twice, and one that    *)
(* was there all along is handed out, up to what the cursors lose - the    *)
(* millisecond in which a page ended, for the lists by time alone and the  *)
(* feed, and the feed's end where its cursor was deleted (pagination.ts,   *)
(* dashboard.repository.ts).                                               *)
THEOREM PagingIsSound == PagingSpec => []PagingSound
<1>1. PagingSpec => []PagingInv
  BY PagingInvInit, PagingInvStep, PTL DEF PagingSpec
<1>. QED
  BY <1>1, PagingInvIsSound, PTL

-----------------------------------------------------------------------------
(***************************************************************************)
(* RateLimiter.  Calls of a window carry numbers of their own, and only    *)
(* those up to the limit pass; an EXPIRE in flight is not older than       *)
(* MaxDelay, and as long as none was lost the call that began the window   *)
(* brings one.                                                             *)
(***************************************************************************)
Pcs == {"idle", "expire", "passed", "refused", "open"}
HitKinds == [pc : Pcs, count : Nat, at : Nat, era : Nat]
Called == {h \in Hits : hit[h].pc # "idle"}
Counting(w) == {h \in Hits : hit[h].pc = "expire" /\ hit[h].era = w /\ hit[h].count <= Limit}

LimiterTypes ==
  /\ moment \in 0..LastMoment /\ era \in 0..Cardinality(Called)
  /\ counter \in [count : 0..Cardinality(Called), expires : Nat \cup {Endless}, born : 0..moment]
  /\ counter.expires # Endless => counter.expires <= LastMoment + Window
  /\ counter.count = 0 => counter.expires = Endless
  /\ counter.count > 0 => era > 0
  /\ hit \in [Hits -> HitKinds]
  /\ \A h \in Hits : hit[h].count <= Cardinality(Called) /\ hit[h].at <= moment /\ hit[h].era <= era
  /\ unrepaired \in BOOLEAN /\ brokenEver \in BOOLEAN /\ passed \in [Eras -> Nat]

\* What is passed or about to be, of each window.
Numbered ==
  /\ \A h \in Hits : hit[h].pc = "expire" => hit[h].era > 0
  /\ \A w \in Eras : w > era => passed[w] = 0
  /\ \A w \in Eras : passed[w] + Cardinality(Counting(w)) <= Limit
  /\ counter.count > 0 => passed[era] + Cardinality(Counting(era)) <= counter.count

InTime ==
  /\ \A h \in Hits : hit[h].pc = "expire" => moment <= hit[h].at + MaxDelay
  /\ counter.count > 0 /\ ~brokenEver =>
       /\ \A h \in Hits : hit[h].pc = "expire" => hit[h].at <= counter.born + MaxDelay
       /\ counter.expires = Endless => \E h \in Hits : hit[h].pc = "expire" /\ hit[h].at = counter.born
       /\ counter.expires # Endless => counter.expires <= counter.born + 2 * MaxDelay + Window

LimiterInv == LimiterTypes /\ Numbered /\ InTime /\ NoLockOut

LEMMA HitsAreFinite ==
  ASSUME NEW S \in SUBSET Hits
  PROVE  IsFiniteSet(S) /\ Cardinality(S) \in Nat /\ Cardinality(S) <= Cardinality(Hits)
         /\ Cardinality(Hits) \in Nat
BY RateLimiterAssumption, FS_Subset, FS_CardinalityType

LEMMA LimiterInvInit == LimiterInit => LimiterInv
<1>. SUFFICES ASSUME LimiterInit PROVE LimiterInv
  OBVIOUS
<1>1. Called = {} /\ \A w \in Eras : Counting(w) = {}
  BY DEF LimiterInit, Idle, Called, Counting
<1>2. Cardinality({}) = 0
  BY FS_EmptySet
<1>3. LimiterTypes
  <2>1. Cardinality(Called) = 0
    BY <1>1, <1>2
  <2>2. Idle \in HitKinds /\ Idle.count = 0 /\ Idle.at = 0 /\ Idle.era = 0
    BY DEF Idle, HitKinds, Pcs
  <2>3. hit \in [Hits -> HitKinds] /\ \A h \in Hits : hit[h] = Idle
    BY <2>2 DEF LimiterInit
  <2>4. NoCounter \in [count : 0..0, expires : Nat \cup {Endless}, born : 0..0]
        /\ NoCounter.count = 0 /\ NoCounter.expires = Endless
    BY DEF NoCounter
  <2>5. passed \in [Eras -> Nat] /\ moment \in 0..LastMoment
    BY RateLimiterAssumption DEF LimiterInit
  <2>6. counter = NoCounter /\ moment = 0 /\ era = 0 /\ unrepaired = FALSE /\ brokenEver = FALSE
    BY DEF LimiterInit
  <2>7. era \in 0..Cardinality(Called)
        /\ counter \in [count : 0..Cardinality(Called), expires : Nat \cup {Endless}, born : 0..moment]
    BY <2>1, <2>4, <2>6
  <2>8. \A h \in Hits : hit[h].count <= Cardinality(Called) /\ hit[h].at <= moment /\ hit[h].era <= era
    BY <2>1, <2>2, <2>3, <2>6
  <2>. QED
    BY <2>3, <2>4, <2>5, <2>6, <2>7, <2>8 DEF LimiterTypes
<1>4. Numbered
  <2>1. \A h \in Hits : hit[h].pc = "idle"
    BY DEF LimiterInit, Idle
  <2>2. \A w \in Eras : passed[w] = 0 /\ Cardinality(Counting(w)) = 0
    BY <1>1, <1>2 DEF LimiterInit
  <2>3. counter.count = 0
    BY DEF LimiterInit, NoCounter
  <2>4. Limit \in Nat
    BY RateLimiterAssumption
  <2>5. \A w \in Eras : passed[w] + Cardinality(Counting(w)) <= Limit
    BY <2>2, <2>4
  <2>. QED
    BY <2>1, <2>2, <2>3, <2>5 DEF Numbered
<1>5. InTime /\ NoLockOut
  BY DEF LimiterInit, InTime, NoLockOut, Idle, NoCounter
<1>. QED
  BY <1>3, <1>4, <1>5 DEF LimiterInv

\* A call that is taken up.
LEMMA HitTaken ==
  ASSUME LimiterTypes, NEW h \in Hits, hit[h].pc = "idle", NEW x \in HitKinds, x.pc # "idle",
         hit' = [hit EXCEPT ![h] = x]
  PROVE  /\ Called' = Called \cup {h} /\ Cardinality(Called') = Cardinality(Called) + 1
         /\ Cardinality(Called) \in Nat /\ Cardinality(Called') <= Cardinality(Hits)
         /\ hit' \in [Hits -> HitKinds]
<1>1. Called \in SUBSET Hits /\ Called' \in SUBSET Hits /\ h \notin Called
  BY DEF Called
<1>2. hit' \in [Hits -> HitKinds] /\ Called' = Called \cup {h}
  BY DEF LimiterTypes, Called
<1>3. IsFiniteSet(Called)
  BY <1>1, HitsAreFinite
<1>4. Cardinality(Called \cup {h}) = Cardinality(Called) + 1
  BY <1>1, <1>3, FS_AddElement
<1>. QED
  BY <1>1, <1>2, <1>4, HitsAreFinite

\* A call that goes on, its number and window kept or forgotten.
LEMMA HitMoves ==
  ASSUME LimiterTypes, NEW h \in Hits, hit[h].pc # "idle", NEW x \in HitKinds, x.pc # "idle",
         hit' = [hit EXCEPT ![h] = x]
  PROVE  Called' = Called /\ hit' \in [Hits -> HitKinds] /\ Cardinality(Called') = Cardinality(Called)
<1>1. hit' \in [Hits -> HitKinds] /\ Called' = Called
  BY DEF LimiterTypes, Called
<1>. QED
  BY <1>1

\* A call that is answered leaves the numbers of its window.
LEMMA NumberLeaves ==
  ASSUME LimiterTypes, NEW h \in Hits, NEW x \in HitKinds, x.pc # "expire",
         hit' = [hit EXCEPT ![h] = x], NEW w \in Nat
  PROVE  /\ Cardinality(Counting(w)) \in Nat /\ Cardinality(Counting(w)') \in Nat
         /\ Counting(w)' = Counting(w) \ {h}
         /\ Cardinality(Counting(w)') = IF h \in Counting(w) THEN Cardinality(Counting(w)) - 1
                                        ELSE Cardinality(Counting(w))
<1>1. Counting(w) \in SUBSET Hits /\ Counting(w)' \in SUBSET Hits
  BY DEF Counting
<1>2. Counting(w)' = Counting(w) \ {h}
  BY DEF LimiterTypes, Counting
<1>. QED
  BY <1>1, <1>2, HitsAreFinite, FS_RemoveElement

LEMMA NumberComes ==
  ASSUME LimiterTypes, NEW h \in Hits, hit[h].pc = "idle", NEW x \in HitKinds, x.pc = "expire",
         hit' = [hit EXCEPT ![h] = x], NEW w \in Nat
  PROVE  /\ Cardinality(Counting(w)) \in Nat /\ Cardinality(Counting(w)') \in Nat
         /\ Cardinality(Counting(w)') = IF x.era = w /\ x.count <= Limit
                                        THEN Cardinality(Counting(w)) + 1 ELSE Cardinality(Counting(w))
<1>1. Counting(w) \in SUBSET Hits /\ Counting(w)' \in SUBSET Hits /\ h \notin Counting(w)
  BY DEF Counting
<1>2. Counting(w)' = IF x.era = w /\ x.count <= Limit THEN Counting(w) \cup {h} ELSE Counting(w)
  BY DEF LimiterTypes, Counting
<1>3. Cardinality(Counting(w) \cup {h}) = Cardinality(Counting(w)) + 1
  BY <1>1, HitsAreFinite, FS_AddElement
<1>. QED
  BY <1>1, <1>2, <1>3, HitsAreFinite

\* INCR.
LEMMA Incremented ==
  ASSUME LimiterTypes, Increment, NEW n \in Nat, n = Cardinality(Called) + 1, n <= Cardinality(Hits),
         moment' = moment
  PROVE  /\ counter'.count \in 1..n /\ era' \in 1..n /\ counter'.born \in 0..moment
         /\ counter' \in [count : 0..n, expires : Nat \cup {Endless}, born : 0..moment]
         /\ counter'.expires # Endless => counter'.expires <= LastMoment + Window
         /\ Begins => counter'.count = 1 /\ counter'.expires = Endless /\ counter'.born = moment
                      /\ era' = era + 1
         /\ ~Begins => counter'.count = counter.count + 1 /\ counter'.expires = counter.expires
                       /\ counter'.born = counter.born /\ era' = era
         /\ era' \in Eras
<1>0. /\ counter.count \in 0..Cardinality(Called) /\ counter.born \in 0..moment
      /\ counter.expires \in Nat \cup {Endless} /\ era \in 0..Cardinality(Called) /\ moment \in Nat
      /\ counter.expires # Endless => counter.expires <= LastMoment + Window
      /\ counter.count > 0 => era > 0
      /\ counter = [count |-> counter.count, expires |-> counter.expires, born |-> counter.born]
  BY DEF LimiterTypes
<1>00. Cardinality(Hits) \in Nat /\ Cardinality(Called) \in Nat
  <2>. Called \in SUBSET Hits
    BY DEF Called
  <2>. QED
    BY HitsAreFinite
<1>1. CASE Begins
  <2>1. counter' = [count |-> 1, expires |-> Endless, born |-> moment] /\ era' = era + 1
    BY <1>1 DEF Increment, NoCounter
  <2>. QED
    BY <1>0, <1>00, <1>1, <2>1 DEF Eras
<1>2. CASE ~Begins
  <2>1. counter' = [count |-> counter.count + 1, expires |-> counter.expires, born |-> counter.born]
        /\ era' = era
    BY <1>0, <1>2 DEF Increment
  <2>. QED
    BY <1>0, <1>00, <1>2, <2>1 DEF Eras, Begins
<1>. QED
  BY <1>1, <1>2

LEMMA Answers ==
  /\ \A pc \in Pcs : [Idle EXCEPT !.pc = pc] \in HitKinds /\ [Idle EXCEPT !.pc = pc].pc = pc
       /\ [Idle EXCEPT !.pc = pc].count = 0 /\ [Idle EXCEPT !.pc = pc].at = 0
       /\ [Idle EXCEPT !.pc = pc].era = 0
  /\ Idle.pc = "idle"
BY DEF Idle, HitKinds, Pcs

LEMMA LimiterTypesAre ==
  ASSUME NEW n, Cardinality(Called') = n, hit' \in [Hits -> HitKinds],
         moment' \in 0..LastMoment, era' \in 0..n,
         counter' \in [count : 0..n, expires : Nat \cup {Endless}, born : 0..moment'],
         counter'.expires # Endless => counter'.expires <= LastMoment + Window,
         counter'.count = 0 => counter'.expires = Endless, counter'.count > 0 => era' > 0,
         \A h \in Hits : hit'[h].count <= n /\ hit'[h].at <= moment' /\ hit'[h].era <= era',
         unrepaired' \in BOOLEAN, brokenEver' \in BOOLEAN, passed' \in [Eras -> Nat]
  PROVE  LimiterTypes'
<1>1. ~(counter'.expires # Endless) \/ counter'.expires <= LastMoment + Window
  OBVIOUS
<1>. QED
  BY DEF LimiterTypes

LEMMA LimiterInvStep == LimiterInv /\ [LimiterNext]_limiterVars => LimiterInv'
<1>. SUFFICES ASSUME LimiterInv, [LimiterNext]_limiterVars PROVE LimiterInv'
  OBVIOUS
<1>t. LimiterTypes /\ Numbered /\ InTime /\ NoLockOut
  BY DEF LimiterInv
<1>u. /\ counter.count \in Nat /\ counter.born \in Nat /\ counter.born <= moment
      /\ counter.expires \in Nat \cup {Endless} /\ moment \in 0..LastMoment /\ era \in Nat
      /\ {Limit, Window, MaxDelay, LastMoment} \subseteq Nat /\ Endless \notin Nat
      /\ counter.count > 0 => era \in Eras
      /\ Cardinality(Called) \in Nat /\ Cardinality(Called) <= Cardinality(Hits)
      /\ Cardinality(Hits) \in Nat
      /\ passed \in [Eras -> Nat] /\ Eras \subseteq Nat \ {0}
      /\ unrepaired \in BOOLEAN /\ brokenEver \in BOOLEAN
      /\ \A h \in Hits : hit[h] \in HitKinds /\ hit[h].count \in Nat /\ hit[h].at \in Nat
                         /\ hit[h].era \in Nat
  <2>1. Called \in SUBSET Hits
    BY DEF Called
  <2>2. Cardinality(Called) \in Nat /\ Cardinality(Called) <= Cardinality(Hits) /\ Cardinality(Hits) \in Nat
    BY <2>1, HitsAreFinite
  <2>3. \A h \in Hits : hit[h] \in HitKinds
    BY <1>t DEF LimiterTypes
  <2>. QED
    BY <1>t, <2>2, <2>3, RateLimiterAssumption DEF LimiterTypes, Eras, HitKinds
<1>1. CASE UNCHANGED limiterVars
  <2>1. Called' = Called /\ \A w \in Eras : Counting(w)' = Counting(w)
    BY <1>1 DEF limiterVars, Called, Counting
  <2>2. Counting(era)' = Counting(era)
    BY <1>1 DEF limiterVars, Counting
  <2>3. LimiterTypes'
    BY <1>1, <1>t, <2>1 DEF limiterVars, LimiterTypes
  <2>4. Numbered'
    <3>1. (counter.count > 0 => passed[era] + Cardinality(Counting(era)) <= counter.count)'
      BY <1>1, <1>t, <2>2 DEF limiterVars, Numbered, Counting
    <3>. QED
      BY <1>1, <1>t, <2>1, <3>1 DEF limiterVars, Numbered
  <2>5. InTime' /\ NoLockOut'
    BY <1>1, <1>t DEF limiterVars, InTime, NoLockOut
  <2>. QED
    BY <2>3, <2>4, <2>5 DEF LimiterInv
<1>2. CASE Tick
  <2>0. /\ moment' = moment + 1 /\ moment < LastMoment
        /\ counter' = IF counter.expires = moment + 1 THEN NoCounter ELSE counter
        /\ \A h \in Hits : hit[h].pc = "expire" => moment < hit[h].at + MaxDelay
        /\ hit' = hit /\ era' = era /\ unrepaired' = unrepaired /\ brokenEver' = brokenEver
        /\ passed' = passed
    BY <1>2 DEF Tick
  <2>1. Called' = Called /\ \A w : Counting(w)' = Counting(w)
    BY <2>0 DEF Called, Counting
  <2>2. /\ NoCounter.count = 0 /\ NoCounter.expires = Endless
        /\ NoCounter \in [count : 0..Cardinality(Called), expires : Nat \cup {Endless}, born : 0..(moment + 1)]
    BY <1>u DEF NoCounter
  <2>3. counter \in [count : 0..Cardinality(Called), expires : Nat \cup {Endless}, born : 0..(moment + 1)]
    BY <1>t, <1>u DEF LimiterTypes
  <2>4. LimiterTypes'
    <3>1. \A h \in Hits : hit[h].at <= moment + 1
      BY <1>t, <1>u DEF LimiterTypes
    <3>2. counter' \in [count : 0..Cardinality(Called), expires : Nat \cup {Endless}, born : 0..(moment + 1)]
      BY <2>0, <2>2, <2>3
    <3>3. moment + 1 \in 0..LastMoment
      BY <1>u, <2>0
    <3>4. /\ counter'.expires # Endless => counter'.expires <= LastMoment + Window
          /\ counter'.count = 0 => counter'.expires = Endless
          /\ counter'.count > 0 => era > 0
      BY <1>t, <1>u, <2>0, <2>2 DEF LimiterTypes
    <3>. QED
      BY <1>t, <2>0, <2>1, <3>1, <3>2, <3>3, <3>4 DEF LimiterTypes
  <2>5. counter'.count > 0 => counter' = counter
    BY <1>u, <2>0, <2>2
  <2>6. Numbered'
    <3>1. (counter.count > 0 => passed[era] + Cardinality(Counting(era)) <= counter.count)'
      BY <1>t, <2>0, <2>1, <2>5 DEF Numbered
    <3>. QED
      BY <1>t, <2>0, <2>1, <3>1 DEF Numbered
  <2>7. InTime'
    <3>1. \A h \in Hits : hit[h].pc = "expire" => moment + 1 <= hit[h].at + MaxDelay
      BY <1>u, <2>0
    <3>. QED
      BY <1>t, <2>0, <2>5, <3>1 DEF InTime
  <2>8. NoLockOut'
    BY <1>t, <2>0, <2>5 DEF NoLockOut
  <2>. QED
    BY <2>4, <2>6, <2>7, <2>8 DEF LimiterInv
<1>3. ASSUME NEW h \in Hits, Count(h) PROVE LimiterInv'
  <2>0. /\ hit[h].pc = "idle" /\ Increment /\ unrepaired' = FALSE /\ moment' = moment
        /\ brokenEver' = (~Begins /\ brokenEver)
    BY <1>3 DEF Count
  <2>. DEFINE n == Cardinality(Called) + 1
  <2>00. n \in Nat /\ n > 0
    BY <1>u
  <2>a. n <= Cardinality(Hits)
    <3>1. Called \cup {h} \in SUBSET Hits /\ h \notin Called /\ Called \in SUBSET Hits
      BY <2>0 DEF Called
    <3>2. Cardinality(Called \cup {h}) = Cardinality(Called) + 1
      BY <3>1, HitsAreFinite, FS_AddElement
    <3>. QED
      BY <3>1, <3>2, HitsAreFinite
  <2>b. /\ counter'.count \in 1..n /\ era' \in 1..n /\ counter'.born \in 0..moment
        /\ counter' \in [count : 0..n, expires : Nat \cup {Endless}, born : 0..moment]
        /\ counter'.expires # Endless => counter'.expires <= LastMoment + Window
        /\ Begins => counter'.count = 1 /\ counter'.expires = Endless /\ counter'.born = moment
                     /\ era' = era + 1
        /\ ~Begins => counter'.count = counter.count + 1 /\ counter'.expires = counter.expires
                      /\ counter'.born = counter.born /\ era' = era
        /\ era' \in Eras
    <3>. HIDE DEF n
    <3>. QED
      BY <1>t, <2>0, <2>00, <2>a, Incremented DEF n
  <2>. HIDE DEF n
  <2>c. /\ counter'.count \in Nat /\ counter'.expires \in Nat \cup {Endless} /\ counter'.born \in Nat
        /\ counter'.born <= moment /\ era' \in Nat /\ era <= era' /\ counter'.count > 0
        /\ brokenEver' \in BOOLEAN
    BY <1>u, <2>0, <2>00, <2>b
  <2>d. Begins \/ ~Begins
    OBVIOUS
  <2>e. \A x \in HitKinds : x.pc # "idle" /\ hit' = [hit EXCEPT ![h] = x] =>
          Cardinality(Called') = n /\ hit' \in [Hits -> HitKinds]
    BY <1>t, <2>0, HitTaken DEF n
  <2>1. CASE NeedsExpiry(counter')
    <3>. DEFINE x == [pc |-> "expire", count |-> counter'.count, at |-> moment, era |-> era']
    <3>1. hit' = [hit EXCEPT ![h] = x] /\ passed' = passed
      BY <1>3, <2>1 DEF Count
    <3>2. x \in HitKinds /\ x.pc = "expire" /\ x.count = counter'.count /\ x.at = moment /\ x.era = era'
      BY <1>u, <2>c DEF HitKinds, Pcs
    <3>. HIDE DEF x
    <3>3. Cardinality(Called') = n /\ hit' \in [Hits -> HitKinds]
      BY <2>e, <3>1, <3>2
    <3>4. \A g \in Hits : hit'[g] = IF g = h THEN x ELSE hit[g]
      BY <1>t, <3>1 DEF LimiterTypes
    <3>5. LimiterTypes'
      <4>1. \A g \in Hits : hit'[g].count <= n /\ hit'[g].at <= moment /\ hit'[g].era <= era'
        BY <1>t, <1>u, <2>00, <2>b, <2>c, <3>2, <3>4 DEF LimiterTypes, n
      <4>2. era' \in 0..n /\ moment' \in 0..LastMoment /\ era' > 0
        BY <1>u, <2>0, <2>b
      <4>3. moment' = moment /\ unrepaired' \in BOOLEAN /\ brokenEver' \in BOOLEAN /\ passed' \in [Eras -> Nat]
        BY <1>u, <2>0, <2>c, <3>1
      <4>4. /\ counter' \in [count : 0..n, expires : Nat \cup {Endless}, born : 0..moment']
            /\ counter'.expires # Endless => counter'.expires <= LastMoment + Window
            /\ counter'.count = 0 => counter'.expires = Endless
            /\ counter'.count > 0 => era' > 0
        BY <2>b, <2>c, <4>2, <4>3
      <4>5. \A g \in Hits : hit'[g].count <= n /\ hit'[g].at <= moment' /\ hit'[g].era <= era'
        BY <4>1, <4>3
      <4>. QED
        BY <3>3, <4>2, <4>3, <4>4, <4>5, LimiterTypesAre
    <3>6. \A w \in Nat : /\ Cardinality(Counting(w)) \in Nat /\ Cardinality(Counting(w)') \in Nat
           /\ Cardinality(Counting(w)') = IF era' = w /\ counter'.count <= Limit
                     THEN Cardinality(Counting(w)) + 1 ELSE Cardinality(Counting(w))
      BY <1>t, <2>0, <3>1, <3>2, NumberComes
    <3>7. Numbered'
      <4>1. \A g \in Hits : hit'[g].pc = "expire" => hit'[g].era > 0
        BY <1>t, <2>b, <3>2, <3>4 DEF Numbered
      <4>2. \A w \in Eras : w > era' => passed'[w] = 0
        BY <1>t, <1>u, <2>c, <3>1 DEF Numbered
      <4>3. passed[era'] + Cardinality(Counting(era')) < counter'.count
        <5>1. CASE Begins
          <6>1. passed[era'] = 0
            BY <1>t, <1>u, <2>b, <5>1 DEF Numbered
          <6>2. Counting(era') = {}
            BY <1>t, <1>u, <2>b, <5>1 DEF Counting, LimiterTypes
          <6>3. Cardinality({}) = 0
            BY FS_EmptySet
          <6>. QED
            BY <2>b, <5>1, <6>1, <6>2, <6>3
        <5>2. CASE ~Begins
          <6>1. counter.count > 0
            BY <1>u, <5>2 DEF Begins
          <6>2. passed[era] + Cardinality(Counting(era)) <= counter.count
            BY <1>t, <6>1 DEF Numbered
          <6>3. passed[era] \in Nat /\ Cardinality(Counting(era)) \in Nat
            BY <1>u, <3>6, <6>1
          <6>. QED
            BY <1>u, <2>b, <5>2, <6>2, <6>3
        <5>. QED
          BY <5>1, <5>2
      <4>4. \A w \in Eras : passed'[w] + Cardinality(Counting(w)') <= Limit
        <5>. SUFFICES ASSUME NEW w \in Eras PROVE passed[w] + Cardinality(Counting(w)') <= Limit
          BY <3>1
        <5>1. passed[w] + Cardinality(Counting(w)) <= Limit /\ passed[w] \in Nat /\ w \in Nat
          BY <1>t, <1>u DEF Numbered
        <5>2. CASE era' = w /\ counter'.count <= Limit
          BY <1>u, <2>c, <3>6, <4>3, <5>1, <5>2
        <5>3. CASE ~(era' = w /\ counter'.count <= Limit)
          BY <3>6, <5>1, <5>3
        <5>. QED
          BY <5>2, <5>3
      <4>5. passed'[era'] + Cardinality(Counting(era)') <= counter'.count
        <5>1. Cardinality(Counting(era)') <= Cardinality(Counting(era')) + 1
              /\ Cardinality(Counting(era)') \in Nat
          <6>1. Counting(era)' = {g \in Hits : hit'[g].pc = "expire" /\ hit'[g].era = era' /\ hit'[g].count <= Limit}
            BY DEF Counting
          <6>. QED
            BY <1>t, <2>c, <3>6, <6>1
        <5>2. passed[era'] \in Nat /\ Cardinality(Counting(era')) \in Nat
          BY <1>u, <2>b, <2>c, <3>6
        <5>. QED
          BY <2>c, <3>1, <4>3, <5>1, <5>2
      <4>. QED
        BY <4>1, <4>2, <4>4, <4>5 DEF Numbered
    <3>8. InTime'
      <4>1. \A g \in Hits : hit'[g].pc = "expire" => moment <= hit'[g].at + MaxDelay
        BY <1>t, <1>u, <3>2, <3>4 DEF InTime
      <4>2. ASSUME ~brokenEver' PROVE \A g \in Hits : hit'[g].pc = "expire" => hit'[g].at <= counter'.born + MaxDelay
        <5>1. CASE Begins
          <6>1. \A g \in Hits : hit[g].at <= moment
            BY <1>t DEF LimiterTypes
          <6>. QED
            BY <1>u, <2>b, <3>2, <3>4, <5>1, <6>1
        <5>2. CASE ~Begins
          <6>1. ~brokenEver /\ counter.count > 0 /\ counter.expires = Endless
            BY <1>u, <2>0, <2>1, <2>b, <4>2, <5>2 DEF Begins, NeedsExpiry
          <6>2. /\ \A g \in Hits : hit[g].pc = "expire" => hit[g].at <= counter.born + MaxDelay
                /\ \E g \in Hits : hit[g].pc = "expire" /\ hit[g].at = counter.born
            BY <1>t, <6>1 DEF InTime
          <6>3. moment <= counter.born + MaxDelay
            BY <1>t, <6>2 DEF InTime
          <6>. QED
            BY <2>b, <3>2, <3>4, <5>2, <6>2, <6>3
        <5>. QED
          BY <5>1, <5>2
      <4>3. ASSUME ~brokenEver' PROVE \E g \in Hits : hit'[g].pc = "expire" /\ hit'[g].at = counter'.born
        <5>1. CASE Begins
          BY <2>b, <3>2, <3>4, <5>1
        <5>2. CASE ~Begins
          <6>1. ~brokenEver /\ counter.count > 0 /\ counter.expires = Endless
            BY <1>u, <2>0, <2>1, <2>b, <4>3, <5>2 DEF Begins, NeedsExpiry
          <6>2. PICK g \in Hits : hit[g].pc = "expire" /\ hit[g].at = counter.born
            BY <1>t, <6>1 DEF InTime
          <6>3. g # h
            BY <2>0, <6>2
          <6>. QED
            BY <2>b, <3>4, <5>2, <6>2, <6>3
        <5>. QED
          BY <5>1, <5>2
      <4>4. counter'.expires = Endless
        BY <2>1 DEF NeedsExpiry
      <4>. QED
        BY <2>0, <4>1, <4>2, <4>3, <4>4 DEF InTime
    <3>9. NoLockOut'
      BY <3>2, <3>4 DEF NoLockOut
    <3>. QED
      BY <3>5, <3>7, <3>8, <3>9 DEF LimiterInv
  <2>2. CASE ~NeedsExpiry(counter')
    <3>1. AnswerHit(h, counter'.count, era')
      BY <1>3, <2>2 DEF Count
    <3>2. PICK pc \in {"passed", "refused"} :
            hit' = [hit EXCEPT ![h] = [Idle EXCEPT !.pc = pc]] /\ (pc = "refused" <=> Exceeded(counter'.count))
      <4>1. CASE Exceeded(counter'.count)
        BY <3>1, <4>1 DEF AnswerHit
      <4>2. CASE ~Exceeded(counter'.count)
        BY <3>1, <4>2 DEF AnswerHit
      <4>. QED
        BY <4>1, <4>2
    <3>. DEFINE x == [Idle EXCEPT !.pc = pc]
    <3>3. x \in HitKinds /\ x.pc = pc /\ x.count = 0 /\ x.at = 0 /\ x.era = 0 /\ hit' = [hit EXCEPT ![h] = x]
          /\ x.pc # "idle" /\ x.pc # "expire"
      BY <3>2, Answers DEF Pcs
    <3>. HIDE DEF x
    <3>4. Cardinality(Called') = n /\ hit' \in [Hits -> HitKinds]
      BY <2>e, <3>3
    <3>5. \A g \in Hits : hit'[g] = IF g = h THEN x ELSE hit[g]
      BY <1>t, <3>3 DEF LimiterTypes
    <3>6. passed' = IF Exceeded(counter'.count) THEN passed ELSE [passed EXCEPT ![era'] = @ + 1]
      BY <3>1 DEF AnswerHit
    <3>7. passed' \in [Eras -> Nat] /\ \A w \in Eras : passed'[w] =
            IF w = era' /\ counter'.count <= Limit THEN passed[w] + 1 ELSE passed[w]
      BY <1>u, <2>b, <2>c, <3>6 DEF Exceeded
    <3>8. ~Begins /\ counter.expires # Endless /\ counter'.expires # Endless
      BY <2>2, <2>b DEF NeedsExpiry
    <3>9. counter.count > 0 /\ era' = era /\ counter'.count = counter.count + 1
          /\ counter'.expires = counter.expires /\ counter'.born = counter.born
      BY <1>u, <2>b, <3>8 DEF Begins
    <3>10. LimiterTypes'
      <4>1. \A g \in Hits : hit'[g].count <= n /\ hit'[g].at <= moment /\ hit'[g].era <= era'
        BY <1>t, <1>u, <2>00, <2>b, <2>c, <3>3, <3>5 DEF LimiterTypes, n
      <4>2. era' \in 0..n /\ moment' \in 0..LastMoment /\ era' > 0
        BY <1>u, <2>0, <2>b
      <4>3. moment' = moment /\ unrepaired' \in BOOLEAN /\ brokenEver' \in BOOLEAN /\ passed' \in [Eras -> Nat]
        BY <1>u, <2>0, <2>c, <3>7
      <4>4. /\ counter' \in [count : 0..n, expires : Nat \cup {Endless}, born : 0..moment']
            /\ counter'.expires # Endless => counter'.expires <= LastMoment + Window
            /\ counter'.count = 0 => counter'.expires = Endless
            /\ counter'.count > 0 => era' > 0
        BY <2>b, <2>c, <4>2, <4>3
      <4>5. \A g \in Hits : hit'[g].count <= n /\ hit'[g].at <= moment' /\ hit'[g].era <= era'
        BY <4>1, <4>3
      <4>. QED
        BY <3>4, <4>2, <4>3, <4>4, <4>5, LimiterTypesAre
    <3>11. \A w \in Nat : /\ Cardinality(Counting(w)) \in Nat /\ Cardinality(Counting(w)') \in Nat
             /\ Cardinality(Counting(w)') <= Cardinality(Counting(w))
      <4>. SUFFICES ASSUME NEW w \in Nat
                    PROVE /\ Cardinality(Counting(w)) \in Nat /\ Cardinality(Counting(w)') \in Nat
                          /\ Cardinality(Counting(w)') <= Cardinality(Counting(w))
        OBVIOUS
      <4>1. /\ Cardinality(Counting(w)) \in Nat /\ Cardinality(Counting(w)') \in Nat
            /\ Cardinality(Counting(w)') = IF h \in Counting(w) THEN Cardinality(Counting(w)) - 1
                                           ELSE Cardinality(Counting(w))
        BY <1>t, <3>3, NumberLeaves
      <4>. QED
        BY <4>1
    <3>12. Numbered'
      <4>1. \A g \in Hits : hit'[g].pc = "expire" => hit'[g].era > 0
        BY <1>t, <3>3, <3>5 DEF Numbered
      <4>2. \A w \in Eras : w > era' => passed'[w] = 0
        BY <1>t, <1>u, <3>7, <3>9 DEF Numbered
      <4>3. passed[era] + Cardinality(Counting(era)) <= counter.count
        BY <1>t, <3>9 DEF Numbered
      <4>4. ASSUME NEW w \in Eras PROVE passed'[w] + Cardinality(Counting(w)') <= Limit
        <5>1. passed[w] + Cardinality(Counting(w)) <= Limit /\ passed[w] \in Nat /\ w \in Nat
          BY <1>t, <1>u DEF Numbered
        <5>2. CASE era = w /\ counter'.count <= Limit
          BY <1>u, <3>7, <3>9, <3>11, <4>3, <5>1, <5>2
        <5>3. CASE ~(era = w /\ counter'.count <= Limit)
          BY <1>u, <3>7, <3>9, <3>11, <5>1, <5>3
        <5>. QED
          BY <5>2, <5>3
      <4>5. passed'[era'] + Cardinality(Counting(era)') <= counter'.count
        <5>1. Cardinality(Counting(era)') <= Cardinality(Counting(era)) /\ Cardinality(Counting(era)') \in Nat
              /\ Cardinality(Counting(era)) \in Nat
          <6>1. Counting(era)' = {g \in Hits : hit'[g].pc = "expire" /\ hit'[g].era = era' /\ hit'[g].count <= Limit}
            BY DEF Counting
          <6>2. Counting(era)' \in SUBSET Hits /\ Counting(era) \in SUBSET Hits /\ Counting(era)' \subseteq Counting(era)
            BY <3>3, <3>5, <3>9, <6>1 DEF Counting
          <6>. QED
            BY <6>2, HitsAreFinite, FS_Subset
        <5>2. passed[era] \in Nat /\ passed'[era'] <= passed[era] + 1 /\ passed'[era'] \in Nat
          BY <1>u, <3>7, <3>9
        <5>. QED
          BY <1>u, <3>9, <4>3, <5>1, <5>2
      <4>. QED
        BY <4>1, <4>2, <4>4, <4>5 DEF Numbered
    <3>13. InTime'
      <4>1. \A g \in Hits : hit'[g].pc = "expire" => hit[g].pc = "expire" /\ hit'[g] = hit[g]
        BY <3>3, <3>5
      <4>2. ~brokenEver' => ~brokenEver
        BY <2>0, <3>8
      <4>. QED
        BY <1>t, <2>0, <3>8, <3>9, <4>1, <4>2 DEF InTime
    <3>14. NoLockOut'
      BY <3>8 DEF NoLockOut
    <3>. QED
      BY <3>10, <3>12, <3>13, <3>14 DEF LimiterInv
  <2>. QED
    BY <2>1, <2>2
<1>4. ASSUME NEW h \in Hits, SetExpiry(h) PROVE LimiterInv'
  <2>0. /\ hit[h].pc = "expire" /\ moment' = moment /\ era' = era
        /\ unrepaired' = unrepaired /\ brokenEver' = brokenEver
        /\ counter' = IF counter.count = 0 THEN counter ELSE [counter EXCEPT !.expires = moment + Window]
        /\ AnswerHit(h, hit[h].count, hit[h].era)
    BY <1>4 DEF SetExpiry
  <2>1. PICK pc \in {"passed", "refused"} :
          hit' = [hit EXCEPT ![h] = [Idle EXCEPT !.pc = pc]] /\ (pc = "refused" <=> Exceeded(hit[h].count))
    <3>1. CASE Exceeded(hit[h].count)
      BY <2>0, <3>1 DEF AnswerHit
    <3>2. CASE ~Exceeded(hit[h].count)
      BY <2>0, <3>2 DEF AnswerHit
    <3>. QED
      BY <3>1, <3>2
  <2>. DEFINE x == [Idle EXCEPT !.pc = pc]
  <2>2. x \in HitKinds /\ x.pc = pc /\ x.count = 0 /\ x.at = 0 /\ x.era = 0 /\ hit' = [hit EXCEPT ![h] = x]
        /\ x.pc # "idle" /\ x.pc # "expire"
    BY <2>1, Answers DEF Pcs
  <2>. HIDE DEF x
  <2>3. Called' = Called /\ Cardinality(Called') = Cardinality(Called) /\ hit' \in [Hits -> HitKinds]
    BY <1>t, <2>0, <2>2, HitMoves
  <2>4. \A g \in Hits : hit'[g] = IF g = h THEN x ELSE hit[g]
    BY <1>t, <2>2 DEF LimiterTypes
  <2>5. hit[h].era \in Eras /\ hit[h].at + MaxDelay >= moment /\ hit[h].at <= moment
    BY <1>t, <1>u, <2>0 DEF LimiterTypes, Numbered, InTime, Eras
  <2>6. passed' \in [Eras -> Nat] /\ \A w \in Eras : passed'[w] =
          IF h \in Counting(w) THEN passed[w] + 1 ELSE passed[w]
    <3>1. passed' = IF Exceeded(hit[h].count) THEN passed ELSE [passed EXCEPT ![hit[h].era] = @ + 1]
      BY <2>0 DEF AnswerHit
    <3>2. \A w \in Eras : h \in Counting(w) <=> w = hit[h].era /\ ~Exceeded(hit[h].count)
      BY <1>u, <2>0 DEF Counting, Exceeded
    <3>. QED
      BY <1>u, <2>5, <3>1, <3>2
  <2>7. \A w \in Nat : /\ Cardinality(Counting(w)) \in Nat /\ Cardinality(Counting(w)') \in Nat
           /\ Cardinality(Counting(w)') = IF h \in Counting(w) THEN Cardinality(Counting(w)) - 1
                                          ELSE Cardinality(Counting(w))
    BY <1>t, <2>2, NumberLeaves
  <2>8. /\ counter' \in [count : 0..Cardinality(Called), expires : Nat \cup {Endless}, born : 0..moment]
        /\ counter'.count = counter.count /\ counter'.born = counter.born
        /\ counter'.count > 0 => counter'.expires = moment + Window
        /\ counter'.count = 0 => counter' = counter
        /\ counter \in [count : 0..Cardinality(Called), expires : Nat \cup {Endless}, born : 0..moment]
    <3>1. counter \in [count : 0..Cardinality(Called), expires : Nat \cup {Endless}, born : 0..moment]
      BY <1>t DEF LimiterTypes
    <3>2. CASE counter.count = 0
      BY <1>u, <2>0, <3>1, <3>2
    <3>3. CASE counter.count # 0
      BY <1>u, <2>0, <3>1, <3>3
    <3>. QED
      BY <3>2, <3>3
  <2>9. LimiterTypes'
    <3>1. \A g \in Hits : hit'[g].count <= Cardinality(Called) /\ hit'[g].at <= moment' /\ hit'[g].era <= era'
      BY <1>t, <1>u, <2>0, <2>2, <2>4 DEF LimiterTypes
    <3>2. moment' \in 0..LastMoment /\ era' \in 0..Cardinality(Called)
          /\ unrepaired' \in BOOLEAN /\ brokenEver' \in BOOLEAN
      BY <1>t, <2>0 DEF LimiterTypes
    <3>3. /\ counter' \in [count : 0..Cardinality(Called), expires : Nat \cup {Endless}, born : 0..moment']
          /\ counter'.expires # Endless => counter'.expires <= LastMoment + Window
          /\ counter'.count = 0 => counter'.expires = Endless
          /\ counter'.count > 0 => era' > 0
      BY <1>t, <1>u, <2>0, <2>8 DEF LimiterTypes
    <3>. QED
      BY <2>3, <2>6, <3>1, <3>2, <3>3, LimiterTypesAre
  <2>10. Numbered'
    <3>1. \A g \in Hits : hit'[g].pc = "expire" => hit'[g].era > 0
      BY <1>t, <2>2, <2>4 DEF Numbered
    <3>2. ASSUME NEW w \in Eras
          PROVE passed'[w] + Cardinality(Counting(w)') = passed[w] + Cardinality(Counting(w))
      <4>1. w \in Nat /\ passed[w] \in Nat
        BY <1>u
      <4>. QED
        BY <2>6, <2>7, <4>1
    <3>3. \A w \in Eras : w > era' => passed'[w] = 0
      <4>. SUFFICES ASSUME NEW w \in Eras, w > era PROVE passed'[w] = 0
        BY <2>0
      <4>1. passed[w] = 0 /\ h \notin Counting(w)
        BY <1>t, <1>u DEF Numbered, Counting, LimiterTypes
      <4>. QED
        BY <2>6, <4>1
    <3>4. counter'.count > 0 => passed'[era'] + Cardinality(Counting(era)') <= counter'.count
      <4>. SUFFICES ASSUME counter.count > 0
                    PROVE passed'[era] + Cardinality(Counting(era)') <= counter.count
        BY <2>0, <2>8
      <4>1. passed[era] + Cardinality(Counting(era)) <= counter.count /\ era \in Eras
        BY <1>t, <1>u DEF Numbered
      <4>2. Counting(era)' = Counting(era) \ {h}
        BY <2>0, <2>2, <2>4 DEF Counting
      <4>3. IsFiniteSet(Counting(era)) /\ Cardinality(Counting(era)) \in Nat
        <5>1. Counting(era) \in SUBSET Hits
          BY DEF Counting
        <5>. QED
          BY <5>1, HitsAreFinite
      <4>4. Cardinality(Counting(era)') = IF h \in Counting(era) THEN Cardinality(Counting(era)) - 1
                                         ELSE Cardinality(Counting(era))
        BY <4>2, <4>3, FS_RemoveElement
      <4>. QED
        BY <1>u, <2>6, <4>1, <4>3, <4>4
    <3>. QED
      BY <1>t, <3>1, <3>2, <3>3, <3>4 DEF Numbered
  <2>11. InTime'
    <3>1. \A g \in Hits : hit'[g].pc = "expire" => hit[g].pc = "expire" /\ hit'[g] = hit[g]
      BY <2>2, <2>4
    <3>2. counter.count > 0 /\ ~brokenEver => hit[h].at <= counter.born + MaxDelay
      BY <1>t, <2>0 DEF InTime
    <3>3. counter'.count > 0 /\ ~brokenEver => counter'.expires <= counter'.born + 2 * MaxDelay + Window
      BY <1>u, <2>5, <2>8, <3>2
    <3>. QED
      BY <1>t, <1>u, <2>0, <2>8, <3>1, <3>3 DEF InTime
  <2>12. NoLockOut'
    BY <1>u, <2>8 DEF NoLockOut
  <2>. QED
    BY <2>9, <2>10, <2>11, <2>12 DEF LimiterInv
<1>5. ASSUME NEW h \in Hits, hit[h].pc \in {"idle", "expire"}, hit' = [hit EXCEPT ![h] = [Idle EXCEPT !.pc = "open"]],
             moment' = moment, passed' = passed, NEW n \in Nat, n = Cardinality(Called'),
             /\ counter' \in [count : 0..n, expires : Nat \cup {Endless}, born : 0..moment]
             /\ counter'.expires # Endless => counter'.expires <= LastMoment + Window
             /\ era' \in 0..n /\ unrepaired' \in BOOLEAN /\ brokenEver' \in BOOLEAN,
             \/ /\ counter' = counter /\ era' = era
                /\ \/ unrepaired' = unrepaired /\ brokenEver' = brokenEver /\ hit[h].pc = "idle"
                   \/ unrepaired' = TRUE /\ brokenEver' = TRUE
             \/ /\ counter'.count = counter.count + 1 /\ era' = era /\ counter.count > 0
                /\ counter'.expires = counter.expires /\ counter'.born = counter.born
                /\ (counter'.expires = Endless => unrepaired' /\ brokenEver')
                /\ (~brokenEver' => ~brokenEver)
             \/ /\ counter'.count = 1 /\ era' = era + 1 /\ brokenEver' /\ unrepaired' /\ era' \in Eras,
             n >= Cardinality(Called), hit' \in [Hits -> HitKinds]
      PROVE  LimiterInv'
  <2>. DEFINE x == [Idle EXCEPT !.pc = "open"]
  <2>2. x \in HitKinds /\ x.pc = "open" /\ x.count = 0 /\ x.at = 0 /\ x.era = 0 /\ hit' = [hit EXCEPT ![h] = x]
    BY <1>5, Answers DEF Pcs
  <2>. HIDE DEF x
  <2>4. \A g \in Hits : hit'[g] = IF g = h THEN x ELSE hit[g]
    BY <1>t, <2>2 DEF LimiterTypes
  <2>5. era <= era'
    BY <1>5, <1>u
  <2>9. LimiterTypes'
    <3>1. ASSUME NEW g \in Hits
          PROVE  hit'[g].count <= n /\ hit'[g].at <= moment' /\ hit'[g].era <= era'
      <4>0. n \in Nat /\ era' \in Nat /\ moment' = moment /\ moment \in Nat /\ n >= Cardinality(Called)
        BY <1>5, <1>u
      <4>1. CASE g = h
        BY <2>2, <2>4, <4>0, <4>1
      <4>2. CASE g # h
        <5>1. hit'[g] = hit[g]
          BY <2>4, <4>2
        <5>2. hit[g].count <= Cardinality(Called) /\ hit[g].at <= moment /\ hit[g].era <= era
              /\ hit[g] \in HitKinds /\ era \in Nat /\ Cardinality(Called) \in Nat
          BY <1>t, <1>u DEF LimiterTypes
        <5>3. hit[g].count \in Nat /\ hit[g].at \in Nat /\ hit[g].era \in Nat
          BY <5>2 DEF HitKinds
        <5>. QED
          BY <2>5, <4>0, <5>1, <5>2, <5>3
      <4>. QED
        BY <4>1, <4>2
    <3>2. counter'.count = 0 => counter'.expires = Endless
      BY <1>5, <1>t, <1>u DEF LimiterTypes
    <3>3. counter'.count > 0 => era' > 0
      BY <1>5, <1>t, <1>u DEF LimiterTypes
    <3>4. /\ moment' \in 0..LastMoment /\ passed' \in [Eras -> Nat]
          /\ counter' \in [count : 0..n, expires : Nat \cup {Endless}, born : 0..moment']
      BY <1>5, <1>u
    <3>. QED
      BY <1>5, <3>1, <3>2, <3>3, <3>4, LimiterTypesAre
  <2>10. Numbered'
    <3>1. \A g \in Hits : hit'[g].pc = "expire" => hit'[g].era > 0
      BY <1>t, <2>2, <2>4 DEF Numbered
    <3>2. \A w \in Nat : Counting(w)' \in SUBSET Counting(w) /\ Counting(w) \in SUBSET Hits
      BY <2>2, <2>4 DEF Counting
    <3>3. \A w \in Nat : Cardinality(Counting(w)') <= Cardinality(Counting(w))
                         /\ Cardinality(Counting(w)') \in Nat /\ Cardinality(Counting(w)) \in Nat
      BY <3>2, HitsAreFinite, FS_Subset, FS_CardinalityType
    <3>4. ASSUME NEW w \in Eras
          PROVE (w > era' => passed'[w] = 0) /\ passed'[w] + Cardinality(Counting(w)') <= Limit
      <4>1. w \in Nat /\ passed[w] \in Nat /\ (w > era => passed[w] = 0)
            /\ passed[w] + Cardinality(Counting(w)) <= Limit
        BY <1>t, <1>u DEF Numbered
      <4>. QED
        BY <1>5, <1>u, <2>5, <3>3, <4>1
    <3>5. counter'.count > 0 => passed'[era'] + Cardinality(Counting(era)') <= counter'.count
      <4>. SUFFICES ASSUME counter'.count > 0
                    PROVE passed[era'] + Cardinality(Counting(era)') <= counter'.count
        BY <1>5
      <4>0. Counting(era)' \in SUBSET Counting(era') /\ Counting(era') \in SUBSET Hits
        BY <2>2, <2>4 DEF Counting
      <4>1. Cardinality(Counting(era)') <= Cardinality(Counting(era'))
            /\ Cardinality(Counting(era)') \in Nat /\ Cardinality(Counting(era')) \in Nat
        BY <4>0, HitsAreFinite, FS_Subset, FS_CardinalityType
      <4>2. CASE era' = era /\ counter'.count >= counter.count /\ counter.count > 0
        <5>1. passed[era] + Cardinality(Counting(era)) <= counter.count /\ passed[era] \in Nat
          BY <1>t, <1>u, <4>2 DEF Numbered
        <5>2. counter'.count \in Nat /\ counter.count \in Nat
          BY <1>5, <1>u
        <5>. QED
          BY <4>1, <4>2, <5>1, <5>2
      <4>3. CASE counter'.count = 1 /\ era' = era + 1 /\ era' \in Eras
        <5>1. passed[era'] = 0
          BY <1>t, <1>u, <4>3 DEF Numbered
        <5>2. Counting(era') = {}
          BY <1>t, <1>u, <4>3 DEF Counting, LimiterTypes
        <5>. QED
          BY <4>1, <4>3, <5>1, <5>2, FS_EmptySet
      <4>. QED
        BY <1>5, <1>u, <4>2, <4>3
    <3>. QED
      BY <3>1, <3>4, <3>5 DEF Numbered
  <2>11. InTime'
    <3>1. \A g \in Hits : hit'[g].pc = "expire" => hit[g].pc = "expire" /\ hit'[g] = hit[g]
      BY <2>2, <2>4
    <3>2. \A g \in Hits : hit'[g].pc = "expire" => moment' <= hit'[g].at + MaxDelay
      BY <1>5, <1>t, <3>1 DEF InTime
    <3>. SUFFICES ASSUME counter'.count > 0, ~brokenEver'
         PROVE  /\ \A g \in Hits : hit'[g].pc = "expire" => hit'[g].at <= counter'.born + MaxDelay
                /\ counter'.expires = Endless => \E g \in Hits : hit'[g].pc = "expire" /\ hit'[g].at = counter'.born
                /\ counter'.expires # Endless => counter'.expires <= counter'.born + 2 * MaxDelay + Window
      BY <3>2 DEF InTime
    <3>3. ~brokenEver /\ counter.count > 0 /\ counter'.born = counter.born /\ counter'.expires = counter.expires
      BY <1>5, <1>u
    <3>4. counter'.expires = Endless => hit[h].pc = "idle"
      BY <1>5, <1>u
    <3>5. /\ \A g \in Hits : hit[g].pc = "expire" => hit[g].at <= counter.born + MaxDelay
          /\ counter.expires = Endless => \E g \in Hits : hit[g].pc = "expire" /\ hit[g].at = counter.born
          /\ counter.expires # Endless => counter.expires <= counter.born + 2 * MaxDelay + Window
      BY <1>t, <3>3 DEF InTime
    <3>6. ASSUME counter.expires = Endless
          PROVE \E g \in Hits : hit'[g].pc = "expire" /\ hit'[g].at = counter.born
      <4>1. PICK g \in Hits : hit[g].pc = "expire" /\ hit[g].at = counter.born
        BY <3>5, <3>6
      <4>2. g # h
        BY <3>3, <3>4, <3>6, <4>1
      <4>. QED
        BY <2>4, <4>1, <4>2
    <3>. QED
      BY <3>1, <3>3, <3>5, <3>6
  <2>12. NoLockOut'
    <3>. SUFFICES ASSUME counter'.count > 0, counter'.expires = Endless, ~unrepaired'
                  PROVE \E g \in Hits : hit'[g].pc = "expire"
      BY DEF NoLockOut
    <3>1. counter' = counter /\ hit[h].pc = "idle" /\ unrepaired' = unrepaired
      BY <1>5, <1>u
    <3>2. PICK g \in Hits : hit[g].pc = "expire"
      BY <1>t, <3>1 DEF NoLockOut
    <3>3. g # h
      BY <3>1, <3>2
    <3>. QED
      BY <2>4, <3>2, <3>3
  <2>. QED
    BY <2>9, <2>10, <2>11, <2>12 DEF LimiterInv
<1>6. ASSUME NEW h \in Hits, NEW ran \in BOOLEAN, FailsOpen(h, ran) PROVE LimiterInv'
  <2>0. /\ hit[h].pc = "idle" /\ hit' = [hit EXCEPT ![h] = [Idle EXCEPT !.pc = "open"]]
        /\ moment' = moment /\ passed' = passed
    BY <1>6 DEF FailsOpen
  <2>. DEFINE n == Cardinality(Called')
  <2>1. n = Cardinality(Called) + 1 /\ n \in Nat /\ n <= Cardinality(Hits) /\ hit' \in [Hits -> HitKinds]
    <3>. DEFINE x == [Idle EXCEPT !.pc = "open"]
    <3>1. x \in HitKinds /\ x.pc # "idle" /\ hit' = [hit EXCEPT ![h] = x]
      BY <2>0, Answers DEF Pcs
    <3>. HIDE DEF x
    <3>2. /\ Cardinality(Called') = Cardinality(Called) + 1
          /\ Cardinality(Called) \in Nat /\ Cardinality(Called') <= Cardinality(Hits)
          /\ hit' \in [Hits -> HitKinds]
      BY <1>t, <2>0, <3>1, HitTaken
    <3>. QED
      BY <3>2
  <2>. HIDE DEF n
  <2>2. CASE ran
    <3>1. /\ Increment /\ unrepaired' = (counter'.expires = Endless)
          /\ brokenEver' = ((~Begins /\ brokenEver) \/ unrepaired')
      BY <1>6, <2>2 DEF FailsOpen
    <3>2. /\ counter'.count \in 1..n /\ era' \in 1..n
          /\ counter' \in [count : 0..n, expires : Nat \cup {Endless}, born : 0..moment]
          /\ counter'.expires # Endless => counter'.expires <= LastMoment + Window
          /\ Begins => counter'.count = 1 /\ counter'.expires = Endless /\ era' = era + 1
          /\ ~Begins => counter'.count = counter.count + 1 /\ counter'.expires = counter.expires
                        /\ counter'.born = counter.born /\ era' = era
          /\ era' \in Eras
      BY <1>t, <2>0, <2>1, <3>1, Incremented
    <3>3. ~Begins => counter.count > 0
      BY <1>u DEF Begins
    <3>4. era' \in 0..n /\ n >= Cardinality(Called)
      BY <1>u, <2>1, <3>2
    <3>5. unrepaired' \in BOOLEAN /\ brokenEver' \in BOOLEAN
      BY <3>1, Zenon
    <3>6. CASE Begins
      <4>1. counter'.count = 1 /\ era' = era + 1 /\ brokenEver' /\ unrepaired' /\ era' \in Eras
        BY <3>1, <3>2, <3>6
      <4>. QED
        BY <1>5, <2>0, <2>1, <3>2, <3>4, <3>5, <4>1 DEF n
    <3>7. CASE ~Begins
      <4>1. /\ counter'.count = counter.count + 1 /\ era' = era /\ counter.count > 0
            /\ counter'.expires = counter.expires /\ counter'.born = counter.born
            /\ (counter'.expires = Endless => unrepaired' /\ brokenEver')
            /\ (~brokenEver' => ~brokenEver)
        BY <3>1, <3>2, <3>3, <3>7
      <4>. QED
        BY <1>5, <2>0, <2>1, <3>2, <3>4, <3>5, <4>1 DEF n
    <3>. QED
      BY <3>6, <3>7
  <2>3. CASE ~ran
    <3>1. counter' = counter /\ era' = era /\ unrepaired' = unrepaired /\ brokenEver' = brokenEver
      BY <1>6, <2>3 DEF FailsOpen
    <3>2. /\ counter' \in [count : 0..n, expires : Nat \cup {Endless}, born : 0..moment]
          /\ counter'.expires # Endless => counter'.expires <= LastMoment + Window
          /\ era' \in 0..n /\ unrepaired' \in BOOLEAN /\ brokenEver' \in BOOLEAN
          /\ n >= Cardinality(Called)
      BY <1>t, <1>u, <2>1, <3>1 DEF LimiterTypes
    <3>. QED
      BY <1>5, <2>0, <2>1, <3>1, <3>2 DEF n
  <2>. QED
    BY <2>2, <2>3
<1>7. ASSUME NEW h \in Hits, LosesExpire(h) PROVE LimiterInv'
  <2>0. /\ hit[h].pc = "expire" /\ hit' = [hit EXCEPT ![h] = [Idle EXCEPT !.pc = "open"]]
        /\ moment' = moment /\ passed' = passed /\ counter' = counter /\ era' = era
        /\ unrepaired' = TRUE /\ brokenEver' = TRUE
    BY <1>7 DEF LosesExpire
  <2>1. Cardinality(Called') = Cardinality(Called) /\ hit' \in [Hits -> HitKinds]
    <3>1. [Idle EXCEPT !.pc = "open"] \in HitKinds /\ [Idle EXCEPT !.pc = "open"].pc # "idle"
      BY Answers DEF Pcs
    <3>. QED
      BY <1>t, <2>0, <3>1, HitMoves
  <2>2. /\ counter' \in [count : 0..Cardinality(Called), expires : Nat \cup {Endless}, born : 0..moment]
        /\ counter'.expires # Endless => counter'.expires <= LastMoment + Window
        /\ era' \in 0..Cardinality(Called) /\ unrepaired' \in BOOLEAN /\ brokenEver' \in BOOLEAN
    BY <1>t, <2>0 DEF LimiterTypes
  <2>. DEFINE n == Cardinality(Called)
  <2>3. /\ counter' \in [count : 0..n, expires : Nat \cup {Endless}, born : 0..moment]
        /\ counter'.expires # Endless => counter'.expires <= LastMoment + Window
        /\ era' \in 0..n /\ unrepaired' \in BOOLEAN /\ brokenEver' \in BOOLEAN
        /\ n = Cardinality(Called') /\ n \in Nat /\ n >= Cardinality(Called)
    BY <1>u, <2>1, <2>2
  <2>. HIDE DEF n
  <2>. QED
    BY <1>5, <2>0, <2>1, <2>3
\* To the counters a request nobody is counted for is one the store failed before it counted.
<1>8. ASSUME NEW h \in Hits, Unidentified(h) PROVE LimiterInv'
  <2>1. FailsOpen(h, FALSE)
    BY <1>8 DEF Unidentified, FailsOpen
  <2>. QED
    BY <1>6, <2>1
<1>. QED
  BY <1>1, <1>2, <1>3, <1>4, <1>6, <1>7, <1>8 DEF LimiterNext, AnyOne

LEMMA LimiterInvIsSound == LimiterInv => LimiterSound
<1>. SUFFICES ASSUME LimiterInv PROVE LimiterSound
  OBVIOUS
<1>1. LimiterTypes /\ Numbered /\ InTime /\ NoLockOut
  BY DEF LimiterInv
<1>2. Cardinality(Called) \in Nat /\ Cardinality(Called) <= Cardinality(Hits) /\ Cardinality(Hits) \in Nat
  <2>1. Called \in SUBSET Hits
    BY DEF Called
  <2>. QED
    BY <2>1, HitsAreFinite
<1>3. LimiterTypeOK
  <2>1. hit \in [Hits -> [pc : Pcs, count : 0..Cardinality(Hits), at : 0..LastMoment, era : {0} \cup Eras]]
    <3>. SUFFICES ASSUME NEW h \in Hits
                  PROVE hit[h] \in [pc : Pcs, count : 0..Cardinality(Hits), at : 0..LastMoment, era : {0} \cup Eras]
      BY <1>1 DEF LimiterTypes
    <3>1. hit[h] \in HitKinds /\ hit[h].count <= Cardinality(Called) /\ hit[h].at <= moment /\ hit[h].era <= era
          /\ moment \in 0..LastMoment /\ era \in 0..Cardinality(Called)
      BY <1>1 DEF LimiterTypes
    <3>. QED
      BY <1>2, <3>1, RateLimiterAssumption DEF HitKinds, Eras
  <2>2. /\ counter.count \in 0..Cardinality(Hits) /\ counter.born \in 0..LastMoment
        /\ counter.expires \in 0..LastMoment + Window \cup {Endless}
        /\ moment \in 0..LastMoment /\ era \in 0..Cardinality(Hits)
    BY <1>1, <1>2, RateLimiterAssumption DEF LimiterTypes
  <2>. QED
    BY <1>1, <2>1, <2>2 DEF LimiterTypes, LimiterTypeOK, Pcs
<1>4. AtMostLimit
  <2>. SUFFICES ASSUME NEW w \in Eras PROVE passed[w] <= Limit
    BY DEF AtMostLimit
  <2>1. passed[w] + Cardinality(Counting(w)) <= Limit /\ passed[w] \in Nat
    BY <1>1 DEF Numbered, LimiterTypes
  <2>2. Cardinality(Counting(w)) \in Nat
    <3>1. Counting(w) \in SUBSET Hits
      BY DEF Counting
    <3>. QED
      BY <3>1, HitsAreFinite
  <2>. QED
    BY <2>1, <2>2, RateLimiterAssumption
<1>5. WindowEnds
  BY <1>1 DEF InTime, WindowEnds
<1>. QED
  BY <1>1, <1>3, <1>4, <1>5 DEF LimiterSound

(* However calls, lost EXPIREs and failures of the store fall: no window   *)
(* lets more calls through than the limit, it ends in time, and nobody is  *)
(* locked out for good (redis.store.ts, rate-limit.middleware.ts).         *)
THEOREM LimiterIsSound == LimiterSpec => []LimiterSound
<1>1. LimiterSpec => []LimiterInv
  BY LimiterInvInit, LimiterInvStep, PTL DEF LimiterSpec
<1>. QED
  BY <1>1, LimiterInvIsSound, PTL

-----------------------------------------------------------------------------
(***************************************************************************)
(* Shutdown.  One signal's call runs the tasks, the others are ignored; it *)
(* stands at the task that was begun last, a resource is closed only by    *)
(* its own task, and no work that is awaited outlives the task that stops  *)
(* it unless something threw.                                              *)
(***************************************************************************)
Active(s) == runner[s].pc \in {"begin", "await"}
RunnerKinds == [pc : {"none", "begin", "await", "ignored"}, next : 0..11]

ShutdownTypes ==
  /\ runner \in [Signals -> RunnerKinds] /\ opened \subseteq Resources /\ busy \subseteq Works
  /\ draining \in BOOLEAN /\ threw \in BOOLEAN /\ misled = FALSE
  /\ probe \in {"none", "checking", "up", "down"} /\ exit \in {"none", "done", "forced"}
  /\ ranTask \in Seq({"drain"} \cup Resources) /\ Len(ranTask) \in 0..10 /\ stranded \subseteq Works \X Resources
OneRuns ==
  /\ \A s, t \in Signals : Active(s) /\ Active(t) => s = t
  /\ \A s \in Signals : /\ runner[s].pc = "begin" => runner[s].next = Len(ranTask) + 1
                        /\ runner[s].pc = "await" => runner[s].next = Len(ranTask) /\ runner[s].next # 0
  /\ NotStarted => Len(ranTask) = 0
  /\ exit = "done" => Len(ranTask) = 10
InOrder ==
  /\ \A n \in 1..Len(ranTask) : ranTask[n] = TaskOrder[n]
  /\ Len(ranTask) >= 1 => draining
ClosedByTask == \A r \in Resources \ opened : \E n \in 1..Len(ranTask) : TaskOrder[n] = r
WorkAwaited ==
  ~threw => \A n \in 1..Len(ranTask) :
    TaskOrder[n] \in busy /\ Awaits(TaskOrder[n]) =>
      n = Len(ranTask) /\ \E s \in Signals : runner[s].pc = "await"

ShutdownInv ==
  ShutdownTypes /\ OneRuns /\ InOrder /\ ClosedByTask /\ WorkAwaited /\ WorkIsFinished

LEMMA TaskFacts ==
  /\ Len(TaskOrder) = 10
  /\ TaskOrder[1] = "drain" /\ TaskOrder[2] = "http" /\ TaskOrder[3] = "mails" /\ TaskOrder[4] = "fanouts"
  /\ TaskOrder[5] = "publications" /\ TaskOrder[6] = "sweeps" /\ TaskOrder[7] = "subscriber"
  /\ TaskOrder[8] = "redis" /\ TaskOrder[9] = "db" /\ TaskOrder[10] = "mailer"
<1>1. Len(TaskOrder) = 10
  BY DEF TaskOrder
<1>2. TaskOrder[1] = "drain" /\ TaskOrder[2] = "http"
  BY DEF TaskOrder
<1>3. TaskOrder[3] = "mails" /\ TaskOrder[4] = "fanouts"
  BY DEF TaskOrder
<1>4. TaskOrder[5] = "publications" /\ TaskOrder[6] = "sweeps"
  BY DEF TaskOrder
<1>5. TaskOrder[7] = "subscriber" /\ TaskOrder[8] = "redis"
  BY DEF TaskOrder
<1>6. TaskOrder[9] = "db" /\ TaskOrder[10] = "mailer"
  BY DEF TaskOrder
<1>. QED
  BY <1>1, <1>2, <1>3, <1>4, <1>5, <1>6

LEMMA ResourceTasks ==
  /\ Resources = {"http", "mails", "fanouts", "publications", "sweeps", "subscriber", "redis", "db", "mailer"}
  /\ \A n \in 1..10 : TaskOrder[n] \in {"drain"} \cup Resources /\ (n # 1 => TaskOrder[n] \in Resources)
<1>1. \A n \in 2..10 : n \in {2, 3, 4, 5, 6, 7, 8, 9, 10}
  OBVIOUS
<1>2. Resources = {TaskOrder[n] : n \in 2..10}
  BY TaskFacts DEF Resources
<1>3. Resources = {TaskOrder[2], TaskOrder[3], TaskOrder[4], TaskOrder[5], TaskOrder[6], TaskOrder[7], TaskOrder[8],
                   TaskOrder[9], TaskOrder[10]}
  BY <1>1, <1>2
<1>4. \A n \in 1..10 : n = 1 \/ n \in 2..10
  OBVIOUS
<1>5. Resources = {"http", "mails", "fanouts", "publications", "sweeps", "subscriber", "redis", "db", "mailer"}
  BY <1>3, TaskFacts
<1>6. ASSUME NEW n \in 1..10 PROVE TaskOrder[n] \in {"drain"} \cup Resources /\ (n # 1 => TaskOrder[n] \in Resources)
  <2>1. CASE n = 1
    BY <2>1, TaskFacts
  <2>2. CASE n \in 2..10
    BY <1>2, <2>2
  <2>. QED
    BY <1>4, <2>1, <2>2
<1>. QED
  BY <1>5, <1>6

LEMMA NeedsAreResources == \A w \in Works : Needs(w) \subseteq Resources
BY ResourceTasks DEF Works, Needs

\* What awaited work needs is closed after it, but for a publication's fan-out.
LEMMA NeededLater ==
  ASSUME NEW w \in Works \ {"sweeps"}, NEW r \in Needs(w), NEW n \in 1..10, NEW m \in 1..10,
         TaskOrder[n] = w, TaskOrder[m] = r, m <= n
  PROVE  w = "publications" /\ r = "fanouts"
<1>1. n \in {1, 2, 3, 4, 5, 6, 7, 8, 9, 10} /\ m \in {1, 2, 3, 4, 5, 6, 7, 8, 9, 10}
  OBVIOUS
<1>2. CASE w = "http"
  <2>1. n = 2
    BY <1>1, <1>2, TaskFacts
  <2>. QED
    BY <1>2, <2>1, TaskFacts DEF Needs
<1>3. CASE w = "mails"
  <2>1. n = 3
    BY <1>1, <1>3, TaskFacts
  <2>2. m \in {1, 2, 3}
    BY <2>1
  <2>. QED
    BY <1>3, <2>2, TaskFacts DEF Needs
<1>4. CASE w = "fanouts"
  <2>1. n = 4
    BY <1>1, <1>4, TaskFacts
  <2>2. m \in {1, 2, 3, 4}
    BY <2>1
  <2>. QED
    BY <1>4, <2>2, TaskFacts DEF Needs
<1>5. CASE w = "publications"
  <2>1. n = 5
    BY <1>1, <1>5, TaskFacts
  <2>2. m \in {1, 2, 3, 4, 5}
    BY <2>1
  <2>. QED
    BY <1>5, <2>2, TaskFacts DEF Needs
<1>. QED
  BY <1>2, <1>3, <1>4, <1>5 DEF Works

LEMMA ShutdownInvInit == ShutdownInit => ShutdownInv
<1>. SUFFICES ASSUME ShutdownInit PROVE ShutdownInv
  OBVIOUS
<1>1. ShutdownTypes
  <2>1. [pc |-> "none", next |-> 0] \in RunnerKinds
    BY DEF RunnerKinds
  <2>2. runner \in [Signals -> RunnerKinds]
    BY <2>1 DEF ShutdownInit
  <2>3. ranTask \in Seq({"drain"} \cup Resources) /\ Len(ranTask) \in 0..10
    <3>1. ranTask = <<>>
      BY DEF ShutdownInit
    <3>. QED
      BY <3>1
  <2>. QED
    BY <2>2, <2>3 DEF ShutdownInit, ShutdownTypes
<1>2. Len(ranTask) = 0 /\ ranTask = <<>>
  BY DEF ShutdownInit
<1>3. OneRuns /\ InOrder /\ ClosedByTask /\ WorkAwaited /\ WorkIsFinished
  BY <1>2 DEF ShutdownInit, OneRuns, Active, NotStarted, InOrder, ClosedByTask, WorkAwaited, WorkIsFinished
<1>. QED
  BY <1>1, <1>3 DEF ShutdownInv

LEMMA ShutdownInvStep == ShutdownInv /\ [ShutdownNext]_shutdownVars => ShutdownInv'
<1>. SUFFICES ASSUME ShutdownInv, [ShutdownNext]_shutdownVars PROVE ShutdownInv'
  OBVIOUS
<1>t. ShutdownTypes /\ OneRuns /\ InOrder /\ ClosedByTask /\ WorkAwaited /\ WorkIsFinished
  BY DEF ShutdownInv
<1>l. Len(ranTask) \in 0..10 /\ runner \in [Signals -> RunnerKinds]
      /\ \A s \in Signals : runner[s].next \in 0..11
  BY <1>t DEF ShutdownTypes, RunnerKinds
<1>1. CASE UNCHANGED shutdownVars
  BY <1>1, <1>t DEF shutdownVars, ShutdownInv, ShutdownTypes, OneRuns, Active, NotStarted, InOrder, ClosedByTask,
                    WorkAwaited, WorkIsFinished
\* The runner and what it closes stay as they are.
<1>2. ASSUME UNCHANGED <<runner, opened, draining, ranTask>>, busy' \subseteq Works, threw' \in BOOLEAN,
             threw => threw', exit' \in {"none", "done", "forced"}, exit' = "done" => Len(ranTask) = 10,
             probe' \in {"none", "checking", "up", "down"}, misled' = FALSE,
             \A n \in 1..Len(ranTask) : TaskOrder[n] \in busy' => TaskOrder[n] \in busy,
             stranded' \subseteq Works \X Resources, WorkIsFinished'
      PROVE  ShutdownInv'
  <2>1. ShutdownTypes'
    BY <1>2, <1>t DEF ShutdownTypes
  <2>2. OneRuns' /\ InOrder' /\ ClosedByTask'
    BY <1>2, <1>t DEF OneRuns, Active, NotStarted, InOrder, ClosedByTask
  <2>3. WorkAwaited'
    BY <1>2, <1>t DEF WorkAwaited
  <2>. QED
    BY <1>2, <2>1, <2>2, <2>3 DEF ShutdownInv
<1>3. ASSUME NEW w \in Works, StartWork(w) PROVE ShutdownInv'
  <2>1. /\ \A n \in DOMAIN ranTask : ranTask[n] # w
        /\ busy' = busy \cup {w}
        /\ UNCHANGED <<runner, opened, draining, probe, exit, ranTask, threw, stranded, misled>>
    BY <1>3 DEF StartWork
  <2>2. \A n \in 1..Len(ranTask) : TaskOrder[n] # w
    BY <1>l, <1>t, <2>1 DEF InOrder, ShutdownTypes
  <2>3. WorkIsFinished'
    BY <1>t, <2>1 DEF WorkIsFinished
  <2>. QED
    BY <1>2, <1>t, <2>1, <2>2, <2>3 DEF ShutdownTypes, OneRuns
<1>4. ASSUME NEW w \in Works, FinishWork(w) PROVE ShutdownInv'
  <2>1. /\ busy' = busy \ {w}
        /\ UNCHANGED <<runner, opened, draining, probe, exit, ranTask, threw, stranded, misled>>
    BY <1>4 DEF FinishWork
  <2>3. WorkIsFinished'
    BY <1>t, <2>1 DEF WorkIsFinished
  <2>. QED
    BY <1>2, <1>t, <2>1, <2>3 DEF ShutdownTypes, OneRuns
<1>5. ASSUME NEW w \in Works, NEW r \in Needs(w), MissResource(w, r) PROVE ShutdownInv'
  <2>1. /\ w \in busy /\ r \notin opened /\ busy' = busy \ {w}
        /\ stranded' = IF threw THEN stranded ELSE stranded \cup {<<w, r>>}
        /\ UNCHANGED <<runner, opened, draining, probe, exit, ranTask, threw, misled>>
    BY <1>5 DEF MissResource
  <2>2. r \in Resources
    BY NeedsAreResources
  <2>3. ASSUME ~threw, w # "sweeps" PROVE <<w, r>> = <<"publications", "fanouts">>
    <3>1. PICK m \in 1..Len(ranTask) : TaskOrder[m] = r
      BY <1>t, <2>1, <2>2 DEF ClosedByTask
    <3>2. PICK n \in 1..10 : TaskOrder[n] = w
      BY TaskFacts DEF Works
    <3>3. Awaits(w)
      BY <2>3 DEF Works, Awaits, Queues
    <3>4. n \in 1..Len(ranTask) => n = Len(ranTask)
      BY <1>t, <2>1, <2>3, <3>2, <3>3 DEF WorkAwaited
    <3>5. m \in 1..10 /\ m <= n
      BY <1>l, <3>1, <3>2, <3>4
    <3>6. w = "publications" /\ r = "fanouts"
      BY <2>3, <3>1, <3>2, <3>5, NeededLater
    <3>. QED
      BY <3>6
  <2>4. WorkIsFinished'
    BY <1>t, <2>1, <2>3 DEF WorkIsFinished
  <2>5. stranded' \subseteq Works \X Resources
    BY <1>t, <2>1, <2>2 DEF ShutdownTypes
  <2>. QED
    BY <1>2, <1>t, <2>1, <2>4, <2>5 DEF ShutdownTypes, OneRuns
<1>6. ASSUME NEW s \in Signals, Complete(s) PROVE ShutdownInv'
  <2>1. /\ runner[s].pc = "begin" /\ runner[s].next > 10 /\ exit' = "done"
        /\ UNCHANGED <<runner, opened, busy, draining, probe, ranTask, threw, stranded, misled>>
    BY <1>6, TaskFacts DEF Complete
  <2>2. Len(ranTask) = 10
    <3>1. runner[s].next = Len(ranTask) + 1
      BY <1>t, <2>1 DEF OneRuns
    <3>2. Len(ranTask) \in 0..10 /\ Len(ranTask) + 1 > 10
      BY <1>l, <2>1, <3>1
    <3>3. \A k \in 0..10 : k + 1 > 10 => k = 10
      OBVIOUS
    <3>. QED
      BY <3>2, <3>3
  <2>3. WorkIsFinished'
    BY <1>t, <2>1 DEF WorkIsFinished
  <2>. QED
    BY <1>2, <1>t, <2>1, <2>2, <2>3 DEF ShutdownTypes
<1>7. CASE ForceExit
  <2>1. /\ exit' = "forced" /\ threw' = TRUE
        /\ UNCHANGED <<runner, opened, busy, draining, probe, ranTask, stranded, misled>>
    BY <1>7 DEF ForceExit
  <2>3. WorkIsFinished'
    BY <1>t, <2>1 DEF WorkIsFinished
  <2>. QED
    BY <1>2, <1>t, <2>1, <2>3 DEF ShutdownTypes
<1>8. CASE StartProbe
  <2>1. /\ probe' = "checking"
        /\ UNCHANGED <<runner, opened, busy, draining, exit, ranTask, threw, stranded, misled>>
    BY <1>8 DEF StartProbe
  <2>3. WorkIsFinished'
    BY <1>t, <2>1 DEF WorkIsFinished
  <2>. QED
    BY <1>2, <1>t, <2>1, <2>3 DEF ShutdownTypes, OneRuns
<1>9. ASSUME NEW fails \in BOOLEAN, EndProbe(fails) PROVE ShutdownInv'
  <2>1. /\ probe' = Verdict(fails) /\ misled' = (misled \/ (probe' = "up" /\ "http" \notin opened))
        /\ UNCHANGED <<runner, opened, busy, draining, exit, ranTask, threw, stranded>>
    BY <1>9 DEF EndProbe
  <2>2. probe' \in {"up", "down"} /\ (probe' = "up" => ~draining)
    BY <2>1 DEF Verdict
  <2>3. "http" \notin opened => draining
    <3>1. "http" \in Resources
      BY ResourceTasks
    <3>2. ASSUME "http" \notin opened PROVE Len(ranTask) >= 1
      BY <1>l, <1>t, <3>1, <3>2 DEF ClosedByTask
    <3>. QED
      BY <1>t, <3>2 DEF InOrder
  <2>4. misled' = FALSE
    BY <1>t, <2>1, <2>2, <2>3 DEF ShutdownTypes
  <2>5. WorkIsFinished'
    BY <1>t, <2>1 DEF WorkIsFinished
  <2>. QED
    BY <1>2, <1>t, <2>1, <2>2, <2>4, <2>5 DEF ShutdownTypes, OneRuns
<1>10. ASSUME NEW s \in Signals, Signal(s) PROVE ShutdownInv'
  <2>. DEFINE pc == IF NotStarted THEN "begin" ELSE "ignored"
              x == [pc |-> pc, next |-> 1]
  <2>0. /\ exit = "none" /\ runner[s].pc = "none" /\ runner' = [runner EXCEPT ![s] = x]
        /\ UNCHANGED <<opened, busy, draining, probe, exit, ranTask, threw, stranded, misled>>
    BY <1>10 DEF Signal, Alive
  <2>1. pc \in {"begin", "ignored"} /\ (pc = "begin" => NotStarted)
    OBVIOUS
  <2>. HIDE DEF pc
  <2>2. x \in RunnerKinds /\ x.pc = pc /\ x.next = 1
    BY <2>1 DEF RunnerKinds
  <2>. HIDE DEF x
  <2>3. runner' \in [Signals -> RunnerKinds] /\ \A t \in Signals : runner'[t] = IF t = s THEN x ELSE runner[t]
    BY <1>l, <2>0, <2>2
  <2>4. ShutdownTypes'
    BY <1>t, <2>0, <2>3 DEF ShutdownTypes
  <2>5. OneRuns'
    <3>1. pc = "begin" => Len(ranTask) = 0 /\ \A t \in Signals : runner[t].pc = "none"
      BY <1>t, <2>1 DEF OneRuns, NotStarted
    <3>2. \A p, t \in Signals : Active(p)' /\ Active(t)' => p = t
      BY <1>t, <2>1, <2>2, <2>3, <3>1 DEF OneRuns, Active
    <3>3. ~NotStarted'
      BY <2>1, <2>2, <2>3 DEF NotStarted
    <3>4. \A t \in Signals : /\ runner'[t].pc = "begin" => runner'[t].next = Len(ranTask) + 1
                             /\ runner'[t].pc = "await" => runner'[t].next = Len(ranTask) /\ runner'[t].next # 0
      BY <1>l, <1>t, <2>1, <2>2, <2>3, <3>1 DEF OneRuns
    <3>. QED
      BY <2>0, <3>2, <3>3, <3>4 DEF OneRuns
  <2>6. InOrder' /\ ClosedByTask' /\ WorkIsFinished'
    BY <1>t, <2>0 DEF InOrder, ClosedByTask, WorkIsFinished
  <2>7. \A t \in Signals : runner[t].pc = "await" => runner'[t].pc = "await"
    BY <2>0, <2>3
  <2>8. WorkAwaited'
    BY <1>t, <2>0, <2>7 DEF WorkAwaited
  <2>. QED
    BY <2>4, <2>5, <2>6, <2>8 DEF ShutdownInv
<1>11. ASSUME NEW s \in Signals, BeginTask(s) PROVE ShutdownInv'
  <2>. DEFINE n == runner[s].next
              task == TaskOrder[n]
              x == [runner[s] EXCEPT !.pc = "await"]
  <2>0. /\ exit = "none" /\ runner[s].pc = "begin" /\ n \in 1..10 /\ n = Len(ranTask) + 1
        /\ runner' = [runner EXCEPT ![s] = x]
        /\ opened' = (IF task \in Queues THEN opened ELSE opened \ {task})
        /\ draining' = (draining \/ task = "drain") /\ ranTask' = Append(ranTask, task)
        /\ UNCHANGED <<busy, probe, exit, threw, stranded, misled>>
    BY <1>11, <1>l, <1>t, TaskFacts DEF BeginTask, Alive, OneRuns
  <2>1. x \in RunnerKinds /\ x.pc = "await" /\ x.next = n
    BY <1>l DEF RunnerKinds
  <2>. HIDE DEF x
  <2>2. runner' \in [Signals -> RunnerKinds] /\ \A t \in Signals : runner'[t] = IF t = s THEN x ELSE runner[t]
    BY <1>l, <2>0, <2>1
  <2>3. task \in {"drain"} \cup Resources
    BY <2>0, ResourceTasks
  <2>. HIDE DEF n
  <2>4. /\ ranTask' \in Seq({"drain"} \cup Resources) /\ Len(ranTask') = n /\ ranTask'[n] = task
        /\ \A m \in 1..Len(ranTask) : ranTask'[m] = ranTask[m]
    <3>1. ranTask \in Seq({"drain"} \cup Resources)
      BY <1>t DEF ShutdownTypes
    <3>. HIDE DEF task
    <3>. QED
      BY <2>0, <2>3, <3>1
  <2>5. draining' \in BOOLEAN /\ draining'
    <3>1. CASE n = 1
      <4>1. task = "drain"
        BY <3>1, TaskFacts
      <4>2. draining' = TRUE
        BY <2>0, <4>1, Zenon
      <4>. QED
        BY <4>2
    <3>2. CASE n # 1
      <4>1. Len(ranTask) >= 1
        BY <1>l, <2>0, <3>2
      <4>2. draining = TRUE
        BY <1>t, <4>1 DEF InOrder, ShutdownTypes
      <4>3. draining' = TRUE
        BY <2>0, <4>2, Zenon
      <4>. QED
        BY <4>3
    <3>. QED
      BY <3>1, <3>2
  <2>6. ShutdownTypes'
    BY <1>t, <2>0, <2>2, <2>4, <2>5 DEF ShutdownTypes
  <2>7. \A t \in Signals : t # s => ~Active(t)
    BY <1>t, <2>0 DEF OneRuns, Active
  <2>8. OneRuns'
    <3>1. \A p, t \in Signals : Active(p)' /\ Active(t)' => p = t
      BY <2>2, <2>7 DEF Active
    <3>2. ~NotStarted'
      BY <2>1, <2>2 DEF NotStarted
    <3>3. \A t \in Signals : /\ runner'[t].pc = "begin" => runner'[t].next = Len(ranTask') + 1
                             /\ runner'[t].pc = "await" => runner'[t].next = Len(ranTask') /\ runner'[t].next # 0
      BY <2>0, <2>1, <2>2, <2>4, <2>7 DEF Active
    <3>. QED
      BY <2>0, <3>1, <3>2, <3>3 DEF OneRuns
  <2>9. InOrder'
    <3>1. \A m \in 1..Len(ranTask') : ranTask'[m] = TaskOrder[m]
      BY <1>l, <1>t, <2>0, <2>4 DEF InOrder
    <3>. QED
      BY <2>5, <3>1 DEF InOrder
  <2>10. ClosedByTask'
    <3>1. ASSUME NEW r \in Resources \ opened' PROVE \E m \in 1..n : TaskOrder[m] = r
      <4>1. CASE r = task
        BY <2>0, <4>1
      <4>2. CASE r # task
        <5>1. PICK m \in 1..Len(ranTask) : TaskOrder[m] = r
          BY <1>t, <2>0, <3>1, <4>2 DEF ClosedByTask
        <5>2. m \in 1..n
          BY <1>l, <2>0
        <5>. QED
          BY <5>1, <5>2
      <4>. QED
        BY <4>1, <4>2
    <3>. QED
      BY <2>4, <3>1 DEF ClosedByTask
  <2>11. WorkAwaited'
    <3>1. \A t \in Signals : runner[t].pc # "await"
      BY <2>0, <2>7 DEF Active
    <3>2. ~threw => \A m \in 1..Len(ranTask) : ~(TaskOrder[m] \in busy /\ Awaits(TaskOrder[m]))
      BY <1>t, <3>1 DEF WorkAwaited
    <3>3. \A m \in 1..n : m # n => m \in 1..Len(ranTask)
      BY <1>l, <2>0
    <3>4. runner'[s].pc = "await"
      BY <2>1, <2>2
    <3>. QED
      BY <2>0, <2>4, <3>2, <3>3, <3>4 DEF WorkAwaited
  <2>12. WorkIsFinished'
    BY <1>t, <2>0 DEF WorkIsFinished
  <2>. QED
    BY <2>6, <2>8, <2>9, <2>10, <2>11, <2>12 DEF ShutdownInv
<1>12. ASSUME NEW s \in Signals, NEW throws \in BOOLEAN, EndTask(s, throws) PROVE ShutdownInv'
  <2>. DEFINE n == runner[s].next
              task == TaskOrder[n]
              x == [pc |-> "begin", next |-> n + 1]
  <2>0. /\ exit = "none" /\ runner[s].pc = "await" /\ n = Len(ranTask) /\ (throws \/ Settled(task))
        /\ runner' = [runner EXCEPT ![s] = x]
        /\ threw' = (threw \/ throws)
        /\ opened' = (IF task \in Queues /\ ~throws THEN opened \ {task} ELSE opened)
        /\ UNCHANGED <<busy, draining, probe, exit, ranTask, stranded, misled>>
    BY <1>12, <1>t DEF EndTask, Alive, OneRuns
  <2>. HIDE DEF n
  <2>t. n \in 1..10 /\ n + 1 \in 0..11
    <3>1. n # 0 /\ n \in 0..10
      BY <1>l, <1>t, <2>0 DEF OneRuns, n
    <3>. QED
      BY <3>1
  <2>1. x \in RunnerKinds /\ x.pc = "begin" /\ x.next = n + 1
    BY <2>t DEF RunnerKinds
  <2>. HIDE DEF x
  <2>2. runner' \in [Signals -> RunnerKinds] /\ \A t \in Signals : runner'[t] = IF t = s THEN x ELSE runner[t]
    BY <1>l, <2>0, <2>1
  <2>3. threw' \in BOOLEAN /\ (threw' \in BOOLEAN => (~threw' => ~threw /\ ~throws))
    BY <2>0, Zenon
  <2>4. ShutdownTypes'
    BY <1>t, <2>0, <2>2, <2>3 DEF ShutdownTypes
  <2>5. \A t \in Signals : t # s => ~Active(t)
    BY <1>t, <2>0 DEF OneRuns, Active
  <2>6. OneRuns'
    <3>1. \A p, t \in Signals : Active(p)' /\ Active(t)' => p = t
      BY <2>2, <2>5 DEF Active
    <3>2. ~NotStarted'
      BY <2>1, <2>2 DEF NotStarted
    <3>3. \A t \in Signals : /\ runner'[t].pc = "begin" => runner'[t].next = Len(ranTask) + 1
                             /\ runner'[t].pc = "await" => runner'[t].next = Len(ranTask) /\ runner'[t].next # 0
      BY <2>0, <2>1, <2>2, <2>5 DEF Active
    <3>. QED
      BY <2>0, <3>1, <3>2, <3>3 DEF OneRuns
  <2>7. InOrder' /\ WorkIsFinished'
    BY <1>t, <2>0 DEF InOrder, WorkIsFinished
  <2>8. ClosedByTask'
    <3>1. ASSUME NEW r \in Resources \ opened' PROVE \E m \in 1..Len(ranTask) : TaskOrder[m] = r
      <4>1. CASE r = task
        BY <2>0, <2>t, <4>1
      <4>2. CASE r # task
        BY <1>t, <2>0, <4>2 DEF ClosedByTask
      <4>. QED
        BY <4>1, <4>2
    <3>. QED
      BY <2>0, <3>1 DEF ClosedByTask
  <2>9. WorkAwaited'
    BY <1>l, <1>t, <2>0, <2>3 DEF WorkAwaited, Settled
  <2>. QED
    BY <2>4, <2>6, <2>7, <2>8, <2>9 DEF ShutdownInv
<1>. QED
  BY <1>1, <1>3, <1>4, <1>5, <1>6, <1>7, <1>8, <1>9, <1>10, <1>11, <1>12 DEF ShutdownNext

LEMMA ShutdownInvIsSound == ShutdownInv => ShutdownSound
<1>. SUFFICES ASSUME ShutdownInv PROVE ShutdownSound
  OBVIOUS
<1>1. ShutdownTypeOK /\ ~misled
  <2>1. ShutdownTypes
    BY DEF ShutdownInv
  <2>2. Len(TaskOrder) + 1 = 11
    BY TaskFacts
  <2>3. runner \in [Signals -> [pc : {"none", "begin", "await", "ignored"}, next : 0..Len(TaskOrder) + 1]]
    BY <2>1, <2>2 DEF ShutdownTypes, RunnerKinds
  <2>4. {draining, threw, misled} \subseteq BOOLEAN /\ ~misled
    BY <2>1 DEF ShutdownTypes
  <2>. QED
    BY <2>1, <2>3, <2>4 DEF ShutdownTypes, ShutdownTypeOK
<1>2. ranTask \in Seq({"drain"} \cup Resources) /\ Len(ranTask) \in 0..10 /\ \A n \in 1..Len(ranTask) : ranTask[n] = TaskOrder[n]
  BY DEF ShutdownInv, ShutdownTypes, InOrder
<1>3. ranTask = SubSeq(TaskOrder, 1, Len(ranTask))
  BY <1>2, TaskFacts
<1>4. exit = "done" => ranTask = TaskOrder
  <2>1. \A n \in 1..10 : TaskOrder[n] \in {"drain"} \cup Resources
    BY ResourceTasks
  <2>2. TaskOrder \in Seq({"drain"} \cup Resources)
    <3>1. TaskOrder = [n \in 1..10 |-> TaskOrder[n]]
      BY DEF TaskOrder
    <3>. QED
      BY <2>1, <3>1, TaskFacts
  <2>3. ASSUME exit = "done" PROVE Len(ranTask) = 10
    BY <2>3 DEF ShutdownInv, OneRuns
  <2>4. ASSUME Len(ranTask) = 10 PROVE ranTask = TaskOrder
    BY <1>2, <2>2, <2>4, TaskFacts
  <2>. QED
    BY <2>3, <2>4
<1>. QED
  BY <1>1, <1>3, <1>4 DEF ShutdownInv, ShutdownSound, RunOnce

(* However many signals come and whatever throws: the tasks run once each  *)
(* and in order, all of them unless the budget ends, awaited work finds    *)
(* what it needs as long as nothing threw, and no health check that ends   *)
(* after the server stopped says "up" (shutdown.ts, index.ts).             *)
THEOREM ShutdownIsSound == ShutdownSpec => []ShutdownSound
<1>1. ShutdownSpec => []ShutdownInv
  BY ShutdownInvInit, ShutdownInvStep, PTL DEF ShutdownSpec
<1>. QED
  BY <1>1, ShutdownInvIsSound, PTL

-----------------------------------------------------------------------------
(***************************************************************************)
(* Deployment.  One run at a time is between the upsert of the permissions *)
(* and its commit, one at a time has inserted roles, and what a run read   *)
(* is still what is there unless the run has met somebody.                 *)
(***************************************************************************)
AllKeys == CatalogueKeys \cup LegacyKeys \cup ExtraKeys
Inserted == {"permissions", "legacy", "bundles", "super", "admin"}
Locking == {"legacy", "bundles", "super", "admin"}
RunKinds == [pc : {"idle", "roles", "failed", "done"} \cup Inserted, missing : SUBSET CatalogueRoles,
             known : SUBSET AllKeys, legacy : SUBSET AllKeys, rows : SUBSET (CatalogueRoles \X AllKeys),
             met : BOOLEAN]

DeployTypes ==
  /\ roleRows \in [CatalogueRoles -> 0..1] /\ boot \in [Bootstraps -> RunKinds]
  /\ keys \subseteq AllKeys /\ grants \subseteq CatalogueRoles \X AllKeys /\ admins \in 0..1
RunsAlone ==
  /\ \A c, d \in Bootstraps : boot[c].pc \in Locking /\ boot[d].pc \in Locking => c = d
  /\ \A c, d \in Bootstraps :
       boot[c].pc \in Inserted /\ boot[d].pc \in Inserted /\ boot[c].missing # {} /\ boot[d].missing # {} => c = d
  /\ \A c, d \in Bootstraps : Running(c) /\ Running(d) /\ c # d => boot[c].met
RolesAreRead ==
  /\ \A c \in Bootstraps : boot[c].pc \in Inserted \/ (boot[c].pc = "roles" /\ ~boot[c].met) =>
       \A r \in boot[c].missing : roleRows[r] = 0
  /\ misranked = {} \/ \A c \in Bootstraps : boot[c].missing = {}
  /\ misranked = {} \/ \A r \in CatalogueRoles : roleRows[r] = 1
KeysAreKnown ==
  \A c \in Bootstraps : boot[c].pc \in Locking =>
    /\ CatalogueKeys \subseteq boot[c].known /\ keys \subseteq boot[c].known \cup created
    /\ ~boot[c].met => boot[c].known \subseteq keys \cup CatalogueKeys
LegacyIsRead ==
  \A c \in Bootstraps :
    /\ boot[c].pc \in {"bundles", "super", "admin"} => boot[c].legacy = boot[c].known \cap LegacyKeys
    /\ boot[c].legacy \subseteq LegacyKeys
RowsComplete ==
  \A c \in Bootstraps :
    /\ boot[c].pc \in {"super", "admin"} => BundleRows \subseteq boot[c].rows \cup grants \cup revoked
    /\ boot[c].pc = "admin" =>
         \A k \in boot[c].known \cap (keys \cup CatalogueKeys) :
           <<Super, k>> \in boot[c].rows \cup grants \cup revoked
Provisioned ==
  provisioned =>
    /\ CatalogueKeys \subseteq keys /\ admins = 1 /\ misranked = {}
    /\ BundleRows \subseteq grants \cup revoked
    /\ {Super} \X (keys \ created) \subseteq grants \cup revoked
    /\ keys \cap LegacyKeys \subseteq created

DeployInv ==
  /\ DeployTypes /\ RunsAlone /\ RolesAreRead /\ KeysAreKnown /\ LegacyIsRead /\ RowsComplete /\ Provisioned
  /\ GrantsAreKept /\ FailsForAReason /\ ServersAreCurrent

LEMMA BundleFacts ==
  /\ CatalogueKeys \subseteq AllKeys /\ BundleRows \subseteq CatalogueRoles \X CatalogueKeys
  /\ \A g \in BundleRows : g[2] \in CatalogueKeys /\ g[2] \notin LegacyKeys
  /\ Super \in CatalogueRoles /\ LegacyKeys \cap CatalogueKeys = {} /\ LegacyKeys \subseteq AllKeys
  /\ ExtraKeys \subseteq AllKeys
<1>1. BundleRows \subseteq CatalogueRoles \X CatalogueKeys
  <2>1. \A r \in CatalogueRoles : {r} \X Bundles[r] \subseteq CatalogueRoles \X CatalogueKeys
    BY DeploymentAssumption
  <2>. QED
    BY <2>1 DEF BundleRows
<1>2. CatalogueKeys \subseteq AllKeys /\ LegacyKeys \subseteq AllKeys /\ ExtraKeys \subseteq AllKeys
  BY DEF AllKeys
<1>. QED
  BY <1>1, <1>2, DeploymentAssumption

LEMMA DeployInvInit == DeployInit => DeployInv
<1>. SUFFICES ASSUME DeployInit PROVE DeployInv
  OBVIOUS
<1>1. NoRun \in RunKinds /\ NoRun.pc = "idle" /\ NoRun.missing = {} /\ NoRun.legacy = {}
  BY DEF NoRun, RunKinds
<1>2. boot \in [Bootstraps -> RunKinds] /\ \A c \in Bootstraps : boot[c] = NoRun
  BY <1>1 DEF DeployInit
<1>3. DeployTypes
  BY <1>2 DEF DeployInit, DeployTypes, AllKeys
<1>4. RunsAlone /\ KeysAreKnown /\ LegacyIsRead /\ RowsComplete /\ FailsForAReason
  BY <1>1, <1>2 DEF RunsAlone, KeysAreKnown, LegacyIsRead, RowsComplete, FailsForAReason, Running, Locking, Inserted
<1>5. RolesAreRead
  BY <1>1, <1>2 DEF DeployInit, RolesAreRead, Inserted
<1>6. Provisioned /\ GrantsAreKept /\ ServersAreCurrent
  BY DEF DeployInit, Provisioned, GrantsAreKept, ServersAreCurrent
<1>. QED
  BY <1>3, <1>4, <1>5, <1>6 DEF DeployInv

\* One run takes a step of its own: its record becomes x, the tables stay.
LEMMA RunStep ==
  ASSUME DeployInv, NEW c \in Bootstraps, NEW x, boot' = [boot EXCEPT ![c] = x],
         UNCHANGED <<rbacVars, pastVars, behind, server>>,
         Running(c), x \in RunKinds, x.met = boot[c].met, x.missing = boot[c].missing,
         x.pc \notin {"idle", "roles", "done"},
         x.pc = "failed" => x.met \/ x.legacy # {},
         x.pc \in Locking => \A d \in Bootstraps \ {c} : boot[d].pc \notin Locking,
         x.pc \in Inserted /\ x.missing # {} =>
           \A d \in Bootstraps \ {c} : boot[d].pc \in Inserted => boot[d].missing = {},
         x.pc \in Inserted => \A r \in x.missing : roleRows[r] = 0,
         x.pc \in Locking =>
           /\ CatalogueKeys \subseteq x.known /\ keys \subseteq x.known \cup created
           /\ ~x.met => x.known \subseteq keys \cup CatalogueKeys,
         x.pc \in {"bundles", "super", "admin"} => x.legacy = x.known \cap LegacyKeys,
         x.legacy \subseteq LegacyKeys,
         x.pc \in {"super", "admin"} => BundleRows \subseteq x.rows \cup grants \cup revoked,
         x.pc = "admin" =>
           \A k \in x.known \cap (keys \cup CatalogueKeys) : <<Super, k>> \in x.rows \cup grants \cup revoked
  PROVE  DeployInv'
<1>t. /\ DeployTypes /\ RunsAlone /\ RolesAreRead /\ KeysAreKnown /\ LegacyIsRead /\ RowsComplete /\ Provisioned
      /\ GrantsAreKept /\ FailsForAReason /\ ServersAreCurrent
  BY DEF DeployInv
<1>u. UNCHANGED <<roleRows, misranked, keys, grants, admins, provisioned, chosen, revoked, created, server>>
  BY DEF rbacVars, pastVars
<1>1. boot' \in [Bootstraps -> RunKinds] /\ \A d \in Bootstraps : boot'[d] = IF d = c THEN x ELSE boot[d]
  BY <1>t DEF DeployTypes
<1>2. DeployTypes'
  BY <1>t, <1>u, <1>1 DEF DeployTypes
<1>3. RunsAlone'
  <2>1. \A d \in Bootstraps : Running(d)' => Running(d)
    BY <1>1 DEF Running
  <2>2. \A d \in Bootstraps : boot'[d].met = boot[d].met /\ boot'[d].missing = boot[d].missing
    BY <1>1
  <2>3. \A e, d \in Bootstraps : Running(e)' /\ Running(d)' /\ e # d => boot'[e].met
    BY <1>t, <2>1, <2>2 DEF RunsAlone
  <2>4. \A e, d \in Bootstraps : boot'[e].pc \in Locking /\ boot'[d].pc \in Locking => e = d
    BY <1>t, <1>1 DEF RunsAlone
  <2>5. \A e, d \in Bootstraps :
          boot'[e].pc \in Inserted /\ boot'[d].pc \in Inserted /\ boot'[e].missing # {} /\ boot'[d].missing # {} => e = d
    BY <1>t, <1>1 DEF RunsAlone
  <2>. QED
    BY <2>3, <2>4, <2>5 DEF RunsAlone
<1>4. RolesAreRead'
  <2>1. \A d \in Bootstraps : boot'[d].pc \in Inserted \/ (boot'[d].pc = "roles" /\ ~boot'[d].met) =>
          \A r \in boot'[d].missing : roleRows[r] = 0
    BY <1>t, <1>1 DEF RolesAreRead
  <2>2. misranked = {} \/ \A d \in Bootstraps : boot'[d].missing = {}
    BY <1>t, <1>1 DEF RolesAreRead
  <2>. QED
    BY <1>t, <1>u, <2>1, <2>2 DEF RolesAreRead
<1>5. KeysAreKnown'
  BY <1>t, <1>u, <1>1 DEF KeysAreKnown
<1>6. LegacyIsRead'
  BY <1>t, <1>u, <1>1 DEF LegacyIsRead
<1>7. RowsComplete'
  BY <1>t, <1>u, <1>1 DEF RowsComplete
<1>8. Provisioned' /\ GrantsAreKept' /\ ServersAreCurrent'
  BY <1>t, <1>u DEF Provisioned, GrantsAreKept, ServersAreCurrent
<1>9. FailsForAReason'
  BY <1>t, <1>1 DEF FailsForAReason
<1>. QED
  BY <1>2, <1>3, <1>4, <1>5, <1>6, <1>7, <1>8, <1>9 DEF DeployInv

\* Whoever runs has met somebody; nothing else of its record changes.
LEMMA MetFacts ==
  ASSUME DeployTypes, NEW c \in Bootstraps, NEW x, x = [boot[c] EXCEPT !.met = @ \/ Running(c)]
  PROVE  /\ x \in RunKinds /\ x.pc = boot[c].pc /\ x.missing = boot[c].missing /\ x.known = boot[c].known
         /\ x.legacy = boot[c].legacy /\ x.rows = boot[c].rows
         /\ (boot[c].met => x.met) /\ (Running(c) => x.met)
<1>1. boot[c] \in RunKinds
  BY DEF DeployTypes
<1>2. boot[c].met \in BOOLEAN
  BY <1>1 DEF RunKinds
<1>3. CASE Running(c)
  <2>1. (boot[c].met \/ Running(c)) = TRUE
    BY <1>3, Zenon
  <2>2. x = [boot[c] EXCEPT !.met = TRUE]
    BY <2>1
  <2>. QED
    BY <1>1, <1>3, <2>2 DEF RunKinds
<1>4. CASE ~Running(c)
  <2>1. (boot[c].met \/ Running(c)) = boot[c].met
    BY <1>2, <1>4, Zenon
  <2>2. x = [boot[c] EXCEPT !.met = boot[c].met]
    BY <2>1
  <2>3. x = boot[c]
    BY <1>1, <2>2 DEF RunKinds
  <2>. QED
    BY <1>1, <1>4, <2>3 DEF RunKinds
<1>. QED
  BY <1>3, <1>4

LEMMA MeetsFacts ==
  ASSUME DeployTypes, Meets
  PROVE  /\ boot' \in [Bootstraps -> RunKinds]
         /\ \A c \in Bootstraps :
              /\ boot'[c].pc = boot[c].pc /\ boot'[c].missing = boot[c].missing /\ boot'[c].known = boot[c].known
              /\ boot'[c].legacy = boot[c].legacy /\ boot'[c].rows = boot[c].rows
              /\ (boot[c].met => boot'[c].met) /\ (Running(c) => boot'[c].met)
<1>1. \A c \in Bootstraps : boot'[c] = [boot[c] EXCEPT !.met = @ \/ Running(c)]
  BY DEF Meets
<1>3. ASSUME NEW c \in Bootstraps
      PROVE  /\ boot'[c] \in RunKinds /\ boot'[c].pc = boot[c].pc /\ boot'[c].missing = boot[c].missing
             /\ boot'[c].known = boot[c].known /\ boot'[c].legacy = boot[c].legacy /\ boot'[c].rows = boot[c].rows
             /\ (boot[c].met => boot'[c].met) /\ (Running(c) => boot'[c].met)
  <2>. DEFINE x == [boot[c] EXCEPT !.met = @ \/ Running(c)]
  <2>1. /\ x \in RunKinds /\ x.pc = boot[c].pc /\ x.missing = boot[c].missing /\ x.known = boot[c].known
        /\ x.legacy = boot[c].legacy /\ x.rows = boot[c].rows
        /\ (boot[c].met => x.met) /\ (Running(c) => x.met)
    BY MetFacts
  <2>2. boot'[c] = x
    BY <1>1
  <2>. HIDE DEF x
  <2>. QED
    BY <2>1, <2>2
<1>4. boot' = [c \in Bootstraps |-> boot'[c]]
  BY DEF Meets
<1>. QED
  BY <1>3, <1>4

LEMMA LookUpKeepsDeployInv == ASSUME DeployInv, NEW c \in Bootstraps, LookUpRoles(c) PROVE DeployInv'
<1>t. /\ DeployTypes /\ RunsAlone /\ RolesAreRead /\ KeysAreKnown /\ LegacyIsRead /\ RowsComplete /\ Provisioned
      /\ GrantsAreKept /\ FailsForAReason /\ ServersAreCurrent
  BY DEF DeployInv
<1>u. UNCHANGED <<roleRows, misranked, keys, grants, admins, provisioned, chosen, revoked, created, server>>
  BY DEF LookUpRoles, rbacVars, pastVars
<1>. DEFINE m == \E d \in Bootstraps : Running(d)
            s == {r \in CatalogueRoles : roleRows[r] = 0}
            x == [NoRun EXCEPT !.pc = "roles", !.missing = s, !.met = m]
            y(d) == [boot[d] EXCEPT !.met = @ \/ Running(d)]
<1>0. /\ boot[c].pc = "idle" /\ boot' = [d \in Bootstraps |-> IF d = c THEN x ELSE y(d)]
  BY DEF LookUpRoles
<1>1. /\ x \in RunKinds /\ x.pc = "roles" /\ x.missing = {r \in CatalogueRoles : roleRows[r] = 0}
      /\ x.legacy = {} /\ (x.met <=> \E d \in Bootstraps : Running(d))
  <2>1. m \in BOOLEAN /\ s \in SUBSET CatalogueRoles
    OBVIOUS
  <2>. HIDE DEF m, s
  <2>2. NoRun \in RunKinds
    BY DEF NoRun, RunKinds
  <2>3. /\ x.pc = "roles" /\ x.missing = s /\ x.legacy = {} /\ (x.met <=> m)
    BY <2>1, <2>2 DEF RunKinds, NoRun
  <2>4. x \in RunKinds
    BY <2>1, <2>2 DEF RunKinds
  <2>. HIDE DEF x
  <2>. QED
    BY <2>3, <2>4 DEF m, s
<1>. HIDE DEF x
<1>2. ASSUME NEW d \in Bootstraps
      PROVE  /\ y(d) \in RunKinds /\ y(d).pc = boot[d].pc /\ y(d).missing = boot[d].missing /\ y(d).known = boot[d].known
             /\ y(d).legacy = boot[d].legacy /\ y(d).rows = boot[d].rows
             /\ (boot[d].met => y(d).met) /\ (Running(d) => y(d).met)
  BY <1>t, MetFacts
<1>. HIDE DEF y
<1>3. /\ boot' \in [Bootstraps -> RunKinds] /\ boot'[c] = x
      /\ \A d \in Bootstraps \ {c} :
           /\ boot'[d].pc = boot[d].pc /\ boot'[d].missing = boot[d].missing /\ boot'[d].known = boot[d].known
           /\ boot'[d].legacy = boot[d].legacy /\ boot'[d].rows = boot[d].rows
           /\ (boot[d].met => boot'[d].met) /\ (Running(d) => boot'[d].met)
  BY <1>0, <1>1, <1>2
<1>4. DeployTypes'
  BY <1>t, <1>u, <1>3 DEF DeployTypes
<1>5. RunsAlone'
  <2>1. \A e, d \in Bootstraps : boot'[e].pc \in Locking /\ boot'[d].pc \in Locking => e = d
    BY <1>t, <1>1, <1>3 DEF RunsAlone, Locking
  <2>2. \A e, d \in Bootstraps :
          boot'[e].pc \in Inserted /\ boot'[d].pc \in Inserted /\ boot'[e].missing # {} /\ boot'[d].missing # {} => e = d
    BY <1>t, <1>1, <1>3 DEF RunsAlone, Inserted
  <2>3. \A e, d \in Bootstraps : Running(e)' /\ Running(d)' /\ e # d => boot'[e].met
    BY <1>1, <1>3 DEF Running
  <2>. QED
    BY <2>1, <2>2, <2>3 DEF RunsAlone
<1>6. RolesAreRead'
  <2>1. \A d \in Bootstraps : boot'[d].pc \in Inserted \/ (boot'[d].pc = "roles" /\ ~boot'[d].met) =>
          \A r \in boot'[d].missing : roleRows[r] = 0
    BY <1>t, <1>1, <1>3 DEF RolesAreRead
  <2>2. misranked = {} \/ \A d \in Bootstraps : boot'[d].missing = {}
    BY <1>t, <1>1, <1>3 DEF RolesAreRead
  <2>. QED
    BY <1>t, <1>u, <2>1, <2>2 DEF RolesAreRead
<1>7. KeysAreKnown' /\ LegacyIsRead' /\ RowsComplete'
  <2>1. KeysAreKnown'
    BY <1>t, <1>u, <1>1, <1>3 DEF KeysAreKnown, Locking
  <2>2. LegacyIsRead'
    BY <1>t, <1>u, <1>1, <1>3 DEF LegacyIsRead
  <2>3. RowsComplete'
    BY <1>t, <1>u, <1>1, <1>3 DEF RowsComplete
  <2>. QED
    BY <2>1, <2>2, <2>3
<1>8. Provisioned' /\ GrantsAreKept' /\ ServersAreCurrent'
  BY <1>t, <1>u DEF Provisioned, GrantsAreKept, ServersAreCurrent
<1>9. FailsForAReason'
  BY <1>t, <1>1, <1>3 DEF FailsForAReason
<1>. QED
  BY <1>4, <1>5, <1>6, <1>7, <1>8, <1>9 DEF DeployInv

\* An administrator creates or deletes a permission, or changes a grant.
LEMMA AdministratorStep ==
  ASSUME DeployInv, UNCHANGED <<roleRows, misranked, admins, provisioned, server>>,
         boot' \in [Bootstraps -> RunKinds],
         \A c \in Bootstraps :
           /\ boot'[c].pc = boot[c].pc /\ boot'[c].missing = boot[c].missing /\ boot'[c].known = boot[c].known
           /\ boot'[c].legacy = boot[c].legacy /\ boot'[c].rows = boot[c].rows /\ (boot[c].met => boot'[c].met)
           /\ (Running(c) => boot'[c].met) \/ keys \subseteq keys',
         keys' \subseteq AllKeys, grants' \subseteq CatalogueRoles \X AllKeys,
         keys \cap CatalogueKeys \subseteq keys', keys' \ created' \subseteq keys \ created,
         \A c \in Bootstraps : boot[c].pc \in Locking =>
           keys' \cap boot[c].known \subseteq keys /\ keys' \subseteq boot[c].known \cup created',
         \A g \in grants \cup revoked : g[2] \in keys' \cup CatalogueKeys => g \in grants' \cup revoked',
         keys' \cap LegacyKeys \subseteq (keys \cap LegacyKeys) \cup created',
         keys' \cap created \subseteq created', chosen' \subseteq grants'
  PROVE  DeployInv'
<1>t. /\ DeployTypes /\ RunsAlone /\ RolesAreRead /\ KeysAreKnown /\ LegacyIsRead /\ RowsComplete /\ Provisioned
      /\ GrantsAreKept /\ FailsForAReason /\ ServersAreCurrent
  BY DEF DeployInv
<1>2. DeployTypes'
  BY <1>t DEF DeployTypes
<1>3. RunsAlone'
  BY <1>t DEF RunsAlone, Running
<1>4. RolesAreRead'
  BY <1>t DEF RolesAreRead
<1>5. KeysAreKnown'
  <2>1. ASSUME NEW c \in Bootstraps, boot[c].pc \in Locking, ~boot'[c].met
        PROVE  boot[c].known \subseteq keys' \cup CatalogueKeys
    <3>1. Running(c)
      BY <2>1 DEF Running, Locking
    <3>. QED
      BY <1>t, <2>1, <3>1 DEF KeysAreKnown
  <2>. QED
    BY <1>t, <2>1 DEF KeysAreKnown
<1>6. LegacyIsRead'
  BY <1>t DEF LegacyIsRead
<1>b. \A g \in BundleRows : g \in grants \cup revoked => g \in grants' \cup revoked'
  BY BundleFacts
<1>s. \A k \in keys' \cup CatalogueKeys : <<Super, k>> \in grants \cup revoked => <<Super, k>> \in grants' \cup revoked'
  OBVIOUS
<1>7. RowsComplete'
  <2>1. ASSUME NEW c \in Bootstraps, boot[c].pc \in {"super", "admin"}
        PROVE  BundleRows \subseteq boot[c].rows \cup grants' \cup revoked'
    BY <1>b, <1>t, <2>1 DEF RowsComplete
  <2>2. ASSUME NEW c \in Bootstraps, boot[c].pc = "admin", NEW k \in boot[c].known \cap (keys' \cup CatalogueKeys)
        PROVE  <<Super, k>> \in boot[c].rows \cup grants' \cup revoked'
    <3>1. k \in keys \cup CatalogueKeys
      BY <2>2 DEF Locking
    <3>. QED
      BY <1>s, <1>t, <2>2, <3>1 DEF RowsComplete
  <2>. QED
    BY <2>1, <2>2 DEF RowsComplete
<1>8. Provisioned'
  <2>. SUFFICES ASSUME provisioned
       PROVE  /\ CatalogueKeys \subseteq keys' /\ admins = 1 /\ misranked = {}
              /\ BundleRows \subseteq grants' \cup revoked'
              /\ {Super} \X (keys' \ created') \subseteq grants' \cup revoked'
              /\ keys' \cap LegacyKeys \subseteq created'
    BY DEF Provisioned
  <2>1. BundleRows \subseteq grants' \cup revoked'
    BY <1>b, <1>t DEF Provisioned
  <2>2. ASSUME NEW k \in keys' \ created' PROVE <<Super, k>> \in grants' \cup revoked'
    BY <1>s, <1>t, <2>2 DEF Provisioned
  <2>3. {Super} \X (keys' \ created') \subseteq grants' \cup revoked'
    BY <2>2
  <2>4. keys' \cap LegacyKeys \subseteq created'
    BY <1>t DEF Provisioned
  <2>. QED
    BY <1>t, <2>1, <2>3, <2>4 DEF Provisioned
<1>9. GrantsAreKept' /\ ServersAreCurrent'
  BY <1>t DEF GrantsAreKept, ServersAreCurrent
<1>10. FailsForAReason'
  BY <1>t DEF FailsForAReason
<1>. QED
  BY <1>2, <1>3, <1>4, <1>5, <1>6, <1>7, <1>8, <1>9, <1>10 DEF DeployInv

LEMMA CommitKeepsDeployInv == ASSUME DeployInv, NEW c \in Bootstraps, Commit(c) PROVE DeployInv'
<1>t. /\ DeployTypes /\ RunsAlone /\ RolesAreRead /\ KeysAreKnown /\ LegacyIsRead /\ RowsComplete /\ Provisioned
      /\ GrantsAreKept /\ FailsForAReason /\ ServersAreCurrent
  BY DEF DeployInv
<1>. DEFINE x == [NoRun EXCEPT !.pc = "done"]
<1>0. /\ boot[c].pc = "admin" /\ boot' = [boot EXCEPT ![c] = x]
      /\ roleRows' = [r \in CatalogueRoles |-> roleRows[r] + (IF r \in boot[c].missing THEN 1 ELSE 0)]
      /\ misranked' = misranked \cap boot[c].missing
      /\ keys' = (keys \cup CatalogueKeys) \ boot[c].legacy
      /\ grants' = {g \in grants : g[2] \notin boot[c].legacy} \cup boot[c].rows
      /\ admins' = (IF admins = 0 THEN 1 ELSE admins)
      /\ provisioned' = TRUE /\ chosen' = {g \in chosen : g[2] \notin boot[c].legacy}
      /\ revoked' = revoked \ boot[c].rows /\ created' = created \ boot[c].known /\ UNCHANGED server
  BY DEF Commit, Reranked, VisibleKeys, GrantsAfter, AdminsAfter
<1>1. x \in RunKinds /\ x.pc = "done" /\ x.missing = {} /\ x.legacy = {}
  BY DEF NoRun, RunKinds
<1>. HIDE DEF x
<1>2. boot' \in [Bootstraps -> RunKinds] /\ \A d \in Bootstraps : boot'[d] = IF d = c THEN x ELSE boot[d]
  BY <1>t, <1>0, <1>1 DEF DeployTypes
<1>3. /\ boot[c] \in RunKinds /\ boot[c].pc \in Locking /\ boot[c].pc \in Inserted /\ Running(c)
      /\ \A d \in Bootstraps \ {c} : boot[d].pc \notin Locking
  BY <1>t, <1>0 DEF DeployTypes, RunsAlone, Locking, Inserted, Running
<1>4. \A r \in boot[c].missing : roleRows[r] = 0
  BY <1>t, <1>3 DEF RolesAreRead
<1>5. /\ boot[c].missing \subseteq CatalogueRoles /\ boot[c].rows \subseteq CatalogueRoles \X AllKeys
      /\ boot[c].legacy = boot[c].known \cap LegacyKeys
      /\ CatalogueKeys \subseteq boot[c].known /\ keys \subseteq boot[c].known \cup created
      /\ BundleRows \subseteq boot[c].rows \cup grants \cup revoked
      /\ \A k \in boot[c].known \cap (keys \cup CatalogueKeys) : <<Super, k>> \in boot[c].rows \cup grants \cup revoked
  BY <1>t, <1>0, <1>3 DEF RunKinds, LegacyIsRead, KeysAreKnown, RowsComplete
<1>6. DeployTypes'
  <2>1. \A r \in CatalogueRoles : roleRows'[r] \in 0..1
    <3>1. ASSUME NEW r \in CatalogueRoles PROVE roleRows'[r] \in 0..1
      <4>1. roleRows[r] \in 0..1
        BY <1>t DEF DeployTypes
      <4>2. CASE r \in boot[c].missing
        BY <1>0, <1>4, <4>2
      <4>3. CASE r \notin boot[c].missing
        BY <1>0, <4>1, <4>3
      <4>. QED
        BY <4>2, <4>3
    <3>. QED
      BY <3>1
  <2>2. roleRows' \in [CatalogueRoles -> 0..1]
    BY <1>0, <2>1
  <2>3. keys' \subseteq AllKeys
    BY <1>t, <1>0, BundleFacts DEF DeployTypes
  <2>4. grants' \subseteq CatalogueRoles \X AllKeys
    BY <1>t, <1>0, <1>5 DEF DeployTypes
  <2>5. admins' \in 0..1
    BY <1>t, <1>0 DEF DeployTypes
  <2>. QED
    BY <1>2, <2>2, <2>3, <2>4, <2>5 DEF DeployTypes
<1>7. RunsAlone'
  <2>1. \A d \in Bootstraps : Running(d)' => d # c /\ Running(d)
    BY <1>1, <1>2 DEF Running
  <2>2. \A d, e \in Bootstraps : Running(d)' /\ Running(e)' /\ d # e => boot'[d].met
    BY <1>t, <1>2, <2>1 DEF RunsAlone
  <2>. QED
    BY <1>t, <1>1, <1>2, <2>2 DEF RunsAlone, Locking, Inserted
<1>8. RolesAreRead'
  <2>1. misranked' = {}
    BY <1>t, <1>0 DEF RolesAreRead
  <2>2. ASSUME NEW d \in Bootstraps, boot'[d].pc \in Inserted \/ (boot'[d].pc = "roles" /\ ~boot'[d].met),
               NEW r \in boot'[d].missing
        PROVE  roleRows'[r] = 0
    <3>1. d # c /\ boot'[d] = boot[d]
      BY <1>1, <1>2, <2>2
    <3>2. Running(d)
      BY <2>2, <3>1 DEF Running, Inserted
    <3>3. boot[d].met
      BY <1>t, <1>3, <3>1, <3>2 DEF RunsAlone
    <3>4. boot[d].pc \in Inserted /\ r \in boot[d].missing /\ r \in CatalogueRoles
      BY <1>t, <2>2, <3>1, <3>3 DEF DeployTypes, RunKinds
    <3>5. boot[c].missing = {} /\ roleRows[r] = 0
      BY <1>t, <1>3, <3>1, <3>4 DEF RunsAlone, RolesAreRead
    <3>. QED
      BY <1>0, <3>4, <3>5
  <2>. QED
    BY <2>1, <2>2 DEF RolesAreRead
<1>9. KeysAreKnown' /\ LegacyIsRead' /\ RowsComplete'
  <2>1. \A d \in Bootstraps : boot'[d].pc \notin Locking
    BY <1>1, <1>2, <1>3 DEF Locking
  <2>2. LegacyIsRead'
    BY <1>t, <1>1, <1>2 DEF LegacyIsRead
  <2>. QED
    BY <2>1, <2>2 DEF KeysAreKnown, RowsComplete, Locking
<1>10. Provisioned'
  <2>1. CatalogueKeys \subseteq keys' /\ admins' = 1 /\ misranked' = {}
    BY <1>t, <1>0, <1>5, BundleFacts DEF DeployTypes, RolesAreRead
  <2>2. BundleRows \subseteq grants' \cup revoked'
    BY <1>0, <1>5, BundleFacts
  <2>3. ASSUME NEW k \in keys' \ created' PROVE <<Super, k>> \in grants' \cup revoked'
    <3>1. k \in boot[c].known \cap (keys \cup CatalogueKeys) /\ k \notin boot[c].legacy
      BY <1>0, <1>5, <2>3
    <3>2. <<Super, k>> \in boot[c].rows \cup grants \cup revoked
      BY <1>5, <3>1
    <3>. QED
      BY <1>0, <3>1, <3>2
  <2>4. {Super} \X (keys' \ created') \subseteq grants' \cup revoked'
    BY <2>3
  <2>5. keys' \cap LegacyKeys \subseteq created'
    BY <1>0, <1>5, BundleFacts
  <2>. QED
    BY <2>1, <2>2, <2>4, <2>5 DEF Provisioned
<1>11. GrantsAreKept' /\ ServersAreCurrent'
  BY <1>t, <1>0 DEF GrantsAreKept, ServersAreCurrent
<1>12. FailsForAReason'
  BY <1>t, <1>1, <1>2 DEF FailsForAReason
<1>. QED
  BY <1>6, <1>7, <1>8, <1>9, <1>10, <1>11, <1>12 DEF DeployInv

LEMMA DeployInvStep == DeployInv /\ [DeployNext]_deployVars => DeployInv'
<1>. SUFFICES ASSUME DeployInv, [DeployNext]_deployVars PROVE DeployInv'
  OBVIOUS
<1>t. /\ DeployTypes /\ RunsAlone /\ RolesAreRead /\ KeysAreKnown /\ LegacyIsRead /\ RowsComplete /\ Provisioned
      /\ GrantsAreKept /\ FailsForAReason /\ ServersAreCurrent
  BY DEF DeployInv
<1>b. boot \in [Bootstraps -> RunKinds] /\ \A c \in Bootstraps : boot[c] \in RunKinds
  BY <1>t DEF DeployTypes
<1>1. CASE UNCHANGED deployVars
  <2>1. UNCHANGED <<roleRows, misranked, keys, grants, admins, boot, provisioned, chosen, revoked, created, server>>
    BY <1>1 DEF deployVars, rbacVars, pastVars
  <2>2. DeployTypes' /\ RunsAlone' /\ RolesAreRead'
    BY <1>t, <2>1 DEF DeployTypes, RunsAlone, RolesAreRead, Running
  <2>3. KeysAreKnown' /\ LegacyIsRead' /\ RowsComplete' /\ Provisioned'
    BY <1>t, <2>1 DEF KeysAreKnown, LegacyIsRead, RowsComplete, Provisioned
  <2>4. GrantsAreKept' /\ FailsForAReason' /\ ServersAreCurrent'
    BY <1>t, <2>1 DEF GrantsAreKept, FailsForAReason, ServersAreCurrent
  <2>. QED
    BY <2>2, <2>3, <2>4 DEF DeployInv
<1>2. ASSUME NEW c \in Bootstraps, InsertRoles(c) PROVE DeployInv'
  <2>. DEFINE pc == IF Conflicts(c) THEN "failed" ELSE "permissions"
              x == [boot[c] EXCEPT !.pc = pc]
  <2>0. /\ boot[c].pc = "roles" /\ boot' = [boot EXCEPT ![c] = x]
        /\ boot[c].missing # {} =>
             \A d \in Bootstraps \ {c} : Running(d) /\ boot[d].pc # "roles" => boot[d].missing = {}
        /\ UNCHANGED <<rbacVars, pastVars, behind, server>>
    BY <1>2 DEF InsertRoles
  <2>1. pc \in {"failed", "permissions"} /\ (pc = "failed" <=> Conflicts(c))
    OBVIOUS
  <2>. HIDE DEF pc
  <2>2. x \in RunKinds /\ x.pc = pc /\ x.met = boot[c].met /\ x.missing = boot[c].missing /\ x.legacy = boot[c].legacy
    BY <1>b, <2>1 DEF RunKinds, Inserted
  <2>. HIDE DEF x
  <2>3. pc = "failed" => boot[c].met
    BY <1>t, <2>0, <2>1 DEF RolesAreRead, Conflicts
  <2>4. pc = "permissions" => \A r \in boot[c].missing : roleRows[r] = 0
    <3>1. \A r \in boot[c].missing : roleRows[r] \in 0..1
      BY <1>b, <1>t DEF RunKinds, DeployTypes
    <3>. QED
      BY <2>1, <3>1 DEF Conflicts
  <2>5. x.missing # {} => \A d \in Bootstraps \ {c} : boot[d].pc \in Inserted => boot[d].missing = {}
    BY <2>0, <2>2 DEF Running, Inserted
  <2>6. Running(c) /\ x.legacy \subseteq LegacyKeys
    BY <1>t, <2>0, <2>2 DEF Running, LegacyIsRead
  <2>. QED
    BY <2>0, <2>1, <2>2, <2>3, <2>4, <2>5, <2>6, RunStep DEF Inserted, Locking
<1>3. ASSUME NEW c \in Bootstraps, UpsertPermissions(c) PROVE DeployInv'
  <2>. DEFINE x == [boot[c] EXCEPT !.pc = "legacy", !.known = keys \cup CatalogueKeys]
  <2>0. /\ boot[c].pc = "permissions" /\ boot' = [boot EXCEPT ![c] = x]
        /\ \A d \in Bootstraps \ {c} : boot[d].pc \notin Locking
        /\ UNCHANGED <<rbacVars, pastVars, behind, server>>
    BY <1>3 DEF UpsertPermissions, Locked, Locking
  <2>1. keys \cup CatalogueKeys \in SUBSET AllKeys
    BY <1>t, BundleFacts DEF DeployTypes
  <2>2. /\ x \in RunKinds /\ x.pc = "legacy" /\ x.met = boot[c].met /\ x.missing = boot[c].missing
        /\ x.legacy = boot[c].legacy /\ x.known = keys \cup CatalogueKeys
    BY <1>b, <2>1 DEF RunKinds, Inserted
  <2>. HIDE DEF x
  <2>3. Running(c) /\ boot[c].pc \in Inserted
    BY <2>0 DEF Running, Inserted
  <2>4. \A r \in boot[c].missing : roleRows[r] = 0
    BY <1>t, <2>3 DEF RolesAreRead
  <2>5. boot[c].missing # {} => \A d \in Bootstraps \ {c} : boot[d].pc \in Inserted => boot[d].missing = {}
    BY <1>t, <2>3 DEF RunsAlone
  <2>6. x.legacy \subseteq LegacyKeys
    BY <1>t, <2>2 DEF LegacyIsRead
  <2>. QED
    BY <2>0, <2>2, <2>3, <2>4, <2>5, <2>6, RunStep DEF Locking
\* What every run in the middle of its transaction knows.
<1>r. ASSUME NEW c \in Bootstraps, boot[c].pc \in Locking
      PROVE  /\ Running(c) /\ \A d \in Bootstraps \ {c} : boot[d].pc \notin Locking
             /\ boot[c].missing # {} => \A d \in Bootstraps \ {c} : boot[d].pc \in Inserted => boot[d].missing = {}
             /\ \A r \in boot[c].missing : roleRows[r] = 0
             /\ CatalogueKeys \subseteq boot[c].known /\ keys \subseteq boot[c].known \cup created
             /\ ~boot[c].met => boot[c].known \subseteq keys \cup CatalogueKeys
             /\ boot[c].legacy \subseteq LegacyKeys
             /\ boot[c].pc \in {"bundles", "super", "admin"} => boot[c].legacy = boot[c].known \cap LegacyKeys
  <2>1. boot[c].pc \in Inserted /\ Running(c)
    BY <1>r DEF Locking, Inserted, Running
  <2>2. \A d \in Bootstraps \ {c} : boot[d].pc \notin Locking
    BY <1>r, <1>t DEF RunsAlone
  <2>3. boot[c].missing # {} => \A d \in Bootstraps \ {c} : boot[d].pc \in Inserted => boot[d].missing = {}
    BY <1>t, <2>1 DEF RunsAlone
  <2>4. \A r \in boot[c].missing : roleRows[r] = 0
    BY <1>t, <2>1 DEF RolesAreRead
  <2>. QED
    BY <1>r, <1>t, <2>1, <2>2, <2>3, <2>4 DEF KeysAreKnown, LegacyIsRead
<1>4. ASSUME NEW c \in Bootstraps, DeleteLegacy(c) PROVE DeployInv'
  <2>. DEFINE x == [boot[c] EXCEPT !.pc = "bundles", !.legacy = boot[c].known \cap LegacyKeys]
  <2>0. /\ boot[c].pc = "legacy" /\ boot' = [boot EXCEPT ![c] = x]
        /\ UNCHANGED <<rbacVars, pastVars, behind, server>>
    BY <1>4 DEF DeleteLegacy, LegacyAmong
  <2>1. boot[c].known \cap LegacyKeys \in SUBSET AllKeys /\ boot[c].pc \in Locking
    BY <2>0, BundleFacts DEF Locking
  <2>2. /\ x \in RunKinds /\ x.pc = "bundles" /\ x.met = boot[c].met /\ x.missing = boot[c].missing
        /\ x.legacy = boot[c].known \cap LegacyKeys /\ x.known = boot[c].known
    BY <1>b, <2>1 DEF RunKinds, Inserted
  <2>. HIDE DEF x
  <2>. QED
    BY <1>r, <2>0, <2>1, <2>2, RunStep
<1>5. ASSUME NEW c \in Bootstraps, InsertBundles(c) PROVE DeployInv'
  <2>. DEFINE x == [boot[c] EXCEPT !.pc = "super", !.rows = BundleRows \ grants]
  <2>0. /\ boot[c].pc = "bundles" /\ boot' = [boot EXCEPT ![c] = x]
        /\ UNCHANGED <<rbacVars, pastVars, behind, server>>
    BY <1>5 DEF InsertBundles
  <2>1. BundleRows \ grants \in SUBSET (CatalogueRoles \X AllKeys) /\ boot[c].pc \in Locking
    BY <2>0, BundleFacts DEF Locking
  <2>2. /\ x \in RunKinds /\ x.pc = "super" /\ x.met = boot[c].met /\ x.missing = boot[c].missing
        /\ x.legacy = boot[c].legacy /\ x.known = boot[c].known /\ x.rows = BundleRows \ grants
    BY <1>b, <2>1 DEF RunKinds, Inserted
  <2>. HIDE DEF x
  <2>3. BundleRows \subseteq x.rows \cup grants \cup revoked
    BY <2>2
  <2>. QED
    BY <1>r, <2>0, <2>1, <2>2, <2>3, RunStep
<1>6. ASSUME NEW c \in Bootstraps, InsertSuper(c) PROVE DeployInv'
  <2>. DEFINE new == {Super} \X boot[c].known
              rows == boot[c].rows \cup (new \ grants)
              allVisible == \A row \in new : row[2] \in VisibleKeys(c)
              x == [boot[c] EXCEPT !.pc = "admin", !.rows = rows]
              y == [boot[c] EXCEPT !.pc = "failed"]
  <2>0. /\ boot[c].pc = "super" /\ UNCHANGED <<rbacVars, pastVars, behind, server>>
        /\ boot' = [boot EXCEPT ![c] = IF allVisible THEN x ELSE y]
    <3>1. boot[c].pc = "super" /\ UNCHANGED <<rbacVars, pastVars, behind, server>>
      BY <1>6 DEF InsertSuper
    <3>2. boot' = [boot EXCEPT ![c] = boot'[c]]
      BY <1>6, <1>b DEF InsertSuper
    <3>3. ASSUME allVisible PROVE boot'[c] = x
      BY <1>6, <1>b, <3>3 DEF InsertSuper, SuperRows
    <3>4. ASSUME ~allVisible PROVE boot'[c] = y
      BY <1>6, <1>b, <3>4 DEF InsertSuper, SuperRows
    <3>. HIDE DEF allVisible, x, y
    <3>. QED
      BY <3>1, <3>2, <3>3, <3>4
  <2>1. boot[c].pc \in Locking /\ boot[c].known \subseteq AllKeys /\ boot[c].rows \subseteq CatalogueRoles \X AllKeys
    BY <1>b, <2>0 DEF Locking, RunKinds
  <2>2. rows \in SUBSET (CatalogueRoles \X AllKeys)
    BY <2>1, BundleFacts
  <2>3. /\ BundleRows \subseteq rows \cup grants \cup revoked
        /\ \A k \in boot[c].known : <<Super, k>> \in rows \cup grants \cup revoked
    <3>1. BundleRows \subseteq boot[c].rows \cup grants \cup revoked
      BY <1>t, <2>0 DEF RowsComplete
    <3>. QED
      BY <3>1
  <2>4. CASE allVisible
    <3>1. boot' = [boot EXCEPT ![c] = x]
      <4>. HIDE DEF allVisible, x, y
      <4>. QED
        BY <2>0, <2>4
    <3>. HIDE DEF rows
    <3>2. /\ x \in RunKinds /\ x.pc = "admin" /\ x.met = boot[c].met /\ x.missing = boot[c].missing
          /\ x.legacy = boot[c].legacy /\ x.known = boot[c].known /\ x.rows = rows
      BY <1>b, <2>2 DEF RunKinds, Inserted
    <3>. HIDE DEF x
    <3>. QED
      BY <1>r, <2>0, <2>1, <2>3, <3>1, <3>2, RunStep
  <2>5. CASE ~allVisible
    <3>1. boot' = [boot EXCEPT ![c] = y]
      <4>. HIDE DEF allVisible, x, y
      <4>. QED
        BY <2>0, <2>5
    <3>2. /\ y \in RunKinds /\ y.pc = "failed" /\ y.met = boot[c].met /\ y.missing = boot[c].missing
          /\ y.legacy = boot[c].legacy
      BY <1>b DEF RunKinds
    <3>. HIDE DEF y
    <3>3. boot[c].met \/ boot[c].legacy # {}
      BY <1>r, <2>1, <2>5 DEF VisibleKeys
    <3>. QED
      BY <1>r, <2>0, <2>1, <3>1, <3>2, <3>3, RunStep DEF Inserted, Locking
  <2>. QED
    BY <2>4, <2>5
<1>7. ASSUME NEW k \in ExtraKeys, CreatePermission(k) PROVE DeployInv'
  <2>0. /\ k \notin keys /\ \A c \in Bootstraps : Running(c) => k \notin boot[c].known
        /\ keys' = keys \cup {k} /\ created' = created \cup {k} /\ Meets
        /\ UNCHANGED <<roleRows, misranked, grants, admins, provisioned, chosen, revoked, behind, server>>
    BY <1>7 DEF CreatePermission
  <2>1. keys' \subseteq AllKeys
    BY <1>t, <2>0, BundleFacts DEF DeployTypes
  <2>2. \A c \in Bootstraps : boot[c].pc \in Locking => Running(c)
    BY DEF Locking, Running
  <2>3. \A c \in Bootstraps : boot[c].pc \in Locking =>
          keys' \cap boot[c].known \subseteq keys /\ keys' \subseteq boot[c].known \cup created'
    BY <1>t, <2>0, <2>2 DEF KeysAreKnown
  <2>4. grants' \subseteq CatalogueRoles \X AllKeys /\ chosen' \subseteq grants'
    BY <1>t, <2>0 DEF DeployTypes, GrantsAreKept
  <2>. QED
    BY <1>t, <2>0, <2>1, <2>3, <2>4, MeetsFacts, AdministratorStep
<1>8. ASSUME NEW k \in keys, DeletePermission(k) PROVE DeployInv'
  <2>0. /\ k \notin CatalogueKeys
        /\ keys' = keys \ {k} /\ created' = created \ {k} /\ grants' = {g \in grants : g[2] # k}
        /\ chosen' = {g \in chosen : g[2] # k} /\ revoked' = {g \in revoked : g[2] # k} /\ Meets
        /\ UNCHANGED <<roleRows, misranked, admins, provisioned, behind, server>>
    BY <1>8 DEF DeletePermission
  <2>1. keys' \subseteq AllKeys /\ keys \cap CatalogueKeys \subseteq keys'
    BY <1>t, <2>0 DEF DeployTypes
  <2>3. \A c \in Bootstraps : boot[c].pc \in Locking =>
          keys' \cap boot[c].known \subseteq keys /\ keys' \subseteq boot[c].known \cup created'
    BY <1>t, <2>0 DEF KeysAreKnown
  <2>4. grants' \subseteq CatalogueRoles \X AllKeys /\ chosen' \subseteq grants'
    BY <1>t, <2>0 DEF DeployTypes, GrantsAreKept
  <2>5. \A g \in grants \cup revoked : g[2] \in keys' \cup CatalogueKeys => g \in grants' \cup revoked'
    BY <2>0
  <2>6. /\ keys' \ created' \subseteq keys \ created /\ keys' \cap created \subseteq created'
        /\ keys' \cap LegacyKeys \subseteq (keys \cap LegacyKeys) \cup created'
    BY <2>0
  <2>. QED
    BY <1>t, <2>0, <2>1, <2>3, <2>4, <2>5, <2>6, MeetsFacts, AdministratorStep
<1>9. ASSUME NEW r \in CatalogueRoles, NEW k \in keys, Attach(r, k) \/ Detach(r, k) PROVE DeployInv'
  <2>0. /\ UNCHANGED <<roleRows, misranked, keys, admins, boot, provisioned, created, behind, server>>
        /\ \/ /\ grants' = grants \cup {<<r, k>>} /\ chosen' = chosen \cup {<<r, k>>} /\ revoked' = revoked \ {<<r, k>>}
           \/ /\ grants' = grants \ {<<r, k>>} /\ chosen' = chosen \ {<<r, k>>} /\ revoked' = revoked \cup {<<r, k>>}
    BY <1>9 DEF Attach, Detach
  <2>1. grants' \subseteq CatalogueRoles \X AllKeys /\ chosen' \subseteq grants' /\ keys' \subseteq AllKeys
    BY <1>t, <2>0 DEF DeployTypes, GrantsAreKept
  <2>2. \A g \in grants \cup revoked : g \in grants' \cup revoked'
    BY <2>0
  <2>3. \A c \in Bootstraps : boot[c].pc \in Locking =>
          keys' \cap boot[c].known \subseteq keys /\ keys' \subseteq boot[c].known \cup created'
    BY <1>t, <2>0 DEF KeysAreKnown
  <2>. QED
    BY <1>b, <2>0, <2>1, <2>2, <2>3, AdministratorStep
\* The tables and the runs rest.
<1>10. ASSUME UNCHANGED <<rbacVars, boot, pastVars>>, ServersAreCurrent' PROVE DeployInv'
  <2>1. UNCHANGED <<roleRows, misranked, keys, grants, admins, boot, provisioned, chosen, revoked, created>>
    BY <1>10 DEF rbacVars, pastVars
  <2>2. DeployTypes' /\ RunsAlone' /\ RolesAreRead'
    BY <1>t, <2>1 DEF DeployTypes, RunsAlone, RolesAreRead, Running
  <2>3. KeysAreKnown' /\ LegacyIsRead' /\ RowsComplete' /\ Provisioned'
    BY <1>t, <2>1 DEF KeysAreKnown, LegacyIsRead, RowsComplete, Provisioned
  <2>4. GrantsAreKept' /\ FailsForAReason'
    BY <1>t, <2>1 DEF GrantsAreKept, FailsForAReason
  <2>. QED
    BY <1>10, <2>2, <2>3, <2>4 DEF DeployInv
<1>11. CASE Migrate
  <2>1. UNCHANGED <<rbacVars, boot, pastVars>> /\ UNCHANGED server
    BY <1>11 DEF Migrate
  <2>2. ServersAreCurrent'
    BY <1>t, <2>1 DEF ServersAreCurrent
  <2>. QED
    BY <1>10, <2>1, <2>2
<1>12. ASSUME NEW s \in Replicas, Start(s) PROVE DeployInv'
  <2>1. PICK reached \in BOOLEAN :
          /\ reached => ~behind
          /\ server' = [server EXCEPT ![s] = IF reached /\ behind THEN "old" ELSE "up"]
    BY <1>12 DEF Start, MayServe
  <2>2. server' = [server EXCEPT ![s] = "up"]
    BY <2>1
  <2>3. ServersAreCurrent'
    BY <1>t, <2>2 DEF ServersAreCurrent
  <2>4. UNCHANGED <<rbacVars, boot, pastVars>>
    BY <1>12 DEF Start
  <2>. QED
    BY <1>10, <2>3, <2>4
<1>. QED
  BY <1>1, <1>2, <1>3, <1>4, <1>5, <1>6, <1>7, <1>8, <1>9, <1>11, <1>12, LookUpKeepsDeployInv, CommitKeepsDeployInv
     DEF DeployNext

LEMMA DeployInvIsSound == DeployInv => DeploymentSound
<1>. SUFFICES ASSUME DeployInv PROVE DeploymentSound
  OBVIOUS
<1>1. admins <= 1 /\ \A r \in CatalogueRoles : roleRows[r] <= 1
  BY DEF DeployInv, DeployTypes
<1>. QED
  BY <1>1 DEF DeployInv, Provisioned, DeploymentSound, CatalogueIsComplete

(* However many bootstrap runs there are beside administrators, and        *)
(* whatever the database held: once a run has committed the catalogue is   *)
(* complete up to what administrators did since, no run takes back what    *)
(* they granted, a run fails only for a reason and no server serves a      *)
(* schema older than its code (rbac-catalog.ts, ensure-migrations.ts).     *)
THEOREM DeploymentIsSound == DeploySpec => []DeploymentSound
<1>1. DeploySpec => []DeployInv
  BY DeployInvInit, DeployInvStep, PTL DEF DeploySpec
<1>. QED
  BY <1>1, DeployInvIsSound, PTL

-----------------------------------------------------------------------------
(***************************************************************************)
(* The whole: a behaviour works on one part and the others rest.           *)
(***************************************************************************)
LEMMA PartsBegin ==
  DeliveryInit => /\ FanoutInit /\ SocketsInit /\ PushInit /\ PagingInit /\ BoardInit /\ PosterInit
                  /\ GalleryInit /\ LimiterInit /\ ShutdownInit /\ DeployInit
BY DEF DeliveryInit

LEMMA PartsStep ==
  [DeliveryNext]_deliveryVars =>
    /\ [FanoutNext]_fanoutVars /\ [SocketsNext]_socketsVars /\ [PushNext]_pushVars /\ [PagingNext]_pagingVars
    /\ [BoardNext]_boardVars /\ [PosterNext]_posterVars /\ [GalleryNext]_galleryVars
    /\ [LimiterNext]_limiterVars /\ [ShutdownNext]_shutdownVars /\ [DeployNext]_deployVars
BY DEF DeliveryNext, deliveryVars

(* A behaviour of the whole is a behaviour of each part: the parts share   *)
(* no state, so a step of one leaves the others where they are.            *)
THEOREM DeliveryIsItsParts ==
  DeliverySpec => /\ FanoutSpec /\ SocketsSpec /\ PushSpec /\ PagingSpec /\ BoardSpec /\ PosterSpec
                  /\ GallerySpec /\ LimiterSpec /\ ShutdownSpec /\ DeploySpec
BY PartsBegin, PartsStep, PTL
   DEF DeliverySpec, FanoutSpec, SocketsSpec, PushSpec, PagingSpec, BoardSpec, PosterSpec, GallerySpec,
       LimiterSpec, ShutdownSpec, DeploySpec

(* What reaches people, in every behaviour of the whole: notifications in  *)
(* the table, over sockets and to devices, the announcement board, the     *)
(* posters' codes and the gallery.                                         *)
THEOREM DeliveryHolds == DeliverySpec => []DeliverySound
<1>1. FanoutSound /\ SocketsSound /\ PushSound /\ BoardSound /\ PosterSound /\ GallerySound => DeliverySound
  BY DEF DeliverySound
<1>. QED
  BY <1>1, DeliveryIsItsParts, FanoutIsSound, SocketsAreSound, PushIsSound, BoardIsSound, PosterIsSound,
     GalleryIsSound, PTL

(* Lists read page by page while their rows change.                        *)
THEOREM ListsHold == DeliverySpec => []ListsSound
<1>1. PagingSound => ListsSound
  BY DEF ListsSound
<1>. QED
  BY <1>1, DeliveryIsItsParts, PagingIsSound, PTL

(* A server process, in every behaviour of the whole: what its limits let  *)
(* through, what a deployment provisions, and how the process ends.        *)
THEOREM LimitsHold == DeliverySpec => []LimitsSound
<1>1. LimiterSound /\ ShutdownSound /\ DeploymentSound => LimitsSound
  BY DEF LimitsSound
<1>. QED
  BY <1>1, DeliveryIsItsParts, LimiterIsSound, ShutdownIsSound, DeploymentIsSound, PTL
=============================================================================
