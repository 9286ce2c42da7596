------------------------- MODULE AuthSessionsProofs -------------------------
(***************************************************************************)
(* Proofs about AuthSessions for any numbers of handlers, links and        *)
(* bounds: what the cached authority and the loads under way may be older  *)
(* than, and from it that ended sessions stay out.                         *)
(***************************************************************************)
EXTENDS AuthSessions, FiniteSetTheorems, TLAPS

Row == [status : Statuses, deleted : BOOLEAN, version : Nat]

Types ==
  /\ user \in Row
  /\ entry \in Snapshots \cup {None}
  /\ loader \in Ops \cup {None}
  /\ mark \in BOOLEAN
  /\ op \in [Ops -> Handlers]
  /\ known \in Known

\* A snapshot that heeds everything k was told.
Heeds(s, k) ==
  /\ k.version <= s.version
  /\ k.out => s.status = "suspended"
  /\ k.gone => s.status = "suspended"
  /\ k.verified => s.status # "pending"

\* What k was told still holds of the row, and an anonymised row stays so.
Holds(k) == Heeds(Snapshot, k) /\ (k.gone => user.deleted)

\* The one load under way is the loader's.
OneLoad == \A o \in Ops : op[o].pc \in {"loading", "loaded"} => loader = o

RowHeeds == Holds(known)
SinceHeeds == \A o \in Ops : Holds(op[o].since)
EntryHeeds == entry # None => Heeds(entry, known)

\* A load heeds what was told when its request began; unless it is marked,
\* it heeds all that was told.
LoadHeeds ==
  \A o \in Ops : op[o].pc = "loaded" =>
    /\ Heeds(op[o].seen, op[o].since)
    /\ mark \/ Heeds(op[o].seen, known)

ResolvedHeeds ==
  \A o \in Ops : op[o].pc = "resolved" /\ ~op[o].joined => Heeds(op[o].seen, op[o].since)

JoinedKnown == \A o \in Ops : op[o].pc = "joined" => op[o].joined

Heeded == /\ OneLoad /\ RowHeeds /\ SinceHeeds /\ EntryHeeds
          /\ LoadHeeds /\ ResolvedHeeds /\ JoinedKnown

\* Where a handler is no request being resolved.
AsidePC == PC \ {"loading", "loaded", "joined", "resolved"}

\* A step of a handler that is or becomes no request being resolved.
Aside(o) ==
  /\ op'[o].pc \in AsidePC
  /\ op'[o].since \in {op[o].since, Nobody}
Bystep == \A o \in Ops : op'[o] = op[o] \/ Aside(o)

\* A step that lets whatever was told of the row still hold.
RowKept == \A k \in Known : Holds(k) => Holds(k)'

-----------------------------------------------------------------------------
LEMMA NobodyTold == Nobody \in Known /\ Idle \in Handlers
<1>1. Nobody \in Known
  BY DEF Nobody, Known
<1> QED
  BY <1>1 DEF Idle, Handlers, PC, Snapshots, Statuses

LEMMA RowHoldsNobody == ASSUME Types PROVE Holds(Nobody)
<1>1. user.version \in Nat
  BY DEF Types, Row
<1> QED
  BY <1>1 DEF Holds, Heeds, Snapshot, Nobody

LEMMA SnapshotType == ASSUME Types PROVE Snapshot \in Snapshots
  BY DEF Types, Row, Snapshot, Snapshots, Statuses

\* The first state.
LEMMA InitHeeded == Init => Types /\ Heeded
<1> SUFFICES ASSUME Init PROVE Types /\ Heeded
  OBVIOUS
<1>1. user \in Row
  <2>1. \/ user = [status |-> "pending", deleted |-> FALSE, version |-> 0]
        \/ user = [status |-> "active", deleted |-> FALSE, version |-> 0]
    BY DEF Init
  <2>2. \A s \in Statuses : [status |-> s, deleted |-> FALSE, version |-> 0] \in Row
    BY DEF Row
  <2> QED
    BY <2>1, <2>2 DEF Statuses
<1>2. Types
  BY <1>1, NobodyTold DEF Init, Types
<1>3. \A o \in Ops : op[o] = Idle
  BY DEF Init
<1>4. OneLoad /\ LoadHeeds /\ ResolvedHeeds /\ JoinedKnown
  BY <1>3 DEF OneLoad, LoadHeeds, ResolvedHeeds, JoinedKnown, Idle
<1>5. RowHeeds /\ EntryHeeds
  BY <1>2, RowHoldsNobody DEF Init, RowHeeds, EntryHeeds
<1>6. SinceHeeds
  BY <1>2, <1>3, RowHoldsNobody DEF SinceHeeds, Idle
<1> QED
  BY <1>2, <1>4, <1>5, <1>6 DEF Heeded

\* A step beside the requests, which may write the row upwards or lose the
\* cache entry, keeps what is told.
LEMMA BystepKeeps ==
  ASSUME Types, Types', Heeded, Bystep, RowKept,
         known' = known, loader' = loader, mark' = mark, entry' \in {entry, None}
  PROVE  Heeded'
<1>1. RowHeeds'
  BY DEF Types, Heeded, RowHeeds, RowKept, Holds
<1>2. OneLoad' /\ JoinedKnown'
  BY DEF Heeded, OneLoad, JoinedKnown, Bystep, Aside, AsidePC
<1>3. SinceHeeds'
  <2>1. ASSUME NEW o \in Ops, NEW k \in Known, k = op'[o].since
        PROVE  Holds(k)'
    <3>1. k = op[o].since \/ k = Nobody
      BY <2>1 DEF Bystep, Aside
    <3>2. Holds(k)
      BY <3>1, RowHoldsNobody DEF Heeded, SinceHeeds
    <3> QED
      BY <3>2 DEF RowKept
  <2>2. \A o \in Ops : op'[o].since \in Known
    BY DEF Types, Handlers
  <2> QED
    BY <2>1, <2>2 DEF SinceHeeds, Holds
<1>4. EntryHeeds'
  BY DEF Heeded, EntryHeeds, Heeds
<1>5. LoadHeeds'
  BY DEF Heeded, LoadHeeds, Bystep, Aside, AsidePC, Heeds
<1>6. ResolvedHeeds'
  BY DEF Heeded, ResolvedHeeds, Bystep, Aside, AsidePC, Heeds
<1> QED
  BY <1>1, <1>2, <1>3, <1>4, <1>5, <1>6 DEF Heeded

LEMMA Keeps ==
  ASSUME Types, Heeded, user' \in Row, RowKept, op' \in [Ops -> Handlers], Bystep,
         known' = known, loader' = loader, mark' = mark, entry' \in {entry, None}
  PROVE  Types' /\ Heeded'
<1>1. Types'
  BY DEF Types
<1> QED
  BY <1>1, BystepKeeps

LEMMA AsideMove ==
  ASSUME Types, NEW o \in Ops, NEW h \in Handlers, h.pc \in AsidePC,
         h.since \in {op[o].since, Nobody}, op' = [op EXCEPT ![o] = h]
  PROVE  op' \in [Ops -> Handlers] /\ Bystep
<1>1. \A x \in Ops : op'[x] = IF x = o THEN h ELSE op[x]
  BY DEF Types
<1> QED
  BY <1>1 DEF Types, Bystep, Aside

\* The ways a handler moves on.
LEMMA MovesAside ==
  ASSUME Types, NEW o \in Ops, NEW pc \in AsidePC, Goto(o, pc) \/ Proceed(o, pc) \/ Finish(o)
  PROVE  op' \in [Ops -> Handlers] /\ Bystep
<1>0. pc \in PC
  BY DEF AsidePC
<1>1. CASE Goto(o, pc)
  <2>1. [op[o] EXCEPT !.pc = pc] \in Handlers
    BY <1>0 DEF Types, Handlers
  <2>2. [op[o] EXCEPT !.pc = pc].pc = pc /\ [op[o] EXCEPT !.pc = pc].since = op[o].since
    BY DEF Types, Handlers
  <2> QED
    BY <1>1, <2>1, <2>2, AsideMove DEF Goto
<1>2. CASE Proceed(o, pc)
  <2>1. [Idle EXCEPT !.pc = pc] \in Handlers
    BY <1>0, NobodyTold DEF Handlers
  <2>2. [Idle EXCEPT !.pc = pc].pc = pc /\ [Idle EXCEPT !.pc = pc].since = Nobody
    BY DEF Idle
  <2> QED
    BY <1>2, <2>1, <2>2, AsideMove DEF Proceed
<1>3. CASE Finish(o)
  <2>1. Idle.pc \in AsidePC /\ Idle.since = Nobody
    BY DEF Idle, AsidePC, PC
  <2> QED
    BY <1>3, <2>1, NobodyTold, AsideMove DEF Finish
<1> QED
  BY <1>1, <1>2, <1>3

\* A step beside the requests that leaves the row and the cache alone.
Quiet == UNCHANGED <<user, entry, loader, mark, known>>

LEMMA QuietKeeps ==
  ASSUME Types, Heeded, Quiet, op' \in [Ops -> Handlers], Bystep
  PROVE  Types' /\ Heeded'
<1>1. RowKept
  BY DEF Quiet, RowKept, Holds, Heeds, Snapshot
<1> QED
  BY <1>1, Keeps DEF Quiet, Types

LEMMA QuietMove ==
  ASSUME Types, Heeded, Quiet, NEW o \in Ops,
         NEW pc \in AsidePC, Goto(o, pc) \/ Proceed(o, pc) \/ Finish(o)
  PROVE  Types' /\ Heeded'
BY MovesAside, QuietKeeps

\* The writes of the row that suspend, forget or give a new password.
LEMMA WriteMove ==
  ASSUME Types, Heeded, NEW o \in Ops,
         NEW pc \in AsidePC, Goto(o, pc) \/ Proceed(o, pc),
         \/ user' = [user EXCEPT !.status = "suspended"]
         \/ user' = [user EXCEPT !.status = "suspended", !.deleted = TRUE]
         \/ user' = [user EXCEPT !.version = @ + 1],
         UNCHANGED <<entry, loader, mark, known>>
  PROVE  Types' /\ Heeded'
<1>1. op' \in [Ops -> Handlers] /\ Bystep
  BY MovesAside
<1>2. user.status \in Statuses /\ user.deleted \in BOOLEAN /\ user.version \in Nat
  BY DEF Types, Row
<1>3. user = [status |-> user.status, deleted |-> user.deleted, version |-> user.version]
  BY DEF Types, Row
<1>4. /\ user' \in Row
      /\ user.version <= user'.version
      /\ user.deleted => user'.deleted
      /\ user'.status \in {user.status, "suspended"}
  <2>1. \A s \in Statuses, d \in BOOLEAN, v \in Nat :
          [status |-> s, deleted |-> d, version |-> v] \in Row
    BY DEF Row
  <2>2. CASE user' = [user EXCEPT !.status = "suspended"]
    <3>1. user' = [status |-> "suspended", deleted |-> user.deleted, version |-> user.version]
      BY <1>3, <2>2
    <3>2. user' \in Row
      BY <1>2, <2>1, <3>1 DEF Statuses
    <3> QED
      BY <1>2, <3>1, <3>2
  <2>3. CASE user' = [user EXCEPT !.status = "suspended", !.deleted = TRUE]
    <3>1. user' = [status |-> "suspended", deleted |-> TRUE, version |-> user.version]
      BY <1>3, <2>3
    <3>2. user' \in Row
      BY <1>2, <2>1, <3>1 DEF Statuses
    <3> QED
      BY <1>2, <3>1, <3>2
  <2>4. CASE user' = [user EXCEPT !.version = @ + 1]
    <3>1. user' = [status |-> user.status, deleted |-> user.deleted,
                   version |-> user.version + 1]
      BY <1>3, <2>4
    <3>2. user' \in Row
      BY <1>2, <2>1, <3>1
    <3> QED
      BY <1>2, <3>1, <3>2
  <2> QED
    BY <2>2, <2>3, <2>4
<1>5. RowKept
  BY <1>2, <1>4 DEF RowKept, Holds, Heeds, Snapshot, Row, Known
<1> QED
  BY <1>1, <1>4, <1>5, Keeps

\* What is asked of a handler once the status active is written.
Freed(k) == [k EXCEPT !.out = FALSE]

LEMMA FreedKnown ==
  ASSUME NEW k \in Known
  PROVE  /\ Freed(k) \in Known
         /\ Freed(k).version = k.version /\ Freed(k).gone = k.gone
         /\ Freed(k).verified = k.verified /\ ~Freed(k).out
<1>1. Freed(k) \in Known
  BY DEF Known, Freed
<1>2. Freed(k).version = k.version
  BY DEF Known, Freed
<1>3. Freed(k).gone = k.gone
  BY DEF Known, Freed
<1>4. Freed(k).verified = k.verified
  BY DEF Known, Freed
<1>5. ~Freed(k).out
  BY DEF Known, Freed
<1> QED
  BY <1>1, <1>2, <1>3, <1>4, <1>5

LEMMA LiftKeeps ==
  ASSUME Types, Heeded, NEW o \in Ops, Lift(o), UNCHANGED <<entry, loader, mark>>
  PROVE  Types' /\ Heeded'
<1> DEFINE Dropping == [Idle EXCEPT !.pc = "dropping"]
           Lifted(h) == [h EXCEPT !.since.out = FALSE]
<1>1. /\ Dropping \in Handlers
      /\ Dropping.pc = "dropping" /\ Dropping.since = Nobody
  BY NobodyTold DEF Handlers, Idle, PC
<1>2. \A x \in Ops : /\ Lifted(op[x]) \in Handlers
                     /\ Lifted(op[x]).pc = op[x].pc /\ Lifted(op[x]).seen = op[x].seen
                     /\ Lifted(op[x]).joined = op[x].joined
                     /\ Lifted(op[x]).since = Freed(op[x].since)
  <2> TAKE x \in Ops
  <2>1. op[x] \in Handlers /\ op[x].since \in Known
    BY DEF Types, Handlers
  <2>2. Lifted(op[x]) = [op[x] EXCEPT !.since = Freed(op[x].since)]
    BY DEF Freed
  <2>3. [op[x] EXCEPT !.since = Freed(op[x].since)] \in Handlers
    BY <2>1, FreedKnown DEF Handlers
  <2> QED
    BY <2>1, <2>2, <2>3 DEF Handlers
<1>3. \A x \in Ops : op'[x] = IF x = o THEN Dropping ELSE Lifted(op[x])
  BY DEF Lift
<1>4. op' \in [Ops -> Handlers]
  BY <1>1, <1>2 DEF Lift
<1> HIDE DEF Dropping, Lifted
<1>5. known \in Known /\ known' = Freed(known) /\ known' \in Known
  BY FreedKnown DEF Types, Lift, Freed
<1>6. /\ user' \in Row /\ user'.status = "active"
      /\ user'.deleted = user.deleted /\ user'.version = user.version
  <2>1. user.deleted \in BOOLEAN /\ user.version \in Nat
    BY DEF Types, Row
  <2>2. user = [status |-> user.status, deleted |-> user.deleted, version |-> user.version]
    BY DEF Types, Row
  <2>3. user' = [status |-> "active", deleted |-> user.deleted, version |-> user.version]
    BY <2>2 DEF Lift
  <2>4. \A st \in Statuses, d \in BOOLEAN, v \in Nat :
          [status |-> st, deleted |-> d, version |-> v] \in Row
    BY DEF Row
  <2>5. user' \in Row
    BY <2>1, <2>3, <2>4 DEF Statuses
  <2> QED
    BY <2>3, <2>5
<1>7. ASSUME NEW k \in Known, Holds(k) PROVE Holds(Freed(k))'
  <2>1. k.version <= user'.version /\ (k.gone => user'.deleted)
    BY <1>6, <1>7 DEF Holds, Heeds, Snapshot
  <2> QED
    BY <1>6, <2>1, FreedKnown DEF Holds, Heeds, Snapshot, Freed
<1>8. \A s : \A k \in Known : Heeds(s, k) => Heeds(s, Freed(k))
  BY FreedKnown DEF Heeds
<1>9. \A x \in Ops : op[x].since \in Known
  BY DEF Types, Handlers
<1>10. Types'
  BY <1>4, <1>5, <1>6 DEF Types
<1>11. OneLoad' /\ JoinedKnown'
  BY <1>1, <1>2, <1>3 DEF Heeded, OneLoad, JoinedKnown
<1>12. RowHeeds'
  BY <1>5, <1>7 DEF Heeded, RowHeeds, Holds
<1>13. SinceHeeds'
  <2>1. ASSUME NEW x \in Ops, x # o PROVE Holds(op[x].since) /\ op'[x].since = Freed(op[x].since)
    BY <1>2, <1>3, <2>1 DEF Heeded, SinceHeeds
  <2>2. ASSUME NEW x \in Ops, NEW k \in Known, Holds(k), op'[x].since = Freed(k)
        PROVE  Holds(op[x].since)'
    BY <1>7, <2>2 DEF Holds
  <2>3. Holds(Nobody)'
    BY <1>10, RowHoldsNobody, <1>6 DEF Holds, Heeds, Snapshot, Nobody, Row
  <2>4. op'[o].since = Nobody
    BY <1>1, <1>3
  <2>5. Holds(op[o].since)'
    BY <2>3, <2>4 DEF Holds
  <2> QED
    BY <1>9, <2>1, <2>2, <2>5 DEF SinceHeeds
<1>14. EntryHeeds'
  BY <1>5, <1>8 DEF Heeded, EntryHeeds
<1>15. LoadHeeds'
  BY <1>1, <1>2, <1>3, <1>5, <1>8, <1>9 DEF Heeded, LoadHeeds
<1>16. ResolvedHeeds'
  BY <1>1, <1>2, <1>3, <1>8, <1>9 DEF Heeded, ResolvedHeeds
<1> QED
  BY <1>10, <1>11, <1>12, <1>13, <1>14, <1>15, <1>16 DEF Heeded

\* The drop of the cache entry: the row as it is is told, a load is marked.
LEMMA DropKeeps ==
  ASSUME Types, Heeded, NEW o \in Ops, DropAuthority(o), Told, Finish(o),
         UNCHANGED <<user, loader>>
  PROVE  Types' /\ Heeded'
<1>1. op' \in [Ops -> Handlers] /\ Bystep
  <2>1. "idle" \in AsidePC
    BY DEF AsidePC, PC
  <2> QED
    BY <2>1, MovesAside
<1>2. user.status \in Statuses /\ user.deleted \in BOOLEAN /\ user.version \in Nat
  BY DEF Types, Row
<1>3. known' \in Known
  <2>1. \A v \in Nat, a \in BOOLEAN, g \in BOOLEAN, d \in BOOLEAN :
          [version |-> v, out |-> a, gone |-> g, verified |-> d] \in Known
    BY DEF Known
  <2>2. (user.status = "suspended") \in BOOLEAN /\ (user.status # "pending") \in BOOLEAN
    OBVIOUS
  <2> QED
    BY <1>2, <2>1, <2>2, Zenon DEF Told
<1>4. Types'
  BY <1>1, <1>3 DEF Types, DropAuthority
<1>5. RowHeeds'
  <2>1. /\ known'.version = user.version /\ (known'.gone => user.deleted)
        /\ (known'.out => user.status = "suspended")
        /\ (known'.verified => user.status # "pending")
    BY DEF Told
  <2> QED
    BY <1>2, <2>1 DEF RowHeeds, Holds, Heeds, Snapshot
<1>6. OneLoad' /\ JoinedKnown'
  BY <1>1 DEF Heeded, OneLoad, JoinedKnown, Bystep, Aside, AsidePC
<1>7. SinceHeeds'
  <2>1. ASSUME NEW x \in Ops PROVE op'[x].since = op[x].since \/ op'[x].since = Nobody
    BY <1>1 DEF Bystep, Aside
  <2>2. \A x \in Ops : Holds(op[x].since) /\ Holds(Nobody)
    BY RowHoldsNobody DEF Heeded, SinceHeeds
  <2> QED
    BY <2>1, <2>2 DEF SinceHeeds, Holds, Heeds, Snapshot
<1>8. EntryHeeds'
  BY DEF EntryHeeds, DropAuthority
<1>9. LoadHeeds'
  <2>1. ASSUME NEW x \in Ops, op'[x].pc = "loaded"
        PROVE  op'[x] = op[x] /\ mark'
    <3>1. op'[x] = op[x]
      BY <1>1, <2>1 DEF Bystep, Aside, AsidePC
    <3>2. loader = x
      BY <2>1, <3>1 DEF Heeded, OneLoad
    <3> QED
      BY <3>1, <3>2, NoneIsNone DEF DropAuthority
  <2> QED
    BY <2>1 DEF Heeded, LoadHeeds
<1>10. ResolvedHeeds'
  BY <1>1 DEF Heeded, ResolvedHeeds, Bystep, Aside, AsidePC
<1> QED
  BY <1>4, <1>5, <1>6, <1>7, <1>8, <1>9, <1>10 DEF Heeded

-----------------------------------------------------------------------------
(***************************************************************************)
(* The steps of a request being resolved.                                  *)
(***************************************************************************)
LEMMA RequestKeeps ==
  ASSUME Types, Heeded, NEW o \in Ops, NEW v \in Nat, Request(o, v)
  PROVE  Types' /\ Heeded'
<1> DEFINE r == [Idle EXCEPT !.claim = v, !.since = known]
<1>1. r \in Handlers /\ r.since = known
  BY NobodyTold DEF Types, Handlers, Idle
<1>2. PICK h \in Handlers :
        /\ op' = [op EXCEPT ![o] = h]
        /\ h.since = known
        /\ \/ h.pc = "resolved" /\ entry # None /\ h.seen = entry /\ loader' = loader
           \/ h.pc = "joined" /\ h.joined /\ loader' = loader
           \/ h.pc = "loading" /\ loader = None /\ loader' = o
  <2>1. CASE entry # None /\ loader' = loader
             /\ op' = [op EXCEPT ![o] = [r EXCEPT !.pc = "resolved", !.seen = entry]]
    <3>1. [r EXCEPT !.pc = "resolved", !.seen = entry] \in Handlers
      BY <1>1, <2>1 DEF Types, Handlers, PC
    <3>2. /\ [r EXCEPT !.pc = "resolved", !.seen = entry].since = known
          /\ [r EXCEPT !.pc = "resolved", !.seen = entry].pc = "resolved"
          /\ [r EXCEPT !.pc = "resolved", !.seen = entry].seen = entry
      BY <1>1 DEF Handlers
    <3> QED
      BY <2>1, <3>1, <3>2
  <2>2. CASE loader' = loader
             /\ op' = [op EXCEPT ![o] = [r EXCEPT !.pc = "joined", !.joined = TRUE]]
    <3>1. [r EXCEPT !.pc = "joined", !.joined = TRUE] \in Handlers
      BY <1>1 DEF Handlers, PC
    <3>2. [r EXCEPT !.pc = "joined", !.joined = TRUE].since = known
      BY <1>1 DEF Handlers
    <3>3. [r EXCEPT !.pc = "joined", !.joined = TRUE].pc = "joined"
      BY <1>1 DEF Handlers
    <3>4. [r EXCEPT !.pc = "joined", !.joined = TRUE].joined
      BY <1>1 DEF Handlers
    <3> QED
      BY <2>2, <3>1, <3>2, <3>3, <3>4
  <2>3. CASE loader = None /\ loader' = o
             /\ op' = [op EXCEPT ![o] = [r EXCEPT !.pc = "loading"]]
    <3>1. [r EXCEPT !.pc = "loading"] \in Handlers
      BY <1>1 DEF Handlers, PC
    <3>2. [r EXCEPT !.pc = "loading"].since = known /\ [r EXCEPT !.pc = "loading"].pc = "loading"
      BY <1>1 DEF Handlers
    <3> QED
      BY <2>3, <3>1, <3>2
  <2> QED
    BY <2>1, <2>2, <2>3 DEF Request
<1>3. UNCHANGED <<user, entry, mark, known>>
  BY DEF Request, history
<1>4. \A x \in Ops : op'[x] = IF x = o THEN h ELSE op[x]
  BY <1>2 DEF Types
<1>5. Types'
  BY <1>2, <1>3 DEF Types
<1>6. RowHeeds' /\ EntryHeeds'
  BY <1>3 DEF Heeded, RowHeeds, EntryHeeds, Holds, Heeds, Snapshot
<1>7. OneLoad'
  BY <1>2, <1>4, NoneIsNone DEF Heeded, OneLoad
<1>8. JoinedKnown'
  BY <1>2, <1>4 DEF Heeded, JoinedKnown
<1>9. SinceHeeds'
  <2>1. ASSUME NEW x \in Ops PROVE Holds(op[x].since) /\ Holds(known)
    BY DEF Heeded, SinceHeeds, RowHeeds
  <2>2. ASSUME NEW x \in Ops PROVE op'[x].since \in {op[x].since, known}
    BY <1>2, <1>4
  <2> QED
    BY <1>3, <2>1, <2>2 DEF SinceHeeds, Holds, Heeds, Snapshot
<1>10. LoadHeeds'
  BY <1>2, <1>3, <1>4 DEF Heeded, LoadHeeds
<1>11. ResolvedHeeds'
  BY <1>2, <1>4 DEF Heeded, ResolvedHeeds, EntryHeeds
<1> QED
  BY <1>5, <1>6, <1>7, <1>8, <1>9, <1>10, <1>11 DEF Heeded

LEMMA LoadRowKeeps ==
  ASSUME Types, Heeded, NEW o \in Ops, LoadRow(o)
  PROVE  Types' /\ Heeded'
<1>1. PICK h \in Handlers :
        /\ op' = [op EXCEPT ![o] = h]
        /\ h.pc = "loaded" /\ h.seen = Snapshot /\ h.since = op[o].since
  <2>1. [op[o] EXCEPT !.pc = "loaded", !.seen = Snapshot] \in Handlers
    BY SnapshotType DEF Types, Handlers, PC
  <2>2. /\ [op[o] EXCEPT !.pc = "loaded", !.seen = Snapshot].pc = "loaded"
        /\ [op[o] EXCEPT !.pc = "loaded", !.seen = Snapshot].seen = Snapshot
        /\ [op[o] EXCEPT !.pc = "loaded", !.seen = Snapshot].since = op[o].since
    BY DEF Types, Handlers
  <2>3. op' = [op EXCEPT ![o] = [op[o] EXCEPT !.pc = "loaded", !.seen = Snapshot]]
    BY DEF LoadRow, Types
  <2> QED
    BY <2>1, <2>2, <2>3
<1>2. UNCHANGED <<user, entry, loader, mark, known>>
  BY DEF LoadRow, cacheVars, history
<1>3. \A x \in Ops : op'[x] = IF x = o THEN h ELSE op[x]
  BY <1>1 DEF Types
<1>4. Types'
  BY <1>1, <1>2 DEF Types
<1>5. RowHeeds' /\ EntryHeeds'
  BY <1>2 DEF Heeded, RowHeeds, EntryHeeds, Holds, Heeds, Snapshot
<1>6. OneLoad'
  BY <1>2, <1>3 DEF Heeded, OneLoad, LoadRow, At
<1>7. JoinedKnown' /\ ResolvedHeeds'
  BY <1>1, <1>3 DEF Heeded, JoinedKnown, ResolvedHeeds
<1>8. SinceHeeds'
  <2>1. \A x \in Ops : op'[x].since = op[x].since
    BY <1>1, <1>3
  <2> QED
    BY <1>2, <2>1 DEF Heeded, SinceHeeds, Holds, Heeds, Snapshot
<1>9. LoadHeeds'
  <2>1. Heeds(Snapshot, op[o].since) /\ Heeds(Snapshot, known)
    BY DEF Heeded, SinceHeeds, RowHeeds, Holds
  <2> QED
    BY <1>1, <1>2, <1>3, <2>1 DEF Heeded, LoadHeeds
<1> QED
  BY <1>4, <1>5, <1>6, <1>7, <1>8, <1>9 DEF Heeded

LEMMA SettleKeeps ==
  ASSUME Types, Heeded, NEW o \in Ops, Settle(o)
  PROVE  Types' /\ Heeded'
<1> DEFINE Given(x) == [op[x] EXCEPT !.pc = "resolved", !.seen = op[o].seen]
<1>1. \A x \in Ops : /\ Given(x) \in Handlers
                     /\ Given(x).pc = "resolved" /\ Given(x).seen = op[o].seen
                     /\ Given(x).joined = op[x].joined /\ Given(x).since = op[x].since
  BY DEF Types, Handlers, PC
<1>2. \A x \in Ops : op'[x] = IF x = o \/ op[x].pc = "joined" THEN Given(x) ELSE op[x]
  BY DEF Settle
<1>3. op' \in [Ops -> Handlers]
  BY <1>1 DEF Settle, Types
<1> HIDE DEF Given
<1>4. UNCHANGED <<user, known>> /\ loader' = None /\ mark' = FALSE
  BY DEF Settle, history
<1>5. op[o].pc = "loaded" /\ loader = o /\ op[o].seen \in Snapshots
  BY DEF Settle, At, Heeded, OneLoad, Types, Handlers
<1>6. entry' = IF mark THEN entry ELSE op[o].seen
  BY DEF Settle, CacheLoaded
<1>7. Types'
  BY <1>3, <1>4, <1>5, <1>6 DEF Types
<1>8. RowHeeds'
  BY <1>4 DEF Heeded, RowHeeds, Holds, Heeds, Snapshot
<1>9. EntryHeeds'
  BY <1>4, <1>5, <1>6 DEF Heeded, EntryHeeds, LoadHeeds
<1>10. SinceHeeds'
  <2>1. \A x \in Ops : op'[x].since = op[x].since
    BY <1>1, <1>2
  <2> QED
    BY <1>4, <2>1 DEF Heeded, SinceHeeds, Holds, Heeds, Snapshot
<1>11. \A x \in Ops : op'[x].pc \notin {"loading", "loaded"}
  BY <1>1, <1>2, <1>5 DEF Heeded, OneLoad
<1>12. OneLoad' /\ LoadHeeds'
  BY <1>11 DEF OneLoad, LoadHeeds
<1>13. JoinedKnown'
  BY <1>1, <1>2 DEF JoinedKnown
<1>14. ResolvedHeeds'
  <2>1. ASSUME NEW x \in Ops, op'[x].pc = "resolved", ~op'[x].joined
        PROVE  Heeds(op'[x].seen, op'[x].since)
    <3>1. CASE x = o
      BY <1>1, <1>2, <1>5, <3>1 DEF Heeded, LoadHeeds
    <3>2. CASE x # o /\ op[x].pc = "joined"
      BY <1>1, <1>2, <2>1, <3>2 DEF Heeded, JoinedKnown
    <3>3. CASE x # o /\ op[x].pc # "joined"
      BY <1>2, <2>1, <3>3 DEF Heeded, ResolvedHeeds
    <3> QED
      BY <3>1, <3>2, <3>3
  <2> QED
    BY <2>1 DEF ResolvedHeeds
<1> QED
  BY <1>7, <1>8, <1>9, <1>10, <1>12, <1>13, <1>14 DEF Heeded

LEMMA CrashKeeps ==
  ASSUME Types, Heeded, Crash
  PROVE  Types' /\ Heeded'
<1>1. \A x \in Ops : op'[x] = Idle
  BY DEF Crash
<1>2. UNCHANGED <<user, entry, known>> /\ loader' = None /\ mark' = FALSE
  BY DEF Crash, history
<1>3. Types'
  BY <1>1, <1>2, NobodyTold DEF Types, Crash
<1>4. RowHeeds' /\ EntryHeeds'
  BY <1>2 DEF Heeded, RowHeeds, EntryHeeds, Holds, Heeds, Snapshot
<1>5. OneLoad' /\ LoadHeeds' /\ ResolvedHeeds' /\ JoinedKnown'
  BY <1>1 DEF OneLoad, LoadHeeds, ResolvedHeeds, JoinedKnown, Idle
<1>6. SinceHeeds'
  <2>1. Idle.since = Nobody
    BY DEF Idle
  <2> QED
    BY <1>1, <1>2, <2>1, RowHoldsNobody DEF SinceHeeds, Holds, Heeds, Snapshot
<1> QED
  BY <1>3, <1>4, <1>5, <1>6 DEF Heeded

-----------------------------------------------------------------------------
\* Every JWT carries a tokenVersion that the account had.
Minted == tokens \subseteq Nat

LEMMA MintedKept == ASSUME Types, Minted, [Next]_vars PROVE Minted'
<1>1. CASE UNCHANGED tokens
  BY <1>1 DEF Minted
<1>2. CASE \E o \in Ops : Login(o)
  BY <1>2 DEF Minted, Login, Types, Handlers
<1>3. UNCHANGED tokens \/ \E o \in Ops : Login(o)
  BY DEF Next, vars, Request, LoadRow, Settle, Admit, Refuse, Answer, IssueWsTicket,
     ChangePassword, LoginRead, AskForLink, InvalidateLinks, CreateLink, Follow,
     CompleteReset, ResetRefused, MarkVerificationUsed, ActivateUser, Moderate, Ban, Unban,
     Anonymize, SetPassword, RevokeUserSessions, InvalidateUserPermissions, Fail,
     LinkExpires, ConsumeWsTicket, AddConnection, RemoveConnection, TicketExpires,
     EntryExpires, Crash
<1> QED
  BY <1>1, <1>2, <1>3

\* The steps of a handler that leave the row and the cache alone.
LEMMA HandlerKeeps ==
  ASSUME Types, Heeded, NEW o \in Ops,
         \/ Admit(o) \/ Refuse(o) \/ Answer(o) \/ IssueWsTicket(o) \/ ChangePassword(o)
         \/ Login(o) \/ InvalidateLinks(o) \/ CreateLink(o)
         \/ ResetRefused(o) \/ MarkVerificationUsed(o) \/ Moderate(o) \/ Fail(o)
  PROVE  Types' /\ Heeded'
<1>1. Quiet
  BY DEF Quiet, cacheVars, history, Admit, Refuse, Answer, IssueWsTicket, ChangePassword,
     Login, InvalidateLinks, CreateLink, ResetRefused, MarkVerificationUsed, Moderate, Fail
<1>2. Finish(o) \/ \E pc \in AsidePC : Goto(o, pc) \/ Proceed(o, pc)
  BY DEF Admit, Refuse, Answer, IssueWsTicket, ChangePassword, Login, InvalidateLinks,
     CreateLink, ResetRefused, MarkVerificationUsed, Moderate, Fail, Start, AsidePC, PC
<1>3. "idle" \in AsidePC
  BY DEF AsidePC, PC
<1> QED
  BY <1>1, <1>2, <1>3, QuietMove

\* The handlers that keep something of what they read.
LEMMA ReaderKeeps ==
  ASSUME Types, Heeded, NEW o \in Ops,
         \/ LoginRead(o)
         \/ \E kind \in {VerifyLinks, ResetLinks} : AskForLink(o, kind)
         \/ \E l \in Links : Follow(o, l)
  PROVE  Types' /\ Heeded'
<1>1. Quiet
  BY DEF Quiet, cacheVars, history, LoginRead, AskForLink, Follow
<1>2. PICK h \in Handlers : /\ op' = [op EXCEPT ![o] = h]
                            /\ h.pc \in AsidePC /\ h.since = op[o].since
  <2>1. CASE LoginRead(o)
    <3> DEFINE h == [op[o] EXCEPT !.pc = "loggingIn", !.claim = user.version]
    <3>1. op' = [op EXCEPT ![o] = h]
      BY <2>1 DEF LoginRead, Types
    <3>2. user.version \in Nat
      BY DEF Types, Row
    <3>3. h \in Handlers
      BY <3>2 DEF Types, Handlers, PC
    <3>4. h.pc = "loggingIn" /\ h.since = op[o].since
      BY DEF Types, Handlers
    <3> QED
      BY <3>1, <3>3, <3>4 DEF AsidePC, PC
  <2>2. ASSUME NEW l \in Links, NEW pc \in AsidePC,
               op' = [op EXCEPT ![o].pc = pc, ![o].link = l]
        PROVE  \E h \in Handlers : /\ op' = [op EXCEPT ![o] = h]
                                   /\ h.pc \in AsidePC /\ h.since = op[o].since
    <3> DEFINE h == [op[o] EXCEPT !.pc = pc, !.link = l]
    <3>1. op' = [op EXCEPT ![o] = h]
      BY <2>2 DEF Types
    <3>2. h \in Handlers
      BY DEF Types, Handlers, AsidePC
    <3>3. h.pc = pc /\ h.since = op[o].since
      BY DEF Types, Handlers
    <3> QED
      BY <3>1, <3>2, <3>3
  <2>3. CASE \E kind \in {VerifyLinks, ResetLinks} : AskForLink(o, kind)
    <3>1. "issuing" \in AsidePC
      BY DEF AsidePC, PC
    <3>2. PICK l \in Links : op' = [op EXCEPT ![o].pc = "issuing", ![o].link = l]
      BY <2>3 DEF AskForLink, Links
    <3> QED
      BY <2>2, <3>1, <3>2
  <2>4. CASE \E l \in Links : Follow(o, l)
    <3>1. "completing" \in AsidePC /\ "verifying" \in AsidePC
      BY DEF AsidePC, PC
    <3>2. PICK l \in Links, pc \in AsidePC : op' = [op EXCEPT ![o].pc = pc, ![o].link = l]
      BY <2>4, <3>1 DEF Follow
    <3> QED
      BY <2>2, <3>2
  <2> QED
    BY <2>1, <2>3, <2>4
<1> QED
  BY <1>1, <1>2, AsideMove, QuietKeeps

\* The steps of links, tickets and sockets, and the expiry of the entry.
LEMMA BesideKeeps ==
  ASSUME Types, Heeded,
         \/ \E l \in Links : LinkExpires(l)
         \/ ConsumeWsTicket \/ AddConnection \/ RemoveConnection \/ TicketExpires
         \/ EntryExpires \/ UNCHANGED vars
  PROVE  Types' /\ Heeded'
<1>1. /\ UNCHANGED <<user, loader, mark, known, op>>
      /\ entry' \in {entry, None}
  BY DEF cacheVars, history, LinkExpires, ConsumeWsTicket, AddConnection, RemoveConnection,
     TicketExpires, EntryExpires, vars
<1>2. RowKept /\ Bystep
  BY <1>1 DEF RowKept, Holds, Heeds, Snapshot, Bystep
<1> QED
  BY <1>1, <1>2, Keeps DEF Types

LEMMA HeededStep == ASSUME Types, Heeded, Minted, [Next]_vars PROVE Types' /\ Heeded'
<1>1. ASSUME NEW o \in Ops, \E v \in tokens : Request(o, v) PROVE Types' /\ Heeded'
  BY <1>1, RequestKeeps DEF Minted
<1>2. ASSUME NEW o \in Ops, LoadRow(o) \/ Settle(o) PROVE Types' /\ Heeded'
  BY <1>2, LoadRowKeeps, SettleKeeps
<1>3. ASSUME NEW o \in Ops, CompleteReset(o) \/ Ban(o) \/ Anonymize(o) \/ SetPassword(o)
      PROVE  Types' /\ Heeded'
  <2>1. "revoking" \in AsidePC /\ "dropping" \in AsidePC
    BY DEF AsidePC, PC
  <2>2. UNCHANGED <<entry, loader, mark, known>>
    BY <1>3 DEF CompleteReset, Ban, Anonymize, SetPassword, cacheVars, history
  <2>3. \/ user' = [user EXCEPT !.status = "suspended"]
        \/ user' = [user EXCEPT !.status = "suspended", !.deleted = TRUE]
        \/ user' = [user EXCEPT !.version = @ + 1]
    BY <1>3 DEF CompleteReset, Ban, Anonymize, SetPassword
  <2>4. Proceed(o, "revoking") \/ Goto(o, "dropping")
    BY <1>3 DEF CompleteReset, Ban, Anonymize, SetPassword
  <2> QED
    BY <2>1, <2>2, <2>3, <2>4, WriteMove
<1>4. ASSUME NEW o \in Ops, ActivateUser(o) \/ Unban(o) PROVE Types' /\ Heeded'
  BY <1>4, LiftKeeps DEF ActivateUser, Unban, cacheVars
<1>5. ASSUME NEW o \in Ops, RevokeUserSessions(o) \/ InvalidateUserPermissions(o)
      PROVE  Types' /\ Heeded'
  BY <1>5, DropKeeps DEF RevokeUserSessions, InvalidateUserPermissions
<1> QED
  BY <1>1, <1>2, <1>3, <1>4, <1>5, HandlerKeeps, ReaderKeeps, BesideKeeps, CrashKeeps DEF Next

(***************************************************************************)
(* What the cached authority, the loads under way and the answered ones    *)
(* heed, in every reachable state.                                         *)
(***************************************************************************)
THEOREM SessionsHeeded == Spec => [](Types /\ Heeded)
<1>1. Init => Types /\ Heeded /\ Minted
  BY InitHeeded DEF Init, Minted
<1>2. (Types /\ Heeded /\ Minted) /\ [Next]_vars => (Types /\ Heeded /\ Minted)'
  BY HeededStep, MintedKept
<1> QED
  BY <1>1, <1>2, PTL DEF Spec

LEMMA LetThroughHeeds ==
  ASSUME Types, Heeded, NEW o \in LetThrough
  PROVE  /\ op[o].claim >= op[o].since.version
         /\ ~op[o].since.out /\ ~op[o].since.gone
         /\ op[o].since.verified => op[o].seen.status # "pending"
<1>1. o \in Ops /\ op[o].pc = "resolved" /\ ~op[o].joined
  BY DEF LetThrough, At
<1>2. op[o].seen.status # "suspended" /\ op[o].claim = op[o].seen.version
  BY DEF LetThrough, Enforced
<1>3. Heeds(op[o].seen, op[o].since)
  BY <1>1 DEF Heeded, ResolvedHeeds
<1>4. op[o].claim \in Nat /\ op[o].since.version \in Nat
  BY <1>1 DEF Types, Handlers, Known
<1> QED
  BY <1>2, <1>3, <1>4 DEF Heeds

(***************************************************************************)
(* A session of a replaced password is refused from its revocation on      *)
(* (session-revocation.ts), whatever is under way, for any number of       *)
(* requests, handlers, failures and crashes.                               *)
(***************************************************************************)
THEOREM RevokedRefused == Spec => []RevokedStaysOut
<1>1. Types /\ Heeded => RevokedStaysOut
  BY LetThroughHeeds DEF RevokedStaysOut
<1> QED
  BY <1>1, SessionsHeeded, PTL

(***************************************************************************)
(* A suspended account is refused from the drop of its cached authority    *)
(* until another status is written (moderation.service.ts, banUser).       *)
(***************************************************************************)
THEOREM SuspendedRefused == Spec => []SuspendedStaysOut
<1>1. Types /\ Heeded => SuspendedStaysOut
  BY LetThroughHeeds DEF SuspendedStaysOut
<1> QED
  BY <1>1, SessionsHeeded, PTL

(***************************************************************************)
(* An anonymised account is refused for good (moderation.service.ts,       *)
(* anonymizeUser), whatever status is written after it.                    *)
(***************************************************************************)
THEOREM AnonymizedRefused == Spec => []AnonymizedStaysOut
<1>1. Types /\ Heeded => AnonymizedStaysOut
  BY LetThroughHeeds DEF AnonymizedStaysOut
<1> QED
  BY <1>1, SessionsHeeded, PTL

(***************************************************************************)
(* An account verified before a request began is not seen pending by it    *)
(* (auth.service.ts, verifyEmail).                                         *)
(***************************************************************************)
THEOREM VerifiedSeen == Spec => []VerifiedAtOnce
<1>1. Types /\ Heeded => VerifiedAtOnce
  BY LetThroughHeeds DEF VerifiedAtOnce
<1> QED
  BY <1>1, SessionsHeeded, PTL
-----------------------------------------------------------------------------
(***************************************************************************)
(* One-time links.                                                         *)
(***************************************************************************)
Kinds == {VerifyLinks, ResetLinks}

LinkTypes ==
  /\ links \in [Links -> {"live", "used", "expired"}]
  /\ uses \in [ResetLinks -> Nat]
  /\ overlapped \in BOOLEAN

\* A link that can still be followed has set no password.
UnusedSetNone == \A l \in ResetLinks : uses[l] <= 1 /\ (links[l] # "used" => uses[l] = 0)

IssuersHoldLinks == \A x \in Ops : op[x].pc \in {"issuing", "cleared"} => op[x].link \in Links

\* Unless two links of a kind were issued at once: a kind has one issuer, one
\* live link, and none once its issuer has invalidated the links of the kind.
OneIssuer ==
  \A kind \in Kinds, x, y \in Ops : Issues(x, kind) /\ Issues(y, kind) => x = y
OneLive ==
  \A kind \in Kinds, l, m \in Links :
    /\ l \in kind /\ m \in kind
    /\ links[l] = "live" /\ links[m] = "live"
    => l = m
ClearedAway ==
  \A kind \in Kinds, x \in Ops, l \in Links :
    op[x].pc = "cleared" /\ op[x].link \in kind /\ l \in kind => links[l] # "live"

LinksKept == /\ LinkTypes /\ UnusedSetNone /\ IssuersHoldLinks
             /\ ~overlapped => OneIssuer /\ OneLive /\ ClearedAway

\* No handler begins to issue a link or goes on with it.
NoIssueStep ==
  \A x \in Ops : \/ op'[x].pc = op[x].pc /\ op'[x].link = op[x].link
                 \/ op'[x].pc \notin {"issuing", "cleared"}

LEMMA KindsApart ==
  /\ \A kind \in Kinds : \A l \in kind : l \in Links /\ KindOf(l) = kind
  /\ \A l \in Links : l \in KindOf(l) /\ KindOf(l) \in Kinds
BY LinksApart DEF Kinds, KindOf, Links

LEMMA LinksInit == Init => LinksKept
<1> SUFFICES ASSUME Init PROVE LinksKept
  OBVIOUS
<1>1. /\ \A x \in Ops : op[x].pc = "idle"
      /\ \A l \in ResetLinks : uses[l] = 0
  BY DEF Init, Idle
<1>2. LinkTypes /\ (\A l, m \in Links : links[l] = "live" /\ links[m] = "live" => l = m)
  <2>1. uses \in [ResetLinks -> Nat] /\ overlapped \in BOOLEAN
    BY DEF Init
  <2>2. CASE \E l \in VerifyLinks : links = [x \in Links |-> IF x = l THEN "live" ELSE "used"]
    BY <2>1, <2>2 DEF LinkTypes
  <2>3. CASE links = [x \in Links |-> "used"]
    BY <2>1, <2>3 DEF LinkTypes
  <2> QED
    BY <2>2, <2>3 DEF Init
<1>3. UnusedSetNone /\ IssuersHoldLinks /\ OneIssuer /\ ClearedAway
  BY <1>1 DEF UnusedSetNone, IssuersHoldLinks, OneIssuer, Issues, ClearedAway
<1> QED
  BY <1>2, <1>3 DEF LinksKept, OneLive

\* A step that issues no link and brings none to life.
LEMMA NoIssueKeeps ==
  ASSUME LinksKept, NoIssueStep, uses' = uses, overlapped' = overlapped,
         links' \in [Links -> {"live", "used", "expired"}],
         \A l \in Links : links'[l] = links[l] \/ (links[l] = "live" /\ links'[l] = "expired")
                          \/ links'[l] = "used"
  PROVE  LinksKept'
<1>1. LinkTypes' /\ UnusedSetNone'
  BY DEF LinksKept, LinkTypes, UnusedSetNone, Links
<1>2. IssuersHoldLinks'
  BY DEF LinksKept, IssuersHoldLinks, NoIssueStep
<1>3. \A l \in Links : links'[l] = "live" => links[l] = "live"
  OBVIOUS
<1>4. ASSUME ~overlapped PROVE OneIssuer' /\ OneLive' /\ ClearedAway'
  <2>1. \A x \in Ops, kind \in Kinds : Issues(x, kind)' => Issues(x, kind)
    BY DEF Issues, NoIssueStep
  <2>2. OneIssuer'
    BY <1>4, <2>1 DEF LinksKept, OneIssuer
  <2>3. OneLive'
    BY <1>3, <1>4 DEF LinksKept, OneLive
  <2>4. ClearedAway'
    BY <1>3, <1>4 DEF LinksKept, ClearedAway, NoIssueStep
  <2> QED
    BY <2>2, <2>3, <2>4
<1> QED
  BY <1>1, <1>2, <1>4 DEF LinksKept

LEMMA AskKeepsLinks ==
  ASSUME Types, LinksKept, NEW o \in Ops, NEW kind \in Kinds, AskForLink(o, kind)
  PROVE  LinksKept'
<1>1. PICK l \in kind : op' = [op EXCEPT ![o].pc = "issuing", ![o].link = l]
  BY DEF AskForLink
<1>2. l \in Links /\ op \in [Ops -> Handlers] /\ op[o].pc = "idle"
  BY KindsApart DEF Types, AskForLink, At
<1>3. /\ op'[o].pc = "issuing" /\ op'[o].link = l
      /\ \A x \in Ops : x # o => op'[x] = op[x]
  BY <1>1, <1>2 DEF Handlers
<1>4. links' = links /\ uses' = uses
      /\ overlapped' = (overlapped \/ \E x \in Ops : Issues(x, kind))
  BY DEF AskForLink
<1>5. LinkTypes' /\ UnusedSetNone' /\ IssuersHoldLinks'
  BY <1>2, <1>3, <1>4 DEF LinksKept, LinkTypes, UnusedSetNone, IssuersHoldLinks
<1>6. ASSUME ~overlapped' PROVE OneIssuer' /\ OneLive' /\ ClearedAway'
  <2>1. ~overlapped /\ ~\E x \in Ops : Issues(x, kind)
    BY <1>4, <1>6
  <2>2. \A x \in Ops, k \in Kinds : Issues(x, k)' => Issues(x, k) \/ (x = o /\ k = kind)
    BY <1>3, KindsApart DEF Issues
  <2>3. OneIssuer'
    BY <2>1, <2>2 DEF LinksKept, OneIssuer
  <2>4. OneLive' /\ ClearedAway'
    BY <1>3, <1>4, <2>1 DEF LinksKept, OneLive, ClearedAway
  <2> QED
    BY <2>3, <2>4
<1> QED
  BY <1>5, <1>6 DEF LinksKept

LEMMA InvalidateKeepsLinks ==
  ASSUME Types, LinksKept, NEW o \in Ops, InvalidateLinks(o)
  PROVE  LinksKept'
<1>1. op[o].pc = "issuing" /\ op[o].link \in Links /\ op \in [Ops -> Handlers]
  BY DEF Types, InvalidateLinks, At, LinksKept, IssuersHoldLinks
<1>2. /\ op'[o].pc = "cleared" /\ op'[o].link = op[o].link
      /\ \A x \in Ops : x # o => op'[x] = op[x]
  BY <1>1 DEF InvalidateLinks, Goto, Handlers
<1>3. uses' = uses /\ overlapped' = overlapped
  BY DEF InvalidateLinks, history
<1> DEFINE mine == KindOf(op[o].link)
<1>4. links' = [l \in Links |-> IF l \in mine THEN "used" ELSE links[l]]
  BY DEF InvalidateLinks, Invalidated
<1>5. mine \in Kinds /\ op[o].link \in mine
  BY <1>1, KindsApart
<1> HIDE DEF mine
<1>6. /\ links' \in [Links -> {"live", "used", "expired"}]
      /\ \A l \in Links : links'[l] = IF l \in mine THEN "used" ELSE links[l]
  BY <1>4 DEF LinksKept, LinkTypes
<1>7. LinkTypes' /\ UnusedSetNone' /\ IssuersHoldLinks'
  BY <1>1, <1>2, <1>3, <1>6 DEF LinksKept, LinkTypes, UnusedSetNone, IssuersHoldLinks, Links
<1>8. ASSUME ~overlapped PROVE OneIssuer' /\ OneLive' /\ ClearedAway'
  <2>1. \A x \in Ops, kind \in Kinds : Issues(x, kind)' => Issues(x, kind)
    BY <1>1, <1>2 DEF Issues
  <2>2. OneIssuer' /\ OneLive'
    BY <1>6, <1>8, <2>1 DEF LinksKept, OneIssuer, OneLive
  <2>3. \A kind \in Kinds : op[o].link \in kind => kind = mine
    BY <1>5, KindsApart
  <2>4. ClearedAway'
    BY <1>2, <1>6, <1>8, <2>3 DEF LinksKept, ClearedAway
  <2> QED
    BY <2>2, <2>4
<1> QED
  BY <1>3, <1>7, <1>8 DEF LinksKept

LEMMA CreateKeepsLinks ==
  ASSUME Types, LinksKept, NEW o \in Ops, CreateLink(o)
  PROVE  LinksKept'
<1> DEFINE new == op[o].link
<1>1. op[o].pc = "cleared" /\ new \in Links /\ op \in [Ops -> Handlers]
  BY DEF Types, CreateLink, At, LinksKept, IssuersHoldLinks
<1>2. op'[o].pc = "idle" /\ \A x \in Ops : x # o => op'[x] = op[x]
  BY <1>1 DEF CreateLink, Finish, Idle
<1>3. /\ links' = [links EXCEPT ![new] = "live"]
      /\ uses' = [l \in ResetLinks |-> IF l = new THEN 0 ELSE uses[l]]
      /\ overlapped' = overlapped
  BY DEF CreateLink
<1> HIDE DEF new
<1>4. /\ LinkTypes'
      /\ \A l \in Links : links'[l] = IF l = new THEN "live" ELSE links[l]
  BY <1>1, <1>3 DEF LinksKept, LinkTypes
<1>5. UnusedSetNone'
  BY <1>3, <1>4 DEF LinksKept, UnusedSetNone, LinkTypes, Links
<1>6. IssuersHoldLinks'
  BY <1>2 DEF LinksKept, IssuersHoldLinks
<1>7. ASSUME ~overlapped PROVE OneIssuer' /\ OneLive' /\ ClearedAway'
  <2>1. \A x \in Ops, kind \in Kinds : Issues(x, kind)' => Issues(x, kind) /\ x # o
    BY <1>2 DEF Issues
  <2>2. OneIssuer'
    BY <1>7, <2>1 DEF LinksKept, OneIssuer
  <2>3. \A kind \in Kinds : new \in kind => Issues(o, kind)
    BY <1>1 DEF Issues, new
  <2>4. \A kind \in Kinds, l \in Links : new \in kind /\ l \in kind => links[l] # "live"
    BY <1>1, <1>7 DEF LinksKept, ClearedAway, new
  <2>5. OneLive'
    BY <1>4, <1>7, <2>4 DEF LinksKept, OneLive
  <2>6. \A kind \in Kinds, x \in Ops :
           op'[x].pc = "cleared" /\ op'[x].link \in kind => new \notin kind
    <3> SUFFICES ASSUME NEW kind \in Kinds, NEW x \in Ops, op'[x].pc = "cleared",
                        op'[x].link \in kind, new \in kind
                 PROVE  FALSE
      OBVIOUS
    <3>1. x # o /\ Issues(x, kind)
      BY <1>2 DEF Issues
    <3> QED
      BY <1>7, <2>3, <3>1 DEF LinksKept, OneIssuer
  <2>7. ClearedAway'
    BY <1>2, <1>4, <1>7, <2>6 DEF LinksKept, ClearedAway
  <2> QED
    BY <2>2, <2>5, <2>7
<1> QED
  BY <1>3, <1>4, <1>5, <1>6, <1>7 DEF LinksKept

LEMMA MovesNoIssue ==
  ASSUME Types, NEW o \in Ops, NEW pc \in PC \ {"issuing", "cleared"},
         Goto(o, pc) \/ Proceed(o, pc) \/ Finish(o)
  PROVE  NoIssueStep
<1>1. op \in [Ops -> Handlers]
  BY DEF Types
<1>2. op'[o].pc \in {pc, "idle"} /\ \A x \in Ops : x # o => op'[x] = op[x]
  BY <1>1 DEF Goto, Proceed, Finish, Idle, Handlers
<1> QED
  BY <1>2 DEF NoIssueStep

LEMMA CompleteKeepsLinks ==
  ASSUME Types, LinksKept, NEW o \in Ops, CompleteReset(o)
  PROVE  LinksKept'
<1> DEFINE l == op[o].link
<1>1. /\ links' = [links EXCEPT ![l] = "used"] /\ links[l] # "used"
      /\ uses' = [uses EXCEPT ![l] = @ + 1] /\ overlapped' = overlapped
      /\ Proceed(o, "revoking")
  BY DEF CompleteReset, Unused
<1>2. NoIssueStep
  <2>1. "revoking" \in PC \ {"issuing", "cleared"}
    BY DEF PC
  <2> QED
    BY <1>1, <2>1, MovesNoIssue
<1> HIDE DEF l
<1>3. /\ links' \in [Links -> {"live", "used", "expired"}]
      /\ \A m \in Links : links'[m] = links[m] \/ links'[m] = "used"
      /\ \A m \in ResetLinks : links'[m] = IF m = l THEN "used" ELSE links[m]
  BY <1>1 DEF LinksKept, LinkTypes, Links
<1>4. /\ uses' \in [ResetLinks -> Nat]
      /\ \A m \in ResetLinks : uses'[m] = IF m = l THEN uses[m] + 1 ELSE uses[m]
  <2>1. uses \in [ResetLinks -> Nat]
    BY DEF LinksKept, LinkTypes
  <2>2. uses' = [m \in ResetLinks |-> IF m = l THEN uses[m] + 1 ELSE uses[m]]
    BY <1>1, <2>1
  <2>3. \A m \in ResetLinks : uses[m] \in Nat /\ uses[m] + 1 \in Nat
    BY <2>1
  <2> QED
    BY <2>2, <2>3
<1>5. LinkTypes' /\ IssuersHoldLinks'
  BY <1>1, <1>2, <1>3, <1>4 DEF LinksKept, LinkTypes, IssuersHoldLinks, NoIssueStep
<1>6. UnusedSetNone'
  BY <1>1, <1>3, <1>4 DEF LinksKept, LinkTypes, UnusedSetNone
<1>7. ASSUME ~overlapped PROVE OneIssuer' /\ OneLive' /\ ClearedAway'
  <2>1. \A x \in Ops, kind \in Kinds : Issues(x, kind)' => Issues(x, kind)
    BY <1>2 DEF Issues, NoIssueStep
  <2>2. OneIssuer' /\ OneLive'
    BY <1>3, <1>7, <2>1 DEF LinksKept, OneIssuer, OneLive
  <2>3. ClearedAway'
    BY <1>2, <1>3, <1>7 DEF LinksKept, ClearedAway, NoIssueStep
  <2> QED
    BY <2>2, <2>3
<1> QED
  BY <1>1, <1>5, <1>6, <1>7 DEF LinksKept

\* The steps of a handler that is about no link.
LEMMA HandlerKeepsLinks ==
  ASSUME Types, LinksKept, NEW o \in Ops,
         \/ Admit(o) \/ Refuse(o) \/ Answer(o) \/ IssueWsTicket(o) \/ ChangePassword(o)
         \/ Login(o) \/ ResetRefused(o) \/ Moderate(o) \/ Fail(o) \/ Ban(o) \/ Anonymize(o)
         \/ SetPassword(o) \/ RevokeUserSessions(o) \/ InvalidateUserPermissions(o)
  PROVE  LinksKept'
<1>1. UNCHANGED <<links, uses, overlapped>>
  BY DEF history, Admit, Refuse, Answer, IssueWsTicket, ChangePassword, Login, ResetRefused,
     Moderate, Fail, Ban, Anonymize, SetPassword, RevokeUserSessions, InvalidateUserPermissions
<1>2. Finish(o) \/ \E pc \in PC \ {"issuing", "cleared"} : Goto(o, pc) \/ Proceed(o, pc)
  BY DEF Admit, Refuse, Answer, IssueWsTicket, ChangePassword, Login, ResetRefused, Moderate,
     Fail, Ban, Anonymize, SetPassword, RevokeUserSessions, InvalidateUserPermissions, Start, PC
<1>3. "idle" \in PC \ {"issuing", "cleared"}
  BY DEF PC
<1>4. NoIssueStep
  BY <1>2, <1>3, MovesNoIssue
<1> QED
  BY <1>1, <1>4, NoIssueKeeps DEF LinksKept, LinkTypes

\* Requests of the account, and the readers of its row and of its links.
LEMMA ReaderKeepsLinks ==
  ASSUME Types, LinksKept, NEW o \in Ops,
         \/ \E v \in tokens : Request(o, v)
         \/ LoadRow(o) \/ Settle(o) \/ LoginRead(o)
         \/ \E l \in Links : Follow(o, l)
         \/ ActivateUser(o) \/ Unban(o)
  PROVE  LinksKept'
<1>0. op \in [Ops -> Handlers]
  BY DEF Types
<1>1. UNCHANGED <<links, uses, overlapped>>
  BY DEF history, Request, LoadRow, Settle, LoginRead, Follow, ActivateUser, Unban
<1>2. NoIssueStep
  <2>1. CASE \E v \in tokens : Request(o, v)
    <3>1. /\ op'[o].pc \in {"resolved", "joined", "loading"}
          /\ \A x \in Ops : x # o => op'[x] = op[x]
      BY <1>0, <2>1 DEF Request, Idle
    <3> QED
      BY <3>1 DEF NoIssueStep
  <2>2. CASE LoadRow(o)
    <3>1. op'[o].pc = "loaded" /\ \A x \in Ops : x # o => op'[x] = op[x]
      BY <1>0, <2>2 DEF LoadRow, Handlers
    <3> QED
      BY <3>1 DEF NoIssueStep
  <2>3. CASE Settle(o)
    <3>1. \A x \in Ops : op'[x].pc = "resolved" \/ op'[x] = op[x]
      BY <1>0, <2>3 DEF Settle, Handlers
    <3> QED
      BY <3>1 DEF NoIssueStep
  <2>4. CASE LoginRead(o)
    <3>1. op'[o].pc = "loggingIn" /\ \A x \in Ops : x # o => op'[x] = op[x]
      BY <1>0, <2>4 DEF LoginRead, Handlers
    <3> QED
      BY <3>1 DEF NoIssueStep
  <2>5. CASE \E l \in Links : Follow(o, l)
    <3>1. op'[o].pc \in {"completing", "verifying"} /\ \A x \in Ops : x # o => op'[x] = op[x]
      <4>1. PICK l \in Links, pc \in {"completing", "verifying"} :
               op' = [op EXCEPT ![o].pc = pc, ![o].link = l]
        BY <2>5 DEF Follow
      <4> QED
        BY <1>0, <4>1 DEF Handlers
    <3> QED
      BY <3>1 DEF NoIssueStep
  <2>6. CASE Lift(o)
    <3>1. /\ op'[o].pc = "dropping"
          /\ \A x \in Ops : x # o => op'[x] = [op[x] EXCEPT !.since.out = FALSE]
      BY <1>0, <2>6 DEF Lift, Idle
    <3>2. \A x \in Ops : x # o => op'[x].pc = op[x].pc /\ op'[x].link = op[x].link
      BY <1>0, <3>1 DEF Handlers
    <3> QED
      BY <3>1, <3>2 DEF NoIssueStep
  <2> QED
    BY <2>1, <2>2, <2>3, <2>4, <2>5, <2>6 DEF ActivateUser, Unban
<1> QED
  BY <1>1, <1>2, NoIssueKeeps DEF LinksKept, LinkTypes

\* The steps of no handler, and the crash of all of them.
LEMMA BesideKeepsLinks ==
  ASSUME Types, LinksKept,
         \/ \E l \in Links : LinkExpires(l)
         \/ ConsumeWsTicket \/ AddConnection \/ RemoveConnection \/ TicketExpires
         \/ EntryExpires \/ Crash \/ UNCHANGED vars
  PROVE  LinksKept'
<1>1. uses' = uses /\ overlapped' = overlapped
  BY DEF history, LinkExpires, ConsumeWsTicket, AddConnection, RemoveConnection,
     TicketExpires, EntryExpires, Crash, vars
<1>2. op' = op \/ op' = [o \in Ops |-> Idle]
  BY DEF LinkExpires, ConsumeWsTicket, AddConnection, RemoveConnection,
     TicketExpires, EntryExpires, Crash, vars
<1>3. NoIssueStep
  BY <1>2 DEF NoIssueStep, Idle
<1>4. /\ links' \in [Links -> {"live", "used", "expired"}]
      /\ \A l \in Links : links'[l] = links[l] \/ (links[l] = "live" /\ links'[l] = "expired")
  <2>1. CASE \E l \in Links : LinkExpires(l)
    BY <2>1 DEF LinksKept, LinkTypes, LinkExpires
  <2>2. CASE links' = links
    BY <2>2 DEF LinksKept, LinkTypes
  <2> QED
    BY <2>1, <2>2 DEF ConsumeWsTicket, AddConnection, RemoveConnection, TicketExpires,
       EntryExpires, Crash, vars
<1> QED
  BY <1>1, <1>3, <1>4, NoIssueKeeps

LEMMA LinksStep == ASSUME Types, LinksKept, [Next]_vars PROVE LinksKept'
<1>1. ASSUME NEW o \in Ops, NEW kind \in {VerifyLinks, ResetLinks}, AskForLink(o, kind)
      PROVE  LinksKept'
  BY <1>1, AskKeepsLinks DEF Kinds
<1>2. ASSUME NEW o \in Ops, MarkVerificationUsed(o) PROVE LinksKept'
  <2>1. "activating" \in PC \ {"issuing", "cleared"}
    BY DEF PC
  <2>2. NoIssueStep
    BY <1>2, <2>1, MovesNoIssue DEF MarkVerificationUsed
  <2>3. /\ links' \in [Links -> {"live", "used", "expired"}]
        /\ \A l \in Links : links'[l] = links[l] \/ links'[l] = "used"
    BY <1>2 DEF MarkVerificationUsed, LinksKept, LinkTypes
  <2>4. uses' = uses /\ overlapped' = overlapped
    BY <1>2 DEF MarkVerificationUsed, history
  <2> QED
    BY <2>2, <2>3, <2>4, NoIssueKeeps
<1> QED
  BY <1>1, <1>2, InvalidateKeepsLinks, CreateKeepsLinks, CompleteKeepsLinks,
     HandlerKeepsLinks, ReaderKeepsLinks, BesideKeepsLinks DEF Next

-----------------------------------------------------------------------------
(***************************************************************************)
(* Tickets, sockets and failures, and what a cut account may still do.     *)
(***************************************************************************)
Counted ==
  /\ tickets \in Nat /\ opening \in Nat /\ sockets \in Nat
  /\ budget \in Budgets
  /\ tickets + opening + sockets <= budget.sockets
  /\ faults \in 0 .. budget.faults
  /\ cut \in BOOLEAN
  /\ loader # None => op[loader].pc \in {"loading", "loaded"}

\* A suspension that met a quiet account leaves nobody who could be admitted:
\* the row, the cached authority and what handlers read of them agree on it.
CutOff ==
  cut => /\ user.status = "suspended"
         /\ tickets = 0 /\ opening = 0 /\ sockets = 0
         /\ entry # None => entry.status = "suspended"
         /\ \A o \in Ops :
              /\ op[o].pc # "admitted"
              /\ op[o].pc \in {"loaded", "resolved"} => op[o].seen.status = "suspended"

LEMMA BudgetType ==
  ASSUME budget \in Budgets
  PROVE  budget.sockets \in Nat /\ budget.faults \in Nat
BY BoundsAreNaturals

LEMMA CountedInit == Init => Counted /\ CutOff
<1> SUFFICES ASSUME Init PROVE Counted /\ CutOff
  OBVIOUS
<1>1. tickets = 0 /\ opening = 0 /\ sockets = 0 /\ faults = 0 /\ budget \in Budgets
  BY DEF Init
<1>2. cut = FALSE /\ loader = None
  BY DEF Init
<1>3. budget.sockets \in Nat /\ budget.faults \in Nat
  BY <1>1, BudgetType
<1>4. Counted
  <2>1. cut \in BOOLEAN
    BY <1>2
  <2>2. loader # None => op[loader].pc \in {"loading", "loaded"}
    BY <1>2
  <2>3. tickets + opening + sockets <= budget.sockets /\ faults \in 0 .. budget.faults
    BY <1>1, <1>3
  <2> QED
    BY <1>1, <2>1, <2>2, <2>3 DEF Counted
<1>5. CutOff
  BY <1>2 DEF CutOff
<1> QED
  BY <1>4, <1>5

\* A step that admits nobody, opens nothing and suspends or leaves the row.
LEMMA QuietCut ==
  ASSUME Types, CutOff, cut' = cut, user'.status \in {user.status, "suspended"},
         entry' \in {entry, None},
         cut => tickets' = 0 /\ opening' = 0 /\ sockets' = 0,
         \A x \in Ops : \/ op'[x].pc = op[x].pc /\ op'[x].seen = op[x].seen
                        \/ op'[x].pc \notin {"admitted", "loaded", "resolved"}
  PROVE  CutOff'
BY DEF CutOff

\* The steps that leave tickets, sockets, failures and the load under way.
LEMMA QuietCounted ==
  ASSUME Types, Counted, UNCHANGED <<web, faults, loader>>, cut' \in BOOLEAN,
         \A x \in Ops : op[x].pc \in {"loading", "loaded"} =>
                          op'[x].pc \in {"loading", "loaded"}
  PROVE  Counted'
BY DEF Types, Counted, web

\* The steps of handlers that are about the row, links and passwords.
Asides(o) ==
  \/ Refuse(o) \/ Answer(o) \/ ChangePassword(o) \/ Login(o) \/ InvalidateLinks(o)
  \/ CreateLink(o) \/ CompleteReset(o) \/ ResetRefused(o) \/ MarkVerificationUsed(o)
  \/ Moderate(o) \/ Ban(o) \/ Anonymize(o) \/ SetPassword(o) \/ InvalidateUserPermissions(o)

LEMMA AsidesCounted ==
  ASSUME Types, Counted, CutOff, NEW o \in Ops, Asides(o)
  PROVE  Counted' /\ CutOff'
<1>1. UNCHANGED <<web, faults, loader, cut>> /\ entry' \in {entry, None}
  BY DEF Asides, Refuse, Answer, ChangePassword, Login, InvalidateLinks, CreateLink,
     CompleteReset, ResetRefused, MarkVerificationUsed, Moderate, Ban, Anonymize, SetPassword,
     InvalidateUserPermissions, DropAuthority, cacheVars, history
<1>2. op[o].pc \notin {"loading", "loaded"}
  BY DEF Asides, Refuse, Answer, ChangePassword, Login, InvalidateLinks, CreateLink,
     CompleteReset, ResetRefused, MarkVerificationUsed, Moderate, Ban, Anonymize, SetPassword,
     InvalidateUserPermissions, At, Start
<1>3. PICK pc \in PC \ {"admitted", "loaded", "resolved"} :
        Goto(o, pc) \/ Proceed(o, pc) \/ Finish(o)
  <2>1. Finish(o) \/ \E pc \in PC \ {"admitted", "loaded", "resolved"} :
                       Goto(o, pc) \/ Proceed(o, pc)
    BY DEF Asides, Refuse, Answer, ChangePassword, Login, InvalidateLinks, CreateLink,
       CompleteReset, ResetRefused, MarkVerificationUsed, Moderate, Ban, Anonymize,
       SetPassword, InvalidateUserPermissions, Start, PC
  <2>2. "idle" \in PC \ {"admitted", "loaded", "resolved"}
    BY DEF PC
  <2> QED
    BY <2>1, <2>2
<1>4. op \in [Ops -> Handlers]
  BY DEF Types
<1>5. op'[o].pc \in {pc, "idle"} /\ \A x \in Ops : x # o => op'[x] = op[x]
  BY <1>3, <1>4 DEF Goto, Proceed, Finish, Idle, Handlers
<1>6. user'.status \in {user.status, "suspended"}
  <2>1. \/ user' = user
        \/ user' = [user EXCEPT !.status = "suspended"]
        \/ user' = [user EXCEPT !.status = "suspended", !.deleted = TRUE]
        \/ user' = [user EXCEPT !.version = @ + 1]
    BY DEF Asides, Refuse, Answer, ChangePassword, Login, InvalidateLinks, CreateLink,
       CompleteReset, ResetRefused, MarkVerificationUsed, Moderate, Ban, Anonymize,
       SetPassword, InvalidateUserPermissions
  <2>2. user = [status |-> user.status, deleted |-> user.deleted, version |-> user.version]
    BY DEF Types, Row
  <2> QED
    BY <2>1, <2>2
<1>7. Counted'
  BY <1>1, <1>2, <1>5, QuietCounted DEF Counted
<1>8. CutOff'
  <2>1. cut => tickets' = 0 /\ opening' = 0 /\ sockets' = 0
    BY <1>1 DEF CutOff, web
  <2> QED
    BY <1>1, <1>3, <1>5, <1>6, <2>1, QuietCut
<1> QED
  BY <1>7, <1>8

\* The readers of the row and of the links.
LEMMA ReadersCounted ==
  ASSUME Types, Counted, CutOff, NEW o \in Ops,
         \/ LoginRead(o)
         \/ \E kind \in {VerifyLinks, ResetLinks} : AskForLink(o, kind)
         \/ \E l \in Links : Follow(o, l)
  PROVE  Counted' /\ CutOff'
<1>1. UNCHANGED <<web, faults, loader, cut, entry, user>> /\ op[o].pc = "idle"
  BY DEF LoginRead, AskForLink, Follow, cacheVars, history, At
<1>2. /\ op'[o].pc \in {"loggingIn", "issuing", "completing", "verifying"}
      /\ \A x \in Ops : x # o => op'[x] = op[x]
  <2>0. op \in [Ops -> Handlers]
    BY DEF Types
  <2>1. CASE LoginRead(o)
    BY <2>0, <2>1 DEF LoginRead, Handlers
  <2>2. CASE \E kind \in {VerifyLinks, ResetLinks} : AskForLink(o, kind)
    <3>1. PICK l : op' = [op EXCEPT ![o].pc = "issuing", ![o].link = l]
      BY <2>2 DEF AskForLink
    <3> QED
      BY <2>0, <3>1 DEF Handlers
  <2>3. CASE \E l \in Links : Follow(o, l)
    <3>1. PICK l \in Links, pc \in {"completing", "verifying"} :
             op' = [op EXCEPT ![o].pc = pc, ![o].link = l]
      BY <2>3 DEF Follow
    <3> QED
      BY <2>0, <3>1 DEF Handlers
  <2> QED
    BY <2>1, <2>2, <2>3
<1>3. Counted'
  BY <1>1, <1>2, QuietCounted DEF Counted
<1>4. cut => tickets' = 0 /\ opening' = 0 /\ sockets' = 0
  BY <1>1 DEF CutOff, web
<1> QED
  BY <1>1, <1>2, <1>3, <1>4, QuietCut

\* A request of the account, from the cache to its answer.
LEMMA RequestsCounted ==
  ASSUME Types, Counted, CutOff, NEW o \in Ops,
         (\E v \in tokens : Request(o, v)) \/ LoadRow(o) \/ Settle(o) \/ Admit(o)
  PROVE  Counted' /\ CutOff'
<1>0. op \in [Ops -> Handlers]
  BY DEF Types
<1>1. CASE \E v \in tokens : Request(o, v)
  <2>1. /\ UNCHANGED <<web, faults, cut, entry, user>> /\ op[o].pc = "idle"
        /\ \A x \in Ops : x # o => op'[x] = op[x]
    BY <1>0, <1>1 DEF Request, history, At
  <2>2. \/ loader' = loader /\ op'[o].pc = "resolved" /\ op'[o].seen = entry /\ entry # None
        \/ loader' = loader /\ op'[o].pc = "joined"
        \/ loader' = o /\ op'[o].pc = "loading"
    BY <1>0, <1>1 DEF Request, Idle
  <2>3. Counted'
    BY <2>1, <2>2 DEF Counted, Types, web
  <2>4. CutOff'
    BY <2>1, <2>2 DEF CutOff, web
  <2> QED
    BY <2>3, <2>4
<1>2. CASE LoadRow(o)
  <2>1. /\ UNCHANGED <<web, faults, cut, entry, user, loader>> /\ op[o].pc = "loading"
        /\ \A x \in Ops : x # o => op'[x] = op[x]
    BY <1>0, <1>2 DEF LoadRow, cacheVars, history, At
  <2>2. op'[o].pc = "loaded" /\ op'[o].seen = Snapshot
    BY <1>0, <1>2 DEF LoadRow, Handlers
  <2>3. Counted'
    BY <2>1, <2>2, QuietCounted DEF Counted
  <2>4. user.status = "suspended" => Snapshot.status = "suspended"
    BY DEF Snapshot
  <2>5. CutOff'
    BY <2>1, <2>2, <2>4 DEF CutOff, web
  <2> QED
    BY <2>3, <2>5
<1>3. CASE Settle(o)
  <2>1. /\ UNCHANGED <<web, faults, cut, user>> /\ loader' = None /\ op[o].pc = "loaded"
        /\ entry' \in {entry, op[o].seen}
    BY <1>3 DEF Settle, CacheLoaded, history, At
  <2>2. \A x \in Ops : \/ op'[x] = op[x]
                       \/ op'[x].pc = "resolved" /\ op'[x].seen = op[o].seen
    BY <1>0, <1>3 DEF Settle, Handlers
  <2>3. Counted'
    BY <2>1, NoneIsNone DEF Counted, web
  <2>4. CutOff'
    BY <2>1, <2>2 DEF CutOff, web
  <2> QED
    BY <2>3, <2>4
<1>4. CASE Admit(o)
  <2>1. /\ UNCHANGED <<web, faults, loader, cut>>
        /\ op[o].pc = "resolved" /\ op[o].seen.status # "suspended"
        /\ \A x \in Ops : x # o => op'[x] = op[x]
    BY <1>0, <1>4 DEF Admit, Enforced, Proceed, cacheVars, history, At
  <2>2. ~cut
    BY <2>1 DEF CutOff
  <2>3. Counted'
    BY <2>1, QuietCounted DEF Counted
  <2> QED
    BY <2>1, <2>2, <2>3 DEF CutOff
<1> QED
  BY <1>1, <1>2, <1>3, <1>4

\* The status active is written.
LEMMA LiftCounted ==
  ASSUME Types, Counted, NEW o \in Ops, ActivateUser(o) \/ Unban(o)
  PROVE  Counted' /\ CutOff'
<1>0. op \in [Ops -> Handlers]
  BY DEF Types
<1>1. Lift(o) /\ UNCHANGED <<web, faults, loader>> /\ op[o].pc \in {"activating", "unbanning"}
  BY DEF ActivateUser, Unban, cacheVars, At
<1>2. ~cut' /\ cut' \in BOOLEAN
  BY <1>1 DEF Lift
<1>3. \A x \in Ops : x # o => op'[x].pc = op[x].pc
  <2>1. \A x \in Ops : x # o => op'[x] = [op[x] EXCEPT !.since.out = FALSE]
    BY <1>0, <1>1 DEF Lift
  <2> QED
    BY <1>0, <2>1 DEF Handlers
<1>4. Counted'
  BY <1>1, <1>2, <1>3, QuietCounted
<1> QED
  BY <1>2, <1>4 DEF CutOff

\* The sessions are revoked: the step that can cut the account off.
LEMMA RevokeCounted ==
  ASSUME Types, Counted, CutOff, NEW o \in Ops, RevokeUserSessions(o)
  PROVE  Counted' /\ CutOff'
<1>1. /\ op[o].pc = "revoking" /\ op'[o].pc = "idle"
      /\ \A x \in Ops : x # o => op'[x] = op[x]
  BY DEF RevokeUserSessions, At, Finish, Idle, Types
<1>2. /\ UNCHANGED <<user, loader, tickets, opening, budget, faults>>
      /\ sockets' = 0 /\ entry' = None
  BY DEF RevokeUserSessions, CloseConnections, DropAuthority
<1>3. Counted'
  <2>1. cut' \in BOOLEAN
    BY DEF RevokeUserSessions, Counted
  <2>2. tickets + opening + 0 <= budget.sockets
    BY BudgetType DEF Counted
  <2>3. loader # None => op'[loader].pc \in {"loading", "loaded"}
    BY <1>1 DEF Counted, Types
  <2> QED
    BY <1>2, <2>1, <2>2, <2>3 DEF Counted
<1>4. CASE cut
  BY <1>1, <1>2, <1>3, <1>4 DEF CutOff
<1>5. CASE ~cut
  <2>1. ASSUME cut'
        PROVE  /\ user.status = "suspended" /\ tickets = 0 /\ opening = 0
               /\ \A x \in Ops \ {o} : op[x].pc = "idle"
    BY <1>5, <2>1 DEF RevokeUserSessions, At
  <2> QED
    BY <1>1, <1>2, <1>3, <2>1 DEF CutOff
<1> QED
  BY <1>3, <1>4, <1>5

\* A handler that fails, and the crash of all of them.
LEMMA FaultsCounted ==
  ASSUME Types, Counted, CutOff, Crash \/ \E o \in Ops : Fail(o)
  PROVE  Counted' /\ CutOff'
<1>1. /\ UNCHANGED <<user, entry, tickets, budget, cut>>
      /\ faults' = faults + 1 /\ faults < budget.faults
  BY DEF Crash, Fail, cacheVars, web, history
<1>2. faults' \in 0 .. budget'.faults
  BY <1>1, BudgetType DEF Counted
<1>3. CASE Crash
  <2>1. /\ loader' = None /\ opening' = 0 /\ sockets' = 0
        /\ \A x \in Ops : op'[x].pc = "idle"
    BY <1>3 DEF Crash, Idle
  <2>2. tickets + 0 + 0 <= budget.sockets
    BY BudgetType DEF Counted
  <2>3. Counted'
    BY <1>1, <1>2, <2>1, <2>2 DEF Counted
  <2> QED
    BY <1>1, <2>1, <2>3 DEF CutOff
<1>4. ASSUME NEW o \in Ops, Fail(o) PROVE Counted' /\ CutOff'
  <2>1. /\ UNCHANGED <<web, loader>> /\ op'[o].pc = "idle"
        /\ op[o].pc \notin {"loading", "loaded"}
        /\ \A x \in Ops : x # o => op'[x] = op[x]
    BY <1>4 DEF Fail, Finish, Idle, Types, cacheVars
  <2>2. Counted'
    BY <1>1, <1>2, <2>1 DEF Counted, Types, web
  <2> QED
    BY <1>1, <2>1, <2>2 DEF CutOff, web
<1> QED
  BY <1>3, <1>4

\* Tickets, sockets, and what expires.
LEMMA SocketsCounted ==
  ASSUME Types, Counted, CutOff,
         \/ \E o \in Ops : IssueWsTicket(o)
         \/ ConsumeWsTicket \/ AddConnection \/ RemoveConnection \/ TicketExpires
  PROVE  Counted' /\ CutOff'
<1>1. /\ UNCHANGED <<loader, budget, faults, cut>>
      /\ \A x \in Ops : op[x].pc \in {"loading", "loaded"} => op'[x] = op[x]
  BY DEF IssueWsTicket, ConsumeWsTicket, AddConnection, RemoveConnection, TicketExpires,
     cacheVars, history, Finish, At, Types
<1>2. ~cut
  BY DEF CutOff, IssueWsTicket, ConsumeWsTicket, AddConnection, RemoveConnection,
     TicketExpires, At
<1>3. /\ tickets' \in Nat /\ opening' \in Nat /\ sockets' \in Nat
      /\ tickets' + opening' + sockets' <= budget.sockets
  <2>1. budget.sockets \in Nat
    BY BudgetType DEF Counted
  <2> QED
    BY <2>1 DEF Counted, IssueWsTicket, ConsumeWsTicket, AddConnection, RemoveConnection,
       TicketExpires
<1>4. Counted'
  BY <1>1, <1>3 DEF Counted, Types
<1> QED
  BY <1>1, <1>2, <1>4 DEF CutOff

LEMMA CountedStep ==
  ASSUME Types, Counted, CutOff, [Next]_vars
  PROVE  Counted' /\ CutOff'
<1>1. CASE (\E l \in Links : LinkExpires(l)) \/ EntryExpires \/ UNCHANGED vars
  <2>1. UNCHANGED <<web, faults, loader, cut, op, user>> /\ entry' \in {entry, None}
    BY <1>1 DEF LinkExpires, EntryExpires, vars, web, cacheVars, history
  <2>2. Counted'
    BY <2>1, QuietCounted DEF Counted
  <2>3. CutOff'
    BY <2>1 DEF CutOff, web
  <2> QED
    BY <2>2, <2>3
<1>2. ASSUME NEW o \in Ops, Asides(o) PROVE Counted' /\ CutOff'
  BY <1>2, AsidesCounted
<1> QED
  BY <1>1, <1>2, ReadersCounted, RequestsCounted, LiftCounted, RevokeCounted, FaultsCounted,
     SocketsCounted DEF Next, Asides

-----------------------------------------------------------------------------
LEMMA AtMostOne ==
  ASSUME NEW S, \A x, y \in S : x = y
  PROVE  Cardinality(S) <= 1
<1>1. CASE S = {}
  BY <1>1, FS_EmptySet
<1>2. CASE \E x \in S : TRUE
  <2>1. PICK x \in S : TRUE
    BY <1>2
  <2>2. S = {x}
    BY <2>1
  <2> QED
    BY <2>2, FS_Singleton
<1> QED
  BY <1>1, <1>2

LEMMA SessionsTyped ==
  ASSUME Types, Minted, LinksKept, Counted
  PROVE  TypeOK
BY DEF Types, Row, Minted, LinksKept, LinkTypes, Counted, TypeOK

LEMMA KeptIsSound ==
  ASSUME LinksKept
  PROVE  ResetOnce /\ OneLiveLink
<1>1. ResetOnce
  BY DEF LinksKept, UnusedSetNone, ResetOnce
<1>2. ASSUME ~overlapped, NEW kind \in Kinds
      PROVE  Cardinality({l \in kind : links[l] = "live"}) <= 1
  <2>1. \A l, m \in {k \in kind : links[k] = "live"} : l = m
    BY <1>2, KindsApart DEF LinksKept, OneLive
  <2> QED
    BY <2>1, AtMostOne
<1> QED
  BY <1>1, <1>2 DEF OneLiveLink, Kinds

(***************************************************************************)
(* The types of the whole session state; that a reset link sets one        *)
(* password (auth.repository.ts, completePasswordReset) and that a request *)
(* for a link leaves one of its kind alive (auth.service.ts,               *)
(* issueVerificationEmail), for any number of handlers and links.          *)
(***************************************************************************)
THEOREM LinksAreSound == Spec => []LinksSound
<1>1. Init => Types /\ Heeded /\ Minted /\ LinksKept /\ Counted /\ CutOff
  BY InitHeeded, LinksInit, CountedInit DEF Init, Minted
<1>2. (Types /\ Heeded /\ Minted /\ LinksKept /\ Counted /\ CutOff) /\ [Next]_vars
        => (Types /\ Heeded /\ Minted /\ LinksKept /\ Counted /\ CutOff)'
  BY HeededStep, MintedKept, LinksStep, CountedStep
<1>3. Types /\ Minted /\ LinksKept /\ Counted => LinksSound
  BY SessionsTyped, KeptIsSound DEF LinksSound
<1> QED
  BY <1>1, <1>2, <1>3, PTL DEF Spec

(***************************************************************************)
(* An account suspended while nothing of it was under way has no socket    *)
(* and gets none (session-revocation.ts, revokeUserSessions) until another *)
(* status is written.                                                      *)
(***************************************************************************)
THEOREM SuspendedIsCutOff == Spec => []SuspendedHearsNothing
<1>1. Init => Types /\ Heeded /\ Minted /\ Counted /\ CutOff
  BY InitHeeded, CountedInit DEF Init, Minted
<1>2. (Types /\ Heeded /\ Minted /\ Counted /\ CutOff) /\ [Next]_vars
        => (Types /\ Heeded /\ Minted /\ Counted /\ CutOff)'
  BY HeededStep, MintedKept, CountedStep
<1>3. CutOff => SuspendedHearsNothing
  BY DEF CutOff, SuspendedHearsNothing
<1> QED
  BY <1>1, <1>2, <1>3, PTL DEF Spec
=============================================================================
