--------------------------- MODULE ClubLifeProofs ---------------------------
(***************************************************************************)
(* What clubs do, proved for every value of the constants: activities with *)
(* their answers, check-in and hosts; the proposal of a club; and its      *)
(* government.  Each part has its inductive invariant and its theorem; the *)
(* last section shows that a behaviour of MCClubLife is a behaviour of     *)
(* each part, whichever it works on.                                       *)
(***************************************************************************)
EXTENDS MCClubLife, ClubApplicationProofs, FiniteSetTheorems, TLAPS

-----------------------------------------------------------------------------
(***************************************************************************)
(* Who comes to an activity.  An answer about to be written that nobody    *)
(* has made old has a seat that was counted, or that its user held when    *)
(* the row was looked for.  While no two requests of staff have met, the   *)
(* one under way found the activity not cancelled, and every RSVP under    *)
(* way was let in before a cancellation was through.                       *)
(***************************************************************************)
RsvpKinds ==
  {NoRsvp}
    \cup [pc : {"existing", "count"}, want : {"going", "interested"}, cap : Capacities,
          seat : {"kept"}, early : BOOLEAN]
    \cup [pc : {"upsert"}, want : {"going", "interested"}, cap : Capacities,
          seat : {"kept", "counted", "met"}, early : BOOLEAN]
StewardKinds ==
  {NoSteward}
    \cup [op : {"publish", "university", "members"}, pc : {"write", "emit"}, new : {Absent}]
    \cup [op : {"cancel"}, pc : {"write", "notify", "emit"}, new : {Absent}]
    \cup [op : {"seats"}, pc : {"write", "emit"}, new : Capacities]

RsvpTypes ==
  /\ activity \in Activity /\ detail \in Activity \cup {Absent}
  /\ attendee \in [Goers -> Answers]
  /\ rsvp \in [Goers -> RsvpKinds] /\ steward \in [Stewards -> StewardKinds]
  /\ begun \in BOOLEAN /\ informed \subseteq Goers /\ early \subseteq Goers
  /\ peak \in Capacities /\ raced \subseteq Goers
  /\ stewardsMet \in BOOLEAN /\ gone \in BOOLEAN
  /\ rsvpsLeft \in [answers : Nat, staff : Nat]

WithinPeak ==
  /\ activity.capacity <= peak /\ (detail # Absent => detail.capacity <= peak)
  /\ \A u \in Goers : rsvp[u].cap <= peak
HoldsSeat(u) ==
  /\ rsvp[u].pc = "upsert" /\ rsvp[u].seat = "counted" => Cardinality(Going \ {u}) < rsvp[u].cap
  /\ rsvp[u].pc = "upsert" /\ rsvp[u].want = "going" /\ rsvp[u].seat = "kept" =>
       Cardinality((Going \cup {u}) \ raced) <= peak
SeatsInv == WithinPeak /\ SeatsKept /\ \A u \in Goers : HoldsSeat(u)

DetailHeld == detail \in {Absent, activity} \/ \E s \in Stewards : steward[s].pc \in {"notify", "emit"}
StaffAlone ==
  ~stewardsMet =>
    /\ \A s, z \in Stewards : steward[s] # NoSteward /\ steward[z] # NoSteward => s = z
    /\ \A s \in Stewards : steward[s].pc = "write" => activity.status # "cancelled"
    /\ gone => activity.status = "cancelled"
    /\ \A u \in Goers : rsvp[u] # NoRsvp => rsvp[u].early
    /\ activity.status = "cancelled" =>
         /\ \A s \in Stewards : steward[s].op \in {"none", "cancel"}
         /\ (\A s \in Stewards : steward[s].pc # "notify") =>
              \A u \in Goers : attendee[u] # "none" => u \in informed \cup early

RsvpInv == RsvpTypes /\ SeatsInv /\ DetailHeld /\ StaffAlone

LEMMA RsvpTypesAre == RsvpTypes => RsvpTypeOK
<1>1. RsvpKinds \subseteq [pc : {"idle", "existing", "count", "upsert"}, want : Answers,
                           cap : Capacities \cup {0}, seat : {"kept", "counted", "met"},
                           early : BOOLEAN]
  <2>. DEFINE R == [pc : {"idle", "existing", "count", "upsert"}, want : Answers,
                    cap : Capacities \cup {0}, seat : {"kept", "counted", "met"},
                    early : BOOLEAN]
  <2>1. NoRsvp \in R
    BY DEF NoRsvp, Answers
  <2>2. [pc : {"existing", "count"}, want : {"going", "interested"}, cap : Capacities,
         seat : {"kept"}, early : BOOLEAN] \subseteq R
    BY DEF Answers
  <2>3. [pc : {"upsert"}, want : {"going", "interested"}, cap : Capacities,
         seat : {"kept", "counted", "met"}, early : BOOLEAN] \subseteq R
    BY DEF Answers
  <2>. QED
    BY <2>1, <2>2, <2>3 DEF RsvpKinds
<1>2. StewardKinds \subseteq
        [op : {"none", "publish", "cancel", "seats", "university", "members"},
         pc : {"idle", "write", "notify", "emit"}, new : Capacities \cup {Absent}]
  BY DEF StewardKinds, NoSteward
<1>. SUFFICES ASSUME RsvpTypes PROVE RsvpTypeOK
  OBVIOUS
<1>3. rsvp \in [Goers -> [pc : {"idle", "existing", "count", "upsert"}, want : Answers,
                          cap : Capacities \cup {0}, seat : {"kept", "counted", "met"},
                          early : BOOLEAN]]
  BY <1>1 DEF RsvpTypes
<1>4. steward \in [Stewards ->
        [op : {"none", "publish", "cancel", "seats", "university", "members"},
         pc : {"idle", "write", "notify", "emit"}, new : Capacities \cup {Absent}]]
  BY <1>2 DEF RsvpTypes
<1>5. {stewardsMet, gone} \subseteq BOOLEAN
  BY DEF RsvpTypes
<1>. QED
  BY <1>3, <1>4, <1>5 DEF RsvpTypes, RsvpTypeOK

LEMMA GoersCounted ==
  ASSUME NEW S \in SUBSET Goers
  PROVE  /\ IsFiniteSet(S) /\ Cardinality(S) \in Nat
         /\ \A T \in SUBSET S : Cardinality(T) \in Nat /\ Cardinality(T) <= Cardinality(S)
         /\ \A u : Cardinality(S \cup {u}) \in Nat /\ Cardinality(S \cup {u}) <= Cardinality(S) + 1
<1>1. IsFiniteSet(S)
  BY RsvpAssumption, FS_Subset
<1>2. Cardinality(S) \in Nat
  BY <1>1, FS_CardinalityType
<1>3. \A T \in SUBSET S : Cardinality(T) \in Nat /\ Cardinality(T) <= Cardinality(S)
  BY <1>1, FS_Subset, FS_CardinalityType
<1>4. \A u : Cardinality(S \cup {u}) \in Nat /\ Cardinality(S \cup {u}) <= Cardinality(S) + 1
  BY <1>1, <1>2, FS_AddElement
<1>. QED
  BY <1>1, <1>2, <1>3, <1>4

LEMMA CapsAre == \A k \in RsvpKinds : k.cap \in Nat
<1>1. \A c \in Capacities : c \in Nat
  BY RsvpAssumption
<1>2. NoRsvp.cap = 0
  BY DEF NoRsvp
<1>3. ASSUME NEW k \in RsvpKinds PROVE k = NoRsvp \/ k.cap \in Capacities
  BY DEF RsvpKinds
<1>. QED
  BY <1>1, <1>2, <1>3

LEMMA SeenDetailIs ==
  ASSUME RsvpTypes
  PROVE  /\ SeenDetail \in Activity
         /\ WithinPeak => SeenDetail.capacity <= peak /\ SeenDetail.capacity \in Capacities
BY DEF RsvpTypes, SeenDetail, WithinPeak, Activity

LEMMA RsvpInvInit == RsvpInit => RsvpInv
<1>. SUFFICES ASSUME RsvpInit PROVE RsvpInv
  OBVIOUS
<1>1. activity \in Activity /\ peak = activity.capacity /\ peak \in Capacities
  BY DEF RsvpInit, Activity
<1>2. NoRsvp \in RsvpKinds /\ NoSteward \in StewardKinds
      /\ NoRsvp.pc = "idle" /\ NoRsvp.cap = 0 /\ NoSteward.pc = "idle" /\ NoSteward.op = "none"
  BY DEF RsvpKinds, StewardKinds, NoRsvp, NoSteward
<1>3. RsvpTypes
  <2>1. rsvp \in [Goers -> RsvpKinds] /\ steward \in [Stewards -> StewardKinds]
    BY <1>2 DEF RsvpInit
  <2>2. attendee \in [Goers -> Answers]
    BY DEF RsvpInit, Answers
  <2>3. rsvpsLeft \in [answers : Nat, staff : Nat]
    BY RsvpAssumption DEF RsvpInit
  <2>4. detail = Absent /\ begun = FALSE /\ informed = {} /\ early = {} /\ raced = {}
        /\ stewardsMet = FALSE /\ gone = FALSE
    BY DEF RsvpInit
  <2>. QED
    BY <1>1, <2>1, <2>2, <2>3, <2>4 DEF RsvpTypes
<1>4. \A u \in Goers : attendee[u] = "none" /\ rsvp[u] = NoRsvp
  BY DEF RsvpInit
<1>5. \A s \in Stewards : steward[s] = NoSteward
  BY DEF RsvpInit
<1>6. activity.status # "cancelled" /\ detail = Absent /\ gone = FALSE
  BY DEF RsvpInit
<1>7. SeatsInv
  <2>1. Going = {}
    BY <1>4 DEF Going
  <2>2. Cardinality(Going \ raced) = 0
    BY <2>1, FS_EmptySet
  <2>3. peak \in Nat
    BY <1>1, RsvpAssumption
  <2>4. WithinPeak
    BY <1>1, <1>2, <1>4, <1>6, <2>3 DEF WithinPeak
  <2>. QED
    BY <1>2, <1>4, <2>2, <2>3, <2>4 DEF SeatsInv, SeatsKept, HoldsSeat
<1>8. DetailHeld /\ StaffAlone
  BY <1>2, <1>4, <1>5, <1>6 DEF DetailHeld, StaffAlone
<1>. QED
  BY <1>3, <1>7, <1>8 DEF RsvpInv

----------------------------------------------------------------------------
LEMMA RsvpTypesStep == RsvpTypes /\ [RsvpNext]_rsvpVars => RsvpTypes'
<1>. SUFFICES ASSUME RsvpTypes, [RsvpNext]_rsvpVars PROVE RsvpTypes'
  OBVIOUS
<1>0. /\ activity \in Activity /\ detail \in Activity \cup {Absent}
      /\ attendee \in [Goers -> Answers]
      /\ rsvp \in [Goers -> RsvpKinds] /\ steward \in [Stewards -> StewardKinds]
      /\ begun \in BOOLEAN /\ informed \subseteq Goers /\ early \subseteq Goers
      /\ peak \in Capacities /\ raced \subseteq Goers
      /\ stewardsMet \in BOOLEAN /\ gone \in BOOLEAN
      /\ rsvpsLeft \in [answers : Nat, staff : Nat]
  BY DEF RsvpTypes
<1>1. SeenDetail \in Activity
  BY SeenDetailIs
<1>2. NoRsvp \in RsvpKinds /\ NoSteward \in StewardKinds
  BY DEF RsvpKinds, StewardKinds
<1>3. CASE UNCHANGED rsvpVars
  BY <1>3, <1>0 DEF rsvpVars, RsvpTypes
<1>4. ASSUME NEW u \in Goers, NEW want \in {"going", "interested"}, AskRsvp(u, want) PROVE RsvpTypes'
  <2>1. PICK k : k = [pc |-> "existing", want |-> want, seat |-> "kept",
                      cap |-> SeenDetail.capacity, early |-> ~CancelDone]
    OBVIOUS
  <2>2. k \in RsvpKinds
    BY <1>1, <2>1 DEF RsvpKinds, Activity
  <2>3. /\ rsvp' = [rsvp EXCEPT ![u] = k] \/ rsvp' = rsvp
        /\ detail' = SeenDetail /\ UNCHANGED <<attendee, begun, raced, early, staffSide>>
        /\ rsvpsLeft' = [rsvpsLeft EXCEPT !.answers = @ - 1] /\ rsvpsLeft.answers > 0
    BY <1>4, <2>1 DEF AskRsvp
  <2>4. rsvpsLeft' \in [answers : Nat, staff : Nat]
    BY <2>3, <1>0
  <2>5. rsvp' \in [Goers -> RsvpKinds]
    BY <2>2, <2>3, <1>0
  <2>. QED
    BY <2>3, <2>4, <2>5, <1>0, <1>1 DEF staffSide, RsvpTypes
<1>5. ASSUME NEW u \in Goers, FindExisting(u) PROVE RsvpTypes'
  <2>1. PICK pc : pc = IF rsvp[u].want = "going" /\ attendee[u] # "going" THEN "count" ELSE "upsert"
    OBVIOUS
  <2>2. /\ rsvp[u].pc = "existing" /\ rsvp' = [rsvp EXCEPT ![u].pc = pc]
        /\ UNCHANGED <<detail, attendee, begun, raced, early, rsvpsLeft, staffSide>>
    BY <1>5, <2>1 DEF FindExisting
  <2>3. [rsvp[u] EXCEPT !.pc = pc] \in RsvpKinds
    BY <2>1, <2>2, <1>0 DEF RsvpKinds, NoRsvp
  <2>4. rsvp' \in [Goers -> RsvpKinds]
    BY <2>2, <2>3, <1>0
  <2>. QED
    BY <2>2, <2>4, <1>0 DEF staffSide, RsvpTypes
<1>6. ASSUME NEW u \in Goers, CountGoing(u) PROVE RsvpTypes'
  <2>0. rsvp[u] \in [pc : {"existing", "count"}, want : {"going", "interested"},
                     cap : Capacities, seat : {"kept"}, early : BOOLEAN]
    BY <1>6, <1>0 DEF CountGoing, RsvpKinds, NoRsvp
  <2>1. [rsvp[u] EXCEPT !.pc = "upsert", !.seat = "counted"] \in RsvpKinds
    <3>1. [rsvp[u] EXCEPT !.pc = "upsert", !.seat = "counted"] \in
            [pc : {"upsert"}, want : {"going", "interested"}, cap : Capacities,
             seat : {"kept", "counted", "met"}, early : BOOLEAN]
      BY <2>0
    <3>. QED
      BY <3>1 DEF RsvpKinds
  <2>2. /\ \/ rsvp' = [rsvp EXCEPT ![u] = [rsvp[u] EXCEPT !.pc = "upsert", !.seat = "counted"]]
           \/ rsvp' = [rsvp EXCEPT ![u] = NoRsvp]
        /\ UNCHANGED <<detail, attendee, begun, raced, early, rsvpsLeft, staffSide>>
    BY <1>6 DEF CountGoing
  <2>3. rsvp' \in [Goers -> RsvpKinds]
    BY <2>1, <2>2, <1>0, <1>2
  <2>. QED
    BY <2>2, <2>3, <1>0 DEF staffSide, RsvpTypes
<1>7. ASSUME NEW u \in Goers, UpsertAttendee(u) PROVE RsvpTypes'
  <2>1. /\ attendee' = [attendee EXCEPT ![u] = rsvp[u].want] /\ rsvp[u].pc = "upsert"
        /\ rsvp' = [v \in Goers |->
             IF v = u THEN NoRsvp
             ELSE [rsvp[v] EXCEPT !.seat =
                     IF rsvp[v].pc = "upsert" /\ rsvp[u].want = "going" THEN "met" ELSE @]]
        /\ UNCHANGED <<detail, begun, rsvpsLeft, staffSide>>
    BY <1>7 DEF UpsertAttendee
  <2>2. raced' \in {raced \cup {u}, raced \ {u}, raced} /\ early' \in {early \cup {u}, early \ {u}}
    BY <1>7 DEF UpsertAttendee
  <2>3. rsvp[u].want \in Answers
    BY <2>1, <1>0 DEF RsvpKinds, NoRsvp, Answers
  <2>4. ASSUME NEW v \in Goers PROVE rsvp'[v] \in RsvpKinds
    <3>1. [rsvp[v] EXCEPT !.seat = rsvp[v].seat] = rsvp[v]
      BY <1>0 DEF RsvpKinds, NoRsvp
    <3>2. rsvp[v].pc = "upsert" => [rsvp[v] EXCEPT !.seat = "met"] \in RsvpKinds
      BY <1>0 DEF RsvpKinds, NoRsvp
    <3>3. \/ rsvp'[v] \in {NoRsvp, rsvp[v]}
          \/ rsvp[v].pc = "upsert" /\ rsvp'[v] = [rsvp[v] EXCEPT !.seat = "met"]
      BY <2>1, <3>1
    <3>. QED
      BY <3>2, <3>3, <1>0, <1>2
  <2>5. rsvp' \in [Goers -> RsvpKinds]
    BY <2>1, <2>4
  <2>6. attendee' \in [Goers -> Answers]
    BY <2>1, <2>3, <1>0
  <2>7. raced' \subseteq Goers /\ early' \subseteq Goers
    BY <2>2, <1>0
  <2>. QED
    BY <2>1, <2>5, <2>6, <2>7, <1>0 DEF staffSide, RsvpTypes
<1>8. ASSUME NEW u \in Goers, CancelRsvp(u) PROVE RsvpTypes'
  <2>1. attendee' \in [Goers -> Answers]
    BY <1>8, <1>0 DEF CancelRsvp, Answers
  <2>. QED
    BY <1>8, <2>1, <1>0 DEF CancelRsvp, staffSide, RsvpTypes
<1>9. CASE ViewDetail
  BY <1>9, <1>0 DEF ViewDetail, userSide, staffSide, RsvpTypes
<1>10. CASE ActivityBegins
  BY <1>10, <1>0 DEF ActivityBegins, userSide, staffSide, RsvpTypes
<1>11. ASSUME NEW s \in Stewards, NEW op, NEW new, StewardBegins(s, op, new),
              \/ op \in {"publish", "cancel", "university", "members"} /\ new = Absent
              \/ op = "seats" /\ new \in Capacities
       PROVE  RsvpTypes'
  <2>1. [op |-> op, pc |-> "write", new |-> new] \in StewardKinds
    BY <1>11 DEF StewardKinds
  <2>2. /\ steward' = [steward EXCEPT ![s] = [op |-> op, pc |-> "write", new |-> new]]
        /\ stewardsMet' = (stewardsMet \/ \E z \in Stewards : steward[z] # NoSteward)
        /\ rsvpsLeft' = [rsvpsLeft EXCEPT !.staff = @ - 1] /\ rsvpsLeft.staff > 0
        /\ UNCHANGED <<activity, detail, begun, informed, peak, gone, userSide>>
    BY <1>11 DEF StewardBegins
  <2>3. steward' \in [Stewards -> StewardKinds]
    BY <2>1, <2>2, <1>0
  <2>4. rsvpsLeft' \in [answers : Nat, staff : Nat]
    BY <2>2, <1>0
  <2>5. stewardsMet' \in BOOLEAN
    BY <2>2, <1>0
  <2>. QED
    BY <2>2, <2>3, <2>4, <2>5, <1>0 DEF userSide, RsvpTypes
<1>12. ASSUME NEW s \in Stewards, StewardWrites(s) PROVE RsvpTypes'
  <2>1. /\ steward[s].pc = "write" /\ activity' = WrittenBy(s)
        /\ gone' = (gone \/ steward[s].op = "cancel")
        /\ peak' = IF activity'.capacity > peak THEN activity'.capacity ELSE peak
        /\ UNCHANGED <<detail, begun, informed, stewardsMet, rsvpsLeft, userSide>>
    BY <1>12 DEF StewardWrites
  <2>2. PICK pc : /\ pc = IF steward[s].op = "cancel" THEN "notify" ELSE "emit"
                  /\ steward' = [steward EXCEPT ![s].pc = pc]
    BY <1>12 DEF StewardWrites
  <2>3. [steward[s] EXCEPT !.pc = pc] \in StewardKinds
    BY <2>1, <2>2, <1>0 DEF StewardKinds, NoSteward
  <2>4. steward' \in [Stewards -> StewardKinds]
    BY <2>2, <2>3, <1>0
  <2>5. activity' \in Activity
    <3>1. /\ steward[s].op \in {"publish", "cancel", "seats", "university", "members"}
          /\ steward[s].op = "seats" => steward[s].new \in Capacities
      BY <2>1, <1>0 DEF StewardKinds, NoSteward
    <3>2. CASE steward[s].op = "publish"
      BY <3>2, <2>1, <1>0 DEF WrittenBy, Activity
    <3>3. CASE steward[s].op = "cancel"
      BY <3>3, <2>1, <1>0 DEF WrittenBy, Activity
    <3>4. CASE steward[s].op = "seats"
      BY <3>1, <3>4, <2>1, <1>0 DEF WrittenBy, Activity
    <3>5. CASE steward[s].op \in {"university", "members"}
      BY <3>5, <2>1, <1>0 DEF WrittenBy, Activity
    <3>. QED
      BY <3>1, <3>2, <3>3, <3>4, <3>5
  <2>6. peak' \in Capacities
    BY <2>1, <2>5, <1>0 DEF Activity
  <2>7. gone' \in BOOLEAN
    BY <2>1, <1>0
  <2>. QED
    BY <2>1, <2>4, <2>5, <2>6, <2>7, <1>0 DEF userSide, RsvpTypes
<1>13. ASSUME NEW s \in Stewards, NotifyCancelled(s) PROVE RsvpTypes'
  <2>1. /\ steward' = [steward EXCEPT ![s].pc = "emit"] /\ steward[s].pc = "notify"
        /\ informed' = informed \cup ToldOfCancel
        /\ UNCHANGED <<activity, detail, begun, peak, stewardsMet, gone, rsvpsLeft, userSide>>
    BY <1>13 DEF NotifyCancelled
  <2>2. [steward[s] EXCEPT !.pc = "emit"] \in StewardKinds
    BY <2>1, <1>0 DEF StewardKinds, NoSteward
  <2>3. steward' \in [Stewards -> StewardKinds] /\ informed' \subseteq Goers
    BY <2>1, <2>2, <1>0 DEF ToldOfCancel
  <2>. QED
    BY <2>1, <2>3, <1>0 DEF userSide, RsvpTypes
<1>14. ASSUME NEW s \in Stewards, EmitChanged(s) PROVE RsvpTypes'
  <2>1. steward' \in [Stewards -> StewardKinds]
    BY <1>14, <1>0, <1>2 DEF EmitChanged
  <2>. QED
    BY <1>14, <2>1, <1>0 DEF EmitChanged, DroppedDetail, userSide, RsvpTypes
<1>. QED
  BY <1>3, <1>4, <1>5, <1>6, <1>7, <1>8, <1>9, <1>10, <1>11, <1>12, <1>13, <1>14 DEF RsvpNext


----------------------------------------------------------------------------
\* A request whose count nobody made old keeps its seat while no seat is taken.
LEMMA SeatStays ==
  ASSUME RsvpTypes, RsvpTypes', NEW u \in Goers, HoldsSeat(u), rsvp'[u] = rsvp[u],
         peak <= peak', Going' \subseteq Going, Going' \ raced' \subseteq Going \ raced,
         u \in raced => u \in raced'
  PROVE  HoldsSeat(u)'
<1>1. peak \in Nat /\ peak' \in Nat
  BY RsvpAssumption DEF RsvpTypes
<1>2. Going \in SUBSET Goers
  BY DEF Going
<1>3. ASSUME rsvp[u].pc = "upsert", rsvp[u].seat = "counted"
      PROVE  Cardinality(Going' \ {u}) < rsvp[u].cap
  <2>1. Cardinality(Going \ {u}) < rsvp[u].cap
    BY <1>3 DEF HoldsSeat
  <2>2. /\ Cardinality(Going \ {u}) \in Nat /\ Cardinality(Going' \ {u}) \in Nat
        /\ Cardinality(Going' \ {u}) <= Cardinality(Going \ {u})
    <3>1. Going \ {u} \in SUBSET Goers /\ Going' \ {u} \in SUBSET (Going \ {u})
      BY <1>2
    <3>. QED
      BY <3>1, GoersCounted
  <2>3. rsvp[u].cap \in Nat
    BY CapsAre DEF RsvpTypes
  <2>. QED
    BY <2>1, <2>2, <2>3
<1>4. ASSUME rsvp[u].pc = "upsert", rsvp[u].want = "going", rsvp[u].seat = "kept"
      PROVE  Cardinality((Going' \cup {u}) \ raced') <= peak'
  <2>1. Cardinality((Going \cup {u}) \ raced) <= peak
    BY <1>4 DEF HoldsSeat
  <2>2. /\ Cardinality((Going \cup {u}) \ raced) \in Nat
        /\ Cardinality((Going' \cup {u}) \ raced') \in Nat
        /\ Cardinality((Going' \cup {u}) \ raced') <= Cardinality((Going \cup {u}) \ raced)
    <3>1. /\ (Going \cup {u}) \ raced \in SUBSET Goers
          /\ (Going' \cup {u}) \ raced' \in SUBSET ((Going \cup {u}) \ raced)
      BY <1>2
    <3>. QED
      BY <3>1, GoersCounted
  <2>. QED
    BY <1>1, <2>1, <2>2
<1>. QED
  BY <1>3, <1>4 DEF HoldsSeat

LEMMA SeatsStay ==
  ASSUME RsvpTypes, RsvpTypes', SeatsKept, peak <= peak', Going' \ raced' \subseteq Going \ raced
  PROVE  SeatsKept'
<1>1. peak \in Nat /\ peak' \in Nat
  BY RsvpAssumption DEF RsvpTypes
<1>2. Going \ raced \in SUBSET Goers /\ Going' \ raced' \in SUBSET (Going \ raced)
  BY DEF Going
<1>3. /\ Cardinality(Going \ raced) \in Nat /\ Cardinality(Going' \ raced') \in Nat
      /\ Cardinality(Going' \ raced') <= Cardinality(Going \ raced)
  BY <1>2, GoersCounted
<1>. QED
  BY <1>1, <1>3 DEF SeatsKept

LEMMA WithinPeakStep ==
  RsvpTypes /\ RsvpTypes' /\ WithinPeak /\ [RsvpNext]_rsvpVars => WithinPeak' /\ peak <= peak'
<1>. SUFFICES ASSUME RsvpTypes, RsvpTypes', WithinPeak, [RsvpNext]_rsvpVars
              PROVE  WithinPeak' /\ peak <= peak'
  OBVIOUS
<1>0. peak \in Nat /\ peak' \in Nat /\ activity.capacity \in Nat /\ activity'.capacity \in Nat
  BY RsvpAssumption DEF RsvpTypes, Activity
<1>1. SeenDetail.capacity <= peak /\ SeenDetail.capacity \in Capacities
  BY SeenDetailIs
<1>2. NoRsvp.cap = 0 /\ rsvp \in [Goers -> RsvpKinds]
  BY DEF NoRsvp, RsvpTypes
<1>3. /\ activity.capacity <= peak /\ (detail # Absent => detail.capacity <= peak)
      /\ \A u \in Goers : rsvp[u].cap <= peak
  BY DEF WithinPeak
<1>4. SUFFICES /\ peak <= peak' /\ activity'.capacity <= peak'
               /\ detail' # Absent => detail'.capacity <= peak
               /\ \A u \in Goers : rsvp'[u].cap <= peak
  <2>1. detail' # Absent => detail'.capacity \in Nat
    BY RsvpAssumption DEF RsvpTypes, Activity
  <2>2. \A u \in Goers : rsvp'[u].cap \in Nat
    BY CapsAre DEF RsvpTypes
  <2>. QED
    BY <1>0, <2>1, <2>2 DEF WithinPeak
<1>5. ASSUME NEW u \in Goers, NEW want \in {"going", "interested"}, AskRsvp(u, want)
      PROVE  /\ peak <= peak' /\ activity'.capacity <= peak'
             /\ detail' # Absent => detail'.capacity <= peak
             /\ \A v \in Goers : rsvp'[v].cap <= peak
  <2>1. activity' = activity /\ peak' = peak /\ detail' = SeenDetail
    BY <1>5 DEF AskRsvp, staffSide
  <2>2. \A v \in Goers : rsvp'[v] = rsvp[v] \/ rsvp'[v].cap = SeenDetail.capacity
    BY <1>5, <1>2 DEF AskRsvp
  <2>. QED
    BY <1>0, <1>1, <1>3, <2>1, <2>2
<1>6. ASSUME NEW u \in Goers,
             FindExisting(u) \/ CountGoing(u) \/ UpsertAttendee(u) \/ CancelRsvp(u)
      PROVE  /\ peak <= peak' /\ activity'.capacity <= peak'
             /\ detail' # Absent => detail'.capacity <= peak
             /\ \A v \in Goers : rsvp'[v].cap <= peak
  <2>1. activity' = activity /\ peak' = peak /\ detail' = detail
    BY <1>6 DEF FindExisting, CountGoing, UpsertAttendee, CancelRsvp, staffSide
  <2>2. ASSUME NEW v \in Goers PROVE rsvp'[v].cap \in {rsvp[v].cap, 0}
    <3>1. rsvp[v] \in RsvpKinds
      BY <1>2
    <3>2. CASE FindExisting(u)
      <4>1. PICK pc : rsvp' = [rsvp EXCEPT ![u].pc = pc]
        BY <3>2 DEF FindExisting
      <4>2. [rsvp[v] EXCEPT !.pc = pc].cap = rsvp[v].cap
        BY <3>1 DEF RsvpKinds, NoRsvp
      <4>. QED
        BY <1>2, <4>1, <4>2
    <3>3. CASE CountGoing(u)
      <4>1. [rsvp[v] EXCEPT !.pc = "upsert", !.seat = "counted"].cap = rsvp[v].cap
        BY <3>1 DEF RsvpKinds, NoRsvp
      <4>2. \/ rsvp' = [rsvp EXCEPT ![u] = [rsvp[u] EXCEPT !.pc = "upsert", !.seat = "counted"]]
            \/ rsvp' = [rsvp EXCEPT ![u] = NoRsvp]
        BY <3>3 DEF CountGoing
      <4>. QED
        BY <1>2, <4>1, <4>2
    <3>4. CASE UpsertAttendee(u)
      <4>1. \A t : [rsvp[v] EXCEPT !.seat = t].cap = rsvp[v].cap
        BY <3>1 DEF RsvpKinds, NoRsvp
      <4>2. rsvp'[v] = NoRsvp \/ \E t : rsvp'[v] = [rsvp[v] EXCEPT !.seat = t]
        BY <3>4 DEF UpsertAttendee
      <4>. QED
        BY <1>2, <4>1, <4>2
    <3>5. CASE CancelRsvp(u)
      BY <3>5 DEF CancelRsvp
    <3>. QED
      BY <1>6, <3>2, <3>3, <3>4, <3>5
  <2>. QED
    BY <1>0, <1>3, <2>1, <2>2
<1>7. CASE ViewDetail
  BY <1>0, <1>3, <1>7 DEF ViewDetail, userSide, staffSide
<1>8. ASSUME NEW s \in Stewards, StewardWrites(s)
      PROVE  /\ peak <= peak' /\ activity'.capacity <= peak'
             /\ detail' # Absent => detail'.capacity <= peak
             /\ \A v \in Goers : rsvp'[v].cap <= peak
  <2>1. /\ peak' = IF activity'.capacity > peak THEN activity'.capacity ELSE peak
        /\ detail' = detail /\ rsvp' = rsvp
    BY <1>8 DEF StewardWrites, userSide
  <2>. QED
    BY <1>0, <1>3, <2>1
<1>9. ASSUME NEW s \in Stewards,
             (\E op, new : StewardBegins(s, op, new)) \/ NotifyCancelled(s) \/ EmitChanged(s)
      PROVE  /\ peak <= peak' /\ activity'.capacity <= peak'
             /\ detail' # Absent => detail'.capacity <= peak
             /\ \A v \in Goers : rsvp'[v].cap <= peak
  <2>1. activity' = activity /\ peak' = peak /\ rsvp' = rsvp /\ detail' \in {detail, Absent}
    BY <1>9 DEF StewardBegins, NotifyCancelled, EmitChanged, DroppedDetail, userSide
  <2>. QED
    BY <1>0, <1>3, <2>1
<1>10. CASE ActivityBegins \/ UNCHANGED rsvpVars
  BY <1>0, <1>3, <1>10 DEF ActivityBegins, userSide, staffSide, rsvpVars
<1>. QED
  BY <1>5, <1>6, <1>7, <1>8, <1>9, <1>10 DEF RsvpNext

\* The answer is written: it takes the seat its request counted or held, or
\* the seat of a request that another's answer had made old.
LEMMA UpsertKeepsSeats ==
  ASSUME RsvpTypes, RsvpTypes', SeatsInv, peak' = peak, NEW u \in Goers, UpsertAttendee(u)
  PROVE  SeatsKept' /\ \A v \in Goers : HoldsSeat(v)'
<1>1. /\ rsvp[u].pc = "upsert" /\ attendee' = [attendee EXCEPT ![u] = rsvp[u].want]
      /\ rsvp' = [v \in Goers |->
           IF v = u THEN NoRsvp
           ELSE [rsvp[v] EXCEPT !.seat =
                   IF rsvp[v].pc = "upsert" /\ rsvp[u].want = "going" THEN "met" ELSE @]]
      /\ raced' = CASE rsvp[u].want = "going" /\ rsvp[u].seat = "met" -> raced \cup {u}
                    [] rsvp[u].seat = "counted" -> raced \ {u}
                    [] OTHER -> raced
  BY DEF UpsertAttendee
<1>2. /\ attendee \in [Goers -> Answers] /\ rsvp \in [Goers -> RsvpKinds]
      /\ peak \in Nat /\ Going \in SUBSET Goers
  BY RsvpAssumption DEF RsvpTypes, Going
<1>3. rsvp[u].want \in {"going", "interested"} /\ rsvp[u].seat \in {"kept", "counted", "met"}
  BY <1>1, <1>2 DEF RsvpKinds, NoRsvp
<1>4. SeatsKept /\ HoldsSeat(u) /\ WithinPeak
  BY DEF SeatsInv
<1>5. NoRsvp.pc = "idle"
  BY DEF NoRsvp
<1>6. CASE rsvp[u].want = "going"
  <2>1. Going' = Going \cup {u}
    <3>1. \A v \in Goers : attendee'[v] = "going" <=> attendee[v] = "going" \/ v = u
      BY <1>1, <1>2, <1>6
    <3>. QED
      BY <3>1 DEF Going
  <2>2. ASSUME NEW v \in Goers PROVE HoldsSeat(v)'
    <3>1. rsvp'[v] = NoRsvp
          \/ rsvp'[v] = [rsvp[v] EXCEPT !.seat = IF rsvp[v].pc = "upsert" THEN "met" ELSE @]
      BY <1>1, <1>6
    <3>2. ([rsvp[v] EXCEPT !.seat = IF rsvp[v].pc = "upsert" THEN "met" ELSE @].pc = "upsert") =>
            [rsvp[v] EXCEPT !.seat = IF rsvp[v].pc = "upsert" THEN "met" ELSE @].seat = "met"
      BY <1>2 DEF RsvpKinds, NoRsvp
    <3>3. rsvp'[v].pc = "upsert" => rsvp'[v].seat = "met"
      BY <1>5, <3>1, <3>2
    <3>. QED
      BY <3>3 DEF HoldsSeat
  <2>3. SeatsKept'
    <3>1. CASE rsvp[u].seat = "met"
      <4>1. Going' \ raced' \subseteq Going \ raced
        BY <1>1, <1>6, <2>1, <3>1
      <4>. QED
        BY <1>2, <1>4, <4>1, SeatsStay
    <3>2. CASE rsvp[u].seat = "counted"
      <4>1. Going' \ raced' \in SUBSET ((Going \ {u}) \cup {u}) /\ Going' \in SUBSET Goers
        BY <1>2, <2>1
      <4>2. Cardinality(Going \ {u}) < rsvp[u].cap
        BY <1>1, <1>4, <3>2 DEF HoldsSeat
      <4>3. rsvp[u].cap \in Nat /\ rsvp[u].cap <= peak
        BY <1>2, <1>4, CapsAre DEF WithinPeak
      <4>4. /\ Cardinality(Going \ {u}) \in Nat
            /\ Cardinality((Going \ {u}) \cup {u}) \in Nat
            /\ Cardinality((Going \ {u}) \cup {u}) <= Cardinality(Going \ {u}) + 1
        <5>1. Going \ {u} \in SUBSET Goers
          BY <1>2
        <5>. QED
          BY <5>1, GoersCounted
      <4>5. /\ Cardinality(Going' \ raced') \in Nat
            /\ Cardinality(Going' \ raced') <= Cardinality((Going \ {u}) \cup {u})
        <5>1. (Going \ {u}) \cup {u} \in SUBSET Goers
          BY <1>2
        <5>. QED
          BY <4>1, <5>1, GoersCounted
      <4>. QED
        BY <1>2, <4>2, <4>3, <4>4, <4>5 DEF SeatsKept
    <3>3. CASE rsvp[u].seat = "kept"
      <4>1. raced' = raced
        BY <1>1, <3>3
      <4>. QED
        BY <1>1, <1>4, <1>6, <2>1, <3>3, <4>1 DEF HoldsSeat, SeatsKept
    <3>. QED
      BY <1>3, <3>1, <3>2, <3>3
  <2>. QED
    BY <2>2, <2>3
<1>7. CASE rsvp[u].want = "interested"
  <2>1. Going' = Going \ {u}
    <3>1. \A v \in Goers : attendee'[v] = "going" <=> attendee[v] = "going" /\ v # u
      BY <1>1, <1>2, <1>7
    <3>. QED
      BY <3>1 DEF Going
  <2>2. Going' \subseteq Going /\ Going' \ raced' \subseteq Going \ raced
    BY <1>1, <1>7, <2>1
  <2>3. SeatsKept'
    BY <1>2, <1>4, <2>2, SeatsStay
  <2>4. ASSUME NEW v \in Goers PROVE HoldsSeat(v)'
    <3>1. CASE v = u
      <4>1. rsvp'[v] = NoRsvp
        BY <1>1, <3>1
      <4>. QED
        BY <1>5, <4>1 DEF HoldsSeat
    <3>2. CASE v # u
      <4>1. [rsvp[v] EXCEPT !.seat = rsvp[v].seat] = rsvp[v]
        BY <1>2 DEF RsvpKinds, NoRsvp
      <4>2. rsvp'[v] = rsvp[v]
        BY <1>1, <1>7, <3>2, <4>1
      <4>3. v \in raced => v \in raced'
        BY <1>1, <1>7, <3>2
      <4>4. HoldsSeat(v)
        BY DEF SeatsInv
      <4>. QED
        BY <1>2, <2>2, <4>2, <4>3, <4>4, SeatStays
    <3>. QED
      BY <3>1, <3>2
  <2>. QED
    BY <2>3, <2>4
<1>. QED
  BY <1>3, <1>6, <1>7

LEMMA SeatsStep == RsvpTypes /\ RsvpTypes' /\ SeatsInv /\ [RsvpNext]_rsvpVars => SeatsInv'
<1>. SUFFICES ASSUME RsvpTypes, RsvpTypes', SeatsInv, [RsvpNext]_rsvpVars PROVE SeatsInv'
  OBVIOUS
<1>1. WithinPeak' /\ peak <= peak'
  BY WithinPeakStep DEF SeatsInv
<1>2. /\ attendee \in [Goers -> Answers] /\ rsvp \in [Goers -> RsvpKinds]
      /\ peak \in Nat /\ peak' \in Nat /\ Going \in SUBSET Goers
  BY RsvpAssumption DEF RsvpTypes, Going
<1>3. SeatsKept /\ \A v \in Goers : HoldsSeat(v)
  BY DEF SeatsInv
<1>4. NoRsvp.pc = "idle"
  BY DEF NoRsvp
<1>one. ASSUME Going' \subseteq Going, raced' = raced, NEW u \in Goers,
             \A v \in Goers \ {u} : rsvp'[v] = rsvp[v], HoldsSeat(u)'
      PROVE  SeatsInv'
  <2>1. Going' \ raced' \subseteq Going \ raced
    BY <1>one
  <2>2. SeatsKept'
    BY <1>1, <1>3, <2>1, SeatsStay
  <2>3. ASSUME NEW v \in Goers PROVE HoldsSeat(v)'
    <3>1. CASE v = u
      BY <1>one, <3>1
    <3>2. CASE v # u
      BY <1>1, <1>3, <1>one, <2>1, <3>2, SeatStays
    <3>. QED
      BY <3>1, <3>2
  <2>. QED
    BY <1>1, <2>2, <2>3 DEF SeatsInv
<1>same. ASSUME Going' \subseteq Going, raced' = raced, rsvp' = rsvp PROVE SeatsInv'
  <2>1. Going' \ raced' \subseteq Going \ raced
    BY <1>same
  <2>2. SeatsKept'
    BY <1>1, <1>3, <2>1, SeatsStay
  <2>3. ASSUME NEW v \in Goers PROVE HoldsSeat(v)'
    BY <1>1, <1>3, <1>same, <2>1, SeatStays
  <2>. QED
    BY <1>1, <2>2, <2>3 DEF SeatsInv
<1>6. ASSUME NEW u \in Goers, NEW want \in {"going", "interested"}, AskRsvp(u, want) PROVE SeatsInv'
  <2>1. PICK k : k = [pc |-> "existing", want |-> want, seat |-> "kept",
                      cap |-> SeenDetail.capacity, early |-> ~CancelDone]
    OBVIOUS
  <2>2. /\ rsvp' = [rsvp EXCEPT ![u] = k] \/ rsvp' = rsvp
        /\ attendee' = attendee /\ raced' = raced /\ rsvp[u] = NoRsvp
    BY <1>6, <2>1 DEF AskRsvp
  <2>3. rsvp'[u].pc # "upsert"
    BY <1>2, <1>4, <2>1, <2>2
  <2>4. HoldsSeat(u)'
    BY <2>3 DEF HoldsSeat
  <2>5. Going' = Going
    BY <2>2 DEF Going
  <2>6. \A v \in Goers \ {u} : rsvp'[v] = rsvp[v]
    BY <1>2, <2>2
  <2>. QED
    BY <1>one, <2>2, <2>4, <2>5, <2>6
<1>7. ASSUME NEW u \in Goers, FindExisting(u) PROVE SeatsInv'
  <2>1. PICK pc : pc = IF rsvp[u].want = "going" /\ attendee[u] # "going" THEN "count" ELSE "upsert"
    OBVIOUS
  <2>2. /\ rsvp[u].pc = "existing" /\ rsvp' = [rsvp EXCEPT ![u].pc = pc]
        /\ attendee' = attendee /\ raced' = raced
        /\ UNCHANGED staffSide
    BY <1>7, <2>1 DEF FindExisting
  <2>3. Going' = Going /\ peak' = peak
    BY <2>2 DEF Going, staffSide
  <2>4. rsvp'[u].pc = pc /\ rsvp'[u].seat = "kept" /\ rsvp'[u].want = rsvp[u].want
    <3>1. rsvp[u] \in [pc : {"existing", "count"}, want : {"going", "interested"},
                       cap : Capacities, seat : {"kept"}, early : BOOLEAN]
      BY <1>2, <2>2 DEF RsvpKinds, NoRsvp
    <3>. QED
      BY <1>2, <2>2, <3>1
  <2>5. HoldsSeat(u)'
    <3>1. ASSUME rsvp'[u].pc = "upsert", rsvp'[u].want = "going"
          PROVE  Cardinality((Going' \cup {u}) \ raced') <= peak'
      <4>1. u \in Going
        BY <2>1, <2>4, <3>1 DEF Going
      <4>2. (Going' \cup {u}) \ raced' = Going \ raced
        BY <2>2, <2>3, <4>1
      <4>. QED
        BY <1>3, <2>3, <4>2 DEF SeatsKept
    <3>. QED
      BY <2>4, <3>1 DEF HoldsSeat
  <2>6. \A v \in Goers \ {u} : rsvp'[v] = rsvp[v]
    BY <1>2, <2>2
  <2>. QED
    BY <1>one, <2>2, <2>3, <2>5, <2>6
<1>8. ASSUME NEW u \in Goers, CountGoing(u) PROVE SeatsInv'
  <2>1. /\ rsvp[u].pc = "count"
        /\ \/ /\ HasRoom(Cardinality(Going), rsvp[u].cap)
              /\ rsvp' = [rsvp EXCEPT ![u] = [rsvp[u] EXCEPT !.pc = "upsert", !.seat = "counted"]]
           \/ rsvp' = [rsvp EXCEPT ![u] = NoRsvp]
        /\ attendee' = attendee /\ raced' = raced
    BY <1>8 DEF CountGoing
  <2>2. Going' = Going
    BY <2>1 DEF Going
  <2>3. HoldsSeat(u)'
    <3>1. CASE rsvp' = [rsvp EXCEPT ![u] = NoRsvp]
      <4>1. rsvp'[u].pc # "upsert"
        BY <1>2, <1>4, <3>1
      <4>. QED
        BY <4>1 DEF HoldsSeat
    <3>2. CASE /\ HasRoom(Cardinality(Going), rsvp[u].cap)
               /\ rsvp' = [rsvp EXCEPT ![u] = [rsvp[u] EXCEPT !.pc = "upsert", !.seat = "counted"]]
      <4>1. rsvp'[u].seat = "counted" /\ rsvp'[u].cap = rsvp[u].cap
        <5>1. rsvp[u] \in [pc : {"existing", "count"}, want : {"going", "interested"},
                           cap : Capacities, seat : {"kept"}, early : BOOLEAN]
          BY <1>2, <2>1 DEF RsvpKinds, NoRsvp
        <5>. QED
          BY <1>2, <3>2, <5>1
      <4>2. /\ Cardinality(Going) \in Nat /\ Cardinality(Going \ {u}) \in Nat
            /\ Cardinality(Going \ {u}) <= Cardinality(Going)
        BY <1>2, GoersCounted
      <4>3. Cardinality(Going \ {u}) < rsvp[u].cap
        <5>1. Cardinality(Going) < rsvp[u].cap
          BY <3>2 DEF HasRoom
        <5>2. rsvp[u].cap \in Nat
          BY <1>2, CapsAre
        <5>. QED
          BY <4>2, <5>1, <5>2
      <4>. QED
        BY <2>2, <4>1, <4>3 DEF HoldsSeat
    <3>. QED
      BY <2>1, <3>1, <3>2
  <2>4. \A v \in Goers \ {u} : rsvp'[v] = rsvp[v]
    BY <1>2, <2>1
  <2>. QED
    BY <1>one, <2>1, <2>2, <2>3, <2>4
<1>9. ASSUME NEW u \in Goers, UpsertAttendee(u) PROVE SeatsInv'
  <2>1. peak' = peak
    BY <1>9 DEF UpsertAttendee, staffSide
  <2>. QED
    BY <1>1, <1>9, <2>1, UpsertKeepsSeats DEF SeatsInv
<1>10. ASSUME NEW u \in Goers, CancelRsvp(u) PROVE SeatsInv'
  <2>1. attendee' = [attendee EXCEPT ![u] = "none"] /\ rsvp' = rsvp /\ raced' = raced
    BY <1>10 DEF CancelRsvp
  <2>2. Going' \subseteq Going
    <3>1. \A v \in Goers : attendee'[v] = "going" => attendee[v] = "going"
      BY <1>2, <2>1
    <3>. QED
      BY <3>1 DEF Going
  <2>. QED
    BY <1>same, <2>1, <2>2
<1>11. CASE \/ ViewDetail \/ ActivityBegins \/ UNCHANGED rsvpVars
            \/ \E s \in Stewards :
                 (\E op, new : StewardBegins(s, op, new)) \/ StewardWrites(s)
                   \/ NotifyCancelled(s) \/ EmitChanged(s)
  <2>1. attendee' = attendee /\ rsvp' = rsvp /\ raced' = raced
    BY <1>11 DEF ViewDetail, ActivityBegins, rsvpVars, StewardBegins, StewardWrites,
                 NotifyCancelled, EmitChanged, userSide
  <2>2. Going' = Going
    BY <2>1 DEF Going
  <2>. QED
    BY <1>same, <2>1, <2>2
<1>. QED
  BY <1>6, <1>7, <1>8, <1>9, <1>10, <1>11 DEF RsvpNext

----------------------------------------------------------------------------
LEMMA StewardIs ==
  ASSUME RsvpTypes, NEW s \in Stewards
  PROVE  /\ steward[s].pc = "idle" <=> steward[s] = NoSteward
         /\ steward[s].op = "none" <=> steward[s] = NoSteward
         /\ steward[s].pc = "notify" => steward[s].op = "cancel"
BY DEF RsvpTypes, StewardKinds, NoSteward

LEMMA DetailStep == RsvpTypes /\ RsvpTypes' /\ DetailHeld /\ [RsvpNext]_rsvpVars => DetailHeld'
<1>. SUFFICES ASSUME RsvpTypes, RsvpTypes', DetailHeld, [RsvpNext]_rsvpVars PROVE DetailHeld'
  OBVIOUS
<1>0. steward \in [Stewards -> StewardKinds] /\ NoSteward.pc = "idle"
  BY DEF RsvpTypes, NoSteward
<1>1. ASSUME activity' = activity, steward' = steward, detail' \in {detail, SeenDetail, activity}
      PROVE  DetailHeld'
  BY <1>1 DEF DetailHeld, SeenDetail
<1>2. ASSUME NEW u \in Goers, NEW want \in {"going", "interested"}, AskRsvp(u, want)
      PROVE  DetailHeld'
  BY <1>1, <1>2 DEF AskRsvp, staffSide
<1>3. ASSUME NEW u \in Goers,
             FindExisting(u) \/ CountGoing(u) \/ UpsertAttendee(u) \/ CancelRsvp(u)
      PROVE  DetailHeld'
  BY <1>1, <1>3 DEF FindExisting, CountGoing, UpsertAttendee, CancelRsvp, staffSide
<1>4. CASE ViewDetail \/ ActivityBegins \/ UNCHANGED rsvpVars
  BY <1>1, <1>4 DEF ViewDetail, ActivityBegins, rsvpVars, staffSide
<1>5. ASSUME NEW s \in Stewards, NEW op, NEW new, StewardBegins(s, op, new) PROVE DetailHeld'
  <2>1. /\ steward[s] = NoSteward /\ activity' = activity /\ detail' = detail
        /\ steward' = [steward EXCEPT ![s] = [op |-> op, pc |-> "write", new |-> new]]
    BY <1>5 DEF StewardBegins
  <2>2. \A z \in Stewards : steward[z].pc \in {"notify", "emit"} => steward'[z] = steward[z]
    BY <1>0, <2>1
  <2>. QED
    BY <2>1, <2>2 DEF DetailHeld
<1>6. ASSUME NEW s \in Stewards, StewardWrites(s) PROVE DetailHeld'
  <2>1. PICK pc \in {"notify", "emit"} : steward' = [steward EXCEPT ![s].pc = pc]
    BY <1>6 DEF StewardWrites
  <2>2. steward'[s].pc = pc
    BY <1>0, <2>1 DEF StewardKinds, NoSteward
  <2>. QED
    BY <2>2 DEF DetailHeld
<1>7. ASSUME NEW s \in Stewards, NotifyCancelled(s) PROVE DetailHeld'
  <2>1. steward' = [steward EXCEPT ![s].pc = "emit"]
    BY <1>7 DEF NotifyCancelled
  <2>2. steward'[s].pc = "emit"
    BY <1>0, <2>1 DEF StewardKinds, NoSteward
  <2>. QED
    BY <2>2 DEF DetailHeld
<1>8. ASSUME NEW s \in Stewards, EmitChanged(s) PROVE DetailHeld'
  BY <1>8 DEF EmitChanged, DroppedDetail, DetailHeld
<1>. QED
  BY <1>2, <1>3, <1>4, <1>5, <1>6, <1>7, <1>8 DEF RsvpNext

\* While staff work alone, no gate lets anybody in once a cancellation is through.
LEMMA GateKnows ==
  ASSUME RsvpTypes, DetailHeld, StaffAlone, ~stewardsMet, NEW u \in Goers, CanRsvp(u)
  PROVE  ~CancelDone
<1>. SUFFICES ASSUME CancelDone PROVE FALSE
  OBVIOUS
<1>1. activity.status = "cancelled" /\ \A s \in Stewards : steward[s].op # "cancel"
  BY DEF CancelDone
<1>2. \A s \in Stewards : steward[s].op \in {"none", "cancel"}
  BY <1>1 DEF StaffAlone
<1>3. \A s \in Stewards : steward[s].pc = "idle"
  BY <1>1, <1>2, StewardIs
<1>4. detail \in {Absent, activity}
  BY <1>3 DEF DetailHeld
<1>. QED
  BY <1>1, <1>4 DEF CanRsvp, SeenDetail

LEMMA StaffStep ==
  RsvpTypes /\ RsvpTypes' /\ DetailHeld /\ StaffAlone /\ [RsvpNext]_rsvpVars => StaffAlone'
<1>. SUFFICES ASSUME RsvpTypes, RsvpTypes', DetailHeld, StaffAlone, [RsvpNext]_rsvpVars,
                     ~stewardsMet'
              PROVE  /\ \A s, z \in Stewards :
                          steward'[s] # NoSteward /\ steward'[z] # NoSteward => s = z
                     /\ \A s \in Stewards :
                          steward'[s].pc = "write" => activity'.status # "cancelled"
                     /\ gone' => activity'.status = "cancelled"
                     /\ \A u \in Goers : rsvp'[u] # NoRsvp => rsvp'[u].early
                     /\ activity'.status = "cancelled" =>
                          /\ \A s \in Stewards : steward'[s].op \in {"none", "cancel"}
                          /\ (\A s \in Stewards : steward'[s].pc # "notify") =>
                               \A u \in Goers :
                                 attendee'[u] # "none" => u \in informed' \cup early'
  BY DEF StaffAlone
<1>0. /\ attendee \in [Goers -> Answers] /\ rsvp \in [Goers -> RsvpKinds]
      /\ steward \in [Stewards -> StewardKinds]
      /\ NoSteward.pc = "idle" /\ NoSteward.op = "none" /\ NoRsvp.pc = "idle"
  BY DEF RsvpTypes, NoSteward, NoRsvp
<1>1. ~stewardsMet
  BY DEF RsvpNext, AskRsvp, FindExisting, CountGoing, UpsertAttendee, CancelRsvp, ViewDetail,
         ActivityBegins, StewardBegins, StewardWrites, NotifyCancelled, EmitChanged, rsvpVars,
         staffSide
<1>2. /\ \A s, z \in Stewards : steward[s] # NoSteward /\ steward[z] # NoSteward => s = z
      /\ \A s \in Stewards : steward[s].pc = "write" => activity.status # "cancelled"
      /\ gone => activity.status = "cancelled"
      /\ \A u \in Goers : rsvp[u] # NoRsvp => rsvp[u].early
      /\ activity.status = "cancelled" => \A s \in Stewards : steward[s].op \in {"none", "cancel"}
  BY <1>1 DEF StaffAlone
<1>3. activity.status = "cancelled" /\ (\A s \in Stewards : steward[s].pc # "notify") =>
        \A u \in Goers : attendee[u] # "none" => u \in informed \cup early
  BY <1>1 DEF StaffAlone
<1>4. ASSUME NEW u \in Goers, NEW want \in {"going", "interested"}, AskRsvp(u, want)
      PROVE  StaffAlone'
  <2>1. PICK k : k = [pc |-> "existing", want |-> want, seat |-> "kept",
                      cap |-> SeenDetail.capacity, early |-> ~CancelDone]
    OBVIOUS
  <2>2. /\ \/ CanRsvp(u) /\ rsvp' = [rsvp EXCEPT ![u] = k]
           \/ rsvp' = rsvp
        /\ attendee' = attendee /\ early' = early /\ UNCHANGED staffSide
    BY <1>4, <2>1 DEF AskRsvp
  <2>3. CanRsvp(u) => k.early
    BY <1>1, <2>1, GateKnows
  <2>4. \A v \in Goers : rsvp'[v] # NoRsvp => rsvp'[v].early
    BY <1>0, <1>2, <2>2, <2>3
  <2>. QED
    BY <1>2, <1>3, <2>2, <2>4 DEF StaffAlone, staffSide
<1>5. ASSUME NEW u \in Goers, FindExisting(u) \/ CountGoing(u) PROVE StaffAlone'
  <2>1. /\ rsvp[u].pc \in {"existing", "count"}
        /\ attendee' = attendee /\ early' = early /\ UNCHANGED staffSide
    BY <1>5 DEF FindExisting, CountGoing
  <2>2. rsvp[u].early
    BY <1>0, <1>2, <2>1
  <2>3. \A v \in Goers : rsvp'[v] # NoRsvp => rsvp'[v].early
    <3>1. CASE FindExisting(u)
      <4>1. PICK pc : rsvp' = [rsvp EXCEPT ![u].pc = pc]
        BY <3>1 DEF FindExisting
      <4>2. [rsvp[u] EXCEPT !.pc = pc].early = rsvp[u].early
        BY <1>0 DEF RsvpKinds, NoRsvp
      <4>. QED
        BY <1>0, <1>2, <2>2, <4>1, <4>2
    <3>2. CASE CountGoing(u)
      <4>1. [rsvp[u] EXCEPT !.pc = "upsert", !.seat = "counted"].early = rsvp[u].early
        BY <1>0 DEF RsvpKinds, NoRsvp
      <4>2. \/ rsvp' = [rsvp EXCEPT ![u] = [rsvp[u] EXCEPT !.pc = "upsert", !.seat = "counted"]]
            \/ rsvp' = [rsvp EXCEPT ![u] = NoRsvp]
        BY <3>2 DEF CountGoing
      <4>. QED
        BY <1>0, <1>2, <2>2, <4>1, <4>2
    <3>. QED
      BY <1>5, <3>1, <3>2
  <2>. QED
    BY <1>2, <1>3, <2>1, <2>3 DEF StaffAlone, staffSide
<1>6. ASSUME NEW u \in Goers, UpsertAttendee(u) PROVE StaffAlone'
  <2>1. /\ rsvp[u].pc = "upsert" /\ attendee' = [attendee EXCEPT ![u] = rsvp[u].want]
        /\ rsvp' = [v \in Goers |->
             IF v = u THEN NoRsvp
             ELSE [rsvp[v] EXCEPT !.seat =
                     IF rsvp[v].pc = "upsert" /\ rsvp[u].want = "going" THEN "met" ELSE @]]
        /\ early' = IF rsvp[u].early /\ activity.status = "cancelled"
                    THEN early \cup {u} ELSE early \ {u}
        /\ UNCHANGED staffSide
    BY <1>6 DEF UpsertAttendee
  <2>2. rsvp[u].early
    BY <1>0, <1>2, <2>1
  <2>3. ASSUME NEW v \in Goers PROVE rsvp'[v] # NoRsvp => rsvp'[v].early
    <3>1. \A t : [rsvp[v] EXCEPT !.seat = t].early = rsvp[v].early
      BY <1>0 DEF RsvpKinds, NoRsvp
    <3>2. [rsvp[v] EXCEPT !.seat = rsvp[v].seat] = rsvp[v]
      BY <1>0 DEF RsvpKinds, NoRsvp
    <3>3. \/ rsvp'[v] \in {NoRsvp, rsvp[v]}
          \/ rsvp[v].pc = "upsert" /\ rsvp'[v] = [rsvp[v] EXCEPT !.seat = "met"]
      BY <2>1, <3>2
    <3>4. CASE rsvp[v].pc = "upsert" /\ rsvp'[v] = [rsvp[v] EXCEPT !.seat = "met"]
      <4>1. rsvp[v] # NoRsvp
        BY <1>0, <3>4
      <4>. QED
        BY <1>2, <3>1, <3>4, <4>1
    <3>. QED
      BY <1>2, <3>3, <3>4
  <2>4. activity.status = "cancelled" => early' = early \cup {u}
    BY <2>1, <2>2
  <2>5. \A v \in Goers \ {u} : attendee'[v] = attendee[v]
    BY <1>0, <2>1
  <2>6. activity.status = "cancelled" /\ (\A s \in Stewards : steward[s].pc # "notify") =>
          \A v \in Goers : attendee'[v] # "none" => v \in informed \cup early'
    BY <1>3, <2>4, <2>5
  <2>. QED
    BY <1>2, <2>1, <2>3, <2>6 DEF StaffAlone, staffSide
<1>7. ASSUME NEW u \in Goers, CancelRsvp(u) PROVE StaffAlone'
  <2>1. /\ attendee' = [attendee EXCEPT ![u] = "none"] /\ rsvp' = rsvp /\ early' = early
        /\ UNCHANGED staffSide
    BY <1>7 DEF CancelRsvp
  <2>2. \A v \in Goers : attendee'[v] # "none" => attendee'[v] = attendee[v]
    BY <1>0, <2>1
  <2>. QED
    BY <1>2, <1>3, <2>1, <2>2 DEF StaffAlone, staffSide
<1>8. ASSUME ViewDetail \/ ActivityBegins \/ UNCHANGED rsvpVars PROVE StaffAlone'
  BY <1>2, <1>3, <1>8 DEF ViewDetail, ActivityBegins, rsvpVars, userSide, staffSide, StaffAlone
<1>9. ASSUME NEW s \in Stewards, NEW op, NEW new, StewardBegins(s, op, new) PROVE StaffAlone'
  <2>1. /\ steward[s] = NoSteward /\ StewardMay(op)
        /\ steward' = [steward EXCEPT ![s] = [op |-> op, pc |-> "write", new |-> new]]
        /\ stewardsMet' = (stewardsMet \/ \E z \in Stewards : steward[z] # NoSteward)
        /\ UNCHANGED <<activity, informed, gone, userSide>>
    BY <1>9 DEF StewardBegins
  <2>2. \A z \in Stewards : steward[z] = NoSteward
    BY <2>1
  <2>3. activity.status # "cancelled"
    BY <2>1 DEF StewardMay
  <2>4. \A z \in Stewards \ {s} : steward'[z] = NoSteward
    BY <1>0, <2>1, <2>2
  <2>. QED
    BY <1>2, <2>1, <2>3, <2>4 DEF StaffAlone, userSide
<1>10. ASSUME NEW s \in Stewards, StewardWrites(s) PROVE StaffAlone'
  <2>1. /\ steward[s].pc = "write" /\ activity' = WrittenBy(s)
        /\ gone' = (gone \/ steward[s].op = "cancel")
        /\ UNCHANGED <<informed, userSide>>
    BY <1>10 DEF StewardWrites
  <2>2. PICK pc : /\ pc = IF steward[s].op = "cancel" THEN "notify" ELSE "emit"
                  /\ steward' = [steward EXCEPT ![s].pc = pc]
    BY <1>10 DEF StewardWrites
  <2>3. \A z \in Stewards \ {s} : steward'[z] = steward[z] /\ steward[z] = NoSteward
    BY <1>0, <1>2, <2>1, <2>2
  <2>4. steward'[s].pc = pc /\ steward'[s].op = steward[s].op
    BY <1>0, <2>2 DEF StewardKinds, NoSteward
  <2>5. activity.status # "cancelled" /\ gone # TRUE
    BY <1>2, <2>1
  <2>6. activity'.status = "cancelled" <=> steward[s].op = "cancel"
    <3>1. steward[s].op \in {"publish", "cancel", "seats", "university", "members"}
      BY <1>0, <2>1 DEF StewardKinds, NoSteward
    <3>2. activity \in Activity
      BY DEF RsvpTypes
    <3>. QED
      BY <2>1, <2>5, <3>1, <3>2 DEF WrittenBy, Activity
  <2>7. gone' => activity'.status = "cancelled"
    <3>1. gone \in BOOLEAN
      BY DEF RsvpTypes
    <3>. QED
      BY <2>1, <2>5, <2>6, <3>1
  <2>8. \A z \in Stewards : steward'[z].pc # "write"
    BY <1>0, <2>2, <2>3, <2>4
  <2>9. activity'.status = "cancelled" => steward'[s].pc = "notify"
                                          /\ \A z \in Stewards : steward'[z].op \in {"none", "cancel"}
    BY <1>0, <2>2, <2>3, <2>4, <2>6
  <2>10. \A z, y \in Stewards : steward'[z] # NoSteward /\ steward'[y] # NoSteward => z = y
    BY <2>3
  <2>. QED
    BY <1>2, <2>1, <2>7, <2>8, <2>9, <2>10 DEF StaffAlone, userSide
<1>11. ASSUME NEW s \in Stewards, NotifyCancelled(s) PROVE StaffAlone'
  <2>1. /\ steward' = [steward EXCEPT ![s].pc = "emit"] /\ steward[s].pc = "notify"
        /\ informed' = informed \cup ToldOfCancel
        /\ UNCHANGED <<activity, gone, userSide>>
    BY <1>11 DEF NotifyCancelled
  <2>2. \A z \in Stewards : z # s => steward'[z] = steward[z]
    BY <1>0, <2>1
  <2>3. steward'[s].pc = "emit" /\ steward'[s].op = steward[s].op
    BY <1>0, <2>1 DEF StewardKinds, NoSteward
  <2>4. \A u \in Goers : attendee[u] # "none" => u \in informed'
    BY <2>1 DEF ToldOfCancel
  <2>5. \A z, y \in Stewards : steward'[z] # NoSteward /\ steward'[y] # NoSteward => z = y
    BY <1>0, <1>2, <2>1, <2>2
  <2>6. \A z \in Stewards : steward'[z].pc = "write" => activity.status # "cancelled"
    BY <1>2, <2>2, <2>3
  <2>7. activity.status = "cancelled" => \A z \in Stewards : steward'[z].op \in {"none", "cancel"}
    BY <1>2, <2>2, <2>3
  <2>. QED
    BY <1>2, <2>1, <2>4, <2>5, <2>6, <2>7 DEF StaffAlone, userSide
<1>12. ASSUME NEW s \in Stewards, EmitChanged(s) PROVE StaffAlone'
  <2>1. /\ steward' = [steward EXCEPT ![s] = NoSteward] /\ steward[s].pc = "emit"
        /\ UNCHANGED <<activity, informed, gone, userSide>>
    BY <1>12 DEF EmitChanged
  <2>2. steward'[s] = NoSteward /\ \A z \in Stewards : z # s => steward'[z] = steward[z]
    BY <1>0, <2>1
  <2>3. (\A z \in Stewards : steward'[z].pc # "notify") => \A z \in Stewards : steward[z].pc # "notify"
    BY <2>1, <2>2
  <2>4. \A z, y \in Stewards : steward'[z] # NoSteward /\ steward'[y] # NoSteward => z = y
    BY <1>2, <2>2
  <2>5. \A z \in Stewards : steward'[z].pc = "write" => activity.status # "cancelled"
    BY <1>0, <1>2, <2>2
  <2>6. activity.status = "cancelled" => \A z \in Stewards : steward'[z].op \in {"none", "cancel"}
    BY <1>0, <1>2, <2>2
  <2>. QED
    BY <1>2, <1>3, <2>1, <2>3, <2>4, <2>5, <2>6 DEF StaffAlone, userSide
<1>. QED
  <2>1. StaffAlone'
    BY <1>4, <1>5, <1>6, <1>7, <1>8, <1>9, <1>10, <1>11, <1>12 DEF RsvpNext
  <2>. QED
    BY <2>1 DEF StaffAlone

(* What holds of an activity and its attendees, whatever answers, updates  *)
(* and cancellations meet: nobody is seated beyond the capacity but by the *)
(* one race the code allows; whoever stays on the list of a cancelled      *)
(* activity was told or had passed the gate before; with no request of     *)
(* staff under way the cached detail is the row's; and a cancellation is   *)
(* for good unless two requests of staff met.                              *)
THEOREM RsvpIsSound == RsvpSpec => []RsvpSound
<1>1. RsvpInv /\ [RsvpNext]_rsvpVars => RsvpInv'
  BY RsvpTypesStep, SeatsStep, DetailStep, StaffStep DEF RsvpInv
<1>2. RsvpInv => RsvpSound
  <2>. SUFFICES ASSUME RsvpInv PROVE RsvpSound
    OBVIOUS
  <2>1. RsvpTypes /\ SeatsKept /\ DetailHeld /\ StaffAlone
    BY DEF RsvpInv, SeatsInv
  <2>2. RsvpTypeOK
    BY <2>1, RsvpTypesAre
  <2>3. AttendeesHear
    <3>. SUFFICES ASSUME CancelDone, ~stewardsMet
                  PROVE  \A u \in Goers : attendee[u] # "none" => u \in informed \cup early
      BY DEF AttendeesHear
    <3>1. \A s \in Stewards : steward[s].pc # "notify"
      BY <2>1, StewardIs DEF CancelDone
    <3>. QED
      BY <2>1, <3>1 DEF StaffAlone, CancelDone
  <2>4. DetailFollows
    <3>. SUFFICES ASSUME \A s \in Stewards : steward[s] = NoSteward
                  PROVE  detail \in {Absent, activity}
      BY DEF DetailFollows
    <3>1. \A s \in Stewards : steward[s].pc = "idle"
      BY DEF NoSteward
    <3>. QED
      BY <2>1, <3>1 DEF DetailHeld
  <2>5. CancelledForGood
    BY <2>1 DEF StaffAlone, CancelledForGood
  <2>. QED
    BY <2>1, <2>2, <2>3, <2>4, <2>5 DEF RsvpSound
<1>. QED
  BY <1>1, <1>2, RsvpInvInit, PTL DEF RsvpSpec

-----------------------------------------------------------------------------
(***************************************************************************)
(* Check-in.  The key holds a code made within its life, and a screen that *)
(* is about to replace it has seen that its time is up, unless another has *)
(* replaced it since.  A scan that nothing crossed has a row to mark.      *)
(***************************************************************************)
KeyTypes ==
  /\ now \in 0..LastTick /\ qrKey \in Stored \cup {NoCode}
  /\ DOMAIN made \subseteq Codes /\ \A c \in DOMAIN made : made[c] \in 0..LastTick
  /\ display \in [Displays -> [pc : {"idle", "rotate"}, shown : Stored \cup {NoCode},
                               beaten : BOOLEAN, late : BOOLEAN]]
RowTypes ==
  /\ guest \in [Guests -> {"absent", "answered", "present"}]
  /\ scan \in [Guests -> [pc : {"idle", "validate", "mark"}, code : Codes \cup {NoCode},
                          present : BOOLEAN, crossed : BOOLEAN]]
  /\ marking \in [pc : {"idle", "write"}, on : Guests \cup {NoCode}, to : BOOLEAN]
  /\ told \subseteq Guests /\ scans \in 0..MaxScans

KeyIsMade ==
  qrKey # NoCode => qrKey.code \in DOMAIN made /\ qrKey.expires = made[qrKey.code] + TokenTTL
RotatesInTime ==
  \A d \in Displays : display[d].pc = "rotate" /\ ~display[d].late => ~StillGood(qrKey)

ScanHasRow ==
  \A u \in Guests : ~scan[u].crossed =>
    /\ scan[u].pc \in {"validate", "mark"} => guest[u] # "absent"
    /\ scan[u].pc = "validate" /\ scan[u].present => guest[u] = "present"
MarkIsOfGuest == marking # NoMark => marking.on \in Guests

KeyInv == KeyTypes /\ KeyIsMade /\ RotatesInTime /\ ShownCodeWorks
RowInv == RowTypes /\ ScanHasRow /\ MarkIsOfGuest /\ ToldIsPresent
CheckInInv == KeyInv /\ RowInv /\ oldPassed = FALSE

keyVars == <<now, qrKey, made, display>>
rowVars == <<guest, scan, marking, told, scans>>

LEMMA CheckInInvInit == CheckInInit => CheckInInv
<1>. SUFFICES ASSUME CheckInInit PROVE CheckInInv
  OBVIOUS
<1>1. KeyTypes
  BY CheckInAssumption DEF CheckInInit, KeyTypes
<1>2. KeyIsMade /\ RotatesInTime /\ ShownCodeWorks
  BY DEF CheckInInit, KeyIsMade, RotatesInTime, ShownCodeWorks
<1>3. RowTypes
  BY CheckInAssumption DEF CheckInInit, RowTypes, NoScan, NoMark
<1>4. ScanHasRow /\ MarkIsOfGuest /\ ToldIsPresent
  BY DEF CheckInInit, ScanHasRow, MarkIsOfGuest, ToldIsPresent, NoScan
<1>. QED
  BY <1>1, <1>2, <1>3, <1>4 DEF CheckInInv, KeyInv, RowInv, CheckInInit

LEMMA KeyRests == KeyInv /\ UNCHANGED keyVars => KeyInv'
BY DEF keyVars, KeyInv, KeyTypes, KeyIsMade, RotatesInTime, ShownCodeWorks, StillGood

LEMMA RowRests == RowInv /\ UNCHANGED rowVars => RowInv'
BY DEF rowVars, RowInv, RowTypes, ScanHasRow, MarkIsOfGuest, ToldIsPresent

\* The clock, which drops a key whose life is over.
LEMMA TickKeeps ==
  ASSUME KeyInv, CheckInTick
  PROVE  KeyInv'
<1>0. /\ now \in 0..LastTick /\ qrKey \in Stored \cup {NoCode}
      /\ display \in [Displays -> [pc : {"idle", "rotate"}, shown : Stored \cup {NoCode},
                                   beaten : BOOLEAN, late : BOOLEAN]]
      /\ KeyIsMade /\ RotatesInTime /\ ShownCodeWorks
  BY DEF KeyInv, KeyTypes
<1>1. /\ now < LastTick /\ now' = now + 1 /\ UNCHANGED <<made, display>>
      /\ qrKey' = IF qrKey # NoCode /\ qrKey.expires <= now + 1 THEN NoCode ELSE qrKey
  BY DEF CheckInTick
<1>2. KeyTypes'
  BY <1>0, <1>1, CheckInAssumption DEF KeyInv, KeyTypes
<1>3. KeyIsMade'
  BY <1>0, <1>1 DEF KeyIsMade
<1>4. qrKey # NoCode => qrKey.expires \in Nat
  BY <1>0 DEF Stored
<1>5. RotatesInTime'
  <2>1. ~StillGood(qrKey) => ~StillGood(qrKey)'
    BY <1>0, <1>1, <1>4, CheckInAssumption DEF StillGood
  <2>. QED
    BY <2>1, <1>0, <1>1 DEF RotatesInTime
<1>6. ShownCodeWorks'
  <2>. SUFFICES ASSUME NEW d \in Displays, display[d].shown # NoCode, ~display[d].beaten,
                       display[d].shown.expires - now' > RotateBuffer
                PROVE  qrKey' = display[d].shown
    BY <1>1 DEF ShownCodeWorks
  <2>1. display[d].shown.expires \in Nat
    BY <1>0 DEF Stored
  <2>2. display[d].shown.expires - now > RotateBuffer
    BY <2>1, <1>0, <1>1, CheckInAssumption
  <2>3. qrKey = display[d].shown
    BY <2>2, <1>0 DEF ShownCodeWorks
  <2>. QED
    BY <2>1, <2>3, <1>0, <1>1, CheckInAssumption
<1>. QED
  BY <1>2, <1>3, <1>5, <1>6 DEF KeyInv

LEMMA ReadCodeKeeps ==
  ASSUME KeyInv, NEW d \in Displays, ReadCode(d)
  PROVE  KeyInv'
<1>0. /\ now \in 0..LastTick /\ qrKey \in Stored \cup {NoCode}
      /\ display \in [Displays -> [pc : {"idle", "rotate"}, shown : Stored \cup {NoCode},
                                   beaten : BOOLEAN, late : BOOLEAN]]
      /\ KeyIsMade /\ RotatesInTime /\ ShownCodeWorks
  BY DEF KeyInv, KeyTypes
<1>1. PICK k : k = IF StillGood(qrKey) THEN [display[d] EXCEPT !.shown = qrKey, !.beaten = FALSE]
                                       ELSE [display[d] EXCEPT !.pc = "rotate", !.late = FALSE]
  OBVIOUS
<1>2. /\ display' = [display EXCEPT ![d] = k] /\ UNCHANGED <<now, qrKey, made>>
      /\ display[d].pc = "idle"
  BY <1>1 DEF ReadCode
<1>3. k \in [pc : {"idle", "rotate"}, shown : Stored \cup {NoCode}, beaten : BOOLEAN, late : BOOLEAN]
  BY <1>0, <1>1
<1>4. display'[d] = k /\ \A e \in Displays \ {d} : display'[e] = display[e]
  BY <1>0, <1>2
<1>5. KeyTypes'
  BY <1>2, <1>3 DEF KeyInv, KeyTypes
<1>6. KeyIsMade'
  BY <1>0, <1>2 DEF KeyIsMade
<1>7. RotatesInTime'
  <2>1. k.pc = "rotate" => ~StillGood(qrKey)
    BY <1>0, <1>1, <1>2
  <2>. QED
    BY <2>1, <1>0, <1>2, <1>4 DEF RotatesInTime, StillGood
<1>8. ShownCodeWorks'
  <2>1. k.shown = qrKey \/ (k.shown = display[d].shown /\ k.beaten = display[d].beaten)
    BY <1>0, <1>1
  <2>. QED
    BY <2>1, <1>0, <1>2, <1>4 DEF ShownCodeWorks
<1>. QED
  BY <1>5, <1>6, <1>7, <1>8 DEF KeyInv

\* A new code: screens that show another are beaten, or their time is up.
LEMMA RotateCodeKeeps ==
  ASSUME KeyInv, NEW d \in Displays, RotateCode(d)
  PROVE  KeyInv'
<1>0. /\ now \in 0..LastTick /\ qrKey \in Stored \cup {NoCode}
      /\ DOMAIN made \subseteq Codes /\ \A x \in DOMAIN made : made[x] \in 0..LastTick
      /\ display \in [Displays -> [pc : {"idle", "rotate"}, shown : Stored \cup {NoCode},
                                   beaten : BOOLEAN, late : BOOLEAN]]
      /\ RotatesInTime /\ ShownCodeWorks
  BY DEF KeyInv, KeyTypes
<1>1. PICK c : c = Cardinality(DOMAIN made) + 1
  OBVIOUS
<1>2. PICK new : new = [code |-> c, expires |-> now + TokenTTL]
  OBVIOUS
<1>3. /\ display[d].pc = "rotate" /\ c \in Codes /\ now' = now /\ qrKey' = new
      /\ made' = [x \in DOMAIN made \cup {c} |-> IF x = c THEN now ELSE made[x]]
      /\ display' = [e \in Displays |->
           IF e = d THEN [pc |-> "idle", shown |-> new, beaten |-> FALSE, late |-> FALSE]
           ELSE [display[e] EXCEPT !.late = TRUE, !.beaten = @ \/ display[d].late]]
  BY <1>1, <1>2 DEF RotateCode
<1>4. new \in Stored /\ new.code = c /\ new.expires = now + TokenTTL
  <2>1. now + TokenTTL \in Nat
    BY <1>0, CheckInAssumption
  <2>. QED
    BY <2>1, <1>2, <1>3 DEF Stored
<1>5. /\ display'[d] = [pc |-> "idle", shown |-> new, beaten |-> FALSE, late |-> FALSE]
      /\ \A e \in Displays \ {d} :
           /\ display'[e].pc = display[e].pc /\ display'[e].shown = display[e].shown
           /\ display'[e].late = TRUE /\ display'[e].beaten = (display[e].beaten \/ display[d].late)
  BY <1>0, <1>3
<1>6. KeyTypes'
  <2>1. DOMAIN made' \subseteq Codes /\ \A x \in DOMAIN made' : made'[x] \in 0..LastTick
    BY <1>0, <1>3
  <2>2. display' \in [Displays -> [pc : {"idle", "rotate"}, shown : Stored \cup {NoCode},
                                   beaten : BOOLEAN, late : BOOLEAN]]
    BY <1>0, <1>3, <1>4
  <2>. QED
    BY <2>1, <2>2, <1>0, <1>3, <1>4 DEF KeyTypes
<1>7. KeyIsMade'
  BY <1>3, <1>4 DEF KeyIsMade
<1>8. RotatesInTime'
  BY <1>5 DEF RotatesInTime
<1>9. ShownCodeWorks'
  <2>. SUFFICES ASSUME NEW e \in Displays, display'[e].shown # NoCode, ~display'[e].beaten,
                       display'[e].shown.expires - now > RotateBuffer
                PROVE  qrKey' = display'[e].shown
    BY <1>3 DEF ShownCodeWorks
  <2>1. CASE e = d
    BY <2>1, <1>3, <1>5
  <2>2. CASE e # d
    <3>1. /\ display[e].shown # NoCode /\ ~display[e].beaten /\ ~display[d].late
          /\ display[e].shown.expires - now > RotateBuffer
      BY <2>2, <1>5
    <3>2. qrKey = display[e].shown
      BY <3>1, <1>0 DEF ShownCodeWorks
    <3>3. ~StillGood(qrKey)
      BY <3>1, <1>0, <1>3 DEF RotatesInTime
    <3>. QED
      BY <3>1, <3>2, <3>3 DEF StillGood
  <2>. QED
    BY <2>1, <2>2
<1>. QED
  BY <1>6, <1>7, <1>8, <1>9 DEF KeyInv

\* A row is marked: nobody who was told so loses it.
LEMMA MarkRowKeeps ==
  ASSUME RowTypes, NEW u \in Guests, NEW b \in BOOLEAN, MarkRow(u, b)
  PROVE  /\ guest' \in [Guests -> {"absent", "answered", "present"}]
         /\ \A v \in Guests \ {u} : guest'[v] = guest[v]
         /\ guest[u] = "absent" => guest'[u] = "absent"
         /\ guest[u] # "absent" => guest'[u] = IF b THEN "present" ELSE "answered"
BY DEF RowTypes, MarkRow

LEMMA CheckInInvStep == CheckInInv /\ [CheckInNext]_checkInVars => CheckInInv'
<1>. SUFFICES ASSUME CheckInInv, [CheckInNext]_checkInVars PROVE CheckInInv'
  OBVIOUS
<1>0. /\ guest \in [Guests -> {"absent", "answered", "present"}]
      /\ scan \in [Guests -> [pc : {"idle", "validate", "mark"}, code : Codes \cup {NoCode},
                              present : BOOLEAN, crossed : BOOLEAN]]
      /\ marking \in [pc : {"idle", "write"}, on : Guests \cup {NoCode}, to : BOOLEAN]
      /\ told \subseteq Guests /\ scans \in 0..MaxScans
      /\ ScanHasRow /\ MarkIsOfGuest /\ ToldIsPresent /\ KeyInv /\ RowInv /\ RowTypes
      /\ oldPassed = FALSE
  BY DEF CheckInInv, RowInv, RowTypes
<1>1. ASSUME UNCHANGED checkInVars PROVE CheckInInv'
  BY <1>1, <1>0, KeyRests, RowRests DEF checkInVars, keyVars, rowVars, CheckInInv
<1>2. ASSUME CheckInTick PROVE CheckInInv'
  <2>1. UNCHANGED rowVars /\ oldPassed' = oldPassed
    BY <1>2 DEF CheckInTick, rowVars
  <2>. QED
    BY <2>1, <1>2, <1>0, TickKeeps, RowRests DEF CheckInInv
<1>3. ASSUME NEW d \in Displays, ReadCode(d) PROVE CheckInInv'
  <2>1. UNCHANGED rowVars /\ oldPassed' = oldPassed
    BY <1>3 DEF ReadCode, rowVars
  <2>. QED
    BY <2>1, <1>3, <1>0, ReadCodeKeeps, RowRests DEF CheckInInv
<1>4. ASSUME NEW d \in Displays, RotateCode(d) PROVE CheckInInv'
  <2>1. UNCHANGED rowVars /\ oldPassed' = oldPassed
    BY <1>4 DEF RotateCode, rowVars
  <2>. QED
    BY <2>1, <1>4, <1>0, RotateCodeKeeps, RowRests DEF CheckInInv
<1>5. ASSUME NEW u \in Guests, Answer(u) PROVE CheckInInv'
  <2>1. /\ guest[u] = "absent" /\ guest' = [guest EXCEPT ![u] = "answered"]
        /\ UNCHANGED <<now, qrKey, made, display, scan, marking, told, scans, oldPassed>>
    BY <1>5 DEF Answer
  <2>2. RowTypes' /\ MarkIsOfGuest'
    BY <2>1, <1>0 DEF RowTypes, MarkIsOfGuest
  <2>3. ScanHasRow' /\ ToldIsPresent'
    BY <2>1, <1>0 DEF ScanHasRow, ToldIsPresent
  <2>4. KeyInv'
    BY <2>1, <1>0, KeyRests DEF keyVars
  <2>. QED
    BY <2>1, <2>2, <2>3, <2>4, <1>0 DEF CheckInInv, RowInv
<1>6. ASSUME NEW u \in Guests, WithdrawRsvp(u) PROVE CheckInInv'
  <2>1. /\ guest' = [guest EXCEPT ![u] = "absent"] /\ told' = told \ {u}
        /\ scan' = [scan EXCEPT ![u].crossed = TRUE]
        /\ UNCHANGED <<now, qrKey, made, display, marking, scans, oldPassed>>
    BY <1>6 DEF WithdrawRsvp, CrossScan
  <2>2. RowTypes' /\ MarkIsOfGuest'
    BY <2>1, <1>0 DEF RowTypes, MarkIsOfGuest
  <2>3. ScanHasRow' /\ ToldIsPresent'
    BY <2>1, <1>0 DEF ScanHasRow, ToldIsPresent
  <2>4. KeyInv'
    BY <2>1, <1>0, KeyRests DEF keyVars
  <2>. QED
    BY <2>1, <2>2, <2>3, <2>4, <1>0 DEF CheckInInv, RowInv
<1>7. ASSUME NEW u \in Guests, NEW c \in Codes, BeginScan(u, c) PROVE CheckInInv'
  <2>1. PICK k : k = [pc |-> "validate", code |-> c, present |-> guest[u] = "present",
                      crossed |-> FALSE]
    OBVIOUS
  <2>2. /\ scan' = [scan EXCEPT ![u] = k] /\ guest[u] # "absent" /\ scans' \in 0..MaxScans
        /\ UNCHANGED <<now, qrKey, made, display, guest, marking, told, oldPassed>>
    BY <2>1, <1>7, <1>0, CheckInAssumption DEF BeginScan
  <2>3. k \in [pc : {"idle", "validate", "mark"}, code : Codes \cup {NoCode},
               present : BOOLEAN, crossed : BOOLEAN]
        /\ k.present = (guest[u] = "present")
    BY <2>1
  <2>4. RowTypes' /\ MarkIsOfGuest'
    BY <2>2, <2>3, <1>0 DEF RowTypes, MarkIsOfGuest
  <2>5. ScanHasRow' /\ ToldIsPresent'
    BY <2>2, <2>3, <1>0 DEF ScanHasRow, ToldIsPresent
  <2>6. KeyInv'
    BY <2>2, <1>0, KeyRests DEF keyVars
  <2>. QED
    BY <2>2, <2>4, <2>5, <2>6, <1>0 DEF CheckInInv, RowInv
<1>8. ASSUME NEW u \in Guests, Validate(u) PROVE CheckInInv'
  <2>1. /\ scan[u].pc = "validate"
        /\ UNCHANGED <<now, qrKey, made, display, guest, marking, scans>>
        /\ oldPassed' = (ValidCode(scan[u].code) /\ now >= made[scan[u].code] + TokenTTL)
    BY <1>8, <1>0 DEF Validate
  <2>2. oldPassed' = FALSE
    <3>. SUFFICES ASSUME ValidCode(scan[u].code) PROVE ~(now >= made[scan[u].code] + TokenTTL)
      BY <2>1
    <3>1. qrKey # NoCode /\ qrKey.code = scan[u].code /\ qrKey.expires > now
      BY DEF ValidCode
    <3>2. scan[u].code \in DOMAIN made /\ qrKey.expires = made[scan[u].code] + TokenTTL
      BY <3>1, <1>0 DEF KeyInv, KeyIsMade
    <3>3. made[scan[u].code] \in Nat /\ now \in Nat
      BY <3>2, <1>0 DEF KeyInv, KeyTypes
    <3>. QED
      BY <3>1, <3>2, <3>3, CheckInAssumption
  <2>3. KeyInv'
    BY <2>1, <1>0, KeyRests DEF keyVars
  <2>4. PICK k : /\ k \in [pc : {"idle", "validate", "mark"}, code : Codes \cup {NoCode},
                           present : BOOLEAN, crossed : BOOLEAN]
                 /\ scan' = [scan EXCEPT ![u] = k]
                 /\ k.pc = "idle" \/ (k.pc = "mark" /\ k.crossed = scan[u].crossed)
    <3>1. NoScan \in [pc : {"idle", "validate", "mark"}, code : Codes \cup {NoCode},
                      present : BOOLEAN, crossed : BOOLEAN] /\ NoScan.pc = "idle"
      BY DEF NoScan
    <3>2. [scan[u] EXCEPT !.pc = "mark"] \in
            [pc : {"idle", "validate", "mark"}, code : Codes \cup {NoCode},
             present : BOOLEAN, crossed : BOOLEAN]
          /\ [scan[u] EXCEPT !.pc = "mark"].pc = "mark"
          /\ [scan[u] EXCEPT !.pc = "mark"].crossed = scan[u].crossed
      BY <1>0
    <3>3. \/ scan' = [scan EXCEPT ![u] = NoScan]
          \/ scan' = [scan EXCEPT ![u] = [scan[u] EXCEPT !.pc = "mark"]]
      BY <1>8 DEF Validate
    <3>. QED
      BY <3>1, <3>2, <3>3
  <2>5. told' = told \/ (told' = told \cup {u} /\ guest[u] = "present")
    BY <2>1, <1>8, <1>0 DEF Validate, AlreadyMarked, ScanHasRow
  <2>6. RowTypes' /\ MarkIsOfGuest'
    BY <2>1, <2>4, <2>5, <1>0 DEF RowTypes, MarkIsOfGuest
  <2>7. ScanHasRow'
    BY <2>1, <2>4, <1>0 DEF ScanHasRow
  <2>8. ToldIsPresent'
    BY <2>1, <2>5, <1>0 DEF ToldIsPresent
  <2>. QED
    BY <2>2, <2>3, <2>6, <2>7, <2>8 DEF CheckInInv, RowInv
<1>9. ASSUME NEW u \in Guests, MarkScanned(u) PROVE CheckInInv'
  <2>1. /\ scan[u].pc = "mark" /\ scan' = [scan EXCEPT ![u] = NoScan] /\ MarkRow(u, TRUE)
        /\ UNCHANGED <<now, qrKey, made, display, marking, scans, oldPassed>>
        /\ told' = IF scan[u].crossed THEN told ELSE told \cup {u}
    BY <1>9 DEF MarkScanned
  <2>2. /\ guest' \in [Guests -> {"absent", "answered", "present"}]
        /\ \A v \in Guests \ {u} : guest'[v] = guest[v]
        /\ guest[u] = "absent" => guest'[u] = "absent"
        /\ guest[u] # "absent" => guest'[u] = "present"
    BY <2>1, <1>0, MarkRowKeeps
  <2>3. NoScan \in [pc : {"idle", "validate", "mark"}, code : Codes \cup {NoCode},
                    present : BOOLEAN, crossed : BOOLEAN] /\ NoScan.pc = "idle"
    BY DEF NoScan
  <2>4. RowTypes' /\ MarkIsOfGuest'
    BY <2>1, <2>2, <2>3, <1>0 DEF RowTypes, MarkIsOfGuest
  <2>5. ScanHasRow'
    BY <2>1, <2>2, <2>3, <1>0 DEF ScanHasRow
  <2>6. ToldIsPresent'
    BY <2>1, <2>2, <1>0 DEF ToldIsPresent, ScanHasRow
  <2>7. KeyInv'
    BY <2>1, <1>0, KeyRests DEF keyVars
  <2>. QED
    BY <2>1, <2>4, <2>5, <2>6, <2>7, <1>0 DEF CheckInInv, RowInv
<1>10. ASSUME NEW u \in Guests, NEW to \in BOOLEAN, BeginMark(u, to) PROVE CheckInInv'
  <2>1. /\ marking' = [pc |-> "write", on |-> u, to |-> to] /\ scans' \in 0..MaxScans
        /\ UNCHANGED <<now, qrKey, made, display, guest, scan, told, oldPassed>>
    BY <1>10, <1>0, CheckInAssumption DEF BeginMark
  <2>2. RowTypes' /\ MarkIsOfGuest'
    BY <2>1, <1>0 DEF RowTypes, MarkIsOfGuest
  <2>3. ScanHasRow' /\ ToldIsPresent'
    BY <2>1, <1>0 DEF ScanHasRow, ToldIsPresent
  <2>4. KeyInv'
    BY <2>1, <1>0, KeyRests DEF keyVars
  <2>. QED
    BY <2>1, <2>2, <2>3, <2>4, <1>0 DEF CheckInInv, RowInv
<1>11. ASSUME WriteMark PROVE CheckInInv'
  <2>1. PICK u \in Guests, b \in BOOLEAN : u = marking.on /\ b = marking.to
    BY <1>11, <1>0 DEF WriteMark, MarkIsOfGuest
  <2>2. /\ MarkRow(u, b) /\ marking' = NoMark
        /\ UNCHANGED <<now, qrKey, made, display, scans, oldPassed>>
        /\ IF b THEN UNCHANGED <<told, scan>>
           ELSE told' = told \ {u} /\ scan' = [scan EXCEPT ![u].crossed = TRUE]
    BY <2>1, <1>11 DEF WriteMark, CrossScan
  <2>3. /\ guest' \in [Guests -> {"absent", "answered", "present"}]
        /\ \A v \in Guests \ {u} : guest'[v] = guest[v]
        /\ guest[u] = "absent" => guest'[u] = "absent"
        /\ guest[u] # "absent" => guest'[u] = IF b THEN "present" ELSE "answered"
    BY <2>1, <2>2, <1>0, MarkRowKeeps
  <2>4. KeyInv'
    BY <2>2, <1>0, KeyRests DEF keyVars
  <2>5. NoMark \in [pc : {"idle", "write"}, on : Guests \cup {NoCode}, to : BOOLEAN]
    BY DEF NoMark
  <2>6. CASE b
    <3>1. RowTypes' /\ MarkIsOfGuest'
      BY <2>2, <2>3, <2>5, <2>6, <1>0 DEF RowTypes, MarkIsOfGuest
    <3>2. ScanHasRow' /\ ToldIsPresent'
      BY <2>2, <2>3, <2>6, <1>0 DEF ScanHasRow, ToldIsPresent
    <3>. QED
      BY <2>2, <2>4, <3>1, <3>2, <1>0 DEF CheckInInv, RowInv
  <2>7. CASE ~b
    <3>1. scan' = [scan EXCEPT ![u].crossed = TRUE] /\ told' = told \ {u}
      BY <2>2, <2>7
    <3>2. RowTypes' /\ MarkIsOfGuest'
      <4>1. scan' \in [Guests -> [pc : {"idle", "validate", "mark"}, code : Codes \cup {NoCode},
                                  present : BOOLEAN, crossed : BOOLEAN]]
        BY <3>1, <1>0
      <4>. QED
        BY <4>1, <3>1, <2>2, <2>3, <2>5, <1>0 DEF RowTypes, MarkIsOfGuest
    <3>3. ScanHasRow' /\ ToldIsPresent'
      BY <3>1, <2>2, <2>3, <1>0 DEF ScanHasRow, ToldIsPresent
    <3>. QED
      BY <2>2, <2>4, <3>2, <3>3, <1>0 DEF CheckInInv, RowInv
  <2>. QED
    BY <2>6, <2>7
<1>. QED
  BY <1>1, <1>2, <1>3, <1>4, <1>5, <1>6, <1>7, <1>8, <1>9, <1>10, <1>11 DEF CheckInNext

(* Check-in is sound, for any guests, screens, window and lifetime of a    *)
(* code: a code on a screen works until RotateBuffer before it expires     *)
(* unless a late screen overwrote it (check-in-qr.cache.ts:20-34), no code *)
(* opens anything past its life, and whom selfCheckIn told so is on the    *)
(* list as present.                                                        *)
THEOREM CheckInIsSound == CheckInSpec => []CheckInSound
<1>1. CheckInInv => CheckInSound
  BY DEF CheckInInv, KeyInv, RowInv, KeyTypes, RowTypes, CheckInSound, CheckInTypeOK, OldCodesAreDead
<1>. QED
  BY CheckInInvInit, CheckInInvStep, <1>1, PTL DEF CheckInSpec

-----------------------------------------------------------------------------
(***************************************************************************)
(* The hosts of an activity.  A cached list that no longer tells the truth *)
(* is one that a request under way is about to drop: it has the university *)
(* among those it learned, or has still to learn them.  A removal learns   *)
(* them before it deletes, so its club's university is among them unless   *)
(* the club accepted in between.                                           *)
(***************************************************************************)
HostKinds ==
  {NoHostReq}
    \cup [op : {"invite"}, pc : {"insert"}, club : CoClubs, schools : {{}}]
    \cup [op : {"accept"}, pc : {"write", "learn", "emit"}, club : CoClubs, schools : SUBSET Schools]
    \cup [op : {"remove"}, pc : {"learn", "delete", "emit"}, club : CoClubs, schools : SUBSET Schools]
    \cup [op : {"cancel"}, pc : {"write", "learn", "emit"}, club : {Unlisted}, schools : SUBSET Schools]

HostRequestsOK == hostReq \in [HostRequests -> HostKinds]

\* A removal about to delete knows the university of a club that accepted.
RemovalKnows(r) ==
  hostReq[r].pc = "delete" /\ link[hostReq[r].club] = "accepted" =>
    SchoolOf[hostReq[r].club] \in hostReq[r].schools
\* The request is about to drop the list of the university.
Drops(r, s) ==
  \/ hostReq[r].pc = "emit" /\ s \in hostReq[r].schools
  \/ hostReq[r].pc = "learn" /\ hostReq[r].op \in {"accept", "cancel"} /\ s \in AcceptedSchools
Truthful(s) == listed[s] = Unlisted \/ listed[s] = Shows(s)

ListsHeld ==
  ~crossed =>
    /\ \A r \in HostRequests : RemovalKnows(r)
    /\ \A s \in Schools : Truthful(s) \/ \E r \in HostRequests : Drops(r, s)

JoinedOnce == \A c \in CoClubs : link[c] = "accepted" => SchoolOf[c] \in joined

HostsInv == HostsTypeOK /\ HostRequestsOK /\ ListsHeld /\ JoinedOnce /\ InvitedNotListed

LEMMA HostKindsType ==
  HostKinds \subseteq [op : {"none", "invite", "accept", "remove", "cancel"},
                       pc : HostPcs, club : CoClubs \cup {Unlisted}, schools : SUBSET Schools]
BY DEF HostKinds, NoHostReq, HostPcs

LEMMA AcceptedSchoolsType == AcceptedSchools \subseteq Schools
BY HostsAssumption DEF AcceptedSchools, AcceptedClubs

LEMMA HostsInvInit == HostsInit => HostsInv
<1>. SUFFICES ASSUME HostsInit PROVE HostsInv
  OBVIOUS
<1>1. HostRequestsOK
  BY DEF HostsInit, HostRequestsOK, HostKinds
<1>2. HostsTypeOK
  <2>1. hostReq \in [HostRequests -> [op : {"none", "invite", "accept", "remove", "cancel"},
          pc : HostPcs, club : CoClubs \cup {Unlisted}, schools : SUBSET Schools]]
    BY <1>1, HostKindsType DEF HostRequestsOK
  <2>. QED
    BY <2>1 DEF HostsInit, HostsTypeOK
<1>3. ListsHeld /\ JoinedOnce
  BY DEF HostsInit, ListsHeld, RemovalKnows, Truthful, JoinedOnce, NoHostReq
<1>4. InvitedNotListed
  BY HostsAssumption DEF HostsInit, InvitedNotListed
<1>. QED
  BY <1>1, <1>2, <1>3, <1>4 DEF HostsInv

\* What the types say of a step that keeps the requests' kinds.
LEMMA HostsTypeStep ==
  ASSUME HostRequestsOK', link' \in [CoClubs -> {"absent", "invited", "accepted"}],
         live' \in BOOLEAN, crossed' \in BOOLEAN, joined' \subseteq Schools,
         listed' \in [Schools -> BOOLEAN \cup {Unlisted}]
  PROVE  HostsTypeOK'
<1>1. hostReq' \in [HostRequests -> [op : {"none", "invite", "accept", "remove", "cancel"},
        pc : HostPcs, club : CoClubs \cup {Unlisted}, schools : SUBSET Schools]]
  BY HostKindsType DEF HostRequestsOK
<1>. QED
  BY <1>1 DEF HostsTypeOK

\* The universities change with the links only.
LEMMA SameHosts ==
  ASSUME UNCHANGED <<link, live>>
  PROVE  AcceptedSchools' = AcceptedSchools /\ \A s : Shows(s)' = Shows(s)
BY DEF AcceptedSchools, AcceptedClubs, Shows

\* Another link changes one university at most.
LEMMA OneHostChanges ==
  ASSUME link \in [CoClubs -> {"absent", "invited", "accepted"}], NEW c \in CoClubs, NEW v,
         link' = [link EXCEPT ![c] = v], live' = live, NEW s, s # SchoolOf[c]
  PROVE  (s \in AcceptedSchools' <=> s \in AcceptedSchools) /\ Shows(s)' = Shows(s)
<1>1. s \in AcceptedSchools' <=> s \in AcceptedSchools
  <2>1. \A d \in CoClubs : SchoolOf[d] = s => link'[d] = link[d]
    OBVIOUS
  <2>. QED
    BY <2>1 DEF AcceptedSchools, AcceptedClubs
<1>. QED
  BY <1>1 DEF Shows

\* A step of one request: what it leaves of the others.
LEMMA HostsOther ==
  ASSUME HostRequestsOK, NEW r \in HostRequests, NEW k \in HostKinds,
         hostReq' = [hostReq EXCEPT ![r] = k]
  PROVE  /\ HostRequestsOK' /\ hostReq'[r] = k
         /\ \A q \in HostRequests \ {r} : hostReq'[q] = hostReq[q]
BY DEF HostRequestsOK

LEMMA HostsInvStep == HostsInv /\ [HostsNext]_hostsVars => HostsInv'
<1>. SUFFICES ASSUME HostsInv, [HostsNext]_hostsVars PROVE HostsInv'
  OBVIOUS
<1>0. /\ HostRequestsOK /\ hostReq \in [HostRequests -> HostKinds]
      /\ link \in [CoClubs -> {"absent", "invited", "accepted"}]
      /\ live \in BOOLEAN /\ crossed \in BOOLEAN /\ joined \subseteq Schools
      /\ listed \in [Schools -> BOOLEAN \cup {Unlisted}]
      /\ ListsHeld /\ JoinedOnce /\ InvitedNotListed
  BY DEF HostsInv, HostRequestsOK, HostsTypeOK
\* Nothing but the requests changes, and one of them begins.
<1>1. ASSUME NEW r \in HostRequests, NEW k \in HostKinds, hostReq[r] = NoHostReq,
             hostReq' = [hostReq EXCEPT ![r] = k], k.pc \notin {"delete", "emit"},
             UNCHANGED <<link, live, listed, joined, crossed>>
      PROVE  HostsInv'
  <2>1. HostRequestsOK' /\ hostReq'[r] = k
        /\ \A q \in HostRequests \ {r} : hostReq'[q] = hostReq[q]
    BY <1>1, <1>0, HostsOther
  <2>2. UNCHANGED <<link, live, listed, joined, crossed>>
    BY <1>1
  <2>3. \A q \in HostRequests : RemovalKnows(q) => RemovalKnows(q)'
    BY <2>1, <2>2, <1>1 DEF RemovalKnows
  <2>4. \A q \in HostRequests, s \in Schools : Drops(q, s) => Drops(q, s)'
    <3>1. hostReq[r].pc = "idle"
      BY <1>1 DEF NoHostReq
    <3>2. \A s \in Schools : ~Drops(r, s)
      BY <3>1 DEF Drops
    <3>3. AcceptedSchools' = AcceptedSchools
      BY <2>2, SameHosts
    <3>. QED
      BY <2>1, <3>2, <3>3 DEF Drops
  <2>5. ListsHeld'
    BY <2>2, <2>3, <2>4, <1>0, SameHosts DEF ListsHeld, Truthful
  <2>6. JoinedOnce' /\ InvitedNotListed'
    BY <2>2, <1>0 DEF JoinedOnce, InvitedNotListed
  <2>7. HostsTypeOK'
    BY <2>1, <2>2, <1>0, HostsTypeStep
  <2>. QED
    BY <2>1, <2>5, <2>6, <2>7 DEF HostsInv
<1>2. ASSUME UNCHANGED hostsVars PROVE HostsInv'
  <2>1. UNCHANGED <<link, live, listed, joined, crossed, hostReq>>
    BY <1>2 DEF hostsVars
  <2>2. ListsHeld'
    BY <2>1, <1>0, SameHosts DEF ListsHeld, Truthful, RemovalKnows, Drops
  <2>. QED
    BY <2>1, <2>2, <1>0 DEF HostsInv, HostsTypeOK, HostRequestsOK, JoinedOnce, InvitedNotListed
<1>3. ASSUME NEW r \in HostRequests, NEW c \in CoClubs,
             InviteCoHost(r, c) \/ AcceptCoHost(r, c) \/ RemoveCoHost(r, c)
      PROVE  HostsInv'
  <2>2. CASE InviteCoHost(r, c)
    <3>. DEFINE k == [NoHostReq EXCEPT !.op = "invite", !.pc = "insert", !.club = c]
    <3>1. k \in HostKinds /\ k.pc = "insert"
      BY DEF HostKinds, NoHostReq
    <3>2. hostReq[r] = NoHostReq /\ hostReq' = [hostReq EXCEPT ![r] = k]
          /\ UNCHANGED <<link, live, listed, joined, crossed>>
      BY <2>2 DEF InviteCoHost, HostEnter, RemovalStart
    <3>. HIDE DEF k
    <3>. QED
      BY <3>1, <3>2, <1>1
  <2>3. CASE AcceptCoHost(r, c)
    <3>. DEFINE k == [NoHostReq EXCEPT !.op = "accept", !.pc = "write", !.club = c]
    <3>1. k \in HostKinds /\ k.pc = "write"
      BY DEF HostKinds, NoHostReq
    <3>2. hostReq[r] = NoHostReq /\ hostReq' = [hostReq EXCEPT ![r] = k]
          /\ UNCHANGED <<link, live, listed, joined, crossed>>
      BY <2>3 DEF AcceptCoHost, HostEnter, RemovalStart
    <3>. HIDE DEF k
    <3>. QED
      BY <3>1, <3>2, <1>1
  <2>4. CASE RemoveCoHost(r, c)
    <3>. DEFINE k == [NoHostReq EXCEPT !.op = "remove", !.pc = "learn", !.club = c]
    <3>1. k \in HostKinds /\ k.pc = "learn"
      BY DEF HostKinds, NoHostReq
    <3>2. hostReq[r] = NoHostReq /\ hostReq' = [hostReq EXCEPT ![r] = k]
          /\ UNCHANGED <<link, live, listed, joined, crossed>>
      BY <2>4 DEF RemoveCoHost, HostEnter, RemovalStart
    <3>. HIDE DEF k
    <3>. QED
      BY <3>1, <3>2, <1>1
  <2>. QED
    BY <1>3, <2>2, <2>3, <2>4
<1>4. ASSUME NEW r \in HostRequests, NEW s \in Schools, ModerateCancel(r, s) PROVE HostsInv'
  <2>. DEFINE k == [NoHostReq EXCEPT !.op = "cancel", !.pc = "write", !.club = Unlisted]
  <2>1. k \in HostKinds /\ k.pc = "write"
    BY DEF HostKinds, NoHostReq
  <2>2. hostReq[r] = NoHostReq /\ hostReq' = [hostReq EXCEPT ![r] = k]
        /\ UNCHANGED <<link, live, listed, joined, crossed>>
    BY <1>4 DEF ModerateCancel, HostEnter
  <2>. HIDE DEF k
  <2>. QED
    BY <2>1, <2>2, <1>1
<1>5. ASSUME NEW r \in HostRequests, InsertInvite(r) PROVE HostsInv'
  <2>1. PICK c : c = hostReq[r].club /\ c \in CoClubs /\ hostReq[r].pc = "insert"
    BY <1>5, <1>0 DEF InsertInvite, HostKinds, NoHostReq
  <2>2. link' = [link EXCEPT ![c] = IF @ = "absent" THEN "invited" ELSE @]
        /\ UNCHANGED <<live, listed, joined, crossed>>
    BY <2>1, <1>5 DEF InsertInvite
  <2>3. HostRequestsOK' /\ hostReq'[r] = NoHostReq
        /\ \A q \in HostRequests \ {r} : hostReq'[q] = hostReq[q]
    BY <1>5, <1>0, HostsOther DEF InsertInvite, HostKinds
  <2>4. link' \in [CoClubs -> {"absent", "invited", "accepted"}]
        /\ \A d \in CoClubs : link'[d] = "accepted" <=> link[d] = "accepted"
    BY <2>2, <1>0
  <2>5. AcceptedSchools' = AcceptedSchools
    BY <2>4 DEF AcceptedSchools, AcceptedClubs
  <2>6. \A s : Shows(s)' = Shows(s)
    BY <2>5, <2>2 DEF Shows
  <2>7. \A q \in HostRequests : RemovalKnows(q) => RemovalKnows(q)'
    <3>1. \A q \in HostRequests : hostReq[q].pc = "delete" => hostReq[q].club \in CoClubs
      BY <1>0 DEF HostKinds, NoHostReq
    <3>. QED
      BY <2>3, <2>4, <3>1 DEF RemovalKnows, NoHostReq
  <2>8. \A q \in HostRequests, s \in Schools : Drops(q, s) => Drops(q, s)'
    BY <2>1, <2>3, <2>5 DEF Drops
  <2>9. ListsHeld'
    BY <2>2, <2>6, <2>7, <2>8, <1>0 DEF ListsHeld, Truthful
  <2>10. JoinedOnce' /\ InvitedNotListed'
    BY <2>2, <2>4, <1>0 DEF JoinedOnce, InvitedNotListed
  <2>11. HostsTypeOK'
    BY <2>2, <2>3, <2>4, <1>0, HostsTypeStep
  <2>. QED
    BY <2>3, <2>9, <2>10, <2>11 DEF HostsInv
<1>6. ASSUME NEW r \in HostRequests, WriteAccepted(r) PROVE HostsInv'
  <2>1. PICK c : c = hostReq[r].club /\ c \in CoClubs
    BY <1>6, <1>0 DEF WriteAccepted, HostKinds, NoHostReq
  <2>. DEFINE k == [hostReq[r] EXCEPT !.pc = "learn"]
  <2>2. k \in HostKinds /\ k.pc = "learn" /\ k.op = "accept" /\ k.club = c
    BY <2>1, <1>6, <1>0 DEF WriteAccepted, HostKinds, NoHostReq
  <2>3. hostReq' = [hostReq EXCEPT ![r] = k]
    BY <1>6 DEF WriteAccepted, HostGoto
  <2>4. HostRequestsOK' /\ hostReq'[r] = k
        /\ \A q \in HostRequests \ {r} : hostReq'[q] = hostReq[q]
    BY <2>2, <2>3, <1>0, HostsOther
  <2>5. /\ link' = [link EXCEPT ![c] = IF @ = "absent" THEN @ ELSE "accepted"]
        /\ joined' = IF link[c] = "absent" THEN joined ELSE joined \cup {SchoolOf[c]}
        /\ crossed' = (crossed \/ \E q \in HostRequests :
                                    hostReq[q].club = c /\ hostReq[q].pc = "delete")
        /\ UNCHANGED <<live, listed>>
    BY <2>1, <1>6 DEF WriteAccepted
  <2>6. PICK v : v = IF link[c] = "absent" THEN "absent" ELSE "accepted"
    OBVIOUS
  <2>7. link' = [link EXCEPT ![c] = v]
    BY <2>5, <2>6
  <2>8. link' \in [CoClubs -> {"absent", "invited", "accepted"}]
        /\ SchoolOf[c] \in Schools /\ joined' \subseteq Schools /\ joined \subseteq joined'
    BY <2>1, <2>5, <1>0, HostsAssumption
  <2>9. JoinedOnce'
    BY <2>5, <2>1, <2>8, <1>0 DEF JoinedOnce
  <2>10. InvitedNotListed'
    BY <2>5, <2>8, <1>0 DEF InvitedNotListed
  <2>11. AcceptedSchools \subseteq AcceptedSchools'
    BY <2>5, <1>0 DEF AcceptedSchools, AcceptedClubs
  <2>12. ASSUME ~crossed' PROVE \A q \in HostRequests : RemovalKnows(q)'
    <3>. SUFFICES ASSUME NEW q \in HostRequests, hostReq'[q].pc = "delete" PROVE RemovalKnows(q)'
      BY DEF RemovalKnows
    <3>1. q # r /\ hostReq'[q] = hostReq[q]
      BY <2>2, <2>4
    <3>2. ~crossed /\ hostReq[q].club # c
      BY <2>12, <2>5, <3>1
    <3>4. hostReq[q].club \in CoClubs
      BY <3>1, <1>0 DEF HostKinds, NoHostReq
    <3>3. link'[hostReq[q].club] = link[hostReq[q].club]
      BY <2>5, <3>2, <3>4
    <3>. QED
      BY <3>1, <3>2, <3>3, <1>0 DEF ListsHeld, RemovalKnows
  <2>13. ASSUME ~crossed', NEW s \in Schools
         PROVE  Truthful(s)' \/ \E q \in HostRequests : Drops(q, s)'
    <3>0. ~crossed
      BY <2>13, <2>5
    <3>1. CASE s # SchoolOf[c]
      <4>1. (s \in AcceptedSchools' <=> s \in AcceptedSchools) /\ Shows(s)' = Shows(s)
        BY <3>1, <2>1, <2>5, <2>7, <1>0, OneHostChanges
      <4>2. Truthful(s) => Truthful(s)'
        BY <4>1, <2>5 DEF Truthful
      <4>3. ~Drops(r, s)
        BY <1>6 DEF Drops, WriteAccepted
      <4>4. \A q \in HostRequests : Drops(q, s) => Drops(q, s)'
        BY <4>1, <4>3, <2>4 DEF Drops
      <4>. QED
        BY <3>0, <4>2, <4>4, <1>0 DEF ListsHeld
    <3>2. CASE s = SchoolOf[c] /\ link[c] = "absent"
      <4>1. link' = link
        BY <3>2, <2>5, <1>0
      <4>2. AcceptedSchools' = AcceptedSchools /\ Shows(s)' = Shows(s)
        BY <4>1, <2>5, SameHosts
      <4>3. Truthful(s) => Truthful(s)'
        BY <4>2, <2>5 DEF Truthful
      <4>4. ~Drops(r, s)
        BY <1>6 DEF Drops, WriteAccepted
      <4>5. \A q \in HostRequests : Drops(q, s) => Drops(q, s)'
        BY <4>2, <4>4, <2>4 DEF Drops
      <4>. QED
        BY <3>0, <4>3, <4>5, <1>0 DEF ListsHeld
    <3>3. CASE s = SchoolOf[c] /\ link[c] # "absent"
      <4>1. link'[c] = "accepted"
        BY <3>3, <2>1, <2>5, <1>0
      <4>2. s \in AcceptedSchools'
        BY <3>3, <4>1, <2>1 DEF AcceptedSchools, AcceptedClubs
      <4>3. Drops(r, s)'
        BY <4>2, <2>2, <2>4 DEF Drops
      <4>. QED
        BY <4>3
    <3>. QED
      BY <3>1, <3>2, <3>3
  <2>14. ListsHeld'
    BY <2>12, <2>13 DEF ListsHeld
  <2>15. crossed' \in BOOLEAN
    BY <2>5, <1>0
  <2>16. HostsTypeOK'
    BY <2>4, <2>5, <2>8, <2>15, <1>0, HostsTypeStep
  <2>. QED
    BY <2>4, <2>9, <2>10, <2>14, <2>16 DEF HostsInv
<1>7. ASSUME NEW r \in HostRequests, WriteCancelled(r) PROVE HostsInv'
  <2>. DEFINE k == [hostReq[r] EXCEPT !.pc = "learn"]
  <2>1. k \in HostKinds /\ k.pc = "learn" /\ k.op = "cancel"
    BY <1>7, <1>0 DEF WriteCancelled, HostKinds, NoHostReq
  <2>2. hostReq' = [hostReq EXCEPT ![r] = k]
    BY <1>7 DEF WriteCancelled, HostGoto
  <2>3. HostRequestsOK' /\ hostReq'[r] = k
        /\ \A q \in HostRequests \ {r} : hostReq'[q] = hostReq[q]
    BY <2>1, <2>2, <1>0, HostsOther
  <2>4. UNCHANGED <<link, listed, joined, crossed>> /\ live' = FALSE
    BY <1>7 DEF WriteCancelled
  <2>5. AcceptedSchools' = AcceptedSchools
    BY <2>4 DEF AcceptedSchools, AcceptedClubs
  <2>6. ASSUME ~crossed, NEW s \in Schools
        PROVE  Truthful(s)' \/ \E q \in HostRequests : Drops(q, s)'
    <3>1. CASE s \in AcceptedSchools
      BY <3>1, <2>1, <2>3, <2>5 DEF Drops
    <3>2. CASE s \notin AcceptedSchools
      <4>1. Shows(s)' = Shows(s)
        BY <3>2, <2>5 DEF Shows
      <4>2. Truthful(s) => Truthful(s)'
        BY <4>1, <2>4 DEF Truthful
      <4>3. ~Drops(r, s)
        BY <1>7 DEF Drops, WriteCancelled
      <4>4. \A q \in HostRequests : Drops(q, s) => Drops(q, s)'
        BY <2>5, <4>3, <2>3 DEF Drops
      <4>. QED
        BY <2>6, <4>2, <4>4, <1>0 DEF ListsHeld
    <3>. QED
      BY <3>1, <3>2
  <2>7. \A q \in HostRequests : RemovalKnows(q) => RemovalKnows(q)'
    BY <2>1, <2>3, <2>4 DEF RemovalKnows
  <2>8. ListsHeld'
    BY <2>4, <2>6, <2>7, <1>0 DEF ListsHeld
  <2>9. JoinedOnce' /\ InvitedNotListed'
    BY <2>4, <1>0 DEF JoinedOnce, InvitedNotListed
  <2>10. HostsTypeOK'
    BY <2>3, <2>4, <1>0, HostsTypeStep
  <2>. QED
    BY <2>3, <2>8, <2>9, <2>10 DEF HostsInv
<1>8. ASSUME NEW r \in HostRequests, LearnSchools(r) PROVE HostsInv'
  <2>1. PICK pc : pc = IF hostReq[r].op = "remove" THEN "delete" ELSE "emit"
    OBVIOUS
  <2>. DEFINE k == [hostReq[r] EXCEPT !.schools = AcceptedSchools, !.pc = pc]
  <2>2. hostReq[r].pc = "learn" /\ hostReq[r] \in HostKinds
    BY <1>8, <1>0 DEF LearnSchools
  <2>3. k \in HostKinds /\ k.pc = pc /\ k.schools = AcceptedSchools /\ k.club = hostReq[r].club
    <3>1. hostReq[r] \in [op : {"accept"}, pc : {"learn"}, club : CoClubs, schools : SUBSET Schools]
            \cup [op : {"remove"}, pc : {"learn"}, club : CoClubs, schools : SUBSET Schools]
            \cup [op : {"cancel"}, pc : {"learn"}, club : {Unlisted}, schools : SUBSET Schools]
      BY <2>2 DEF HostKinds, NoHostReq
    <3>2. k.pc = pc /\ k.schools = AcceptedSchools /\ k.club = hostReq[r].club
      BY <3>1
    <3>3. CASE hostReq[r].op = "remove"
      <4>1. k \in [op : {"remove"}, pc : {"delete"}, club : CoClubs, schools : SUBSET Schools]
        BY <3>1, <3>3, <2>1, AcceptedSchoolsType
      <4>. QED
        BY <4>1, <3>2 DEF HostKinds
    <3>4. CASE hostReq[r].op = "accept"
      <4>1. k \in [op : {"accept"}, pc : {"emit"}, club : CoClubs, schools : SUBSET Schools]
        BY <3>1, <3>4, <2>1, AcceptedSchoolsType
      <4>. QED
        BY <4>1, <3>2 DEF HostKinds
    <3>5. CASE hostReq[r].op = "cancel"
      <4>1. k \in [op : {"cancel"}, pc : {"emit"}, club : {Unlisted}, schools : SUBSET Schools]
        BY <3>1, <3>5, <2>1, AcceptedSchoolsType
      <4>. QED
        BY <4>1, <3>2 DEF HostKinds
    <3>. QED
      BY <3>1, <3>3, <3>4, <3>5
  <2>4. hostReq' = [hostReq EXCEPT ![r] = k]
    BY <2>1, <1>8 DEF LearnSchools, RemovalStart
  <2>5. HostRequestsOK' /\ hostReq'[r] = k
        /\ \A q \in HostRequests \ {r} : hostReq'[q] = hostReq[q]
    BY <2>3, <2>4, <1>0, HostsOther
  <2>6. UNCHANGED <<link, live, listed, joined, crossed>>
    BY <1>8 DEF LearnSchools
  <2>7. AcceptedSchools' = AcceptedSchools /\ \A s : Shows(s)' = Shows(s)
    BY <2>6, SameHosts
  <2>8. \A q \in HostRequests : RemovalKnows(q) => RemovalKnows(q)'
    <3>1. RemovalKnows(r)'
      <4>. SUFFICES ASSUME pc = "delete", link[k.club] = "accepted"
                    PROVE  SchoolOf[k.club] \in AcceptedSchools
        BY <2>3, <2>5, <2>6 DEF RemovalKnows
      <4>1. k.club \in CoClubs
        BY <2>1, <2>2, <2>3 DEF HostKinds, NoHostReq
      <4>. QED
        BY <4>1 DEF AcceptedSchools, AcceptedClubs
    <3>. QED
      BY <3>1, <2>5, <2>6 DEF RemovalKnows
  <2>9. \A q \in HostRequests, s \in Schools : Drops(q, s) => Drops(q, s)'
    BY <2>1, <2>2, <2>3, <2>5, <2>7 DEF Drops
  <2>10. ListsHeld'
    BY <2>6, <2>7, <2>8, <2>9, <1>0 DEF ListsHeld, Truthful
  <2>11. JoinedOnce' /\ InvitedNotListed'
    BY <2>6, <1>0 DEF JoinedOnce, InvitedNotListed
  <2>12. HostsTypeOK'
    BY <2>5, <2>6, <1>0, HostsTypeStep
  <2>. QED
    BY <2>5, <2>10, <2>11, <2>12 DEF HostsInv
<1>9. ASSUME NEW r \in HostRequests, DeleteLink(r) PROVE HostsInv'
  <2>1. PICK c : c = hostReq[r].club /\ c \in CoClubs /\ hostReq[r].pc = "delete"
    BY <1>9, <1>0 DEF DeleteLink, HostKinds, NoHostReq
  <2>. DEFINE k == [hostReq[r] EXCEPT !.pc = "emit"]
  <2>2. k \in HostKinds /\ k.pc = "emit" /\ k.schools = hostReq[r].schools
    BY <2>1, <1>0 DEF HostKinds, NoHostReq
  <2>3. hostReq' = [hostReq EXCEPT ![r] = k]
    BY <1>9 DEF DeleteLink, HostGoto, RemovalStart
  <2>4. HostRequestsOK' /\ hostReq'[r] = k
        /\ \A q \in HostRequests \ {r} : hostReq'[q] = hostReq[q]
    BY <2>2, <2>3, <1>0, HostsOther
  <2>5. link' = [link EXCEPT ![c] = "absent"] /\ UNCHANGED <<live, listed, joined, crossed>>
    BY <2>1, <1>9 DEF DeleteLink
  <2>6. link' \in [CoClubs -> {"absent", "invited", "accepted"}]
        /\ \A d \in CoClubs : link'[d] = "accepted" => link[d] = "accepted"
    BY <2>5, <1>0
  <2>7. \A q \in HostRequests : RemovalKnows(q) => RemovalKnows(q)'
    <3>1. \A q \in HostRequests : hostReq[q].pc = "delete" => hostReq[q].club \in CoClubs
      BY <1>0 DEF HostKinds, NoHostReq
    <3>. QED
      BY <2>2, <2>4, <2>6, <3>1 DEF RemovalKnows
  <2>8. ASSUME ~crossed, NEW s \in Schools
        PROVE  Truthful(s)' \/ \E q \in HostRequests : Drops(q, s)'
    <3>1. ~Drops(r, s)
      BY <2>1 DEF Drops
    <3>2. CASE s = SchoolOf[c] /\ link[c] = "accepted"
      <4>1. s \in k.schools
        BY <3>2, <2>1, <2>2, <2>8, <1>0 DEF ListsHeld, RemovalKnows
      <4>. QED
        BY <4>1, <2>2, <2>4 DEF Drops
    <3>3. CASE s # SchoolOf[c]
      <4>1. (s \in AcceptedSchools' <=> s \in AcceptedSchools) /\ Shows(s)' = Shows(s)
        BY <3>3, <2>1, <2>5, <1>0, OneHostChanges
      <4>2. Truthful(s) => Truthful(s)'
        BY <4>1, <2>5 DEF Truthful
      <4>3. \A q \in HostRequests : Drops(q, s) => Drops(q, s)'
        BY <4>1, <3>1, <2>4 DEF Drops
      <4>. QED
        BY <2>8, <4>2, <4>3, <1>0 DEF ListsHeld
    <3>4. CASE s = SchoolOf[c] /\ link[c] # "accepted"
      <4>1. \A d \in CoClubs : link'[d] = "accepted" <=> link[d] = "accepted"
        BY <3>4, <2>5, <1>0
      <4>2. AcceptedSchools' = AcceptedSchools
        BY <4>1 DEF AcceptedSchools, AcceptedClubs
      <4>3. Shows(s)' = Shows(s)
        BY <4>2, <2>5 DEF Shows
      <4>4. Truthful(s) => Truthful(s)'
        BY <4>3, <2>5 DEF Truthful
      <4>5. \A q \in HostRequests : Drops(q, s) => Drops(q, s)'
        BY <4>2, <3>1, <2>4 DEF Drops
      <4>. QED
        BY <2>8, <4>4, <4>5, <1>0 DEF ListsHeld
    <3>. QED
      BY <3>2, <3>3, <3>4
  <2>9. ListsHeld'
    BY <2>5, <2>7, <2>8, <1>0 DEF ListsHeld
  <2>10. JoinedOnce' /\ InvitedNotListed'
    BY <2>5, <2>6, <1>0 DEF JoinedOnce, InvitedNotListed
  <2>11. HostsTypeOK'
    BY <2>4, <2>5, <2>6, <1>0, HostsTypeStep
  <2>. QED
    BY <2>4, <2>9, <2>10, <2>11 DEF HostsInv
<1>10. ASSUME NEW r \in HostRequests, EmitHosts(r) PROVE HostsInv'
  <2>1. HostRequestsOK' /\ hostReq'[r] = NoHostReq
        /\ \A q \in HostRequests \ {r} : hostReq'[q] = hostReq[q]
    BY <1>10, <1>0, HostsOther DEF EmitHosts, HostKinds
  <2>2. /\ hostReq[r].pc = "emit"
        /\ listed' = [s \in Schools |-> IF s \in hostReq[r].schools THEN Unlisted ELSE listed[s]]
        /\ UNCHANGED <<link, live, joined, crossed>>
    BY <1>10 DEF EmitHosts
  <2>3. AcceptedSchools' = AcceptedSchools /\ \A s : Shows(s)' = Shows(s)
    BY <2>2, SameHosts
  <2>4. \A q \in HostRequests : RemovalKnows(q) => RemovalKnows(q)'
    BY <2>1, <2>2 DEF RemovalKnows, NoHostReq
  <2>5. ASSUME ~crossed, NEW s \in Schools
        PROVE  Truthful(s)' \/ \E q \in HostRequests : Drops(q, s)'
    <3>1. CASE s \in hostReq[r].schools
      BY <3>1, <2>2 DEF Truthful
    <3>2. CASE s \notin hostReq[r].schools
      <4>1. ~Drops(r, s)
        BY <3>2, <2>2 DEF Drops
      <4>2. Truthful(s) => Truthful(s)'
        BY <3>2, <2>2, <2>3 DEF Truthful
      <4>3. \A q \in HostRequests : Drops(q, s) => Drops(q, s)'
        BY <4>1, <2>1, <2>3 DEF Drops
      <4>. QED
        BY <2>5, <4>2, <4>3, <1>0 DEF ListsHeld
    <3>. QED
      BY <3>1, <3>2
  <2>6. ListsHeld'
    BY <2>2, <2>4, <2>5, <1>0 DEF ListsHeld
  <2>7. JoinedOnce'
    BY <2>2, <1>0 DEF JoinedOnce
  <2>8. InvitedNotListed'
    BY <2>2, <1>0, HostsAssumption DEF InvitedNotListed
  <2>9. listed' \in [Schools -> BOOLEAN \cup {Unlisted}]
    BY <2>2, <1>0
  <2>10. HostsTypeOK'
    BY <2>1, <2>2, <2>9, <1>0, HostsTypeStep
  <2>. QED
    BY <2>1, <2>6, <2>7, <2>8, <2>10 DEF HostsInv
<1>11. ASSUME NEW s \in Schools, BrowseDiscovery(s) PROVE HostsInv'
  <2>1. /\ listed' = [listed EXCEPT ![s] = Shows(s)]
        /\ UNCHANGED <<link, live, hostReq, joined, crossed>>
    BY <1>11 DEF BrowseDiscovery
  <2>2. AcceptedSchools' = AcceptedSchools /\ \A x : Shows(x)' = Shows(x)
    BY <2>1, SameHosts
  <2>3. HostRequestsOK'
    BY <2>1, <1>0 DEF HostRequestsOK
  <2>4. \A x \in Schools : Truthful(x) => Truthful(x)'
    BY <2>1, <2>2, <1>0 DEF Truthful
  <2>5. Truthful(s)'
    BY <2>1, <2>2, <1>0 DEF Truthful
  <2>6. ListsHeld'
    BY <2>1, <2>2, <2>4, <1>0 DEF ListsHeld, RemovalKnows, Drops
  <2>7. Shows(s) \in BOOLEAN /\ (Shows(s) => s \in joined \cup {HostSchool})
    <3>1. AcceptedSchools \subseteq joined \cup {HostSchool}
      BY <1>0 DEF JoinedOnce, AcceptedSchools, AcceptedClubs
    <3>. QED
      BY <3>1, <1>0 DEF Shows
  <2>8. JoinedOnce'
    BY <2>1, <1>0 DEF JoinedOnce
  <2>9. InvitedNotListed'
    <3>. SUFFICES ASSUME NEW x \in Schools, listed'[x] = TRUE PROVE x \in joined \cup {HostSchool}
      BY <2>1 DEF InvitedNotListed
    <3>1. CASE x = s
      <4>1. listed'[x] = Shows(s)
        BY <3>1, <2>1, <1>0
      <4>. QED
        BY <4>1, <3>1, <2>7
    <3>2. CASE x # s
      <4>1. listed'[x] = listed[x]
        BY <3>2, <2>1, <1>0
      <4>. QED
        BY <4>1, <1>0 DEF InvitedNotListed
    <3>. QED
      BY <3>1, <3>2
  <2>10. listed' \in [Schools -> BOOLEAN \cup {Unlisted}]
    BY <2>1, <2>7, <1>0
  <2>11. HostsTypeOK'
    BY <2>1, <2>3, <2>10, <1>0, HostsTypeStep
  <2>. QED
    BY <2>3, <2>6, <2>8, <2>9, <2>11 DEF HostsInv
<1>. QED
  BY <1>2, <1>3, <1>4, <1>5, <1>6, <1>7, <1>8, <1>9, <1>10, <1>11 DEF HostsNext

(* The hosts of an activity are sound, for any clubs, universities and     *)
(* overlapping requests: when none is under way every cached discovery     *)
(* list shows the activity exactly where it belongs, unless an acceptance  *)
(* fell into a removal (activities.service.ts:368-371), and an invitation  *)
(* alone shows it nowhere.                                                 *)
THEOREM HostsAreSound == HostsSpec => []HostsSound
<1>1. HostsInv => HostsSound
  <2>. SUFFICES ASSUME HostsInv PROVE ListsFollowHosts
    BY DEF HostsInv, HostsSound
  <2>. SUFFICES ASSUME \A r \in HostRequests : hostReq[r] = NoHostReq, ~crossed, NEW s \in Schools
                PROVE  listed[s] \in {Unlisted, Shows(s)}
    BY DEF ListsFollowHosts
  <2>1. \A r \in HostRequests : ~Drops(r, s)
    BY DEF Drops, NoHostReq
  <2>. QED
    BY <2>1 DEF HostsInv, ListsHeld, Truthful
<1>. QED
  BY HostsInvInit, HostsInvStep, <1>1, PTL DEF HostsSpec

-----------------------------------------------------------------------------
(***************************************************************************)
(* A proposal for a club.  While no two operations have met, the one under *)
(* way knows what it read.  While none that takes a support back has met   *)
(* another, no operation has counted more supports than there are.         *)
(***************************************************************************)
\* One open request, said without counting.
RequestsExclude ==
  /\ openApps <= 1
  /\ openApps = 1 => \A p \in Proposals : ~Collecting(p)
  /\ \A p, q \in Proposals : Collecting(p) /\ Collecting(q) => p = q

KnowsProposal(u) ==
  /\ forming[u].op = "support" =>
       /\ forming[u].seen = proposal[forming[u].on].count /\ Collecting(forming[u].on)
       /\ u \notin proposal[forming[u].on].supports
  /\ forming[u].op = "unsupport" =>
       /\ forming[u].seen = proposal[forming[u].on].count
       /\ u \in proposal[forming[u].on].supports
  /\ forming[u].op = "create" => openApps = 0 /\ \A p \in Proposals : ~Collecting(p)

FormsAlone ==
  ~formingMet =>
    /\ \A u, v \in Persons : forming[u] # NoOp /\ forming[v] # NoOp => u = v
    /\ CountIsSupport /\ RequestsExclude /\ NothingLate
    /\ \A u \in Persons : KnowsProposal(u)

NeverOvercounts ==
  ~undoMet =>
    /\ SubmittedHadSupport
    /\ \A p \in Proposals : proposal[p].count <= Cardinality(proposal[p].supports)
    /\ \A u \in Persons : forming[u] # NoOp =>
         forming[u].seen <= Cardinality(proposal[forming[u].on].supports)
    /\ \A u \in Persons : forming[u].op = "unsupport" =>
         /\ \A v \in Persons : forming[v] # NoOp => v = u
         /\ proposal[forming[u].on].status # "submitted"

FormationInv == FormationTypeOK /\ FormsAlone /\ NeverOvercounts

Forms == [op : {"none", "create", "support", "unsupport", "withdraw"},
          on : Proposals, seen : Nat, need : Nat]

LEMMA NoOpIs == NoOp \in Forms /\ NoOp.op = "none" /\ NoOp.on \in Proposals
<1>1. (CHOOSE p \in Proposals : TRUE) \in Proposals
  BY FormationAssumption
<1>. QED
  BY <1>1 DEF NoOp, Forms

LEMMA SupportsCounted ==
  ASSUME NEW S, S \subseteq Supporters
  PROVE  /\ Cardinality(S) \in Nat
         /\ \A u : u \notin S => Cardinality(S \cup {u}) = Cardinality(S) + 1
         /\ \A u : Cardinality(S \ {u}) \in Nat
         /\ \A u : u \in S => Cardinality(S \ {u}) = Cardinality(S) - 1
         /\ \A u : u \notin S => Cardinality(S \ {u}) = Cardinality(S)
<1>1. IsFiniteSet(S)
  BY FormationAssumption, FS_Subset
<1>2. Cardinality(S) \in Nat
  BY <1>1, FS_CardinalityType
<1>3. \A u : Cardinality(S \ {u}) \in Nat
  BY <1>1, FS_RemoveElement, FS_CardinalityType
<1>. QED
  BY <1>1, <1>2, <1>3, FS_AddElement, FS_RemoveElement

LEMMA FormationFacts ==
  ASSUME FormationTypeOK
  PROVE  /\ proposal \in [Proposals -> Proposal] /\ threshold \in Nat
         /\ applied \in 0..MaxApplications /\ openApps \in 0..applied
         /\ appealable \in Nat /\ reopened \in Nat /\ openApps + appealable + reopened <= applied
         /\ forming \in [Persons -> Forms] /\ formingMet \in BOOLEAN /\ undoMet \in BOOLEAN
         /\ begunOps \in 0..MaxForming
         /\ \A u \in Persons : forming[u].on \in Proposals /\ forming[u].seen \in Nat
         /\ \A p \in Proposals : /\ proposal[p].count \in Nat /\ proposal[p].need \in Nat
                                 /\ proposal[p].supports \subseteq Supporters
                                 /\ Cardinality(proposal[p].supports) \in Nat
<1>1. /\ proposal \in [Proposals -> Proposal] /\ forming \in [Persons -> Forms]
      /\ threshold \in Nat
  BY FormationAssumption DEF FormationTypeOK, Forms
<1>2. \A p \in Proposals : /\ proposal[p].count \in Nat /\ proposal[p].need \in Nat
                           /\ proposal[p].supports \subseteq Supporters
  BY <1>1 DEF Proposal
<1>3. \A u \in Persons : forming[u].on \in Proposals /\ forming[u].seen \in Nat
  BY <1>1 DEF Forms
<1>. QED
  BY <1>1, <1>2, <1>3, SupportsCounted DEF FormationTypeOK

LEMMA FormationInvInit == FormationInit => FormationInv
<1>. SUFFICES ASSUME FormationInit PROVE FormationInv
  OBVIOUS
<1>1. NoProposal \in Proposal
  BY DEF NoProposal, Proposal
<1>2. /\ \A p \in Proposals : proposal[p] = NoProposal
      /\ \A u \in Persons : forming[u] = NoOp
      /\ threshold \in Thresholds /\ applied = 0 /\ openApps = 0 /\ begunOps = 0
      /\ appealable = 0 /\ reopened = 0
      /\ formingMet = FALSE /\ undoMet = FALSE
  BY DEF FormationInit
<1>3. /\ NoProposal.status = "none" /\ NoProposal.count = 0 /\ NoProposal.supports = {}
      /\ Cardinality({}) = 0
  BY FS_EmptySet DEF NoProposal
<1>4. \A p \in Proposals : ~Collecting(p)
  BY <1>2, <1>3 DEF Collecting
<1>5. FormationTypeOK
  <2>1. proposal \in [Proposals -> Proposal]
    BY <1>1 DEF FormationInit
  <2>2. forming \in [Persons -> Forms]
    BY NoOpIs DEF FormationInit
  <2>3. /\ applied \in 0..MaxApplications /\ openApps \in 0..applied /\ begunOps \in 0..MaxForming
        /\ appealable \in Nat /\ reopened \in Nat /\ openApps + appealable + reopened <= applied
    BY <1>2, FormationAssumption
  <2>4. formingMet \in BOOLEAN /\ undoMet \in BOOLEAN
    BY <1>2
  <2>. QED
    BY <2>1, <2>2, <2>3, <2>4, <1>2 DEF FormationTypeOK, Forms
<1>6. FormsAlone
  <2>1. CountIsSupport /\ RequestsExclude /\ NothingLate
    BY <1>2, <1>3, <1>4 DEF CountIsSupport, RequestsExclude, NothingLate
  <2>2. \A u \in Persons : KnowsProposal(u)
    BY <1>2, NoOpIs DEF KnowsProposal
  <2>. QED
    BY <2>1, <2>2, <1>2 DEF FormsAlone
<1>7. NeverOvercounts
  <2>1. SubmittedHadSupport /\ \A p \in Proposals : proposal[p].count <= Cardinality(proposal[p].supports)
    BY <1>2, <1>3 DEF SubmittedHadSupport
  <2>. QED
    BY <2>1, <1>2, NoOpIs DEF NeverOvercounts
<1>. QED
  BY <1>5, <1>6, <1>7 DEF FormationInv

\* An operation begins on a proposal it has just looked at.
LEMMA FormationBegan ==
  ASSUME FormationInv, NEW u \in Persons, NEW p \in Proposals,
         NEW op \in {"create", "support", "unsupport", "withdraw"}, FormationBegins(u, op, p),
         op = "support" => Collecting(p) /\ u \notin proposal[p].supports,
         op = "unsupport" => Collecting(p) /\ u \in proposal[p].supports,
         op = "create" => openApps = 0 /\ \A q \in Proposals : ~Collecting(q)
  PROVE  FormationInv'
<1>0. FormationTypeOK /\ FormsAlone /\ NeverOvercounts
  BY DEF FormationInv
<1>1. /\ proposal \in [Proposals -> Proposal] /\ threshold \in Nat
      /\ forming \in [Persons -> Forms] /\ formingMet \in BOOLEAN /\ undoMet \in BOOLEAN
      /\ begunOps \in 0..MaxForming
      /\ \A q \in Proposals : proposal[q].count \in Nat
  BY <1>0, FormationFacts
<1>2. PICK k : k = [op |-> op, on |-> p, seen |-> proposal[p].count, need |-> threshold]
  OBVIOUS
<1>3. k \in Forms /\ k.op = op /\ k.on = p /\ k.seen = proposal[p].count
  BY <1>1, <1>2 DEF Forms
<1>4. /\ forming[u] = NoOp /\ forming' = [forming EXCEPT ![u] = k]
      /\ begunOps' \in 0..MaxForming
      /\ UNCHANGED <<proposal, threshold, applied, openApps, appealable, reopened>>
  BY <1>1, <1>2, FormationAssumption DEF FormationBegins, applications
<1>5. forming'[u] = k /\ \A v \in Persons \ {u} : forming'[v] = forming[v]
  BY <1>1, <1>4
<1>6. /\ formingMet' = (formingMet \/ {v \in Persons : forming[v] # NoOp} # {})
      /\ undoMet' = (undoMet \/ (/\ {v \in Persons : forming[v] # NoOp} # {}
                                 /\ "unsupport" \in {op} \cup {forming[v].op :
                                                     v \in {v \in Persons : forming[v] # NoOp}}))
  BY DEF FormationBegins
<1>7. \A q \in Proposals : Collecting(q)' <=> Collecting(q)
  BY <1>4 DEF Collecting
<1>8. FormationTypeOK'
  <2>1. formingMet' \in BOOLEAN /\ undoMet' \in BOOLEAN
    BY <1>6, <1>1
  <2>2. forming' \in [Persons -> Forms]
    BY <1>1, <1>3, <1>4
  <2>. QED
    BY <2>1, <2>2, <1>0, <1>4 DEF FormationTypeOK, Forms
<1>9. FormsAlone'
  <2>. SUFFICES ASSUME ~formingMet'
       PROVE  /\ \A v, w \in Persons : forming'[v] # NoOp /\ forming'[w] # NoOp => v = w
              /\ CountIsSupport' /\ RequestsExclude' /\ NothingLate'
              /\ \A v \in Persons : KnowsProposal(v)'
    BY DEF FormsAlone
  <2>1. ~formingMet /\ \A v \in Persons : forming[v] = NoOp
    BY <1>6
  <2>2. CountIsSupport' /\ NothingLate'
    BY <2>1, <1>0, <1>4 DEF FormsAlone, CountIsSupport, NothingLate
  <2>3. RequestsExclude'
    BY <2>1, <1>0, <1>4, <1>7 DEF FormsAlone, RequestsExclude
  <2>4. KnowsProposal(u)'
    BY <1>3, <1>4, <1>5, <1>7 DEF KnowsProposal
  <2>5. \A v \in Persons \ {u} : KnowsProposal(v)'
    BY <2>1, <1>5, NoOpIs DEF KnowsProposal
  <2>. QED
    BY <2>1, <2>2, <2>3, <2>4, <2>5, <1>5
<1>10. NeverOvercounts'
  <2>. SUFFICES ASSUME ~undoMet'
       PROVE  /\ SubmittedHadSupport'
              /\ \A q \in Proposals : proposal'[q].count <= Cardinality(proposal'[q].supports)
              /\ \A v \in Persons : forming'[v] # NoOp =>
                   forming'[v].seen <= Cardinality(proposal'[forming'[v].on].supports)
              /\ \A v \in Persons : forming'[v].op = "unsupport" =>
                   /\ \A w \in Persons : forming'[w] # NoOp => w = v
                   /\ proposal'[forming'[v].on].status # "submitted"
    BY DEF NeverOvercounts
  <2>1. ~undoMet
    BY <1>6
  <2>2. SubmittedHadSupport'
    BY <2>1, <1>0, <1>4 DEF NeverOvercounts, SubmittedHadSupport
  <2>3. \A q \in Proposals : proposal'[q].count <= Cardinality(proposal'[q].supports)
    BY <2>1, <1>0, <1>4 DEF NeverOvercounts
  <2>4. \A v \in Persons : forming'[v] # NoOp =>
          forming'[v].seen <= Cardinality(proposal'[forming'[v].on].supports)
    BY <2>1, <1>0, <1>3, <1>4, <1>5 DEF NeverOvercounts
  <2>5. ASSUME NEW v \in Persons, forming'[v].op = "unsupport"
        PROVE  /\ \A w \in Persons : forming'[w] # NoOp => w = v
               /\ proposal'[forming'[v].on].status # "submitted"
    <3>1. CASE v = u
      <4>1. \A w \in Persons : forming[w] = NoOp
        BY <3>1, <2>5, <1>3, <1>5, <1>6
      <4>2. Collecting(p)
        BY <3>1, <2>5, <1>3, <1>5
      <4>. QED
        BY <3>1, <4>1, <4>2, <1>3, <1>4, <1>5 DEF Collecting
    <3>2. CASE v # u
      <4>1. forming[v].op = "unsupport" /\ forming[v] # NoOp
        BY <3>2, <2>5, <1>5, NoOpIs
      <4>. QED
        BY <4>1, <1>6
    <3>. QED
      BY <3>1, <3>2
  <2>. QED
    BY <2>2, <2>3, <2>4, <2>5
<1>. QED
  BY <1>8, <1>9, <1>10 DEF FormationInv

\* An operation ends.  What it wrote is judged by what is said here.
LEMMA FormationEnded ==
  ASSUME FormationInv, NEW u \in Persons, forming[u] # NoOp, FormationEnds(u),
         proposal' \in [Proposals -> Proposal], applied' \in 0..MaxApplications,
         openApps' \in 0..applied', openApps' + appealable + reopened <= applied',
         ~formingMet => CountIsSupport' /\ RequestsExclude' /\ NothingLate',
         ~undoMet =>
           /\ SubmittedHadSupport'
           /\ \A q \in Proposals : proposal'[q].count <= Cardinality(proposal'[q].supports),
         forming[u].op = "unsupport" \/
           /\ \A q \in Proposals :
                Cardinality(proposal[q].supports) <= Cardinality(proposal'[q].supports)
  PROVE  FormationInv'
<1>0. FormationTypeOK /\ FormsAlone /\ NeverOvercounts
  BY DEF FormationInv
<1>1. /\ proposal \in [Proposals -> Proposal] /\ threshold \in Nat
      /\ forming \in [Persons -> Forms] /\ formingMet \in BOOLEAN /\ undoMet \in BOOLEAN
      /\ \A v \in Persons : forming[v].on \in Proposals /\ forming[v].seen \in Nat
      /\ \A q \in Proposals : Cardinality(proposal[q].supports) \in Nat
  BY <1>0, FormationFacts
<1>2. /\ forming' = [forming EXCEPT ![u] = NoOp]
      /\ UNCHANGED <<threshold, appealable, reopened, begunOps, formingMet, undoMet>>
  BY DEF FormationEnds, formingHistory
<1>3. forming'[u] = NoOp /\ \A v \in Persons \ {u} : forming'[v] = forming[v]
  BY <1>1, <1>2
<1>4. FormationTypeOK'
  <2>1. forming' \in [Persons -> Forms]
    BY <1>1, <1>2, NoOpIs
  <2>. QED
    BY <2>1, <1>0, <1>2 DEF FormationTypeOK, Forms
<1>5. FormsAlone'
  <2>. SUFFICES ASSUME ~formingMet
       PROVE  /\ \A v \in Persons : forming'[v] = NoOp
              /\ CountIsSupport' /\ RequestsExclude' /\ NothingLate'
    BY <1>2, NoOpIs DEF FormsAlone, KnowsProposal
  <2>. QED
    BY <1>0, <1>3 DEF FormsAlone
<1>6. NeverOvercounts'
  <2>. SUFFICES ASSUME ~undoMet
       PROVE  /\ SubmittedHadSupport'
              /\ \A q \in Proposals : proposal'[q].count <= Cardinality(proposal'[q].supports)
              /\ \A v \in Persons : forming'[v] # NoOp =>
                   forming'[v].seen <= Cardinality(proposal'[forming'[v].on].supports)
              /\ \A v \in Persons : forming'[v].op # "unsupport"
    BY <1>2 DEF NeverOvercounts
  <2>1. \A v \in Persons : forming'[v].op # "unsupport"
    BY <1>0, <1>3, NoOpIs DEF NeverOvercounts
  <2>2. ASSUME NEW v \in Persons, forming'[v] # NoOp
        PROVE  forming'[v].seen <= Cardinality(proposal'[forming'[v].on].supports)
    <3>1. v # u /\ forming'[v] = forming[v]
      BY <2>2, <1>3
    <3>2. forming[u].op # "unsupport"
      BY <3>1, <2>2, <1>0 DEF NeverOvercounts
    <3>3. forming[v].seen <= Cardinality(proposal[forming[v].on].supports)
      BY <3>1, <2>2, <1>0 DEF NeverOvercounts
    <3>4. \A q \in Proposals : Cardinality(proposal'[q].supports) \in Nat
      <4>1. \A q \in Proposals : proposal'[q].supports \subseteq Supporters
        BY DEF Proposal
      <4>. QED
        BY <4>1, SupportsCounted
    <3>. QED
      BY <3>1, <3>2, <3>3, <3>4, <1>1
  <2>. QED
    BY <2>1, <2>2
<1>. QED
  BY <1>4, <1>5, <1>6 DEF FormationInv

LEMMA FormationInvStep == FormationInv /\ [FormationNext]_formationVars => FormationInv'
<1>. SUFFICES ASSUME FormationInv, [FormationNext]_formationVars PROVE FormationInv'
  OBVIOUS
<1>0. FormationTypeOK /\ FormsAlone /\ NeverOvercounts
  BY DEF FormationInv
<1>1. /\ proposal \in [Proposals -> Proposal] /\ threshold \in Nat
      /\ applied \in 0..MaxApplications /\ openApps \in 0..applied
      /\ appealable \in Nat /\ reopened \in Nat /\ openApps + appealable + reopened <= applied
      /\ forming \in [Persons -> Forms] /\ formingMet \in BOOLEAN /\ undoMet \in BOOLEAN
      /\ begunOps \in 0..MaxForming
      /\ \A u \in Persons : forming[u].on \in Proposals /\ forming[u].seen \in Nat
      /\ \A p \in Proposals : /\ proposal[p].count \in Nat /\ proposal[p].need \in Nat
                              /\ proposal[p].supports \subseteq Supporters
                              /\ Cardinality(proposal[p].supports) \in Nat
  BY <1>0, FormationFacts
<1>2. Proposer \in Persons /\ Supporters \subseteq Persons
  BY DEF Persons
<1>3. ASSUME UNCHANGED formationVars PROVE FormationInv'
  <2>1. FormationTypeOK'
    BY <1>3, <1>0 DEF formationVars, applications, FormationTypeOK
  <2>2. FormsAlone'
    BY <1>3, <1>0 DEF formationVars, applications, FormsAlone, CountIsSupport, RequestsExclude, NothingLate,
                     KnowsProposal, Collecting
  <2>3. NeverOvercounts'
    BY <1>3, <1>0 DEF formationVars, NeverOvercounts, SubmittedHadSupport
  <2>. QED
    BY <2>1, <2>2, <2>3 DEF FormationInv
<1>4. ASSUME AskToForm PROVE FormationInv'
  BY <1>4, <1>2, NoOpIs, FormationBegan DEF AskToForm
<1>5. ASSUME NEW p \in Proposals, ReadWithdrawal(p) PROVE FormationInv'
  BY <1>5, <1>2, FormationBegan DEF ReadWithdrawal
<1>6. ASSUME NEW p \in Proposals, NEW u \in Supporters, ReadSupport(u, p) PROVE FormationInv'
  BY <1>6, <1>2, FormationBegan DEF ReadSupport
<1>7. ASSUME NEW p \in Proposals, NEW u \in Supporters, ReadUnsupport(u, p) PROVE FormationInv'
  BY <1>7, <1>2, FormationBegan DEF ReadUnsupport
<1>8. ASSUME CreateForm PROVE FormationInv'
  <2>1. /\ forming[Proposer].op = "create" /\ forming[Proposer] # NoOp /\ FormationEnds(Proposer)
    BY <1>8, NoOpIs DEF CreateForm
  <2>2. ASSUME ~formingMet PROVE openApps = 0 /\ \A p \in Proposals : ~Collecting(p)
    BY <2>1, <2>2, <1>0, <1>2 DEF FormsAlone, KnowsProposal
  <2>3. CASE /\ applied < MaxApplications /\ applied' = applied + 1
             /\ openApps' = openApps + 1 /\ UNCHANGED proposal
    <3>1. /\ applied' \in 0..MaxApplications /\ openApps' \in 0..applied'
          /\ openApps' + appealable + reopened <= applied'
      BY <2>3, <1>1, FormationAssumption
    <3>2. ~formingMet => CountIsSupport' /\ RequestsExclude' /\ NothingLate'
      BY <2>2, <2>3, <1>0
         DEF FormsAlone, CountIsSupport, RequestsExclude, NothingLate, Collecting
    <3>3. ~undoMet =>
            /\ SubmittedHadSupport'
            /\ \A q \in Proposals : proposal'[q].count <= Cardinality(proposal'[q].supports)
      BY <2>3, <1>0 DEF NeverOvercounts, SubmittedHadSupport
    <3>4. \A q \in Proposals :
            Cardinality(proposal[q].supports) <= Cardinality(proposal'[q].supports)
      BY <2>3, <1>1
    <3>. QED
      BY <3>1, <3>2, <3>3, <3>4, <2>1, <2>3, <1>1, <1>2, FormationEnded
  <2>4. CASE /\ \E p \in Proposals :
                  /\ proposal[p].status = "none"
                  /\ proposal' = [proposal EXCEPT ![p].status = "collecting_support"]
             /\ UNCHANGED <<applied, openApps>>
    <3>1. PICK p \in Proposals : proposal' = [proposal EXCEPT ![p].status = "collecting_support"]
      BY <2>4
    <3>2. /\ proposal' \in [Proposals -> Proposal] /\ proposal'[p].status = "collecting_support"
          /\ \A q \in Proposals \ {p} : proposal'[q] = proposal[q]
          /\ \A q \in Proposals : /\ proposal'[q].count = proposal[q].count
                                  /\ proposal'[q].supports = proposal[q].supports
                                  /\ proposal'[q].need = proposal[q].need
      BY <3>1, <1>1 DEF Proposal
    <3>3. ASSUME ~formingMet PROVE CountIsSupport' /\ RequestsExclude' /\ NothingLate'
      <4>1. CountIsSupport'
        BY <3>2, <3>3, <1>0 DEF FormsAlone, CountIsSupport
      <4>2. RequestsExclude'
        BY <2>2, <2>4, <3>2, <3>3 DEF RequestsExclude, Collecting
      <4>3. NothingLate'
        BY <3>2, <3>3, <1>0 DEF FormsAlone, NothingLate
      <4>. QED
        BY <4>1, <4>2, <4>3
    <3>4. ~undoMet =>
            /\ SubmittedHadSupport'
            /\ \A q \in Proposals : proposal'[q].count <= Cardinality(proposal'[q].supports)
      BY <3>2, <1>0 DEF NeverOvercounts, SubmittedHadSupport
    <3>5. \A q \in Proposals :
            Cardinality(proposal[q].supports) <= Cardinality(proposal'[q].supports)
      BY <3>2, <1>1
    <3>. QED
      BY <3>2, <3>3, <3>4, <3>5, <2>1, <2>4, <1>1, <1>2, FormationEnded
  <2>. QED
    BY <1>8, <2>3, <2>4 DEF CreateForm
<1>9. ASSUME NEW u \in Supporters, AddSupport(u) PROVE FormationInv'
  <2>. DEFINE n == forming[u].seen + 1
              reached == n >= forming[u].need
  <2>1. PICK p \in Proposals : p = forming[u].on
    BY <1>1, <1>2
  <2>2. /\ forming[u].op = "support" /\ forming[u] # NoOp /\ FormationEnds(u)
        /\ u \in Persons /\ n \in Nat /\ forming[u].need \in Nat
    BY <1>9, <1>1, <1>2, NoOpIs DEF AddSupport, Forms
  <2>3. CASE u \in proposal[p].supports
    <3>1. UNCHANGED <<proposal, applied, openApps>>
      BY <2>1, <2>3, <1>9 DEF AddSupport
    <3>2. ~formingMet => CountIsSupport' /\ RequestsExclude' /\ NothingLate'
      BY <3>1, <1>0
         DEF FormsAlone, CountIsSupport, RequestsExclude, NothingLate, Collecting
    <3>3. ~undoMet =>
            /\ SubmittedHadSupport'
            /\ \A q \in Proposals : proposal'[q].count <= Cardinality(proposal'[q].supports)
      BY <3>1, <1>0 DEF NeverOvercounts, SubmittedHadSupport
    <3>4. \A q \in Proposals :
            Cardinality(proposal[q].supports) <= Cardinality(proposal'[q].supports)
      BY <3>1, <1>1
    <3>. QED
      BY <3>1, <3>2, <3>3, <3>4, <2>2, <1>1, FormationEnded
  <2>4. CASE u \notin proposal[p].supports
    <3>1. /\ proposal' = [proposal EXCEPT ![p].supports = @ \cup {u}, ![p].count = n,
                 ![p].status = IF reached THEN "submitted" ELSE @,
                 ![p].need = IF reached THEN forming[u].need ELSE @]
          /\ applied' = IF reached THEN applied + 1 ELSE applied
          /\ openApps' = IF reached THEN openApps + 1 ELSE openApps
          /\ reached => applied < MaxApplications
      BY <2>1, <2>4, <1>9 DEF AddSupport, ThresholdReached
    <3>2. PICK new : new = proposal'[p]
      OBVIOUS
    <3>. HIDE DEF n, reached
    <3>3. /\ new.supports = proposal[p].supports \cup {u} /\ new.count = n
          /\ new.due = proposal[p].due
          /\ new.status = IF reached THEN "submitted" ELSE proposal[p].status
          /\ new.need = IF reached THEN forming[u].need ELSE proposal[p].need
          /\ new \in Proposal
          /\ \A q \in Proposals \ {p} : proposal'[q] = proposal[q]
          /\ proposal' \in [Proposals -> Proposal]
      <4>1. PICK s : s = IF reached THEN "submitted" ELSE proposal[p].status
        OBVIOUS
      <4>2. PICK k : k = IF reached THEN forming[u].need ELSE proposal[p].need
        OBVIOUS
      <4>3. proposal' = [proposal EXCEPT ![p].supports = @ \cup {u}, ![p].count = n,
                                         ![p].status = s, ![p].need = k]
        BY <3>1, <4>1, <4>2
      <4>4. /\ s \in {"none", "collecting_support", "submitted", "withdrawn", "expired"}
            /\ k \in Nat /\ proposal[p] \in Proposal
        BY <4>1, <4>2, <2>2, <1>1 DEF Proposal
      <4>5. /\ new.supports = proposal[p].supports \cup {u} /\ new.count = n
            /\ new.due = proposal[p].due /\ new.status = s /\ new.need = k
        BY <4>3, <4>4, <3>2, <1>1 DEF Proposal
      <4>6. new \in Proposal
        BY <4>3, <4>4, <3>2, <2>2, <1>1 DEF Proposal
      <4>7. /\ \A q \in Proposals \ {p} : proposal'[q] = proposal[q]
            /\ proposal' \in [Proposals -> Proposal]
        BY <4>3, <4>6, <3>2, <1>1
      <4>. QED
        BY <4>1, <4>2, <4>5, <4>6, <4>7
    <3>4. /\ applied' \in 0..MaxApplications /\ openApps' \in 0..applied'
          /\ openApps' + appealable + reopened <= applied'
      BY <3>1, <1>1, FormationAssumption
    <3>5. Cardinality(new.supports) = Cardinality(proposal[p].supports) + 1
      BY <3>3, <2>4, <1>1, SupportsCounted
    <3>6. \A q \in Proposals :
            Cardinality(proposal[q].supports) <= Cardinality(proposal'[q].supports)
      <4>1. Cardinality(proposal[p].supports) <= Cardinality(proposal'[p].supports)
        BY <3>2, <3>5, <1>1
      <4>2. \A q \in Proposals \ {p} :
              Cardinality(proposal[q].supports) <= Cardinality(proposal'[q].supports)
        <5>1. \A q \in Proposals \ {p} : proposal'[q] = proposal[q]
          BY <3>3
        <5>. QED
          BY <5>1, <1>1
      <4>. QED
        BY <4>1, <4>2
    <3>7. ASSUME ~formingMet PROVE CountIsSupport' /\ RequestsExclude' /\ NothingLate'
      <4>1. CountIsSupport /\ RequestsExclude /\ NothingLate /\ KnowsProposal(u)
        BY <3>7, <1>0, <2>2 DEF FormsAlone
      <4>2. forming[u].seen = proposal[p].count /\ Collecting(p)
        BY <4>1, <2>1, <2>2 DEF KnowsProposal
      <4>3. CountIsSupport'
        BY <4>1, <4>2, <3>2, <3>3, <3>5 DEF CountIsSupport, n
      <4>4. RequestsExclude'
        <5>1. \A q \in Proposals : Collecting(q)' => Collecting(q) /\ ~(q = p /\ reached)
          BY <3>2, <3>3 DEF Collecting
        <5>2. openApps = 0 /\ \A q \in Proposals : Collecting(q) => q = p
          BY <4>1, <4>2, <1>1 DEF RequestsExclude
        <5>. QED
          BY <5>1, <5>2, <3>1 DEF RequestsExclude
      <4>5. NothingLate'
        BY <4>1, <4>2, <3>2, <3>3 DEF NothingLate, Collecting
      <4>. QED
        BY <4>3, <4>4, <4>5
    <3>8. ASSUME ~undoMet
          PROVE  /\ SubmittedHadSupport'
                 /\ \A q \in Proposals : proposal'[q].count <= Cardinality(proposal'[q].supports)
      <4>1. /\ SubmittedHadSupport
            /\ \A q \in Proposals : proposal[q].count <= Cardinality(proposal[q].supports)
            /\ forming[u].seen <= Cardinality(proposal[p].supports)
        BY <3>8, <1>0, <2>1, <2>2 DEF NeverOvercounts
      <4>2. n <= Cardinality(new.supports)
        BY <4>1, <3>5, <1>1, <2>2 DEF n
      <4>3. new.status = "submitted" => Cardinality(new.supports) >= new.need
        <5>1. CASE reached
          BY <5>1, <4>2, <3>3, <3>5, <2>2, <1>1 DEF reached
        <5>2. CASE ~reached
          BY <5>2, <4>1, <3>3, <3>5, <1>1 DEF SubmittedHadSupport
        <5>. QED
          BY <5>1, <5>2
      <4>4. SubmittedHadSupport'
        BY <4>1, <4>3, <3>2, <3>3 DEF SubmittedHadSupport
      <4>5. \A q \in Proposals : proposal'[q].count <= Cardinality(proposal'[q].supports)
        BY <4>1, <4>2, <3>2, <3>3
      <4>. QED
        BY <4>4, <4>5
    <3>. QED
      BY <3>3, <3>4, <3>6, <3>7, <3>8, <2>2, FormationEnded
  <2>. QED
    BY <2>3, <2>4
<1>10. ASSUME NEW u \in Supporters, RemoveSupport(u) PROVE FormationInv'
  <2>1. PICK p \in Proposals : p = forming[u].on
    BY <1>1, <1>2
  <2>2. PICK n : n = IF forming[u].seen = 0 THEN 0 ELSE forming[u].seen - 1
    OBVIOUS
  <2>3. /\ forming[u].op = "unsupport" /\ forming[u] # NoOp /\ FormationEnds(u)
        /\ u \in Persons /\ n \in Nat /\ UNCHANGED <<applied, openApps>>
    BY <1>10, <1>1, <1>2, <2>2, NoOpIs DEF RemoveSupport
  <2>4. proposal' = [proposal EXCEPT ![p].supports = @ \ {u}, ![p].count = n]
    BY <1>10, <2>1, <2>2 DEF RemoveSupport
  <2>5. /\ proposal'[p].supports = proposal[p].supports \ {u} /\ proposal'[p].count = n
        /\ \A q \in Proposals \ {p} : proposal'[q] = proposal[q]
        /\ \A q \in Proposals : /\ proposal'[q].status = proposal[q].status
                                /\ proposal'[q].need = proposal[q].need
                                /\ proposal'[q].due = proposal[q].due
        /\ proposal' \in [Proposals -> Proposal]
    <3>1. PICK k : k = [proposal[p] EXCEPT !.supports = @ \ {u}, !.count = n]
      OBVIOUS
    <3>2. /\ k \in Proposal /\ k.supports = proposal[p].supports \ {u} /\ k.count = n
          /\ k.status = proposal[p].status /\ k.need = proposal[p].need
          /\ k.due = proposal[p].due
      BY <2>3, <3>1, <1>1 DEF Proposal
    <3>3. proposal' = [proposal EXCEPT ![p] = k]
      BY <2>4, <3>1, <1>1
    <3>. QED
      BY <3>2, <3>3, <1>1
  <2>6. ASSUME ~formingMet PROVE CountIsSupport' /\ RequestsExclude' /\ NothingLate'
    <3>1. CountIsSupport /\ RequestsExclude /\ NothingLate /\ KnowsProposal(u)
      BY <2>6, <1>0, <2>3 DEF FormsAlone
    <3>2. forming[u].seen = proposal[p].count /\ u \in proposal[p].supports
      BY <3>1, <2>1, <2>3 DEF KnowsProposal
    <3>3. /\ Cardinality(proposal[p].supports \ {u}) \in Nat
          /\ Cardinality(proposal[p].supports \ {u}) = Cardinality(proposal[p].supports) - 1
      BY <3>2, <1>1, SupportsCounted
    <3>4. n = Cardinality(proposal[p].supports) - 1
      BY <3>1, <3>2, <3>3, <2>2, <1>1 DEF CountIsSupport
    <3>5. CountIsSupport'
      BY <3>1, <3>3, <3>4, <2>5 DEF CountIsSupport
    <3>6. RequestsExclude' /\ NothingLate'
      BY <3>1, <2>3, <2>5 DEF RequestsExclude, NothingLate, Collecting
    <3>. QED
      BY <3>5, <3>6
  <2>7. ASSUME ~undoMet
        PROVE  /\ SubmittedHadSupport'
               /\ \A q \in Proposals : proposal'[q].count <= Cardinality(proposal'[q].supports)
    <3>1. /\ SubmittedHadSupport /\ proposal[p].status # "submitted"
          /\ \A q \in Proposals : proposal[q].count <= Cardinality(proposal[q].supports)
          /\ forming[u].seen <= Cardinality(proposal[p].supports)
      BY <2>7, <1>0, <2>1, <2>3 DEF NeverOvercounts
    <3>2. n <= Cardinality(proposal[p].supports \ {u})
      <4>1. CASE u \in proposal[p].supports
        <5>1. /\ Cardinality(proposal[p].supports \ {u}) \in Nat
              /\ Cardinality(proposal[p].supports \ {u}) = Cardinality(proposal[p].supports) - 1
          BY <4>1, <1>1, SupportsCounted
        <5>. QED
          BY <5>1, <3>1, <2>2, <2>3, <1>1
      <4>2. CASE u \notin proposal[p].supports
        <5>1. Cardinality(proposal[p].supports \ {u}) = Cardinality(proposal[p].supports)
          BY <4>2, <1>1, SupportsCounted
        <5>. QED
          BY <5>1, <3>1, <2>2, <2>3, <1>1
      <4>. QED
        BY <4>1, <4>2
    <3>3. SubmittedHadSupport'
      BY <3>1, <2>5 DEF SubmittedHadSupport
    <3>4. \A q \in Proposals : proposal'[q].count <= Cardinality(proposal'[q].supports)
      BY <3>1, <3>2, <2>5
    <3>. QED
      BY <3>3, <3>4
  <2>. QED
    BY <2>3, <2>5, <2>6, <2>7, <1>1, FormationEnded
<1>11. ASSUME WriteWithdrawal PROVE FormationInv'
  <2>1. PICK p \in Proposals : p = forming[Proposer].on
    BY <1>1, <1>2
  <2>2. /\ forming[Proposer].op = "withdraw" /\ forming[Proposer] # NoOp /\ FormationEnds(Proposer)
        /\ UNCHANGED <<applied, openApps>>
        /\ proposal' = [proposal EXCEPT ![p].status = "withdrawn"]
    BY <1>11, <2>1, NoOpIs DEF WriteWithdrawal
  <2>3. /\ proposal' \in [Proposals -> Proposal]
        /\ \A q \in Proposals : /\ proposal'[q].count = proposal[q].count
                                /\ proposal'[q].supports = proposal[q].supports
                                /\ proposal'[q].need = proposal[q].need
                                /\ proposal'[q].due = proposal[q].due
                                /\ \/ proposal'[q].status = proposal[q].status
                                   \/ proposal'[q].status = "withdrawn"
    BY <2>2, <1>1 DEF Proposal
  <2>4. ~formingMet => CountIsSupport' /\ RequestsExclude' /\ NothingLate'
    <3>1. \A q \in Proposals : Collecting(q)' => Collecting(q)
      BY <2>3 DEF Collecting
    <3>2. ~formingMet => CountIsSupport' /\ NothingLate'
      BY <2>3, <1>0 DEF FormsAlone, CountIsSupport, NothingLate
    <3>3. ~formingMet => RequestsExclude'
      BY <3>1, <2>2, <1>0 DEF FormsAlone, RequestsExclude
    <3>. QED
      BY <3>2, <3>3
  <2>5. ~undoMet =>
          /\ SubmittedHadSupport'
          /\ \A q \in Proposals : proposal'[q].count <= Cardinality(proposal'[q].supports)
    BY <2>3, <1>0 DEF NeverOvercounts, SubmittedHadSupport
  <2>6. \A q \in Proposals :
          Cardinality(proposal[q].supports) <= Cardinality(proposal'[q].supports)
    BY <2>3, <1>1
  <2>. QED
    BY <2>2, <2>3, <2>4, <2>5, <2>6, <1>1, <1>2, FormationEnded
\* What happens beside the operations: nothing that they counted changes.
<1>12. ASSUME UNCHANGED <<forming, begunOps, undoMet, applied>>,
              threshold' \in Thresholds, openApps' \in 0..openApps, formingMet' \in BOOLEAN,
              appealable' \in Nat, reopened' \in Nat,
              openApps' + appealable' + reopened' <= applied,
              proposal' \in [Proposals -> Proposal],
              ~formingMet' => ~formingMet,
              \A q \in Proposals : /\ proposal'[q].count = proposal[q].count
                                   /\ proposal'[q].supports = proposal[q].supports
                                   /\ proposal'[q].need = proposal[q].need,
              \A q \in Proposals : Collecting(q)' => Collecting(q),
              \A q \in Proposals : proposal'[q].status = "submitted" =>
                proposal[q].status = "submitted" /\ proposal'[q].due = proposal[q].due,
              ~formingMet' => \/ \A u \in Persons : forming[u] = NoOp
                              \/ \A q \in Proposals : Collecting(q)' <=> Collecting(q)
       PROVE  FormationInv'
  <2>1. FormationTypeOK'
    <3>1. /\ applied' = applied /\ openApps' \in 0..openApps
          /\ openApps' + appealable' + reopened' <= applied
      BY <1>12
    <3>2. applied \in 0..MaxApplications /\ openApps \in 0..applied /\ MaxApplications \in Nat
      BY <1>1, FormationAssumption
    <3>3. openApps' \in 0..applied
      BY <3>1, <3>2
    <3>. QED
      BY <3>1, <3>3, <1>12, <1>0 DEF FormationTypeOK
  <2>2. FormsAlone'
    <3>. SUFFICES ASSUME ~formingMet'
         PROVE  /\ \A u, v \in Persons : forming[u] # NoOp /\ forming[v] # NoOp => u = v
                /\ CountIsSupport' /\ RequestsExclude' /\ NothingLate'
                /\ \A u \in Persons : KnowsProposal(u)'
      BY <1>12 DEF FormsAlone
    <3>1. ~formingMet
      BY <1>12
    <3>2. CountIsSupport' /\ NothingLate'
      BY <3>1, <1>12, <1>0 DEF FormsAlone, CountIsSupport, NothingLate
    <3>3. RequestsExclude'
      <4>1. openApps' <= 1 /\ (openApps' = 1 => openApps = 1)
        BY <3>1, <1>12, <1>0, <1>1 DEF FormsAlone, RequestsExclude
      <4>. QED
        BY <4>1, <3>1, <1>12, <1>0 DEF FormsAlone, RequestsExclude
    <3>4. \A u \in Persons : KnowsProposal(u)'
      <4>1. CASE \A u \in Persons : forming[u] = NoOp
        BY <4>1, <1>12, NoOpIs DEF KnowsProposal
      <4>2. CASE \A q \in Proposals : Collecting(q)' <=> Collecting(q)
        <5>. SUFFICES ASSUME NEW u \in Persons, KnowsProposal(u) PROVE KnowsProposal(u)'
          BY <3>1, <1>0 DEF FormsAlone
        <5>1. openApps = 0 => openApps' = 0
          BY <1>12
        <5>. QED
          BY <5>1, <4>2, <1>12, <1>1 DEF KnowsProposal
      <4>. QED
        BY <4>1, <4>2, <1>12
    <3>. QED
      BY <3>1, <3>2, <3>3, <3>4, <1>0 DEF FormsAlone
  <2>3. NeverOvercounts'
    BY <1>12, <1>0, <1>1 DEF NeverOvercounts, SubmittedHadSupport
  <2>. QED
    BY <2>1, <2>2, <2>3 DEF FormationInv
<1>13. ASSUME NEW p \in Proposals, DeadlinePasses(p) PROVE FormationInv'
  <2>1. /\ proposal' = [proposal EXCEPT ![p].due = TRUE] /\ proposal[p].status = "collecting_support"
        /\ formingMet' = (formingMet \/ \E u \in Persons : forming[u] # NoOp)
        /\ UNCHANGED <<threshold, applied, openApps, appealable, reopened, forming, begunOps,
                       undoMet>>
    BY <1>13 DEF DeadlinePasses, applications
  <2>2. /\ proposal' \in [Proposals -> Proposal]
        /\ \A q \in Proposals : /\ proposal'[q].count = proposal[q].count
                                /\ proposal'[q].supports = proposal[q].supports
                                /\ proposal'[q].need = proposal[q].need
                                /\ proposal'[q].status = proposal[q].status
        /\ \A q \in Proposals \ {p} : proposal'[q] = proposal[q]
        /\ proposal'[p].due = TRUE
    BY <2>1, <1>1 DEF Proposal
  <2>3. \A q \in Proposals : Collecting(q)' => Collecting(q)
    BY <2>2 DEF Collecting
  <2>4. \A q \in Proposals : proposal'[q].status = "submitted" =>
          proposal[q].status = "submitted" /\ proposal'[q].due = proposal[q].due
    BY <2>1, <2>2
  <2>5. formingMet' \in BOOLEAN /\ (~formingMet' => ~formingMet /\ \A u \in Persons : forming[u] = NoOp)
    BY <2>1, <1>1
  <2>6. /\ threshold' \in Thresholds /\ openApps' \in 0..openApps
        /\ appealable' \in Nat /\ reopened' \in Nat
        /\ openApps' + appealable' + reopened' <= applied
    BY <2>1, <1>0, <1>1 DEF FormationTypeOK
  <2>. QED
    BY <2>1, <2>2, <2>3, <2>4, <2>5, <2>6, <1>12
<1>14. ASSUME ListProposals PROVE FormationInv'
  <2>1. /\ UNCHANGED <<threshold, applied, openApps, appealable, reopened, forming, begunOps,
                       formingMet, undoMet>>
        /\ proposal' = [p \in Proposals |->
             IF proposal[p].status = "collecting_support" /\ proposal[p].due
             THEN [proposal[p] EXCEPT !.status = "expired"] ELSE proposal[p]]
    BY <1>14 DEF ListProposals, applications, formingHistory
  <2>2. \A q \in Proposals :
          /\ [proposal[q] EXCEPT !.status = "expired"] \in Proposal
          /\ [proposal[q] EXCEPT !.status = "expired"].count = proposal[q].count
          /\ [proposal[q] EXCEPT !.status = "expired"].supports = proposal[q].supports
          /\ [proposal[q] EXCEPT !.status = "expired"].need = proposal[q].need
          /\ [proposal[q] EXCEPT !.status = "expired"].status = "expired"
    BY <1>1 DEF Proposal
  <2>3. \A q \in Proposals :
          \/ proposal'[q] = proposal[q] /\ ~(proposal[q].status = "collecting_support" /\ proposal[q].due)
          \/ /\ proposal'[q] = [proposal[q] EXCEPT !.status = "expired"]
             /\ proposal[q].status = "collecting_support" /\ proposal[q].due
    BY <2>1
  <2>4. proposal' \in [Proposals -> Proposal]
    BY <2>1, <2>2, <1>1
  <2>5. \A q \in Proposals : /\ proposal'[q].count = proposal[q].count
                             /\ proposal'[q].supports = proposal[q].supports
                             /\ proposal'[q].need = proposal[q].need
    BY <2>2, <2>3
  <2>6. \A q \in Proposals : Collecting(q)' <=> Collecting(q)
    BY <2>2, <2>3 DEF Collecting
  <2>7. \A q \in Proposals : proposal'[q].status = "submitted" =>
          proposal[q].status = "submitted" /\ proposal'[q].due = proposal[q].due
    BY <2>2, <2>3
  <2>8. /\ threshold' \in Thresholds /\ openApps' \in 0..openApps /\ formingMet' \in BOOLEAN
        /\ appealable' \in Nat /\ reopened' \in Nat
        /\ openApps' + appealable' + reopened' <= applied
    BY <2>1, <1>0, <1>1 DEF FormationTypeOK
  <2>. QED
    BY <2>1, <2>4, <2>5, <2>6, <2>7, <2>8, <1>12
<1>15. ASSUME NEW n \in Thresholds, SetThreshold(n) PROVE FormationInv'
  <2>1. /\ UNCHANGED <<proposal, applied, openApps, appealable, reopened, forming, begunOps,
                       formingMet, undoMet>>
        /\ threshold' \in Thresholds
    BY <1>15 DEF SetThreshold, applications, formingHistory
  <2>2. /\ openApps' \in 0..openApps /\ appealable' \in Nat /\ reopened' \in Nat
        /\ openApps' + appealable' + reopened' <= applied
    BY <2>1, <1>1
  <2>. QED
    BY <2>1, <2>2, <1>1, <1>12 DEF Collecting
<1>16. ASSUME ApplicationDecided \/ AppealUpheld \/ ReopenedDecided PROVE FormationInv'
  <2>1. UNCHANGED <<proposal, threshold, applied, forming, begunOps, formingMet, undoMet>>
    BY <1>16 DEF ApplicationDecided, AppealUpheld, ReopenedDecided, formingHistory
  <2>2. /\ openApps' \in 0..openApps /\ appealable' \in Nat /\ reopened' \in Nat
        /\ openApps' + appealable' + reopened' <= applied
    <3>1. CASE ApplicationDecided
      <4>1. /\ openApps > 0 /\ openApps' = openApps - 1 /\ reopened' = reopened
            /\ appealable' = appealable \/ appealable' = appealable + 1
        BY <3>1 DEF ApplicationDecided
      <4>2. openApps \in Nat /\ applied \in Nat
        BY <1>1
      <4>. QED
        BY <4>1, <4>2, <1>1
    <3>2. CASE AppealUpheld
      BY <3>2, <1>1 DEF AppealUpheld
    <3>3. CASE ReopenedDecided
      BY <3>3, <1>1 DEF ReopenedDecided
    <3>. QED
      BY <1>16, <3>1, <3>2, <3>3
  <2>3. threshold' \in Thresholds
    BY <2>1, <1>0 DEF FormationTypeOK
  <2>. QED
    BY <2>1, <2>2, <2>3, <1>1, <1>12 DEF Collecting
<1>. QED
  BY <1>3, <1>4, <1>5, <1>6, <1>7, <1>8, <1>9, <1>10, <1>11, <1>13, <1>14, <1>15, <1>16
     DEF FormationNext

\* Requests that exclude each other are one.
LEMMA ExcludingIsOne ==
  ASSUME RequestsExclude, openApps \in Nat
  PROVE  OneOpenRequest
<1>. DEFINE C == {p \in Proposals : Collecting(p)}
<1>1. CASE C = {}
  BY <1>1, FS_EmptySet DEF RequestsExclude, OneOpenRequest
<1>2. CASE C # {}
  <2>1. PICK p : p \in C
    BY <1>2
  <2>2. C = {p}
    BY <2>1 DEF RequestsExclude
  <2>3. Cardinality({p}) = 1
    BY FS_Singleton
  <2>4. openApps = 0
    BY <2>1 DEF RequestsExclude
  <2>. QED
    BY <2>2, <2>3, <2>4 DEF OneOpenRequest
<1>. QED
  BY <1>1, <1>2

(* Forming a club is sound, for any students, proposals and thresholds:    *)
(* while no two operations met, a proposal's count is its supporters, a    *)
(* student has one open request beside what upheld appeals opened again,   *)
(* and nothing is submitted past its deadline; and unless a support was    *)
(* taken back beside another operation, nothing is submitted without the   *)
(* support the tenant asked for (clubs.service.ts:71-75,                   *)
(* clubs.repository.ts:528-596, club-application-review.repository.ts:     *)
(* 150-206).                                                               *)
THEOREM FormationIsSound == FormationSpec => []FormationSound
<1>1. FormationInv => FormationSound
  <2>. SUFFICES ASSUME FormationInv PROVE FormationSound
    OBVIOUS
  <2>1. FormationTypeOK /\ FormsAlone /\ NeverOvercounts
    BY DEF FormationInv
  <2>2. openApps \in Nat
    BY <2>1, FormationFacts
  <2>3. ~formingMet => CountIsSupport /\ OneOpenRequest /\ NothingLate
    BY <2>1, <2>2, ExcludingIsOne DEF FormsAlone
  <2>4. ~undoMet => SubmittedHadSupport
    BY <2>1 DEF NeverOvercounts
  <2>. QED
    BY <2>1, <2>3, <2>4 DEF FormationSound
<1>. QED
  BY FormationInvInit, FormationInvStep, <1>1, PTL DEF FormationSpec

-----------------------------------------------------------------------------
(***************************************************************************)
(* The boards of a club.  While no two requests have met, the one under    *)
(* way knows the board in office and, once it has looked, the rows it is   *)
(* to close.                                                               *)
(***************************************************************************)
BoardKinds ==
  {NoBoardReq}
    \cup [op : {"elect", "handover"}, pc : {"close", "commit"}, on : Meetings,
          types : SUBSET BoardTypes, out : SUBSET Rows, closes : SUBSET Rows]

BoardRequestsOK == boardReq \in [BoardRequests -> BoardKinds]

HandsOverElected ==
  \A r \in BoardRequests :
    boardReq[r].op = "handover" => \E t \in BoardTypes : <<boardReq[r].on, t>> \in seats

KnowsBoard(r) ==
  /\ boardReq[r].op = "handover" =>
       /\ boardReq[r].out = inOffice
       /\ boardReq[r].types = {t \in BoardTypes : <<boardReq[r].on, t>> \in seats}
  /\ boardReq[r].pc = "commit" =>
       boardReq[r].closes =
         {seat \in inOffice : boardReq[r].op = "handover" \/ seat[2] \in boardReq[r].types}

OneAtATime ==
  ~boardsMet =>
    /\ \A q, r \in BoardRequests :
         boardReq[q] # NoBoardReq /\ boardReq[r] # NoBoardReq => q = r
    /\ \A r \in BoardRequests : KnowsBoard(r)
    /\ BoardIsTheLast /\ RecordNamesOutgoing

BoardsInv ==
  BoardsTypeOK /\ BoardRequestsOK /\ HandsOverElected /\ SeatsAreElected /\ OneAtATime

LEMMA BoardKindsType ==
  BoardKinds \subseteq
    [op : {"none", "elect", "handover"}, pc : {"idle", "close", "commit"},
     on : Meetings \cup {Vacant}, types : SUBSET BoardTypes, out : SUBSET Rows, closes : SUBSET Rows]
BY DEF BoardKinds, NoBoardReq

LEMMA BoardsTypeStep ==
  ASSUME BoardRequestsOK', seats' \subseteq Rows, inOffice' \subseteq seats',
         record' \in [Meetings -> (SUBSET Rows) \cup {Unrecorded}],
         left' \in [Meetings -> (SUBSET Rows) \cup {Unrecorded}],
         approved' \in 0..MaxApproved, boardsMet' \in BOOLEAN,
         succession' \in [BoardTypes -> Meetings \cup {Vacant}]
  PROVE  BoardsTypeOK'
<1>1. boardReq' \in [BoardRequests ->
        [op : {"none", "elect", "handover"}, pc : {"idle", "close", "commit"},
         on : Meetings \cup {Vacant}, types : SUBSET BoardTypes, out : SUBSET Rows,
         closes : SUBSET Rows]]
  BY BoardKindsType DEF BoardRequestsOK
<1>. QED
  BY <1>1 DEF BoardsTypeOK

LEMMA BoardsInvInit == BoardsInit => BoardsInv
<1>. SUFFICES ASSUME BoardsInit PROVE BoardsInv
  OBVIOUS
<1>1. BoardRequestsOK
  BY DEF BoardsInit, BoardRequestsOK, BoardKinds
<1>2. BoardsTypeOK
  <2>1. boardReq \in [BoardRequests ->
          [op : {"none", "elect", "handover"}, pc : {"idle", "close", "commit"},
           on : Meetings \cup {Vacant}, types : SUBSET BoardTypes, out : SUBSET Rows,
           closes : SUBSET Rows]]
    BY <1>1, BoardKindsType DEF BoardRequestsOK
  <2>. QED
    BY <2>1 DEF BoardsInit, BoardsTypeOK
<1>3. HandsOverElected /\ SeatsAreElected
  BY DEF BoardsInit, HandsOverElected, SeatsAreElected, NoBoardReq
<1>4. OneAtATime
  BY DEF BoardsInit, OneAtATime, KnowsBoard, NoBoardReq, BoardIsTheLast, RecordNamesOutgoing
<1>. QED
  BY <1>1, <1>2, <1>3, <1>4 DEF BoardsInv

LEMMA BoardsOther ==
  ASSUME BoardRequestsOK, NEW r \in BoardRequests, NEW k \in BoardKinds,
         boardReq' = [boardReq EXCEPT ![r] = k]
  PROVE  /\ BoardRequestsOK' /\ boardReq'[r] = k
         /\ \A q \in BoardRequests \ {r} : boardReq'[q] = boardReq[q]
BY DEF BoardRequestsOK

\* Nobody is at it: what is left to show is about the boards.
LEMMA NobodyAtIt ==
  ASSUME ~boardsMet => \A q \in BoardRequests : boardReq'[q] = NoBoardReq,
         ~boardsMet => BoardIsTheLast' /\ RecordNamesOutgoing', boardsMet' = boardsMet
  PROVE  OneAtATime'
<1>. SUFFICES ASSUME ~boardsMet
     PROVE  /\ \A q, r \in BoardRequests :
                 boardReq'[q] # NoBoardReq /\ boardReq'[r] # NoBoardReq => q = r
            /\ \A r \in BoardRequests : KnowsBoard(r)'
            /\ BoardIsTheLast' /\ RecordNamesOutgoing'
  BY DEF OneAtATime
<1>1. \A r \in BoardRequests : KnowsBoard(r)'
  BY DEF KnowsBoard, NoBoardReq
<1>. QED
  BY <1>1

LEMMA BoardsInvStep == BoardsInv /\ [BoardsNext]_boardsVars => BoardsInv'
<1>. SUFFICES ASSUME BoardsInv, [BoardsNext]_boardsVars PROVE BoardsInv'
  OBVIOUS
<1>0. /\ BoardRequestsOK /\ boardReq \in [BoardRequests -> BoardKinds]
      /\ HandsOverElected /\ SeatsAreElected /\ OneAtATime
      /\ seats \subseteq Rows /\ inOffice \subseteq seats
      /\ record \in [Meetings -> (SUBSET Rows) \cup {Unrecorded}]
      /\ left \in [Meetings -> (SUBSET Rows) \cup {Unrecorded}]
      /\ approved \in 0..MaxApproved /\ boardsMet \in BOOLEAN
      /\ succession \in [BoardTypes -> Meetings \cup {Vacant}]
  BY DEF BoardsInv, BoardRequestsOK, BoardsTypeOK
<1>1. ASSUME UNCHANGED <<seats, inOffice, record, boardReq, succession, left, boardsMet>>,
             approved' \in 0..MaxApproved
      PROVE  BoardsInv'
  <2>1. BoardRequestsOK' /\ HandsOverElected' /\ SeatsAreElected'
    BY <1>1, <1>0 DEF BoardRequestsOK, HandsOverElected, SeatsAreElected
  <2>2. OneAtATime'
    BY <1>1, <1>0 DEF OneAtATime, KnowsBoard, BoardIsTheLast, RecordNamesOutgoing
  <2>3. BoardsTypeOK'
    BY <1>1, <1>0, <2>1, BoardsTypeStep
  <2>. QED
    BY <2>1, <2>2, <2>3 DEF BoardsInv
\* A request begins: alone, or two have met.
<1>2. ASSUME NEW r \in BoardRequests, NEW k \in BoardKinds, BoardsEnter(r, k), k.pc = "close",
             UNCHANGED <<seats, inOffice, record, approved, succession, left>>,
             k.op = "handover" => /\ \E t \in BoardTypes : <<k.on, t>> \in seats
                                  /\ k.out = inOffice
                                  /\ k.types = {t \in BoardTypes : <<k.on, t>> \in seats}
      PROVE  BoardsInv'
  <2>1. BoardRequestsOK' /\ boardReq'[r] = k
        /\ \A q \in BoardRequests \ {r} : boardReq'[q] = boardReq[q]
    BY <1>2, <1>0, BoardsOther DEF BoardsEnter
  <2>2. HandsOverElected' /\ SeatsAreElected'
    BY <1>2, <1>0, <2>1 DEF HandsOverElected, SeatsAreElected
  <2>3. boardsMet' \in BOOLEAN
    BY <1>2, <1>0 DEF BoardsEnter
  <2>4. ASSUME ~boardsMet'
        PROVE  ~boardsMet /\ \A q \in BoardRequests : boardReq[q] = NoBoardReq
    BY <1>2, <2>4 DEF BoardsEnter
  <2>5. OneAtATime'
    <3>. SUFFICES ASSUME ~boardsMet'
         PROVE  /\ \A p, q \in BoardRequests :
                     boardReq'[p] # NoBoardReq /\ boardReq'[q] # NoBoardReq => p = q
                /\ \A q \in BoardRequests : KnowsBoard(q)'
                /\ BoardIsTheLast' /\ RecordNamesOutgoing'
      BY DEF OneAtATime
    <3>1. \A p, q \in BoardRequests :
            boardReq'[p] # NoBoardReq /\ boardReq'[q] # NoBoardReq => p = q
      BY <2>1, <2>4
    <3>2. KnowsBoard(r)'
      BY <1>2, <2>1 DEF KnowsBoard
    <3>3. \A q \in BoardRequests \ {r} : KnowsBoard(q)'
      BY <2>1, <2>4 DEF KnowsBoard, NoBoardReq
    <3>4. BoardIsTheLast' /\ RecordNamesOutgoing'
      BY <1>2, <2>4, <1>0 DEF OneAtATime, BoardIsTheLast, RecordNamesOutgoing
    <3>. QED
      BY <3>1, <3>2, <3>3, <3>4
  <2>6. BoardsTypeOK'
    BY <2>1, <2>3, <1>2, <1>0, BoardsTypeStep
  <2>. QED
    BY <2>1, <2>2, <2>5, <2>6 DEF BoardsInv
<1>3. ASSUME NEW n \in 0..MaxApproved, MembersChange(n) PROVE BoardsInv'
  BY <1>3, <1>1 DEF MembersChange
<1>4. ASSUME NEW r \in BoardRequests, NEW m \in Meetings, NEW types \in SUBSET BoardTypes, NEW n,
             HoldMeeting(r, m, types, n)
      PROVE  BoardsInv'
  <2>. DEFINE k == [NoBoardReq EXCEPT !.op = "elect", !.pc = "close", !.on = m, !.types = types]
  <2>1. k \in BoardKinds /\ k.pc = "close" /\ k.op = "elect"
    BY DEF BoardKinds, NoBoardReq
  <2>2. BoardsEnter(r, k) /\ UNCHANGED <<seats, inOffice, record, approved, succession, left>>
    BY <1>4 DEF HoldMeeting
  <2>. HIDE DEF k
  <2>. QED
    BY <2>1, <2>2, <1>2
<1>5. ASSUME NEW r \in BoardRequests, NEW m \in Meetings, ReadHandover(r, m) PROVE BoardsInv'
  <2>. DEFINE types == {t \in BoardTypes : <<m, t>> \in seats}
              k == [NoBoardReq EXCEPT !.op = "handover", !.pc = "close", !.on = m,
                                      !.out = inOffice, !.types = types]
  <2>1. k \in BoardKinds /\ k.pc = "close" /\ k.on = m /\ k.out = inOffice /\ k.types = types
    <3>. HIDE DEF types
    <3>1. types \subseteq BoardTypes
      BY DEF types
    <3>. QED
      BY <3>1, <1>0 DEF BoardKinds, NoBoardReq
  <2>2. BoardsEnter(r, k) /\ UNCHANGED <<seats, inOffice, record, approved, succession, left>>
    BY <1>5 DEF ReadHandover
  <2>3. \E t \in BoardTypes : <<m, t>> \in seats
    BY <1>5 DEF ReadHandover
  <2>. HIDE DEF k
  <2>. QED
    BY <2>1, <2>2, <2>3, <1>2
<1>6. ASSUME NEW r \in BoardRequests, CloseBoards(r) PROVE BoardsInv'
  <2>. DEFINE closes == {seat \in inOffice : boardReq[r].op = "handover"
                                             \/ seat[2] \in boardReq[r].types}
              k == [boardReq[r] EXCEPT !.pc = "commit", !.closes = closes]
  <2>1. boardReq[r].pc = "close" /\ boardReq[r] \in BoardKinds /\ boardReq[r] # NoBoardReq
    BY <1>6, <1>0 DEF CloseBoards, NoBoardReq
  <2>2. closes \subseteq Rows
    BY <1>0
  <2>3. k \in BoardKinds /\ k.pc = "commit" /\ k.op = boardReq[r].op /\ k.on = boardReq[r].on
        /\ k.types = boardReq[r].types /\ k.out = boardReq[r].out /\ k.closes = closes
    <3>. HIDE DEF closes
    <3>. QED
      BY <2>1, <2>2 DEF BoardKinds, NoBoardReq
  <2>4. boardReq' = [boardReq EXCEPT ![r] = k]
    BY <1>6 DEF CloseBoards, BoardTypesToReplace
  <2>5. BoardRequestsOK' /\ boardReq'[r] = k
        /\ \A q \in BoardRequests \ {r} : boardReq'[q] = boardReq[q]
    BY <2>3, <2>4, <1>0, BoardsOther
  <2>6. UNCHANGED <<seats, inOffice, record, approved, succession, left, boardsMet>>
    BY <1>6 DEF CloseBoards
  <2>7. KnowsBoard(r) => KnowsBoard(r)'
    <3>. HIDE DEF k
    <3>. QED
      BY <2>3, <2>5, <2>6 DEF KnowsBoard
  <2>. HIDE DEF k, closes
  <2>8. HandsOverElected' /\ SeatsAreElected'
    BY <2>3, <2>5, <2>6, <1>0 DEF HandsOverElected, SeatsAreElected
  <2>9. \A q \in BoardRequests : KnowsBoard(q) => KnowsBoard(q)'
    BY <2>5, <2>6, <2>7 DEF KnowsBoard
  <2>10. OneAtATime'
    BY <2>1, <2>5, <2>6, <2>9, <1>0 DEF OneAtATime, BoardIsTheLast, RecordNamesOutgoing
  <2>11. BoardsTypeOK'
    BY <2>5, <2>6, <1>0, BoardsTypeStep
  <2>. QED
    BY <2>5, <2>8, <2>10, <2>11 DEF BoardsInv
\* What the end of a request leaves: nothing is under way unless two met.
<1>7. ASSUME NEW r \in BoardRequests, boardReq[r] # NoBoardReq,
             boardReq' = [boardReq EXCEPT ![r] = NoBoardReq], seats \subseteq seats',
             boardsMet' = boardsMet
      PROVE  /\ BoardRequestsOK' /\ HandsOverElected'
             /\ ~boardsMet => \A q \in BoardRequests : boardReq'[q] = NoBoardReq
  <2>1. NoBoardReq \in BoardKinds
    BY DEF BoardKinds
  <2>2. BoardRequestsOK' /\ boardReq'[r] = NoBoardReq
        /\ \A q \in BoardRequests \ {r} : boardReq'[q] = boardReq[q]
    BY <1>7, <2>1, <1>0, BoardsOther
  <2>3. HandsOverElected'
    BY <2>2, <1>7, <1>0 DEF HandsOverElected, NoBoardReq
  <2>. QED
    BY <2>2, <2>3, <1>7, <1>0 DEF OneAtATime
<1>8. ASSUME NEW r \in BoardRequests, CommitElection(r) PROVE BoardsInv'
  <2>1. PICK m, types, closes :
          /\ m = boardReq[r].on /\ types = boardReq[r].types /\ closes = boardReq[r].closes
          /\ m \in Meetings /\ types \subseteq BoardTypes /\ boardReq[r] # NoBoardReq
    BY <1>8, <1>0 DEF CommitElection, BoardKinds, NoBoardReq
  <2>. DEFINE new == {<<m, t>> : t \in types}
  <2>2. /\ seats' = seats \cup new /\ inOffice' = (inOffice \ closes) \cup new
        /\ succession' = [t \in BoardTypes |-> IF t \in types THEN m ELSE succession[t]]
        /\ boardReq' = [boardReq EXCEPT ![r] = NoBoardReq]
        /\ UNCHANGED <<record, approved, left, boardsMet>>
    BY <2>1, <1>8 DEF CommitElection
  <2>3. BoardRequestsOK' /\ HandsOverElected'
        /\ (~boardsMet => \A q \in BoardRequests : boardReq'[q] = NoBoardReq)
    BY <2>1, <2>2, <1>7
  <2>4. SeatsAreElected'
    BY <2>2, <1>0 DEF SeatsAreElected
  <2>5. seats' \subseteq Rows /\ inOffice' \subseteq seats'
    BY <2>1, <2>2, <1>0 DEF Rows
  <2>6. succession' \in [BoardTypes -> Meetings \cup {Vacant}]
    BY <2>1, <2>2, <1>0
  <2>7. ASSUME ~boardsMet PROVE BoardIsTheLast'
    <3>1. closes = {seat \in inOffice : seat[2] \in types}
      BY <2>1, <2>7, <1>8, <1>0 DEF OneAtATime, KnowsBoard, CommitElection
    <3>2. inOffice = {<<succession[t], t>> : t \in {x \in BoardTypes : succession[x] # Vacant}}
      BY <2>7, <1>0 DEF OneAtATime, BoardIsTheLast
    <3>3. inOffice \ closes
            = {<<succession[t], t>> : t \in {x \in BoardTypes \ types : succession[x] # Vacant}}
      BY <3>1, <3>2
    <3>4. {x \in BoardTypes : succession'[x] # Vacant}
            = {x \in BoardTypes \ types : succession[x] # Vacant} \cup types
      BY <2>1, <2>2, BoardsAssumption
    <3>5. /\ \A t \in types : succession'[t] = m
          /\ \A t \in BoardTypes \ types : succession'[t] = succession[t]
      BY <2>1, <2>2
    <3>6. {<<succession'[t], t>> : t \in {x \in BoardTypes : succession'[x] # Vacant}}
            = {<<succession[t], t>> : t \in {x \in BoardTypes \ types : succession[x] # Vacant}}
                \cup new
      BY <3>4, <3>5
    <3>. QED
      BY <2>2, <3>3, <3>6 DEF BoardIsTheLast
  <2>8. OneAtATime'
    <3>1. ~boardsMet => RecordNamesOutgoing'
      BY <2>2, <1>0 DEF OneAtATime, RecordNamesOutgoing
    <3>. QED
      BY <3>1, <2>2, <2>3, <2>7, NobodyAtIt
  <2>9. BoardsTypeOK'
    BY <2>2, <2>3, <2>5, <2>6, <1>0, BoardsTypeStep
  <2>. QED
    BY <2>3, <2>4, <2>8, <2>9 DEF BoardsInv
<1>9. ASSUME NEW r \in BoardRequests, CommitHandover(r) PROVE BoardsInv'
  <2>1. PICK m, types, out, closes :
          /\ m = boardReq[r].on /\ types = boardReq[r].types /\ closes = boardReq[r].closes
          /\ out = boardReq[r].out /\ out \subseteq Rows
          /\ m \in Meetings /\ types \subseteq BoardTypes /\ boardReq[r] # NoBoardReq
    BY <1>9, <1>0 DEF CommitHandover, BoardKinds, NoBoardReq
  <2>2. boardReq' = [boardReq EXCEPT ![r] = NoBoardReq] /\ UNCHANGED <<seats, approved, boardsMet>>
    BY <1>9 DEF CommitHandover
  <2>3. BoardRequestsOK' /\ HandsOverElected'
        /\ (~boardsMet => \A q \in BoardRequests : boardReq'[q] = NoBoardReq)
    BY <2>1, <2>2, <1>7
  <2>4. CASE record[m] # Unrecorded
    <3>1. UNCHANGED <<inOffice, record, left, succession>>
      BY <2>1, <2>4, <1>9 DEF CommitHandover
    <3>2. SeatsAreElected'
      BY <3>1, <2>2, <1>0 DEF SeatsAreElected
    <3>3. OneAtATime'
      <4>1. ~boardsMet => BoardIsTheLast' /\ RecordNamesOutgoing'
        BY <3>1, <1>0 DEF OneAtATime, RecordNamesOutgoing, BoardIsTheLast
      <4>. QED
        BY <4>1, <2>2, <2>3, NobodyAtIt
    <3>4. BoardsTypeOK'
      BY <3>1, <2>2, <2>3, <1>0, BoardsTypeStep
    <3>. QED
      BY <2>3, <3>2, <3>3, <3>4 DEF BoardsInv
  <2>5. CASE record[m] = Unrecorded
    <3>1. /\ inOffice' = (inOffice \ closes) \cup {seat \in seats : seat[1] = m}
          /\ record' = [record EXCEPT ![m] = out] /\ left' = [left EXCEPT ![m] = inOffice]
          /\ succession' = [t \in BoardTypes |-> IF t \in types THEN m ELSE Vacant]
      BY <2>1, <2>5, <1>9 DEF CommitHandover, Reopened
    <3>2. SeatsAreElected'
      <4>1. \E t \in BoardTypes : <<m, t>> \in seats
        BY <2>1, <1>9, <1>0 DEF CommitHandover, HandsOverElected
      <4>. QED
        BY <3>1, <4>1, <2>1, <2>2, <1>0 DEF SeatsAreElected
    <3>3. inOffice' \subseteq seats' /\ seats' \subseteq Rows
      BY <3>1, <2>2, <1>0
    <3>4. /\ record' \in [Meetings -> (SUBSET Rows) \cup {Unrecorded}]
          /\ left' \in [Meetings -> (SUBSET Rows) \cup {Unrecorded}]
      BY <3>1, <2>1, <1>0
    <3>5. succession' \in [BoardTypes -> Meetings \cup {Vacant}]
      BY <3>1, <2>1
    <3>6. ASSUME ~boardsMet PROVE BoardIsTheLast' /\ RecordNamesOutgoing'
      <4>1. out = inOffice /\ closes = inOffice /\ types = {t \in BoardTypes : <<m, t>> \in seats}
        <5>1. KnowsBoard(r) /\ boardReq[r].op = "handover" /\ boardReq[r].pc = "commit"
          BY <3>6, <1>9, <1>0 DEF OneAtATime, CommitHandover
        <5>2. closes = {seat \in inOffice : TRUE}
          BY <5>1, <2>1 DEF KnowsBoard
        <5>. QED
          BY <5>1, <5>2, <2>1 DEF KnowsBoard
      <4>2. RecordNamesOutgoing'
        BY <4>1, <3>1, <3>6, <2>1, <1>0 DEF OneAtATime, RecordNamesOutgoing
      <4>3. inOffice' = {<<m, t>> : t \in types}
        <5>1. inOffice' = {seat \in seats : seat[1] = m}
          BY <3>1, <4>1
        <5>2. \A seat \in seats : seat = <<seat[1], seat[2]>> /\ seat[2] \in BoardTypes
          BY <1>0 DEF Rows
        <5>3. \A t \in types : <<m, t>> \in seats /\ <<m, t>>[1] = m
          BY <4>1
        <5>4. \A seat \in inOffice' : seat = <<m, seat[2]>> /\ seat[2] \in types
          BY <5>1, <5>2, <4>1
        <5>. QED
          BY <5>1, <5>3, <5>4
      <4>4. {x \in BoardTypes : succession'[x] # Vacant} = types
        BY <3>1, <2>1, BoardsAssumption
      <4>5. \A t \in types : succession'[t] = m
        BY <3>1, <2>1
      <4>6. BoardIsTheLast'
        BY <4>3, <4>4, <4>5 DEF BoardIsTheLast
      <4>. QED
        BY <4>2, <4>6
    <3>7. OneAtATime'
      BY <3>6, <2>2, <2>3, NobodyAtIt
    <3>8. BoardsTypeOK'
      BY <3>3, <3>4, <3>5, <2>2, <2>3, <1>0, BoardsTypeStep
    <3>. QED
      BY <2>3, <3>2, <3>7, <3>8 DEF BoardsInv
  <2>. QED
    BY <2>4, <2>5
<1>. QED
  BY <1>0, <1>1, <1>3, <1>4, <1>5, <1>6, <1>8, <1>9 DEF BoardsNext, boardsVars

(* The boards of a club are sound, for any meetings and requests: a        *)
(* handover is of a meeting that elected a board, and while no two         *)
(* requests have met the board in office is the one last elected or handed *)
(* over to, one of each type, and every record names the board that went   *)
(* (general-meetings.repository.ts:103-116, handover.repository.ts:107-117). *)
THEOREM BoardsAreSound == BoardsSpec => []BoardsSound
<1>1. BoardsInv => BoardsSound
  BY DEF BoardsInv, BoardsSound, OneAtATime
<1>. QED
  BY BoardsInvInit, BoardsInvStep, <1>1, PTL DEF BoardsSpec

-----------------------------------------------------------------------------
(***************************************************************************)
(* The advisors of a club.  An invitation accepted stays so, one at most   *)
(* is pending, and while no write has fallen into an acceptance the        *)
(* invitation it is about to write is still pending.                       *)
(***************************************************************************)
AdvisorKinds ==
  {NoAdvReq}
    \cup [op : {"invite", "withdraw", "remove"}, pc : {"read", "write"}, on : {0}]
    \cup [op : {"decline", "cancel"}, pc : {"read", "write"}, on : Invites]
    \cup [op : {"accept"}, pc : {"read", "write", "commit"}, on : Invites]

AdvisorRequestsOK == advReq \in [AdvisorRequests -> AdvisorKinds]

OneInviteOpen == \A i, j \in Invites : Pending(i) /\ Pending(j) => i = j
SpentWereAccepted == \A i \in spent : invite[i].status = "accepted"

Consenting ==
  ~tookBack =>
    /\ RefusedStays /\ AdvisesByConsent
    /\ \A r \in AdvisorRequests : advReq[r].pc = "commit" => Pending(advReq[r].on)

OneAdvisorRequest ==
  ~advMet =>
    /\ ~tookBack /\ NothingOpen
    /\ \A q, r \in AdvisorRequests : advReq[q] # NoAdvReq /\ advReq[r] # NoAdvReq => q = r
    /\ \A r \in AdvisorRequests :
         advReq[r].op = "invite" /\ advReq[r].pc = "write" => advisor # "active"

AdvisorsInv ==
  AdvisorsTypeOK /\ AdvisorRequestsOK /\ OneInviteOpen /\ SpentWereAccepted /\ Consenting
    /\ OneAdvisorRequest

InviteRows == [status : {"none", "pending", "accepted"} \cup Closed, due : BOOLEAN]

LEMMA AdvisorKindsType ==
  AdvisorKinds \subseteq
    [op : {"none", "invite", "accept", "decline", "cancel", "withdraw", "remove"},
     pc : {"idle", "read", "write", "commit"}, on : Invites \cup {0}]
BY DEF AdvisorKinds, NoAdvReq

LEMMA AdvisorsTypeStep ==
  ASSUME AdvisorRequestsOK', invite' \in [Invites -> InviteRows],
         advisor' \in {"none", "active", "left"}, refused' \subseteq Invites,
         advised' \in 0..MaxAdvising, advMet' \in BOOLEAN, tookBack' \in BOOLEAN,
         spent' \subseteq Invites
  PROVE  AdvisorsTypeOK'
<1>1. advReq' \in [AdvisorRequests ->
        [op : {"none", "invite", "accept", "decline", "cancel", "withdraw", "remove"},
         pc : {"idle", "read", "write", "commit"}, on : Invites \cup {0}]]
  BY AdvisorKindsType DEF AdvisorRequestsOK
<1>2. {advMet', tookBack'} \subseteq BOOLEAN
  OBVIOUS
<1>. QED
  BY <1>1, <1>2 DEF AdvisorsTypeOK, InviteRows

LEMMA AdvisorsInvInit == AdvisorsInit => AdvisorsInv
<1>. SUFFICES ASSUME AdvisorsInit PROVE AdvisorsInv
  OBVIOUS
<1>1. AdvisorRequestsOK
  BY DEF AdvisorsInit, AdvisorRequestsOK, AdvisorKinds
<1>2. AdvisorsTypeOK
  <2>1. advReq \in [AdvisorRequests ->
          [op : {"none", "invite", "accept", "decline", "cancel", "withdraw", "remove"},
           pc : {"idle", "read", "write", "commit"}, on : Invites \cup {0}]]
    BY <1>1, AdvisorKindsType DEF AdvisorRequestsOK
  <2>2. advised \in 0..MaxAdvising
    BY AdvisorsAssumption DEF AdvisorsInit
  <2>3. invite \in [Invites -> InviteRows]
    BY DEF AdvisorsInit, NoInvite, InviteRows
  <2>4. advisor \in {"none", "active", "left"} /\ refused \subseteq Invites /\ spent \subseteq Invites
    BY DEF AdvisorsInit
  <2>5. {advMet, tookBack} \subseteq BOOLEAN
    BY DEF AdvisorsInit
  <2>. QED
    BY <2>1, <2>2, <2>3, <2>4, <2>5 DEF AdvisorsTypeOK, InviteRows
<1>3. OneInviteOpen /\ SpentWereAccepted
  BY DEF AdvisorsInit, OneInviteOpen, SpentWereAccepted, Pending, NoInvite
<1>4. Consenting /\ OneAdvisorRequest
  BY DEF AdvisorsInit, Consenting, OneAdvisorRequest, RefusedStays, AdvisesByConsent, NothingOpen,
         NoAdvReq
<1>. QED
  BY <1>1, <1>2, <1>3, <1>4 DEF AdvisorsInv

LEMMA AdvisorsOther ==
  ASSUME AdvisorRequestsOK, NEW r \in AdvisorRequests, NEW k \in AdvisorKinds,
         advReq' = [advReq EXCEPT ![r] = k]
  PROVE  /\ AdvisorRequestsOK' /\ advReq'[r] = k
         /\ \A q \in AdvisorRequests \ {r} : advReq'[q] = advReq[q]
BY DEF AdvisorRequestsOK

\* What AdvisorsInv says of the variables.
LEMMA AdvisorsFacts ==
  ASSUME AdvisorsInv
  PROVE  /\ advReq \in [AdvisorRequests -> AdvisorKinds] /\ AdvisorRequestsOK
         /\ invite \in [Invites -> InviteRows]
         /\ advisor \in {"none", "active", "left"} /\ refused \subseteq Invites
         /\ advised \in 0..MaxAdvising /\ spent \subseteq Invites
         /\ advMet \in BOOLEAN /\ tookBack \in BOOLEAN
         /\ OneInviteOpen /\ SpentWereAccepted /\ Consenting /\ OneAdvisorRequest
BY DEF AdvisorsInv, AdvisorRequestsOK, AdvisorsTypeOK, InviteRows

\* No write has fallen into an acceptance: it wrote nothing, or nobody is
\* between the look and the writes.
LEMMA NotInterrupted ==
  ASSUME Interrupts, ~tookBack'
  PROVE  /\ ~tookBack
         /\ \/ UNCHANGED <<invite, advisor>>
            \/ \A q \in AdvisorRequests : ~(advReq[q].pc = "commit" /\ advReq'[q].pc = "commit")
BY DEF Interrupts

\* A step of a request that closes invitations at most.
LEMMA AdvisorsQuiet ==
  ASSUME AdvisorsInv, NEW r \in AdvisorRequests, NEW k \in AdvisorKinds,
         advReq' = [advReq EXCEPT ![r] = k], advReq[r].pc # "commit",
         k.pc = "commit" => Pending(k.on) /\ invite' = invite,
         k.op = "invite" /\ k.pc = "write" => advisor # "active",
         invite' \in [Invites -> InviteRows],
         \A i \in Invites : \/ invite'[i] = invite[i]
                            \/ Pending(i) /\ invite'[i].status \in Closed,
         refused' \subseteq refused \cup {i \in Invites : invite'[i].status \in Closed},
         advisor' = advisor, spent' = spent,
         Interrupts \/ (UNCHANGED <<invite, tookBack>>),
         advised' \in 0..MaxAdvising,
         \/ advMet' = advMet /\ advReq[r] # NoAdvReq
         \/ advMet' = (advMet \/ \E q \in AdvisorRequests : advReq[q] # NoAdvReq)
  PROVE  AdvisorsInv'
<1>0. /\ advReq \in [AdvisorRequests -> AdvisorKinds] /\ AdvisorRequestsOK
      /\ invite \in [Invites -> InviteRows]
      /\ advisor \in {"none", "active", "left"} /\ refused \subseteq Invites
      /\ spent \subseteq Invites /\ advMet \in BOOLEAN /\ tookBack \in BOOLEAN
      /\ OneInviteOpen /\ SpentWereAccepted /\ Consenting /\ OneAdvisorRequest
  BY AdvisorsFacts
<1>1. AdvisorRequestsOK' /\ advReq'[r] = k
      /\ \A q \in AdvisorRequests \ {r} : advReq'[q] = advReq[q]
  BY <1>0, AdvisorsOther
<1>2. \A i \in Invites : Pending(i)' => Pending(i) /\ invite'[i] = invite[i]
  BY DEF Pending, Closed
<1>3. \A i \in Invites : invite[i].status = "accepted" => invite'[i].status = "accepted"
  BY DEF Pending
<1>4. \A i \in Invites : invite[i].status \in Closed => invite'[i].status \in Closed
  BY DEF Pending, Closed
<1>5. OneInviteOpen' /\ SpentWereAccepted'
  BY <1>0, <1>2, <1>3 DEF OneInviteOpen, SpentWereAccepted
<1>6. tookBack' \in BOOLEAN /\ advMet' \in BOOLEAN /\ refused' \subseteq Invites
  BY <1>0 DEF Interrupts
<1>7. ASSUME ~tookBack'
      PROVE  /\ RefusedStays' /\ AdvisesByConsent'
             /\ \A q \in AdvisorRequests : advReq'[q].pc = "commit" => Pending(advReq[q].on)'
  <2>1. ~tookBack
    BY <1>7 DEF Interrupts
  <2>2. RefusedStays'
    BY <2>1, <1>0, <1>4 DEF Consenting, RefusedStays
  <2>3. AdvisesByConsent'
    BY <2>1, <1>0, <1>3 DEF Consenting, AdvisesByConsent
  <2>4. ASSUME NEW q \in AdvisorRequests, advReq'[q].pc = "commit" PROVE Pending(advReq[q].on)'
    <3>1. CASE q = r
      BY <3>1, <1>1, <2>4 DEF Pending
    <3>2. CASE q # r
      <4>1. Pending(advReq[q].on) /\ advReq[q].pc = "commit" /\ advReq'[q] = advReq[q]
        BY <3>2, <2>1, <2>4, <1>0, <1>1 DEF Consenting
      <4>2. invite' = invite
        BY <4>1, <2>4, <1>7, NotInterrupted
      <4>. QED
        BY <4>1, <4>2 DEF Pending
    <3>. QED
      BY <3>1, <3>2
  <2>. QED
    BY <2>2, <2>3, <2>4
<1>8. OneAdvisorRequest'
  <2>. SUFFICES ASSUME ~advMet'
       PROVE  /\ ~tookBack' /\ NothingOpen'
              /\ \A p, q \in AdvisorRequests :
                   advReq'[p] # NoAdvReq /\ advReq'[q] # NoAdvReq => p = q
              /\ \A q \in AdvisorRequests :
                   advReq'[q].op = "invite" /\ advReq'[q].pc = "write" => advisor' # "active"
    BY DEF OneAdvisorRequest
  <2>1. ~advMet /\ ~tookBack /\ \A q \in AdvisorRequests \ {r} : advReq[q] = NoAdvReq
    BY <1>0 DEF OneAdvisorRequest
  <2>2. ~tookBack'
    <3>1. \A q \in AdvisorRequests : advReq[q].pc # "commit"
      BY <2>1 DEF NoAdvReq
    <3>. QED
      BY <3>1, <2>1 DEF Interrupts
  <2>3. NothingOpen'
    BY <2>1, <1>0, <1>2 DEF OneAdvisorRequest, NothingOpen
  <2>4. \A p, q \in AdvisorRequests : advReq'[p] # NoAdvReq /\ advReq'[q] # NoAdvReq => p = q
    BY <2>1, <1>1
  <2>5. \A q \in AdvisorRequests :
          advReq'[q].op = "invite" /\ advReq'[q].pc = "write" => advisor' # "active"
    BY <2>1, <1>1 DEF NoAdvReq
  <2>. QED
    BY <2>2, <2>3, <2>4, <2>5
<1>9. AdvisorsTypeOK'
  BY <1>0, <1>1, <1>6, AdvisorsTypeStep
<1>. QED
  BY <1>1, <1>5, <1>7, <1>8, <1>9 DEF AdvisorsInv, Consenting

LEMMA AdvisorsInvStep == AdvisorsInv /\ [AdvisorsNext]_advisorsVars => AdvisorsInv'
<1>. SUFFICES ASSUME AdvisorsInv, [AdvisorsNext]_advisorsVars PROVE AdvisorsInv'
  OBVIOUS
<1>0. /\ advReq \in [AdvisorRequests -> AdvisorKinds] /\ AdvisorRequestsOK
      /\ invite \in [Invites -> InviteRows]
      /\ advisor \in {"none", "active", "left"} /\ refused \subseteq Invites
      /\ advised \in 0..MaxAdvising /\ spent \subseteq Invites
      /\ advMet \in BOOLEAN /\ tookBack \in BOOLEAN
      /\ OneInviteOpen /\ SpentWereAccepted /\ Consenting /\ OneAdvisorRequest
  BY AdvisorsFacts
<1>1. ASSUME UNCHANGED advisorsVars PROVE AdvisorsInv'
  <2>1. AdvisorRequestsOK' /\ OneInviteOpen' /\ SpentWereAccepted'
    BY <1>1, <1>0 DEF advisorsVars, AdvisorRequestsOK, OneInviteOpen, SpentWereAccepted, Pending
  <2>2. Consenting'
    BY <1>1, <1>0 DEF advisorsVars, Consenting, RefusedStays, AdvisesByConsent, Pending
  <2>3. OneAdvisorRequest'
    BY <1>1, <1>0 DEF advisorsVars, OneAdvisorRequest, NothingOpen, Pending
  <2>4. AdvisorsTypeOK'
    BY <1>1, <1>0, <2>1, AdvisorsTypeStep DEF advisorsVars
  <2>. QED
    BY <2>1, <2>2, <2>3, <2>4 DEF AdvisorsInv
\* The deadline of an invitation passes: it stays pending.
<1>2. ASSUME NEW i \in Invites, InviteFallsDue(i) PROVE AdvisorsInv'
  <2>1. invite' = [invite EXCEPT ![i].due = TRUE]
        /\ UNCHANGED <<advisor, advReq, refused, advised, advMet, tookBack, spent>>
    BY <1>2 DEF InviteFallsDue
  <2>2. invite' \in [Invites -> InviteRows] /\ \A j \in Invites : invite'[j].status = invite[j].status
    BY <2>1, <1>0 DEF InviteRows
  <2>3. AdvisorRequestsOK' /\ OneInviteOpen' /\ SpentWereAccepted'
    BY <2>1, <2>2, <1>0 DEF AdvisorRequestsOK, OneInviteOpen, SpentWereAccepted, Pending
  <2>4. \A r \in AdvisorRequests : advReq[r].pc = "commit" => advReq[r].on \in Invites
    BY <1>0 DEF AdvisorKinds, NoAdvReq
  <2>5. Consenting'
    BY <2>1, <2>2, <2>4, <1>0 DEF Consenting, RefusedStays, AdvisesByConsent, Pending
  <2>6. OneAdvisorRequest'
    BY <2>1, <2>2, <1>0 DEF OneAdvisorRequest, NothingOpen, Pending
  <2>7. AdvisorsTypeOK'
    BY <2>1, <2>2, <2>3, <1>0, AdvisorsTypeStep
  <2>. QED
    BY <2>3, <2>5, <2>6, <2>7 DEF AdvisorsInv
<1>3. ASSUME NEW r \in AdvisorRequests, NEW op, NEW i, AdvisorsEnter(r, op, i),
             \/ op \in {"invite", "withdraw", "remove"} /\ i = 0
             \/ op \in {"accept", "decline", "cancel"} /\ i \in Invites
      PROVE  AdvisorsInv'
  <2>1. PICK k : k = [op |-> op, pc |-> "read", on |-> i]
    OBVIOUS
  <2>2. k \in AdvisorKinds /\ k.pc = "read"
    BY <2>1, <1>3 DEF AdvisorKinds
  <2>3. advReq' = [advReq EXCEPT ![r] = k] /\ advReq[r] = NoAdvReq /\ advised' \in 0..MaxAdvising
        /\ advMet' = (advMet \/ \E q \in AdvisorRequests : advReq[q] # NoAdvReq)
        /\ advisor' = advisor /\ spent' = spent /\ Interrupts
    BY <2>1, <1>3, <1>0, AdvisorsAssumption DEF AdvisorsEnter
  <2>4. /\ invite' \in [Invites -> InviteRows]
        /\ \A j \in Invites : invite'[j] = invite[j] \/ (Pending(j) /\ invite'[j].status \in Closed)
        /\ refused' \subseteq refused \cup {j \in Invites : invite'[j].status \in Closed}
    <3>1. CASE op \in {"withdraw", "remove"}
      <4>1. UNCHANGED <<invite, refused>>
        BY <3>1, <1>3 DEF AdvisorsEnter
      <4>. QED
        BY <4>1, <1>0
    <3>2. CASE op \notin {"withdraw", "remove"}
      <4>1. invite' = ExpireStalePending
            /\ refused' = refused \cup {j \in Invites : invite'[j].status = "expired"}
        BY <3>2, <1>3 DEF AdvisorsEnter
      <4>2. \A j \in Invites : /\ [invite[j] EXCEPT !.status = "expired"] \in InviteRows
                               /\ [invite[j] EXCEPT !.status = "expired"].status = "expired"
        BY <1>0 DEF InviteRows, Closed
      <4>3. \A j \in Invites :
              \/ invite'[j] = invite[j]
              \/ Pending(j) /\ invite'[j] = [invite[j] EXCEPT !.status = "expired"]
        BY <4>1 DEF ExpireStalePending
      <4>4. invite' \in [Invites -> InviteRows]
        BY <4>1, <4>2, <4>3, <1>0 DEF ExpireStalePending
      <4>. QED
        BY <4>1, <4>2, <4>3, <4>4 DEF Closed
    <3>. QED
      BY <3>1, <3>2
  <2>5. advReq[r].pc # "commit"
    BY <2>3 DEF NoAdvReq
  <2>. QED
    BY <2>2, <2>3, <2>4, <2>5, AdvisorsQuiet
\* The request, an invitation closed by it, and where it goes.
<1>4. ASSUME NEW r \in AdvisorRequests, AdvRead(r) PROVE AdvisorsInv'
  <2>. DEFINE i == advReq[r].on
              go == [advReq[r] EXCEPT !.pc = "write"]
  <2>1. /\ advReq[r].pc = "read" /\ advReq[r] # NoAdvReq
        /\ advReq[r].op \in {"accept", "decline", "cancel"} => i \in Invites
    BY <1>4, <1>0 DEF AdvRead, AdvisorKinds, NoAdvReq
  <2>2. go \in AdvisorKinds /\ go.pc = "write" /\ go.op = advReq[r].op /\ NoAdvReq \in AdvisorKinds
    BY <2>1, <1>0 DEF AdvisorKinds, NoAdvReq
  <2>3. \/ advReq' = [advReq EXCEPT ![r] = NoAdvReq]
        \/ advReq' = [advReq EXCEPT ![r] = go] /\ (advReq[r].op = "invite" => advisor # "active")
    BY <1>4 DEF AdvRead, AdvDone, AdvGoto
  <2>4. \/ UNCHANGED <<invite, refused>>
        \/ /\ i \in Invites /\ Pending(i) /\ invite' = [invite EXCEPT ![i].status = "expired"]
           /\ refused' = refused \cup {i}
    BY <2>1, <1>4 DEF AdvRead
  <2>5. /\ invite' \in [Invites -> InviteRows]
        /\ \A j \in Invites : invite'[j] = invite[j] \/ (Pending(j) /\ invite'[j].status \in Closed)
        /\ refused' \subseteq refused \cup {j \in Invites : invite'[j].status \in Closed}
    <3>1. CASE UNCHANGED <<invite, refused>>
      BY <3>1, <1>0
    <3>2. CASE /\ i \in Invites /\ Pending(i) /\ invite' = [invite EXCEPT ![i].status = "expired"]
               /\ refused' = refused \cup {i}
      BY <3>2, <1>0 DEF InviteRows, Closed
    <3>. QED
      BY <2>4, <3>1, <3>2
  <2>6. UNCHANGED <<advisor, advised, advMet, spent>> /\ Interrupts
    BY <1>4 DEF AdvRead
  <2>. HIDE DEF go
  <2>7. CASE advReq' = [advReq EXCEPT ![r] = NoAdvReq]
    <3>1. NoAdvReq.pc = "idle"
      BY DEF NoAdvReq
    <3>. QED
      BY <3>1, <2>1, <2>2, <2>5, <2>6, <2>7, <1>0, AdvisorsQuiet
  <2>8. CASE advReq' = [advReq EXCEPT ![r] = go] /\ (advReq[r].op = "invite" => advisor # "active")
    BY <2>1, <2>2, <2>5, <2>6, <2>8, <1>0, AdvisorsQuiet
  <2>. QED
    BY <2>3, <2>7, <2>8
<1>5. NoAdvReq \in AdvisorKinds /\ NoAdvReq.pc = "idle"
  BY DEF AdvisorKinds, NoAdvReq
<1>6. ASSUME NEW r \in AdvisorRequests, WriteRefusal(r) PROVE AdvisorsInv'
  <2>1. PICK i : i = advReq[r].on /\ i \in Invites
    BY <1>6, <1>0 DEF WriteRefusal, AdvisorKinds, NoAdvReq
  <2>2. /\ advReq[r].pc = "write" /\ advReq[r] # NoAdvReq
        /\ advReq' = [advReq EXCEPT ![r] = NoAdvReq]
        /\ UNCHANGED <<advisor, advised, advMet, spent>> /\ Interrupts
    BY <1>6 DEF WriteRefusal, AdvDone, NoAdvReq
  <2>3. /\ invite' \in [Invites -> InviteRows]
        /\ \A j \in Invites : invite'[j] = invite[j] \/ (Pending(j) /\ invite'[j].status \in Closed)
        /\ refused' \subseteq refused \cup {j \in Invites : invite'[j].status \in Closed}
    <3>1. CASE Pending(i)
      <4>1. PICK s \in {"declined", "cancelled"} :
              invite' = [invite EXCEPT ![i].status = s] /\ refused' = refused \cup {i}
        BY <3>1, <2>1, <1>6 DEF WriteRefusal
      <4>. QED
        BY <4>1, <3>1, <2>1, <1>0 DEF InviteRows, Closed
    <3>2. CASE ~Pending(i)
      <4>1. UNCHANGED <<invite, refused>>
        BY <3>2, <2>1, <1>6 DEF WriteRefusal
      <4>. QED
        BY <4>1, <1>0
    <3>. QED
      BY <3>1, <3>2
  <2>. QED
    BY <2>2, <2>3, <1>5, <1>0, AdvisorsQuiet
<1>7. ASSUME NEW r \in AdvisorRequests, BeginAccept(r) PROVE AdvisorsInv'
  <2>. DEFINE go == [advReq[r] EXCEPT !.pc = "commit"]
  <2>1. advReq[r].pc = "write" /\ advReq[r] # NoAdvReq
        /\ UNCHANGED <<invite, advisor, refused, advised, advMet, tookBack, spent>>
    BY <1>7 DEF BeginAccept, NoAdvReq
  <2>2. go \in AdvisorKinds /\ go.pc = "commit" /\ go.on = advReq[r].on
    BY <1>7, <1>0 DEF BeginAccept, AdvisorKinds, NoAdvReq
  <2>3. \/ advReq' = [advReq EXCEPT ![r] = go] /\ Pending(advReq[r].on)
        \/ advReq' = [advReq EXCEPT ![r] = NoAdvReq]
    BY <1>7 DEF BeginAccept, StillPending, AdvGoto, AdvDone
  <2>. HIDE DEF go
  <2>4. CASE advReq' = [advReq EXCEPT ![r] = go] /\ Pending(advReq[r].on)
    BY <2>1, <2>2, <2>4, <1>0, AdvisorsQuiet
  <2>5. CASE advReq' = [advReq EXCEPT ![r] = NoAdvReq]
    BY <2>1, <2>5, <1>5, <1>0, AdvisorsQuiet
  <2>. QED
    BY <2>3, <2>4, <2>5
<1>8. ASSUME NEW r \in AdvisorRequests, WriteInvite(r) PROVE AdvisorsInv'
  <2>1. /\ advReq[r].op = "invite" /\ advReq[r].pc = "write" /\ advReq[r] # NoAdvReq
        /\ advReq' = [advReq EXCEPT ![r] = NoAdvReq]
        /\ UNCHANGED <<advisor, refused, advised, advMet, tookBack, spent>>
    BY <1>8 DEF WriteInvite, AdvDone, NoAdvReq
  <2>2. CASE invite' = invite
    BY <2>1, <2>2, <1>5, <1>0, AdvisorsQuiet
  <2>3. CASE invite' # invite
    <3>1. PICK i \in Invites : invite[i] = NoInvite /\ invite' = [invite EXCEPT ![i].status = "pending"]
      BY <2>3, <1>8 DEF WriteInvite
    <3>2. \A j \in Invites : ~Pending(j)
      BY <2>3, <1>8 DEF WriteInvite
    <3>3. invite' \in [Invites -> InviteRows] /\ invite'[i].status = "pending"
          /\ invite[i].status = "none" /\ \A j \in Invites \ {i} : invite'[j] = invite[j]
      <4>1. invite[i].status = "none"
        BY <3>1 DEF NoInvite
      <4>2. invite' \in [Invites -> InviteRows] /\ invite'[i].status = "pending"
        BY <3>1, <1>0 DEF InviteRows
      <4>3. \A j \in Invites \ {i} : invite'[j] = invite[j]
        BY <3>1, <1>0
      <4>. QED
        BY <4>1, <4>2, <4>3
    <3>4. AdvisorRequestsOK' /\ advReq'[r] = NoAdvReq
          /\ \A q \in AdvisorRequests \ {r} : advReq'[q] = advReq[q]
      BY <2>1, <1>0, <1>5, AdvisorsOther
    <3>5. OneInviteOpen' /\ SpentWereAccepted'
      BY <2>1, <3>2, <3>3, <1>0 DEF OneInviteOpen, SpentWereAccepted, Pending
    <3>6. \A q \in AdvisorRequests : advReq[q].pc = "commit" => advReq[q].on \in Invites
      BY <1>0 DEF AdvisorKinds, NoAdvReq
    <3>7. Consenting'
      <4>. SUFFICES ASSUME ~tookBack
           PROVE  /\ RefusedStays' /\ AdvisesByConsent'
                  /\ \A q \in AdvisorRequests : advReq'[q].pc = "commit" => Pending(advReq[q].on)'
        BY <2>1 DEF Consenting
      <4>1. RefusedStays'
        BY <2>1, <3>3, <1>0 DEF Consenting, RefusedStays, Closed
      <4>2. AdvisesByConsent'
        BY <2>1, <3>3, <1>0 DEF Consenting, AdvisesByConsent
      <4>3. \A q \in AdvisorRequests : advReq[q].pc # "commit"
        BY <3>2, <3>6, <1>0 DEF Consenting
      <4>. QED
        BY <4>1, <4>2, <4>3, <3>4, <1>5
    <3>8. OneAdvisorRequest'
      BY <2>1, <3>4, <1>0, <1>5 DEF OneAdvisorRequest, NothingOpen
    <3>9. AdvisorsTypeOK'
      BY <2>1, <3>3, <3>4, <1>0, AdvisorsTypeStep
    <3>. QED
      BY <3>4, <3>5, <3>7, <3>8, <3>9 DEF AdvisorsInv
  <2>. QED
    BY <2>2, <2>3
<1>9. ASSUME NEW r \in AdvisorRequests, CommitAccept(r) PROVE AdvisorsInv'
  <2>1. PICK i : i = advReq[r].on /\ i \in Invites
    BY <1>9, <1>0 DEF CommitAccept, AdvisorKinds, NoAdvReq
  <2>2. /\ advReq[r].pc = "commit" /\ advReq[r] # NoAdvReq
        /\ advReq' = [advReq EXCEPT ![r] = NoAdvReq]
        /\ invite' = [invite EXCEPT ![i].status = "accepted"] /\ advisor' = "active"
        /\ UNCHANGED <<refused, advised, advMet, spent>> /\ Interrupts
    BY <2>1, <1>9 DEF CommitAccept, AdvDone, NoAdvReq
  <2>3. invite' \in [Invites -> InviteRows] /\ invite'[i].status = "accepted"
        /\ \A j \in Invites \ {i} : invite'[j] = invite[j]
    BY <2>1, <2>2, <1>0 DEF InviteRows
  <2>4. AdvisorRequestsOK' /\ advReq'[r] = NoAdvReq
        /\ \A q \in AdvisorRequests \ {r} : advReq'[q] = advReq[q]
    BY <2>2, <1>0, <1>5, AdvisorsOther
  <2>5. OneInviteOpen' /\ SpentWereAccepted'
    BY <2>2, <2>3, <1>0 DEF OneInviteOpen, SpentWereAccepted, Pending
  <2>6. ASSUME ~tookBack PROVE Pending(i) /\ i \notin refused /\ i \notin spent
    <3>1. Pending(i)
      BY <2>1, <2>2, <2>6, <1>0 DEF Consenting
    <3>. QED
      BY <3>1, <2>6, <1>0 DEF Consenting, RefusedStays, SpentWereAccepted, Pending, Closed
  <2>7. ASSUME ~tookBack'
        PROVE  /\ RefusedStays' /\ AdvisesByConsent'
               /\ \A q \in AdvisorRequests : advReq'[q].pc = "commit" => Pending(advReq[q].on)'
    <3>1. ~tookBack
      BY <2>2, <2>7 DEF Interrupts
    <3>2. RefusedStays'
      BY <3>1, <2>2, <2>3, <2>6, <1>0 DEF Consenting, RefusedStays
    <3>3. AdvisesByConsent'
      BY <3>1, <2>1, <2>2, <2>3, <2>6 DEF AdvisesByConsent
    <3>4. \A q \in AdvisorRequests : advReq'[q].pc # "commit"
      <4>1. invite' # invite
        BY <3>1, <2>1, <2>3, <2>6 DEF Pending
      <4>2. \A q \in AdvisorRequests : ~(advReq[q].pc = "commit" /\ advReq'[q].pc = "commit")
        BY <4>1, <2>2, <2>7, NotInterrupted
      <4>. QED
        BY <4>2, <2>4, <1>5
    <3>. QED
      BY <3>2, <3>3, <3>4
  <2>8. OneAdvisorRequest'
    <3>. SUFFICES ASSUME ~advMet
         PROVE  /\ ~tookBack' /\ NothingOpen'
                /\ \A q \in AdvisorRequests : advReq'[q] = NoAdvReq
      BY <2>2, <1>5 DEF OneAdvisorRequest
    <3>1. ~tookBack /\ \A q \in AdvisorRequests : advReq'[q] = NoAdvReq
      BY <2>2, <2>4, <1>0 DEF OneAdvisorRequest
    <3>2. ~tookBack'
      BY <3>1, <2>2, <1>5 DEF Interrupts
    <3>3. NothingOpen'
      BY <3>1, <2>1, <2>3, <2>6, <1>0 DEF NothingOpen, OneInviteOpen, Pending
    <3>. QED
      BY <3>1, <3>2, <3>3
  <2>9. tookBack' \in BOOLEAN
    BY <2>2, <1>0 DEF Interrupts
  <2>10. AdvisorsTypeOK'
    BY <2>2, <2>3, <2>4, <2>9, <1>0, AdvisorsTypeStep
  <2>. QED
    BY <2>4, <2>5, <2>7, <2>8, <2>10 DEF AdvisorsInv, Consenting
<1>10. ASSUME NEW r \in AdvisorRequests, WriteLeaving(r) PROVE AdvisorsInv'
  <2>1. /\ advReq[r].pc = "write" /\ advReq[r] # NoAdvReq
        /\ advReq' = [advReq EXCEPT ![r] = NoAdvReq]
        /\ advisor' \in {"none", "left"}
        /\ spent' = spent \cup {i \in Invites : invite[i].status = "accepted"}
        /\ UNCHANGED <<invite, refused, advised, advMet>> /\ Interrupts
    BY <1>10, <1>0 DEF WriteLeaving, Withdrawn, AdvDone, NoAdvReq
  <2>2. AdvisorRequestsOK' /\ advReq'[r] = NoAdvReq
        /\ \A q \in AdvisorRequests \ {r} : advReq'[q] = advReq[q]
    BY <2>1, <1>0, <1>5, AdvisorsOther
  <2>3. OneInviteOpen' /\ SpentWereAccepted'
    BY <2>1, <1>0 DEF OneInviteOpen, SpentWereAccepted, Pending
  <2>4. ASSUME ~tookBack'
        PROVE  /\ RefusedStays' /\ AdvisesByConsent'
               /\ \A q \in AdvisorRequests : advReq'[q].pc = "commit" => Pending(advReq[q].on)'
    <3>1. ~tookBack
      BY <2>1, <2>4 DEF Interrupts
    <3>2. RefusedStays' /\ AdvisesByConsent'
      BY <3>1, <2>1, <1>0 DEF Consenting, RefusedStays, AdvisesByConsent
    <3>3. \A q \in AdvisorRequests : advReq'[q].pc = "commit" => Pending(advReq[q].on)'
      BY <3>1, <2>1, <2>2, <1>0, <1>5 DEF Consenting, Pending
    <3>. QED
      BY <3>2, <3>3
  <2>5. OneAdvisorRequest'
    <3>. SUFFICES ASSUME ~advMet
         PROVE  /\ ~tookBack' /\ NothingOpen'
                /\ \A q \in AdvisorRequests : advReq'[q] = NoAdvReq
      BY <2>1, <1>5 DEF OneAdvisorRequest
    <3>1. ~tookBack /\ \A q \in AdvisorRequests : advReq'[q] = NoAdvReq
      BY <2>1, <2>2, <1>0 DEF OneAdvisorRequest
    <3>2. ~tookBack'
      BY <3>1, <2>1, <1>5 DEF Interrupts
    <3>3. NothingOpen'
      BY <2>1 DEF NothingOpen
    <3>. QED
      BY <3>1, <3>2, <3>3
  <2>6. tookBack' \in BOOLEAN
    BY <2>1, <1>0 DEF Interrupts
  <2>7. spent' \subseteq Invites
    BY <2>1, <1>0
  <2>8. AdvisorsTypeOK'
    BY <2>1, <2>2, <2>6, <2>7, <1>0, AdvisorsTypeStep
  <2>. QED
    BY <2>2, <2>3, <2>4, <2>5, <2>8 DEF AdvisorsInv, Consenting
<1>. QED
  BY <1>1, <1>2, <1>3, <1>4, <1>6, <1>7, <1>8, <1>9, <1>10 DEF AdvisorsNext

(* How an advisor comes and goes is sound, for any invitations and         *)
(* requests: who has left advises again only by a new acceptance and an    *)
(* invitation refused stays so, unless a write fell between the two halves *)
(* of an acceptance (club-advisors.repository.ts:83-118), and while no two *)
(* requests met, who advises has no open invitation.                       *)
THEOREM AdvisorsAreSound == AdvisorsSpec => []AdvisorsSound
<1>1. AdvisorsInv => AdvisorsSound
  BY DEF AdvisorsInv, AdvisorsSound, Consenting, OneAdvisorRequest
<1>. QED
  BY AdvisorsInvInit, AdvisorsInvStep, <1>1, PTL DEF AdvisorsSpec

-----------------------------------------------------------------------------
(***************************************************************************)
(* The academic terms.  No two stored ranges overlap, whatever request     *)
(* wrote them, and an event told keeps its term: that is enough for every  *)
(* step.                                                                   *)
(***************************************************************************)
Patches == [from : Calendar] \cup [to : Calendar] \cup [open : BOOLEAN]
Patched(a, p) == [f \in DOMAIN a |-> IF f \in DOMAIN p THEN p[f] ELSE a[f]]

TermRequestsOK ==
  termReq \in [TermRequests ->
    {NoTermReq} \cup [op : {"update"}, on : Terms, new : Patches]
                \cup [op : {"delete"}, on : Terms, new : {NoTerm}]]

Apart == \A s, t \in Terms : s # t /\ Written(s) /\ Written(t) => ~Overlaps(term[s], term[t])

TermsInv == TermsTypeOK /\ TermRequestsOK /\ Apart /\ RangesAreForward /\ EventsKeepTheirTerm

LEMMA PatchedIs ==
  ASSUME NEW a \in Ranges, NEW p \in Patches
  PROVE  Patched(a, p) \in Ranges
<1>1. DOMAIN a = {"from", "to", "open"}
  BY DEF Ranges
<1>2. CASE p \in [from : Calendar]
  <2>1. DOMAIN p = {"from"}
    BY <1>2
  <2>2. Patched(a, p) = [from |-> p.from, to |-> a.to, open |-> a.open]
    BY <1>1, <2>1 DEF Patched
  <2>. QED
    BY <1>2, <2>2 DEF Ranges
<1>3. CASE p \in [to : Calendar]
  <2>1. DOMAIN p = {"to"}
    BY <1>3
  <2>2. Patched(a, p) = [from |-> a.from, to |-> p.to, open |-> a.open]
    BY <1>1, <2>1 DEF Patched
  <2>. QED
    BY <1>3, <2>2 DEF Ranges
<1>4. CASE p \in [open : BOOLEAN]
  <2>1. DOMAIN p = {"open"}
    BY <1>4
  <2>2. Patched(a, p) = [from |-> a.from, to |-> a.to, open |-> p.open]
    BY <1>1, <2>1 DEF Patched
  <2>. QED
    BY <1>4, <2>2 DEF Ranges
<1>. QED
  BY <1>2, <1>3, <1>4 DEF Patches

LEMMA TermsInvInit == TermsInit => TermsInv
<1>. SUFFICES ASSUME TermsInit PROVE TermsInv
  OBVIOUS
<1>1. TermsTypeOK
  BY TermsAssumption DEF TermsInit, TermsTypeOK, NoTermReq, Calendar, Stages
<1>2. TermRequestsOK
  BY DEF TermsInit, TermRequestsOK
<1>3. Apart /\ RangesAreForward /\ EventsKeepTheirTerm
  BY DEF TermsInit, Apart, RangesAreForward, EventsKeepTheirTerm, Written
<1>. QED
  BY <1>1, <1>2, <1>3 DEF TermsInv

\* A range of one term, written where the constraint of the database allows.
LEMMA StoringKeepsTerms ==
  ASSUME TermsInv, NEW t \in Terms, NEW a \in Ranges, MayStore(t, a),
         term' = [term EXCEPT ![t] = a], event' = event
  PROVE  /\ term' \in [Terms -> Ranges \cup {NoTerm}]
         /\ Apart' /\ RangesAreForward' /\ EventsKeepTheirTerm'
<1>1. term \in [Terms -> Ranges \cup {NoTerm}]
  BY DEF TermsInv, TermsTypeOK
<1>2. a # NoTerm
  BY TermsAssumption DEF Ranges, Calendar
<1>3. term'[t] = a /\ \A s \in Terms \ {t} : term'[s] = term[s]
  BY <1>1
<1>4. Apart'
  <2>. SUFFICES ASSUME NEW x \in Terms, NEW y \in Terms, x # y, Written(x)', Written(y)'
                PROVE  ~Overlaps(term[x], term[y])'
    BY DEF Apart
  <2>1. CASE x = t
    <3>1. ~Overlaps(a, term[y])
      BY <2>1, <1>3 DEF MayStore, Written
    <3>. QED
      BY <3>1, <2>1, <1>3 DEF Overlaps
  <2>2. CASE y = t
    <3>1. ~Overlaps(a, term[x])
      BY <2>2, <1>3 DEF MayStore, Written
    <3>2. term[x] \in Ranges
      BY <1>1, <1>3, <2>2 DEF Written
    <3>. QED
      BY <3>1, <3>2, <2>2, <1>3 DEF Overlaps
  <2>3. CASE x # t /\ y # t
    BY <2>3, <1>3 DEF TermsInv, Apart, Written, Overlaps
  <2>. QED
    BY <2>1, <2>2, <2>3
<1>5. RangesAreForward'
  BY <1>3 DEF TermsInv, RangesAreForward, Written, MayStore
<1>6. EventsKeepTheirTerm'
  BY <1>2, <1>3 DEF TermsInv, TermsTypeOK, EventsKeepTheirTerm, Written
<1>. QED
  BY <1>1, <1>3, <1>4, <1>5, <1>6

LEMMA TermsInvStep == TermsInv /\ [TermsNext]_termsVars => TermsInv'
<1>. SUFFICES ASSUME TermsInv, [TermsNext]_termsVars PROVE TermsInv'
  OBVIOUS
<1>. USE DEF TermsInv
<1>0. /\ termReq \in [TermRequests ->
           {NoTermReq} \cup [op : {"update"}, on : Terms, new : Patches]
                       \cup [op : {"delete"}, on : Terms, new : {NoTerm}]]
      /\ term \in [Terms -> Ranges \cup {NoTerm}]
      /\ event \in [Changes -> [stage : Stages, term : Terms \cup {NoTerm}]]
      /\ termsLeft \in 0..3 /\ today \in Calendar /\ lost \subseteq Changes
  BY DEF TermsTypeOK, TermRequestsOK
\* The types need the requests only.
<1>1. ASSUME TermRequestsOK', term' \in [Terms -> Ranges \cup {NoTerm}],
             event' \in [Changes -> [stage : Stages, term : Terms \cup {NoTerm}]],
             today' \in Calendar, lost' \subseteq Changes, termsLeft' \in 0..3
      PROVE  TermsTypeOK'
  BY <1>1 DEF TermsTypeOK, TermRequestsOK, NoTermReq
<1>2. ASSUME UNCHANGED <<term, event>>
      PROVE  Apart' /\ RangesAreForward' /\ EventsKeepTheirTerm'
  BY <1>2 DEF Apart, RangesAreForward, EventsKeepTheirTerm, Written, Overlaps
<1>3. ASSUME NEW r \in TermRequests, termReq' = [termReq EXCEPT ![r] = NoTermReq]
      PROVE  TermRequestsOK'
  BY <1>0, <1>3 DEF TermRequestsOK
<1>4. ASSUME UNCHANGED termsVars PROVE TermsInv'
  BY <1>4, <1>0, <1>1, <1>2 DEF termsVars, TermRequestsOK
<1>5. ASSUME DayPasses PROVE TermsInv'
  <2>1. TermRequestsOK' /\ today' \in Calendar
    BY <1>5, <1>0, TermsAssumption DEF DayPasses, TermRequestsOK, Calendar
  <2>. QED
    BY <2>1, <1>5, <1>0, <1>1, <1>2 DEF DayPasses
<1>6. ASSUME NEW t \in Terms, NEW a \in Ranges, CreateTerm(t, a) PROVE TermsInv'
  <2>1. TermRequestsOK' /\ termsLeft' \in 0..3
    BY <1>6, <1>0 DEF CreateTerm, TermRequestsOK
  <2>2. term' \in [Terms -> Ranges \cup {NoTerm}] /\ Apart' /\ RangesAreForward' /\ EventsKeepTheirTerm'
    BY <1>6, StoringKeepsTerms DEF CreateTerm
  <2>. QED
    BY <2>1, <2>2, <1>6, <1>0, <1>1 DEF CreateTerm
<1>7. ASSUME NEW r \in TermRequests, NEW t \in Terms, NEW p \in Patches, ReadTerm(r, t, p)
      PROVE  TermsInv'
  <2>1. TermRequestsOK' /\ termsLeft' \in 0..3
    BY <1>7, <1>0 DEF ReadTerm, TermRequestsOK
  <2>. QED
    BY <2>1, <1>7, <1>0, <1>1, <1>2 DEF ReadTerm
<1>8. ASSUME NEW r \in TermRequests, NEW t \in Terms, ReadTermEvents(r, t) PROVE TermsInv'
  <2>1. TermRequestsOK' /\ termsLeft' \in 0..3
    BY <1>8, <1>0 DEF ReadTermEvents, TermRequestsOK
  <2>. QED
    BY <2>1, <1>8, <1>0, <1>1, <1>2 DEF ReadTermEvents
<1>9. ASSUME NEW r \in TermRequests, WriteTerm(r) PROVE TermsInv'
  <2>. DEFINE t == termReq[r].on
              new == Patched(term[t], termReq[r].new)
  <2>1. t \in Terms /\ termReq[r].new \in Patches
    BY <1>9, <1>0 DEF WriteTerm, NoTermReq
  <2>2. TermRequestsOK'
    BY <1>9, <1>3 DEF WriteTerm
  <2>3. CASE Written(t) /\ MayStore(t, new)
    <3>1. new \in Ranges
      BY <2>1, <2>3, <1>0, PatchedIs DEF Written
    <3>2. term' = [term EXCEPT ![t] = new]
      BY <1>9, <2>3 DEF WriteTerm, Patched
    <3>3. term' \in [Terms -> Ranges \cup {NoTerm}] /\ Apart' /\ RangesAreForward' /\ EventsKeepTheirTerm'
      <4>. HIDE DEF t, new
      <4>. QED
        BY <3>1, <3>2, <2>1, <2>3, <1>9, StoringKeepsTerms DEF WriteTerm
    <3>. QED
      BY <3>3, <2>2, <1>9, <1>0, <1>1 DEF WriteTerm
  <2>4. CASE ~(Written(t) /\ MayStore(t, new))
    <3>1. term' = term
      BY <1>9, <2>4 DEF WriteTerm, Patched
    <3>. QED
      BY <3>1, <2>2, <1>9, <1>0, <1>1, <1>2 DEF WriteTerm
  <2>. QED
    BY <2>3, <2>4
<1>10. ASSUME NEW r \in TermRequests, DeleteTerm(r) PROVE TermsInv'
  <2>1. PICK t : t = termReq[r].on /\ t \in Terms
    BY <1>10, <1>0 DEF DeleteTerm, NoTermReq
  <2>2. TermRequestsOK'
    BY <1>10, <1>3 DEF DeleteTerm
  <2>3. CASE Referred(t)
    BY <2>1, <2>2, <2>3, <1>10, <1>0, <1>1, <1>2 DEF DeleteTerm
  <2>4. CASE ~Referred(t)
    <3>1. term' = [term EXCEPT ![t] = NoTerm] /\ event' = event
      BY <2>1, <2>4, <1>10 DEF DeleteTerm
    <3>2. Apart' /\ RangesAreForward'
      BY <3>1, <2>1, <1>0 DEF Apart, RangesAreForward, Written, Overlaps
    <3>3. EventsKeepTheirTerm'
      BY <3>1, <2>1, <2>4, <1>0 DEF EventsKeepTheirTerm, Written, Referred
    <3>4. term' \in [Terms -> Ranges \cup {NoTerm}]
      BY <3>1, <1>0
    <3>. QED
      BY <3>2, <3>3, <3>4, <2>2, <1>10, <1>0, <1>1 DEF DeleteTerm
  <2>. QED
    BY <2>3, <2>4
\* The membership events.
<1>11. ASSUME NEW c \in Changes, MemberChanges(c) \/ ResolveTerm(c) PROVE TermsInv'
  <2>1. PICK t \in Terms \cup {NoTerm}, s \in {"changed", "resolved"} :
          event' = [event EXCEPT ![c] = [stage |-> s, term |-> t]]
    <3>1. CASE MemberChanges(c)
      <4>1. event' = [event EXCEPT ![c] = [stage |-> "changed", term |-> event[c].term]]
        <5>1. [event[c] EXCEPT !.stage = "changed"] = [stage |-> "changed", term |-> event[c].term]
          BY <1>0
        <5>. QED
          BY <5>1, <3>1 DEF MemberChanges
      <4>. QED
        BY <4>1, <1>0
    <3>2. CASE ResolveTerm(c)
      BY <3>2, <1>0 DEF ResolveTerm, ActiveTerms
    <3>. QED
      BY <1>11, <3>1, <3>2
  <2>2. UNCHANGED <<term, today, termReq, lost, termsLeft>>
    BY <1>11 DEF MemberChanges, ResolveTerm
  <2>3. event' \in [Changes -> [stage : Stages, term : Terms \cup {NoTerm}]]
    BY <2>1, <1>0 DEF Stages
  <2>4. TermRequestsOK' /\ Apart' /\ RangesAreForward'
    BY <2>2 DEF TermRequestsOK, Apart, RangesAreForward, Written, Overlaps
  <2>5. EventsKeepTheirTerm'
    BY <2>1, <2>2, <1>0 DEF EventsKeepTheirTerm, Written
  <2>. QED
    BY <2>2, <2>3, <2>4, <2>5, <1>0, <1>1
<1>12. ASSUME NEW c \in Changes, InsertEvent(c) PROVE TermsInv'
  <2>1. /\ UNCHANGED <<term, today, termReq, termsLeft>> /\ lost' \subseteq Changes
        /\ event' = [event EXCEPT ![c].stage =
             IF event[c].term = NoTerm \/ Written(event[c].term) THEN "told" ELSE "refused"]
    <3>1. CASE event[c].term = NoTerm \/ Written(event[c].term)
      BY <3>1, <1>12, <1>0 DEF InsertEvent
    <3>2. CASE ~(event[c].term = NoTerm \/ Written(event[c].term))
      BY <3>2, <1>12, <1>0 DEF InsertEvent
    <3>. QED
      BY <3>1, <3>2
  <2>2. event' \in [Changes -> [stage : Stages, term : Terms \cup {NoTerm}]]
    BY <2>1, <1>0 DEF Stages
  <2>3. TermRequestsOK' /\ Apart' /\ RangesAreForward'
    BY <2>1 DEF TermRequestsOK, Apart, RangesAreForward, Written, Overlaps
  <2>4. EventsKeepTheirTerm'
    BY <2>1, <1>0 DEF EventsKeepTheirTerm, Written
  <2>. QED
    BY <2>1, <2>2, <2>3, <2>4, <1>0, <1>1
<1>13. ASSUME NEW d \in Calendar
       PROVE  [from |-> d] \in Patches /\ [to |-> d] \in Patches
  BY <1>13 DEF Patches
<1>14. ASSUME NEW b \in BOOLEAN PROVE [open |-> b] \in Patches
  BY <1>14 DEF Patches
<1>. QED
  BY <1>4, <1>5, <1>6, <1>7, <1>8, <1>9, <1>10, <1>11, <1>12, <1>13, <1>14 DEF TermsNext

\* Ranges that are apart have no day in common.
LEMMA ApartMeansOneActive == TermsInv => OneActiveTerm
<1>. SUFFICES ASSUME TermsInv PROVE Cardinality(ActiveTerms) <= 1
  BY DEF OneActiveTerm
<1>1. ASSUME NEW s \in ActiveTerms, NEW t \in ActiveTerms PROVE s = t
  <2>1. s \in Terms /\ t \in Terms /\ Written(s) /\ Written(t)
    BY DEF ActiveTerms
  <2>2. term[s] \in Ranges /\ term[t] \in Ranges
    BY <2>1 DEF TermsInv, TermsTypeOK, Written
  <2>3. today \in term[s].from..term[s].to /\ today \in term[t].from..term[t].to
    BY <2>1 DEF ActiveTerms
  <2>4. Overlaps(term[s], term[t])
    BY <2>2, <2>3 DEF Overlaps, Ranges, Calendar
  <2>. QED
    BY <2>1, <2>4 DEF TermsInv, Apart
<1>2. CASE ActiveTerms = {}
  BY <1>2, FS_EmptySet
<1>3. CASE ActiveTerms # {}
  <2>1. PICK t : t \in ActiveTerms
    BY <1>3
  <2>2. ActiveTerms = {t}
    BY <2>1, <1>1
  <2>3. Cardinality({t}) = 1
    BY FS_Singleton
  <2>. QED
    BY <2>2, <2>3
<1>. QED
  BY <1>2, <1>3

(* The calendar of a university is sound, whatever its terms, its days and *)
(* the requests about them: every variable keeps its type, no two terms    *)
(* are ever active, no range is turned around by an update of one end      *)
(* (terms.service.ts), and the term an event names is never deleted.       *)
THEOREM CalendarIsSound == TermsSpec => []TermsSound
<1>1. TermsInv => TermsSound
  BY ApartMeansOneActive DEF TermsInv, TermsSound
<1>. QED
  BY TermsInvInit, TermsInvStep, <1>1, PTL DEF TermsSpec

-----------------------------------------------------------------------------
(***************************************************************************)
(* The parts side by side.                                                 *)
(***************************************************************************)
LEMMA PartsBegin ==
  LifeInit => /\ Init /\ RsvpInit /\ CheckInInit /\ HostsInit /\ FormationInit
              /\ BoardsInit /\ AdvisorsInit /\ TermsInit
BY DEF LifeInit

LEMMA PartsStep ==
  [LifeNext]_lifeVars =>
    /\ [Next]_vars /\ [RsvpNext]_rsvpVars /\ [CheckInNext]_checkInVars /\ [HostsNext]_hostsVars
    /\ [FormationNext]_formationVars /\ [BoardsNext]_boardsVars /\ [AdvisorsNext]_advisorsVars
    /\ [TermsNext]_termsVars
BY DEF LifeNext, lifeVars

(* A behaviour of the whole is a behaviour of each part: the parts share   *)
(* no state, so a step of one leaves the others where they are.            *)
THEOREM LifeIsItsParts ==
  LifeSpec => /\ Spec /\ RsvpSpec /\ CheckInSpec /\ HostsSpec /\ FormationSpec
              /\ BoardsSpec /\ AdvisorsSpec /\ TermsSpec
BY PartsBegin, PartsStep, PTL
   DEF LifeSpec, Spec, RsvpSpec, CheckInSpec, HostsSpec, FormationSpec, BoardsSpec, AdvisorsSpec,
       TermsSpec

(* An application keeps to its chain, in every behaviour of the whole:     *)
(* until two requests overlap, the summary is what the steps derive, a     *)
(* club is there exactly when all of them approved, behind an open step    *)
(* nothing is decided, and a committee that stays as it is never waits     *)
(* with its majority cast.                                                 *)
THEOREM ApplicationHolds == LifeSpec => []ApplicationSound
<1>1. ChainSound => ApplicationSound
  BY DEF ApplicationSound
<1>. QED
  BY <1>1, LifeIsItsParts, ChainIsSound, PTL

(* Answers, updates and cancellations of an activity: nobody is seated     *)
(* beyond the capacity but by the one race the code allows, and a          *)
(* cancellation reaches whoever stays on the list.                         *)
THEOREM AnswersHold == LifeSpec => []AnswersSound
<1>1. RsvpSound => AnswersSound
  BY DEF AnswersSound
<1>. QED
  BY <1>1, LifeIsItsParts, RsvpIsSound, PTL

(* The check-in of an activity: a code works as long as a screen shows it, *)
(* an old one opens nothing, and whom a code let in is present.            *)
THEOREM AttendanceHolds == LifeSpec => []AttendanceSound
<1>1. CheckInSound => AttendanceSound
  BY DEF AttendanceSound
<1>. QED
  BY <1>1, LifeIsItsParts, CheckInIsSound, PTL

(* The hosts of an activity: with no request under way the cached          *)
(* discovery lists follow the hosts, and an invitation shows nothing.      *)
THEOREM CoHostsHold == LifeSpec => []CoHostsSound
<1>1. HostsSound => CoHostsSound
  BY DEF CoHostsSound
<1>. QED
  BY <1>1, LifeIsItsParts, HostsAreSound, PTL

(* The proposal of a club: it is submitted with the support that was asked *)
(* for, in time, and a student has one open request; each as far as        *)
(* FormationSound says of requests that meet.                              *)
THEOREM ProposalHolds == LifeSpec => []ProposalSound
<1>1. FormationSound => ProposalSound
  BY DEF ProposalSound
<1>. QED
  BY <1>1, LifeIsItsParts, FormationIsSound, PTL

(* The government of a club: the board in office is the last elected or    *)
(* handed over to, advisors advise by an acceptance of theirs, and no two  *)
(* academic terms are ever active.                                         *)
THEOREM GovernanceHolds == LifeSpec => []GovernanceSound
<1>1. BoardsSound /\ AdvisorsSound /\ TermsSound => GovernanceSound
  BY DEF GovernanceSound
<1>. QED
  BY <1>1, LifeIsItsParts, BoardsAreSound, AdvisorsAreSound, CalendarIsSound, PTL
=============================================================================
