---------------------------- MODULE ActivityRsvp ----------------------------
(***************************************************************************)
(* Who says they come to one activity: the RSVP with its capacity, and     *)
(* what the host club's staff and the moderators do to the activity        *)
(* meanwhile (publish, update, cancel).                                    *)
(*                                                                         *)
(* An RSVP is decided on the cached detail of the activity, and then runs  *)
(* a READ COMMITTED transaction of three statements: the caller's row, the *)
(* number of seats taken, the upsert.  Others fall between them.  A        *)
(* request of staff reads the activity, writes it by id without looking    *)
(* again and drops the cached detail last.                                 *)
(***************************************************************************)
EXTENDS Integers, FiniteSets

CONSTANTS Goers, ClubMembers,   \* users; the approved members among them
          Capacities,           \* the capacities staff may set
          Stewards,             \* requests of staff that may overlap
          RsvpBudgets,          \* bounds: how often users answer and staff asks
          Absent

ASSUME RsvpAssumption ==
  /\ ClubMembers \subseteq Goers /\ IsFiniteSet(Goers)
  /\ Capacities \subseteq Nat /\ Capacities # {}
  /\ Absent \notin Capacities
  /\ RsvpBudgets \subseteq [answers : Nat, staff : Nat]

VARIABLES activity,  \* the row of activities
          detail,    \* activitiesCache.detail, or Absent
          attendee,  \* activity_attendees: the answer of each user
          rsvp,      \* the RSVP each user has under way
          steward,   \* the requests of staff
          begun,     \* startsAt has passed
          informed,  \* users told of the cancellation
          peak, raced, early, stewardsMet, gone,  \* history, see the properties
          rsvpsLeft                         \* what is left of the budget

userSide == <<attendee, rsvp, raced, early>>
staffSide == <<activity, steward, informed, peak, stewardsMet, gone>>
rsvpVars == <<activity, detail, attendee, rsvp, steward, begun, informed,
              peak, raced, early, stewardsMet, gone, rsvpsLeft>>

Activity == [status : {"draft", "published", "cancelled"},
             visibility : {"university", "members"}, capacity : Capacities]
Answers == {"none", "going", "interested"}
NoRsvp == [pc |-> "idle", want |-> "none", cap |-> 0, seat |-> "kept", early |-> FALSE]
NoSteward == [op |-> "none", pc |-> "idle", new |-> Absent]
Going == {u \in Goers : attendee[u] = "going"}

\* createForClub: published at once, or a draft.
RsvpInit ==
  /\ activity \in [status : {"draft", "published"}, visibility : {"university"},
                   capacity : Capacities]
  /\ detail = Absent
  /\ attendee = [u \in Goers |-> "none"]
  /\ rsvp = [u \in Goers |-> NoRsvp]
  /\ steward = [s \in Stewards |-> NoSteward]
  /\ begun = FALSE /\ informed = {}
  /\ peak = activity.capacity /\ raced = {} /\ early = {} /\ stewardsMet = FALSE
  /\ gone = FALSE
  /\ rsvpsLeft \in RsvpBudgets

----------------------------------------------------------------------------
(* Users. *)

\* fetchActivityDetail: the cached detail, or the row, which is then cached.
SeenDetail == IF detail = Absent THEN activity ELSE detail

\* Mutant: a cancelled activity takes RSVPs.
Mutant_TakesAnyStatus(u) == SeenDetail.visibility = "members" => u \in ClubMembers
\* assertCanRsvp: published, and of the club's members where it says so.
CanRsvp(u) == /\ SeenDetail.status = "published"
              /\ SeenDetail.visibility = "members" => u \in ClubMembers

\* A cancellation is over: no request of staff has it in hand any more.
CancelDone == activity.status = "cancelled" /\ \A s \in Stewards : steward[s].op # "cancel"

AskRsvp(u, want) ==
  /\ rsvp[u] = NoRsvp /\ rsvpsLeft.answers > 0
  /\ rsvpsLeft' = [rsvpsLeft EXCEPT !.answers = @ - 1]
  /\ detail' = SeenDetail
  /\ IF CanRsvp(u) /\ ~begun
     THEN rsvp' = [rsvp EXCEPT ![u] = [pc |-> "existing", want |-> want, seat |-> "kept",
                                       cap |-> SeenDetail.capacity, early |-> ~CancelDone]]
     ELSE UNCHANGED rsvp
  /\ UNCHANGED <<attendee, begun, raced, early, staffSide>>

\* The caller's own row: who comes already takes no further seat, and who
\* is merely interested takes none.
FindExisting(u) ==
  /\ rsvp[u].pc = "existing"
  /\ rsvp' = [rsvp EXCEPT ![u].pc =
       IF rsvp[u].want = "going" /\ attendee[u] # "going" THEN "count" ELSE "upsert"]
  /\ UNCHANGED <<detail, attendee, begun, raced, early, rsvpsLeft, staffSide>>

\* Mutant: one seat too many.
Mutant_OneTooMany(going, cap) == going <= cap
HasRoom(going, cap) == going < cap

CountGoing(u) ==
  /\ rsvp[u].pc = "count"
  /\ rsvp' = [rsvp EXCEPT ![u] = IF HasRoom(Cardinality(Going), rsvp[u].cap)
                                 THEN [@ EXCEPT !.pc = "upsert", !.seat = "counted"] ELSE NoRsvp]
  /\ UNCHANGED <<detail, attendee, begun, raced, early, rsvpsLeft, staffSide>>

\* The upsert.  It marks the requests whose count it makes old.
UpsertAttendee(u) ==
  /\ rsvp[u].pc = "upsert"
  /\ attendee' = [attendee EXCEPT ![u] = rsvp[u].want]
  /\ rsvp' = [v \in Goers |->
       IF v = u THEN NoRsvp
       ELSE [rsvp[v] EXCEPT !.seat =
               IF rsvp[v].pc = "upsert" /\ rsvp[u].want = "going" THEN "met" ELSE @]]
  /\ raced' = CASE rsvp[u].want = "going" /\ rsvp[u].seat = "met" -> raced \cup {u}
                [] rsvp[u].seat = "counted" -> raced \ {u}
                [] OTHER -> raced
  /\ early' = IF rsvp[u].early /\ activity.status = "cancelled" THEN early \cup {u} ELSE early \ {u}
  /\ UNCHANGED <<detail, begun, rsvpsLeft, staffSide>>

\* cancelRsvp: a DELETE by key, of whatever activity.
CancelRsvp(u) ==
  /\ attendee[u] # "none"
  /\ attendee' = [attendee EXCEPT ![u] = "none"]
  /\ UNCHANGED <<detail, rsvp, begun, raced, early, rsvpsLeft, staffSide>>

\* getDetail: reads through the cache.
ViewDetail ==
  /\ detail = Absent /\ detail' = activity
  /\ UNCHANGED <<begun, rsvpsLeft, userSide, staffSide>>

ActivityBegins ==
  /\ ~begun /\ begun' = TRUE
  /\ UNCHANGED <<detail, rsvpsLeft, userSide, staffSide>>

----------------------------------------------------------------------------
(* The host club's staff and the university's moderators. *)

\* Mutant: publication forgets to ask for a draft.
Mutant_PublishAny(op) == op = "publish" \/ activity.status # "cancelled"
\* What each request asks of the row it reads.
StewardMay(op) ==
  IF op = "publish" THEN activity.status = "draft" ELSE activity.status # "cancelled"

StewardBegins(s, op, new) ==
  /\ steward[s] = NoSteward /\ StewardMay(op) /\ rsvpsLeft.staff > 0
  /\ rsvpsLeft' = [rsvpsLeft EXCEPT !.staff = @ - 1]
  /\ steward' = [steward EXCEPT ![s] = [op |-> op, pc |-> "write", new |-> new]]
  /\ stewardsMet' = (stewardsMet \/ \E z \in Stewards : steward[z] # NoSteward)
  /\ UNCHANGED <<activity, detail, begun, informed, peak, gone, userSide>>

\* Mutant: the new capacity is added to the old.
Mutant_AddsSeats(s) ==
  IF steward[s].op = "seats" THEN [activity EXCEPT !.capacity = @ + steward[s].new] ELSE activity
\* updateById: the columns given, by id.
WrittenBy(s) ==
  CASE steward[s].op = "publish" -> [activity EXCEPT !.status = "published"]
    [] steward[s].op = "cancel"  -> [activity EXCEPT !.status = "cancelled"]
    [] steward[s].op = "seats"   -> [activity EXCEPT !.capacity = steward[s].new]
    [] OTHER                     -> [activity EXCEPT !.visibility = steward[s].op]

StewardWrites(s) ==
  /\ steward[s].pc = "write"
  /\ activity' = WrittenBy(s)
  /\ gone' = (gone \/ steward[s].op = "cancel")
  /\ peak' = IF activity'.capacity > peak THEN activity'.capacity ELSE peak
  /\ steward' = [steward EXCEPT ![s].pc = IF steward[s].op = "cancel" THEN "notify" ELSE "emit"]
  /\ UNCHANGED <<detail, begun, informed, stewardsMet, rsvpsLeft, userSide>>

\* Mutant: only those who come are told.
Mutant_TellsComing == Going
\* notifyAttendeesCancelled: everybody who has answered.
ToldOfCancel == {u \in Goers : attendee[u] # "none"}

NotifyCancelled(s) ==
  /\ steward[s].pc = "notify"
  /\ informed' = informed \cup ToldOfCancel
  /\ steward' = [steward EXCEPT ![s].pc = "emit"]
  /\ UNCHANGED <<activity, detail, begun, peak, stewardsMet, gone, rsvpsLeft, userSide>>

\* Mutant: the detail stays cached.
Mutant_KeepsDetail == detail
\* invalidateCache: activityChanged drops the detail.
DroppedDetail == Absent

EmitChanged(s) ==
  /\ steward[s].pc = "emit"
  /\ detail' = DroppedDetail
  /\ steward' = [steward EXCEPT ![s] = NoSteward]
  /\ UNCHANGED <<activity, begun, informed, peak, stewardsMet, gone, rsvpsLeft, userSide>>

RsvpNext ==
  \/ \E u \in Goers :
       \/ \E want \in {"going", "interested"} : AskRsvp(u, want)
       \/ FindExisting(u) \/ CountGoing(u) \/ UpsertAttendee(u) \/ CancelRsvp(u)
  \/ ViewDetail \/ ActivityBegins
  \/ \E s \in Stewards :
       \/ \E op \in {"publish", "cancel", "university", "members"} : StewardBegins(s, op, Absent)
       \/ \E c \in Capacities : StewardBegins(s, "seats", c)
       \/ StewardWrites(s) \/ NotifyCancelled(s) \/ EmitChanged(s)

RsvpSpec == RsvpInit /\ [][RsvpNext]_rsvpVars

----------------------------------------------------------------------------
RsvpTypeOK ==
  /\ activity \in Activity /\ detail \in Activity \cup {Absent}
  /\ attendee \in [Goers -> Answers]
  /\ rsvp \in [Goers -> [pc : {"idle", "existing", "count", "upsert"}, want : Answers,
                         cap : Capacities \cup {0}, seat : {"kept", "counted", "met"},
                         early : BOOLEAN]]
  /\ steward \in [Stewards -> [op : {"none", "publish", "cancel", "seats", "university", "members"},
                               pc : {"idle", "write", "notify", "emit"},
                               new : Capacities \cup {Absent}]]
  /\ begun \in BOOLEAN /\ informed \subseteq Goers /\ early \subseteq Goers
  /\ peak \in Capacities /\ raced \subseteq Goers /\ {stewardsMet, gone} \subseteq BOOLEAN
  /\ rsvpsLeft \in [answers : Nat, staff : Nat]

(* Nobody has a seat beyond the capacity but those whose answer was       *)
(* written after another's had made their count old, the one race that     *)
(* activities.repository.ts:320-322 allows.  peak is the largest capacity  *)
(* ever set: lowering it takes nobody's seat.                              *)
SeatsKept == Cardinality(Going \ raced) <= peak

(* Once a cancellation is through, whoever still is on the list was told   *)
(* of it, or answered the cancelled activity through a gate they had       *)
(* passed before (notifyAttendeesCancelled, invalidateCache).              *)
AttendeesHear ==
  CancelDone /\ ~stewardsMet =>
    \A u \in Goers : attendee[u] # "none" => u \in informed \cup early

(* When no request of staff is under way, the cached detail is the row's.  *)
DetailFollows == (\A s \in Stewards : steward[s] = NoSteward) => detail \in {Absent, activity}

(* A cancelled activity stays cancelled, unless two requests of staff met: *)
(* publishActivity writes by id what it decided on an earlier read.        *)
CancelledForGood == gone /\ ~stewardsMet => activity.status = "cancelled"

(* What holds of an activity and its attendees: every variable keeps its   *)
(* type; nobody is seated beyond the capacity but by the one race the code *)
(* allows; whoever stays on the list of a cancelled activity was told; the *)
(* cached detail is the row's; and a cancellation is for good.             *)
RsvpSound == RsvpTypeOK /\ SeatsKept /\ AttendeesHear /\ DetailFollows /\ CancelledForGood
=============================================================================
