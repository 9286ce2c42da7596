------------------------- MODULE NotificationFanout -------------------------
(***************************************************************************)
(* One notification to many users.  Whoever muted its type or its club is  *)
(* left out, the rows are inserted a chunk at a time, and only then is     *)
(* each row published to the sockets and sent to the push service.  A      *)
(* small fan-out runs in the request that causes it, a large one is a job  *)
(* of a queue that starts a job again when its worker died.                *)
(*                                                                         *)
(* Any error is swallowed: what caused the notification stands.            *)
(***************************************************************************)
EXTENDS Naturals, FiniteSets

CONSTANTS Fanouts,            \* notifications that are sent to the recipients
          Mandatory, Large,   \* of a type nobody may mute; beyond the threshold
          ClubOf,             \* the club in a notification's data, or Every
          TypeNames, TypeOf, ClubNames,
          Recipients,
          InsertChunk,        \* rows of one INSERT
          MaxStalls,          \* times the queue starts a job again
          MaxMuteChanges,     \* bound: preferences ever changed
          Every               \* a mute of every type or of every club

ASSUME FanoutAssumption ==
  /\ Mandatory \subseteq Fanouts /\ Large \subseteq Fanouts /\ InsertChunk \in Nat \ {0}
  /\ {MaxStalls, MaxMuteChanges} \subseteq Nat

VARIABLES mutes,       \* notification_mutes: [user, type, club]
          job,         \* [pc, todo, rows, stalls] of each fan-out
          inserted,      \* notifications: how many rows of a fan-out a user has
          published,   \* how many of them were given to Redis
          muteChanges,
          mutedAlways, \* history: users who muted a fan-out from before it was sent,
          mutedOnce,   \* and users who muted it at some time since
          failed       \* history: fan-outs an error or a crash cut short

fanoutVars == <<mutes, job, inserted, published, muteChanges, mutedAlways, mutedOnce, failed>>

MuteKeys == [user : Recipients, type : TypeNames \cup {Every}, club : ClubNames \cup {Every}]
Started == {"filter", "insert", "deliver"}
NoRows == [e \in Fanouts |-> [u \in Recipients |-> 0]]

FanoutInit ==
  /\ mutes = {}
  /\ job = [e \in Fanouts |-> [pc |-> "none", todo |-> {}, rows |-> {}, stalls |-> 0]]
  /\ inserted = NoRows /\ published = NoRows
  /\ muteChanges = 0 /\ failed = {}
  /\ mutedAlways = [e \in Fanouts |-> {}] /\ mutedOnce = [e \in Fanouts |-> {}]

\* Mutant: a mute of one type holds for that type in every club only.
Mutant_ExactType(rows, type, club) ==
  {m.user : m \in {k \in rows : k.type = type /\ k.club \in {Every, club}}}
\* findMutedUserIds
Muted(rows, type, club) ==
  {m.user : m \in {k \in rows : k.type \in {Every, type} /\ k.club \in {Every, club}}}

\* What a user's mutes mean: they name the type or every type, and the club
\* or every club.
Muters(rows, e) ==
  {u \in Recipients : \E t \in {TypeOf[e], Every}, c \in {ClubOf[e], Every} :
                        [user |-> u, type |-> t, club |-> c] \in rows}

----------------------------------------------------------------------------
(* updatePreference: a type, a club or both; a type that may be muted.     *)
SetMute(key, on) ==
  /\ muteChanges < MaxMuteChanges
  /\ ~(key.type = Every /\ key.club = Every)
  /\ key.type # Every => \E e \in Fanouts \ Mandatory : TypeOf[e] = key.type
  /\ mutes' = IF on THEN mutes \cup {key} ELSE mutes \ {key}
  /\ mutes' # mutes
  /\ muteChanges' = muteChanges + 1
  /\ mutedAlways' = [e \in Fanouts |-> mutedAlways[e] \cap Muters(mutes', e)]
  /\ mutedOnce' = [e \in Fanouts |->
                     IF job[e].pc = "none" THEN {} ELSE mutedOnce[e] \cup Muters(mutes', e)]
  /\ UNCHANGED <<job, inserted, published, failed>>

\* dispatchNotificationFanout
Dispatch(e) ==
  /\ job[e].pc = "none"
  /\ job' = [job EXCEPT ![e].pc = IF e \in Large THEN "queued" ELSE "filter"]
  /\ mutedAlways' = [mutedAlways EXCEPT ![e] = Muters(mutes, e)]
  /\ mutedOnce' = [mutedOnce EXCEPT ![e] = Muters(mutes, e)]
  /\ UNCHANGED <<mutes, inserted, published, muteChanges, failed>>
\* The worker takes the job.
TakeJob(e) ==
  /\ job[e].pc = "queued"
  /\ job' = [job EXCEPT ![e].pc = "filter"]
  /\ UNCHANGED <<mutes, inserted, published, muteChanges, mutedAlways, mutedOnce, failed>>

----------------------------------------------------------------------------
(* notifyManySafe.                                                         *)

\* Mutant: a muted club silences what nobody may mute.
Mutant_MutesAll(e) == TRUE
\* isOptOutableNotificationType
OptOutable(e) == e \notin Mandatory

FilterMuted(e) ==
  /\ job[e].pc = "filter"
  /\ job' = [job EXCEPT ![e].pc = "insert", ![e].rows = {},
       ![e].todo = IF OptOutable(e) THEN Recipients \ Muted(mutes, TypeOf[e], ClubOf[e])
                   ELSE Recipients]
  /\ UNCHANGED <<mutes, inserted, published, muteChanges, mutedAlways, mutedOnce, failed>>

\* addMany: a chunk commits by itself.
AddChunk(e, chunk) ==
  /\ job[e].pc = "insert" /\ job[e].todo # {}
  /\ chunk # {} /\ Cardinality(chunk) <= InsertChunk
  /\ inserted' = [inserted EXCEPT ![e] = [u \in Recipients |-> IF u \in chunk THEN @[u] + 1 ELSE @[u]]]
  /\ job' = [job EXCEPT ![e].todo = @ \ chunk, ![e].rows = @ \cup chunk]
  /\ UNCHANGED <<mutes, published, muteChanges, mutedAlways, mutedOnce, failed>>
Added(e) ==
  /\ job[e].pc = "insert" /\ job[e].todo = {}
  /\ job' = [job EXCEPT ![e].pc = "deliver"]
  /\ UNCHANGED <<mutes, inserted, published, muteChanges, mutedAlways, mutedOnce, failed>>

\* Mutant: a row that cannot be published ends the fan-out.
Mutant_StopsThere(e, u, fails) == IF fails THEN {} ELSE job[e].rows \ {u}
\* deliverNotificationSafe: the other rows are delivered whatever becomes of this.
RowsAfter(e, u, fails) == job[e].rows \ {u}
Deliver(e, u, fails) ==
  /\ job[e].pc = "deliver" /\ u \in job[e].rows
  /\ published' = IF fails THEN published ELSE [published EXCEPT ![e][u] = @ + 1]
  /\ job' = [job EXCEPT ![e].rows = RowsAfter(e, u, fails)]
  /\ failed' = IF fails THEN failed \cup {<<e, u>>} ELSE failed
  /\ UNCHANGED <<mutes, inserted, muteChanges, mutedAlways, mutedOnce>>
FinishFanout(e) ==
  /\ job[e].pc = "deliver" /\ job[e].rows = {}
  /\ job' = [job EXCEPT ![e].pc = "over"]
  /\ UNCHANGED <<mutes, inserted, published, muteChanges, mutedAlways, mutedOnce, failed>>

\* A statement fails: the rest is given up and the error logged, so the
\* queue takes the job for done.
GiveUp(e) ==
  /\ job[e].pc \in {"filter", "insert"}
  /\ job' = [job EXCEPT ![e].pc = "over", ![e].todo = {}, ![e].rows = {}]
  /\ failed' = failed \cup {<<e, u>> : u \in Recipients}
  /\ UNCHANGED <<mutes, inserted, published, muteChanges, mutedAlways, mutedOnce>>

\* The process dies; a job that nobody renews is queued again.
StallJob(e) ==
  LET again == e \in Large /\ job[e].stalls < MaxStalls IN
  /\ job[e].pc \in Started
  /\ job' = [job EXCEPT ![e] = [pc |-> IF again THEN "queued" ELSE "over", todo |-> {}, rows |-> {},
                               stalls |-> IF again THEN @.stalls + 1 ELSE @.stalls]]
  /\ failed' = failed \cup {<<e, u>> : u \in Recipients}
  /\ UNCHANGED <<mutes, inserted, published, muteChanges, mutedAlways, mutedOnce>>

FanoutNext ==
  \/ \E key \in MuteKeys, on \in BOOLEAN : SetMute(key, on)
  \/ \E e \in Fanouts :
       \/ Dispatch(e) \/ TakeJob(e) \/ FilterMuted(e) \/ Added(e) \/ FinishFanout(e)
       \/ GiveUp(e) \/ StallJob(e)
       \/ \E chunk \in SUBSET job[e].todo : AddChunk(e, chunk)
       \/ \E u \in Recipients, fails \in BOOLEAN : Deliver(e, u, fails)

FanoutSpec == FanoutInit /\ [][FanoutNext]_fanoutVars

----------------------------------------------------------------------------
FanoutTypeOK ==
  /\ mutes \subseteq MuteKeys
  /\ job \in [Fanouts -> [pc : Started \cup {"none", "queued", "over"}, todo : SUBSET Recipients,
                          rows : SUBSET Recipients, stalls : 0..MaxStalls]]
  /\ {inserted, published} \subseteq [Fanouts -> [Recipients -> Nat]]
  /\ muteChanges \in 0..MaxMuteChanges /\ failed \subseteq Fanouts \X Recipients
  /\ {mutedAlways, mutedOnce} \subseteq [Fanouts -> SUBSET Recipients]
\* One row a run, and a run more for each time the job was started again.
NoRowTwice == \A e \in Fanouts, u \in Recipients : inserted[e][u] <= 1 + job[e].stalls
KeptFirst == \A e \in Fanouts, u \in Recipients : published[e][u] <= inserted[e][u]
MutesKept == \A e \in Fanouts \ Mandatory : \A u \in mutedAlways[e] : inserted[e][u] = 0
ReachesAll ==
  \A e \in Fanouts, u \in Recipients :
    job[e].pc = "over" /\ <<e, u>> \notin failed =>
      published[e][u] = 1 \/ (e \notin Mandatory /\ u \in mutedOnce[e] /\ inserted[e][u] = 0)

(* Every variable keeps its type.  A user has one row of a notification,   *)
(* and one more only when the queue started the job again after a crash    *)
(* (notifications.fanout.ts:36); what is published is in the table first;  *)
(* whoever muted it all along has no row, which a mandatory notification   *)
(* ignores; and everybody else is reached, unless an error or a crash cut  *)
(* the fan-out short: rows inserted by then are never published and the    *)
(* queue tries nothing again (notifications.service.ts:142).               *)
FanoutSound == FanoutTypeOK /\ NoRowTwice /\ KeptFirst /\ MutesKept /\ ReachesAll
=============================================================================
