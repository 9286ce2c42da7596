-------------------------- MODULE ScheduledPublish --------------------------
(***************************************************************************)
(* The publishing pipeline of announcements and activities: drafts with a  *)
(* scheduled time (Postgres), the delayed BullMQ jobs that publish them    *)
(* (Redis), the reconciliation sweep, and staff who create, reschedule,    *)
(* publish, cancel and delete while all that runs.                         *)
(*                                                                         *)
(* Whoever executes a handler is an actor; a step is one database or queue *)
(* operation, because no lock is held between two of them.                 *)
(***************************************************************************)
EXTENDS Integers, FiniteSets

CONSTANTS Posts,
          Kind,        \* Posts -> {"announcement", "activity"}
          Workers,     \* job slots of the BullMQ worker
          Staff,       \* requests of club or university staff
          Sweepers,    \* reconciliation timers, one per process
          NoPost,
          MaxAttempts, \* attempts of a job (5 in the code)
          Budgets      \* bounds, one of which a behaviour keeps: posts created, the
                       \* clock, failed operations with crashes and lost jobs

ASSUME KindType == Kind \in [Posts -> {"announcement", "activity"}]
ASSUME BoundsType == /\ MaxAttempts \in Nat \ {0}
                     /\ Budgets \subseteq [created : Nat, time : Nat \ {0}, faults : Nat]
ASSUME ActorsDisjoint ==
  Workers \cap Staff = {} /\ Workers \cap Sweepers = {} /\ Staff \cap Sweepers = {}
ASSUME NoPostIsNone == NoPost \notin Posts

VARIABLES now,
          status,     \* of the row: "none" before it is inserted
          sched,      \* scheduledPublishAt; 0 is null
          pubAt,      \* publishedAt is set
          job,        \* "none", "waiting", "active" or "kept" (finished, not yet trimmed)
          jobAt,      \* when a waiting job may run
          attempts,   \* failed attempts of the job
          notified,   \* how many times the fan-out of the post was dispatched
          stale,      \* cached lists or details may predate the row
          act,        \* what each actor is doing
          sweep,      \* the rows a running sweep has not looked at yet, the kind it is at
                      \* and the clock it read when it began that kind
          faults,
          budget      \* the bounds of this behaviour

vars == <<now, status, sched, pubAt, job, jobAt, attempts, notified, stale, act, sweep, faults,
          budget>>
rows == <<status, sched, pubAt>>
queue == <<job, jobAt, attempts>>

Actors == Workers \cup Staff \cup Sweepers
Times == 0..budget.time
Keep == -1     \* an update that does not mention the schedule
Announcements == {p \in Posts : Kind[p] = "announcement"}
Activities == Posts \ Announcements

PCs == {"idle", "read", "pub", "note", "emit", "getJob", "remove", "add", "save", "cancel", "scan"}
Ops == {"create", "update", "publish", "cancel", "delete", "scheduled"}
Idle == [pc |-> "idle", op |-> "create", post |-> NoPost, at |-> 0, first |-> FALSE]
NoSweep == [rows |-> {}, kind |-> "announcement", clock |-> 0]

TypeOK ==
  /\ now \in 1..budget.time
  /\ status \in [Posts -> {"none", "draft", "published", "cancelled", "deleted"}]
  /\ sched \in [Posts -> Times]
  /\ pubAt \in [Posts -> BOOLEAN]
  /\ job \in [Posts -> {"none", "waiting", "active", "kept"}]
  /\ jobAt \in [Posts -> Times]
  /\ attempts \in [Posts -> 0..MaxAttempts]
  /\ notified \in [Posts -> Nat]
  /\ stale \in [Posts -> BOOLEAN]
  /\ act \in [Actors -> [pc : PCs, op : Ops, post : Posts \cup {NoPost},
                         at : Times \cup {Keep}, first : BOOLEAN]]
  /\ \A a \in Actors : act[a].pc \notin {"idle", "scan"} => act[a].post \in Posts
  /\ sweep \in [Sweepers -> [rows : SUBSET [post : Posts, at : 1..budget.time],
                             kind : {"announcement", "activity"}, clock : Times]]
  /\ faults \in 0..budget.faults /\ budget \in Budgets

Init ==
  /\ now = 1
  /\ status = [p \in Posts |-> "none"]
  /\ sched = [p \in Posts |-> 0]
  /\ pubAt = [p \in Posts |-> FALSE]
  /\ job = [p \in Posts |-> "none"]
  /\ jobAt = [p \in Posts |-> 0]
  /\ attempts = [p \in Posts |-> 0]
  /\ notified = [p \in Posts |-> 0]
  /\ stale = [p \in Posts |-> FALSE]
  /\ act = [a \in Actors |-> Idle]
  /\ sweep = [s \in Sweepers |-> NoSweep]
  /\ faults = 0 /\ budget \in Budgets

-----------------------------------------------------------------------------
Goto(a, pc) == act' = [act EXCEPT ![a].pc = pc]
Begin(a, pc, op, p, at, first) ==
  act' = [act EXCEPT ![a] = [pc |-> pc, op |-> op, post |-> p, at |-> at, first |-> first]]

\* A handler returns: the worker's job is complete, the sweep looks at its next
\* row, the request is answered.
Return(a) ==
  /\ act' = [act EXCEPT ![a] = IF a \in Sweepers THEN [Idle EXCEPT !.pc = "scan"] ELSE Idle]
  /\ job' = IF a \in Workers THEN [job EXCEPT ![act[a].post] = "kept"] ELSE job
  /\ UNCHANGED <<jobAt, attempts, sweep>>

\* A handler throws: BullMQ retries the job until its attempts are used up, the
\* sweep is over as a whole, the request is answered with an error.
Throw(a) ==
  /\ act' = [act EXCEPT ![a] = Idle]
  /\ IF a \in Workers
     THEN LET p == act[a].post IN
          /\ attempts' = [attempts EXCEPT ![p] = @ + 1]
          /\ job' = [job EXCEPT ![p] = IF attempts[p] + 1 < MaxAttempts THEN "waiting" ELSE "kept"]
          /\ jobAt' = jobAt
     ELSE UNCHANGED queue
  /\ sweep' = IF a \in Sweepers THEN [sweep EXCEPT ![a] = NoSweep] ELSE sweep

-----------------------------------------------------------------------------
(***************************************************************************)
(* Requests: the first step of each, which reads and checks the row.       *)
(***************************************************************************)
\* create / createUniversity / createForClub.  With a time the row is a draft
\* whatever `publish` says; a draft activity is in no cached list.
Create(a, p) ==
  /\ a \in Staff /\ act[a] = Idle
  /\ status[p] = "none"
  /\ Cardinality({q \in Posts : status[q] # "none"}) < budget.created
  /\ \E at \in {0} \cup (now + 1)..budget.time, publish \in BOOLEAN :
       LET live == publish /\ at = 0
           seen == live \/ Kind[p] = "announcement"
       IN
       /\ status' = [status EXCEPT ![p] = IF live THEN "published" ELSE "draft"]
       /\ sched' = [sched EXCEPT ![p] = at]
       /\ pubAt' = [pubAt EXCEPT ![p] = live /\ Kind[p] = "announcement"]
       /\ stale' = [stale EXCEPT ![p] = seen]
       /\ CASE at # 0 -> Begin(a, "getJob", "create", p, at, TRUE)
            [] live -> Begin(a, "note", "create", p, at, TRUE)
            [] at = 0 /\ seen /\ ~live -> Begin(a, "emit", "create", p, at, TRUE)
            [] OTHER -> act' = act
  /\ UNCHANGED <<budget, now, queue, notified, sweep, faults>>

Mutant_KeepIsATime(a, p) ==
  /\ a \in Staff /\ act[a] = Idle
  /\ \E at \in {Keep, 0} \cup (now + 1)..budget.time :
       /\ status[p] \in IF at = Keep THEN {"draft", "published"} ELSE {"draft"}
       /\ Begin(a, "getJob", "update", p, at, FALSE)
  /\ UNCHANGED <<budget, now, rows, queue, notified, stale, sweep, faults>>
\* update / updateUniversity / updateForClub up to resolveSchedulePatch.  The
\* schedule of a draft only may be changed, and only to a time still to come.
Update(a, p) ==
  /\ a \in Staff /\ act[a] = Idle
  /\ \E at \in {Keep, 0} \cup (now + 1)..budget.time :
       /\ status[p] \in IF at = Keep THEN {"draft", "published"} ELSE {"draft"}
       /\ Begin(a, IF at = Keep THEN "save" ELSE "getJob", "update", p, at, FALSE)
  /\ UNCHANGED <<budget, now, rows, queue, notified, stale, sweep, faults>>

\* publish / publishUniversity / publishForClub: the row must be a draft.
Publish(a, p) ==
  /\ a \in Staff /\ act[a] = Idle
  /\ status[p] = "draft"
  /\ Begin(a, "pub", "publish", p, 0, ~pubAt[p])
  /\ UNCHANGED <<budget, now, rows, queue, notified, stale, sweep, faults>>

\* cancelForClub / moderateCancel, of an activity that is not cancelled yet.
Cancel(a, p) ==
  /\ a \in Staff /\ act[a] = Idle
  /\ p \in Activities /\ status[p] \in {"draft", "published"}
  /\ Begin(a, "cancel", "cancel", p, 0, FALSE)
  /\ UNCHANGED <<budget, now, rows, queue, notified, stale, sweep, faults>>

\* remove / removeUniversity: the row is deleted, its job is left to find nothing.
Remove(a, p) ==
  /\ a \in Staff /\ act[a] = Idle
  /\ p \in Announcements /\ status[p] \in {"draft", "published"}
  /\ status' = [status EXCEPT ![p] = "deleted"]
  /\ sched' = [sched EXCEPT ![p] = 0]
  /\ stale' = [stale EXCEPT ![p] = TRUE]
  /\ Begin(a, "emit", "delete", p, 0, FALSE)
  /\ UNCHANGED <<budget, now, pubAt, queue, notified, sweep, faults>>

-----------------------------------------------------------------------------
(***************************************************************************)
(* Steps shared by the handlers.                                           *)
(***************************************************************************)
\* enqueueScheduledPublish, and cancelScheduledPublish when the time is null:
\* getJob, then remove what was found, then add.
GetJob(a) ==
  /\ act[a].pc = "getJob"
  /\ Goto(a, IF job[act[a].post] # "none" THEN "remove"
             ELSE IF act[a].at = 0 THEN "save" ELSE "add")
  /\ UNCHANGED <<budget, now, rows, queue, notified, stale, sweep, faults>>

\* job.remove() throws while a worker holds the job's lock.
RemoveJob(a) ==
  LET p == act[a].post IN
  /\ act[a].pc = "remove"
  /\ IF job[p] = "active" THEN Throw(a)
     ELSE /\ job' = [job EXCEPT ![p] = "none"]
          /\ Goto(a, IF act[a].at = 0 THEN "save" ELSE "add")
          /\ UNCHANGED <<jobAt, attempts, sweep>>
  /\ UNCHANGED <<budget, now, rows, notified, stale, faults>>

\* queue.add is ignored when a job with this id exists.
AddJob(a) ==
  LET p == act[a].post IN
  /\ act[a].pc = "add"
  /\ job' = [job EXCEPT ![p] = IF @ = "none" THEN "waiting" ELSE @]
  /\ jobAt' = [jobAt EXCEPT ![p] = IF job[p] = "none" THEN act[a].at ELSE @]
  /\ attempts' = [attempts EXCEPT ![p] = IF job[p] = "none" THEN 0 ELSE @]
  /\ act' = [act EXCEPT ![a] =
       CASE act[a].op = "update" -> [@ EXCEPT !.pc = "save"]
         [] act[a].op = "create" /\ p \in Announcements -> [@ EXCEPT !.pc = "emit"]
         [] act[a].op = "create" /\ p \in Activities -> Idle
         [] OTHER -> [Idle EXCEPT !.pc = "scan"]]
  /\ UNCHANGED <<budget, now, rows, notified, stale, sweep, faults>>

\* updateInClub / updateInUniversity / updateActivity: by id, whatever the
\* status has become; a deleted row answers 404.
Save(a) ==
  LET p == act[a].post IN
  /\ act[a].pc = "save"
  /\ IF status[p] = "deleted" THEN Throw(a) /\ UNCHANGED <<sched, stale>>
     ELSE /\ sched' = IF act[a].at = Keep THEN sched ELSE [sched EXCEPT ![p] = act[a].at]
          /\ stale' = [stale EXCEPT ![p] = TRUE]
          /\ Goto(a, "emit")
          /\ UNCHANGED <<queue, sweep>>
  /\ UNCHANGED <<budget, now, status, pubAt, notified, faults>>

\* cancelActivity.
CancelRow(a) ==
  LET p == act[a].post IN
  /\ act[a].pc = "cancel"
  /\ status' = [status EXCEPT ![p] = "cancelled"]
  /\ stale' = [stale EXCEPT ![p] = TRUE]
  /\ Goto(a, "emit")
  /\ UNCHANGED <<budget, now, sched, pubAt, queue, notified, sweep, faults>>

\* publishScheduled, its read and its checks.
ReadScheduled(a) ==
  LET p == act[a].post IN
  /\ act[a].pc = "read"
  /\ IF status[p] = "draft" /\ sched[p] # 0 /\ sched[p] <= now
     THEN act' = [act EXCEPT ![a].pc = "pub", ![a].first = ~pubAt[p]] /\ UNCHANGED <<queue, sweep>>
     ELSE Return(a)
  /\ UNCHANGED <<budget, now, rows, notified, stale, faults>>

Mutant_AnyStatus(p) == status[p] # "deleted"
\* The WHERE clause of the update that publishes: publishAnnouncement has
\* status = 'draft' in it, publishActivity the id only.
Publishes(p) == IF Kind[p] = "announcement" THEN status[p] = "draft" ELSE TRUE

\* publishAnnouncement / publishActivity.  No row updated: the scheduled call
\* returns, the request fails.
PublishRow(a) ==
  LET p == act[a].post IN
  /\ act[a].pc = "pub"
  /\ IF Publishes(p)
     THEN /\ status' = [status EXCEPT ![p] = "published"]
          /\ sched' = [sched EXCEPT ![p] = 0]
          /\ pubAt' = [pubAt EXCEPT ![p] = Kind[p] = "announcement"]
          /\ stale' = [stale EXCEPT ![p] = TRUE]
          /\ Goto(a, IF act[a].first \/ p \in Activities THEN "note" ELSE "emit")
          /\ UNCHANGED <<queue, sweep>>
     ELSE Return(a) /\ UNCHANGED <<rows, stale>>
  /\ UNCHANGED <<budget, now, notified, faults>>

\* notifyClubMembersPublished / notifyTenantPublished / notifyMembersPublished.
Notify(a) ==
  /\ act[a].pc = "note"
  /\ notified' = [notified EXCEPT ![act[a].post] = @ + 1]
  /\ Goto(a, "emit")
  /\ UNCHANGED <<budget, now, rows, queue, stale, sweep, faults>>

\* The sweep was handed activitiesService.publishScheduled as a bare function,
\* so its last line, this.invalidateCache(...), throws.
Unbound(a) == a \in Sweepers /\ act[a].post \in Activities

Mutant_EmitNothing(a) ==
  /\ act[a].pc = "emit"
  /\ Return(a)
  /\ UNCHANGED <<budget, now, rows, notified, stale, faults>>
\* announcementEffects.*.emit / invalidateCache, the last step of every handler.
Emit(a) ==
  /\ act[a].pc = "emit"
  /\ IF Unbound(a) THEN Throw(a) /\ stale' = stale
     ELSE Return(a) /\ stale' = [stale EXCEPT ![act[a].post] = FALSE]
  /\ UNCHANGED <<budget, now, rows, notified, faults>>

-----------------------------------------------------------------------------
(***************************************************************************)
(* The worker and the sweep.                                               *)
(***************************************************************************)
TakeJob(a, p) ==
  /\ a \in Workers /\ act[a] = Idle
  /\ job[p] = "waiting" /\ jobAt[p] <= now
  /\ job' = [job EXCEPT ![p] = "active"]
  /\ Begin(a, "read", "scheduled", p, 0, FALSE)
  /\ UNCHANGED <<budget, now, rows, jobAt, attempts, notified, stale, sweep, faults>>

\* findScheduledDrafts of both tables; the clock is read when a kind begins.
SweepReads(a) ==
  /\ a \in Sweepers /\ act[a] = Idle
  /\ sweep' = [sweep EXCEPT ![a] =
       [rows |-> {[post |-> p, at |-> sched[p]] :
                     p \in {q \in Posts : status[q] = "draft" /\ sched[q] # 0}},
        kind |-> "announcement", clock |-> now]]
  /\ Goto(a, "scan")
  /\ UNCHANGED <<budget, now, rows, queue, notified, stale, faults>>

OfKind(s) == {r \in sweep[s].rows : Kind[r.post] = sweep[s].kind}

Mutant_SweepOnlyQueues(a) ==
  /\ a \in Sweepers /\ act[a].pc = "scan"
  /\ \E r \in OfKind(a) :
       /\ sweep' = [sweep EXCEPT ![a].rows = @ \ {r}]
       /\ IF r.at > sweep[a].clock /\ job[r.post] = "none"
          THEN Begin(a, "getJob", "scheduled", r.post, r.at, FALSE)
          ELSE act' = act
  /\ UNCHANGED <<budget, now, rows, queue, notified, stale, faults>>
\* The loop of reconcileKind: a due row is published, a later one that has no
\* job is queued again.  Rows come in no particular order.
SweepRow(a) ==
  /\ a \in Sweepers /\ act[a].pc = "scan"
  /\ \E r \in OfKind(a) :
       /\ sweep' = [sweep EXCEPT ![a].rows = @ \ {r}]
       /\ IF r.at <= sweep[a].clock THEN Begin(a, "read", "scheduled", r.post, 0, FALSE)
          ELSE IF job[r.post] = "none" THEN Begin(a, "getJob", "scheduled", r.post, r.at, FALSE)
          ELSE act' = act
  /\ UNCHANGED <<budget, now, rows, queue, notified, stale, faults>>

\* reconcileKind is done: activities follow announcements, then it is over.
SweepNext(a) ==
  /\ a \in Sweepers /\ act[a].pc = "scan" /\ OfKind(a) = {}
  /\ IF sweep[a].kind = "announcement"
     THEN sweep' = [sweep EXCEPT ![a].kind = "activity", ![a].clock = now] /\ act' = act
     ELSE sweep' = [sweep EXCEPT ![a] = NoSweep] /\ act' = [act EXCEPT ![a] = Idle]
  /\ UNCHANGED <<budget, now, rows, queue, notified, stale, faults>>

-----------------------------------------------------------------------------
Tick ==
  /\ now < budget.time
  /\ now' = now + 1
  /\ UNCHANGED <<budget, rows, queue, notified, stale, act, sweep, faults>>

\* The next database or queue operation of an actor fails.
Fail(a) ==
  /\ act[a] # Idle /\ faults < budget.faults
  /\ faults' = faults + 1
  /\ Throw(a)
  /\ UNCHANGED <<budget, now, rows, notified, stale>>

\* The process dies: its handlers are gone, BullMQ finds the stalled jobs.
Crash ==
  /\ faults < budget.faults
  /\ faults' = faults + 1
  /\ act' = [a \in Actors |-> Idle]
  /\ sweep' = [s \in Sweepers |-> NoSweep]
  /\ job' = [p \in Posts |-> IF job[p] = "active" THEN "waiting" ELSE job[p]]
  /\ UNCHANGED <<budget, now, rows, jobAt, attempts, notified, stale>>

\* Redis loses a delayed job.
LoseJob(p) ==
  /\ job[p] = "waiting" /\ faults < budget.faults
  /\ faults' = faults + 1
  /\ job' = [job EXCEPT ![p] = "none"]
  /\ UNCHANGED <<budget, now, rows, jobAt, attempts, notified, stale, act, sweep>>

\* removeOnComplete / removeOnFail trim finished jobs as later ones finish.
Trim(p) ==
  /\ job[p] = "kept"
  /\ job' = [job EXCEPT ![p] = "none"]
  /\ UNCHANGED <<budget, now, rows, jobAt, attempts, notified, stale, act, sweep, faults>>

\* What an actor does once it has begun.
Step(a) ==
  \/ GetJob(a) \/ RemoveJob(a) \/ AddJob(a) \/ Save(a) \/ CancelRow(a)
  \/ ReadScheduled(a) \/ PublishRow(a) \/ Notify(a) \/ Emit(a)
  \/ SweepRow(a) \/ SweepNext(a)

Next ==
  \/ \E a \in Actors : Step(a) \/ SweepReads(a) \/ Fail(a)
  \/ \E a \in Actors, p \in Posts :
       Create(a, p) \/ Update(a, p) \/ Publish(a, p) \/ Cancel(a, p) \/ Remove(a, p) \/ TakeJob(a, p)
  \/ \E p \in Posts : LoseJob(p) \/ Trim(p)
  \/ Tick
  \/ Crash

Spec == Init /\ [][Next]_vars

\* Time passes, the timer of the sweep keeps firing and a handler that began
\* goes on; staff owe nothing.
FairSpec ==
  /\ Spec
  /\ WF_vars(Tick)
  /\ \A s \in Sweepers : WF_vars(Step(s)) /\ WF_vars(SweepReads(s))

-----------------------------------------------------------------------------
(***************************************************************************)
(* Properties.                                                             *)
(***************************************************************************)
Quiet == \A a \in Actors : act[a] = Idle

\* An announcement reaches its recipients at most once, however worker, sweep
\* and staff race to publish it (publishAnnouncement's WHERE status = 'draft'
\* and firstPublish together decide who notifies).
AnnouncedOnce == \A p \in Announcements : notified[p] <= 1

\* Once every handler has ended and none failed, a published post has been
\* notified, and no cached announcement list is older than its rows.
QuietIsDone ==
  Quiet /\ faults = 0 =>
    /\ \A p \in Posts : status[p] = "published" => notified[p] >= 1
    /\ \A p \in Announcements : ~stale[p]

(* Every variable keeps its type, and what is over is done: no published   *)
(* post went without its notification, no announcement list is behind.     *)
PostsSound == TypeOK /\ QuietIsDone

\* README, "a scheduled post can never silently fail to publish": whatever jobs
\* are lost, attempts fail or processes die, a scheduled draft is published in
\* the end, unless staff take the schedule, the draft or the activity away.
ScheduledLeadsOut ==
  \A p \in Posts :
    (status[p] = "draft" /\ sched[p] # 0) ~> (status[p] # "draft" \/ sched[p] = 0)

\* activities.cache.ts: a published activity drops its detail and the discovery
\* lists, so none of them is stale once every handler has ended and none failed.
ActivityListsFresh == Quiet /\ faults = 0 => \A p \in Activities : ~stale[p]
=============================================================================
