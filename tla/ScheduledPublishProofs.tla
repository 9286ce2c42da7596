----------------------- MODULE ScheduledPublishProofs -----------------------
(***************************************************************************)
(* Proofs about ScheduledPublish, for any posts, workers, staff, sweeps,   *)
(* attempts and bounds: its types; that however a job, the sweep and staff *)
(* race to publish an announcement, while handlers fail, processes crash   *)
(* and jobs are lost and retried, its recipients hear of it at most once;  *)
(* and that, as long as nothing failed, what is over is done.              *)
(***************************************************************************)
EXTENDS ScheduledPublish, TLAPS

Doing == [pc : PCs, op : Ops, post : Posts \cup {NoPost}, at : Times \cup {Keep}, first : BOOLEAN]
Statuses == {"none", "draft", "published", "cancelled", "deleted"}
Jobs == {"none", "waiting", "active", "kept"}
Sweeping == [rows : SUBSET [post : Posts, at : 1..budget.time],
             kind : {"announcement", "activity"}, clock : Times]

\* Whoever is at work is at work on a post.
Placed(x) == x \in Doing /\ (x.pc \notin {"idle", "scan"} => x.post \in Posts)

\* The rows, the queue and the actors have their types after a step.
RowsTyped ==
  status' \in [Posts -> Statuses] /\ sched' \in [Posts -> Times] /\ pubAt' \in [Posts -> BOOLEAN]
QueueTyped ==
  job' \in [Posts -> Jobs] /\ jobAt' \in [Posts -> Times] /\ attempts' \in [Posts -> 0..MaxAttempts]
ActsTyped == act' \in [Actors -> Doing] /\ \A a \in Actors : Placed(act'[a])
SweepsTyped == sweep' \in [Sweepers -> Sweeping]

\* What TypeOK says, by its parts.
LEMMA Parts ==
  ASSUME TypeOK
  PROVE  /\ budget.time \in Nat \ {0} /\ budget.faults \in Nat /\ budget.created \in Nat
         /\ now \in 1..budget.time /\ faults \in 0..budget.faults /\ budget \in Budgets
         /\ status \in [Posts -> Statuses] /\ sched \in [Posts -> Times] /\ pubAt \in [Posts -> BOOLEAN]
         /\ job \in [Posts -> Jobs] /\ jobAt \in [Posts -> Times]
         /\ attempts \in [Posts -> 0..MaxAttempts]
         /\ notified \in [Posts -> Nat] /\ stale \in [Posts -> BOOLEAN]
         /\ act \in [Actors -> Doing] /\ sweep \in [Sweepers -> Sweeping]
         /\ \A a \in Actors : Placed(act[a])
BY BoundsType DEF TypeOK, Statuses, Jobs, Doing, Sweeping, Placed

\* A step whose parts have their types keeps all of them.
LEMMA TypedChange ==
  ASSUME TypeOK, UNCHANGED budget, now' \in 1..budget.time, faults' \in 0..budget.faults,
         RowsTyped, QueueTyped, ActsTyped, SweepsTyped, notified' \in [Posts -> Nat],
         stale' \in [Posts -> BOOLEAN]
  PROVE  TypeOK'
BY DEF TypeOK, RowsTyped, QueueTyped, ActsTyped, SweepsTyped, Times, Statuses, Jobs, Doing, Sweeping,
       Placed

\* One actor moves.
LEMMA ActChange ==
  ASSUME TypeOK, NEW a \in Actors, NEW x, Placed(x), act' = [act EXCEPT ![a] = x]
  PROVE  ActsTyped
BY Parts DEF ActsTyped, Placed

\* Nobody at work.
LEMMA IdleFields == Idle.pc = "idle" /\ Idle.post = NoPost
BY DEF Idle

\* Nobody at work, and a sweep between two rows.
LEMMA IdlePlaced ==
  ASSUME TypeOK
  PROVE  Placed(Idle) /\ Placed([Idle EXCEPT !.pc = "scan"])
<1>1. Idle \in Doing /\ Idle.pc = "idle"
  BY Parts DEF Idle, Doing, PCs, Ops, Times
<1> QED BY <1>1 DEF Placed, Doing, PCs

\* An actor goes to another place of its handler.
LEMMA GotoPlaced ==
  ASSUME TypeOK, NEW a \in Actors, NEW pc \in PCs, Goto(a, pc),
         act[a].post \in Posts \/ pc \in {"idle", "scan"}
  PROVE  ActsTyped
<1>1. act[a] \in Doing
  BY Parts
<1>2. [act[a] EXCEPT !.pc = pc] \in Doing /\ [act[a] EXCEPT !.pc = pc].pc = pc
      /\ [act[a] EXCEPT !.pc = pc].post = act[a].post
  BY <1>1 DEF Doing
<1>3. Placed([act[a] EXCEPT !.pc = pc])
  BY <1>2 DEF Placed
<1>4. act' = [act EXCEPT ![a] = [act[a] EXCEPT !.pc = pc]]
  BY DEF Goto
<1> QED BY <1>3, <1>4, ActChange

\* An actor begins a handler.
LEMMA BeginPlaced ==
  ASSUME TypeOK, NEW a \in Actors, NEW pc \in PCs, NEW op \in Ops, NEW p \in Posts,
         NEW at \in Times \cup {Keep}, NEW first \in BOOLEAN, Begin(a, pc, op, p, at, first)
  PROVE  ActsTyped
<1>1. Placed([pc |-> pc, op |-> op, post |-> p, at |-> at, first |-> first])
  BY DEF Placed, Doing
<1> QED BY <1>1, ActChange DEF Begin

\* A handler returns.
LEMMA ReturnPlaced ==
  ASSUME TypeOK, NEW a \in Actors, Return(a), act[a].post \in Posts
  PROVE  ActsTyped /\ QueueTyped /\ SweepsTyped
<1>1. ActsTyped
  <2>1. Placed(IF a \in Sweepers THEN [Idle EXCEPT !.pc = "scan"] ELSE Idle)
    BY IdlePlaced
  <2> QED BY <2>1, ActChange DEF Return
<1>2. QueueTyped
  BY Parts DEF Return, QueueTyped, Jobs
<1> QED BY <1>1, <1>2, Parts DEF Return, SweepsTyped

\* No sweep is under way.
LEMMA NoSweepTyped == ASSUME TypeOK PROVE NoSweep \in Sweeping
BY Parts DEF NoSweep, Sweeping, Times

\* A handler throws.
LEMMA ThrowPlaced ==
  ASSUME TypeOK, NEW a \in Actors, Throw(a),
         a \in Workers => act[a].post \in Posts /\ attempts[act[a].post] < MaxAttempts
  PROVE  ActsTyped /\ QueueTyped /\ SweepsTyped
<1>1. ActsTyped
  BY IdlePlaced, ActChange DEF Throw
<1>2. QueueTyped
  BY Parts, BoundsType DEF Throw, QueueTyped, Jobs, queue
<1>3. SweepsTyped
  BY Parts, NoSweepTyped DEF Throw, SweepsTyped
<1> QED BY <1>1, <1>2, <1>3

-----------------------------------------------------------------------------
(***************************************************************************)
(* A worker that is at work has a job of its own, a job that waits or runs *)
(* has an attempt left, and who is about to queue a post has a time for it *)
(* or null.                                                                *)
(***************************************************************************)
AtWork == {"read", "pub", "note", "emit"}
Queueing == {"getJob", "remove", "add"}
Wired ==
  /\ \A a \in Actors : act[a].pc = "idle" => act[a] = Idle
  /\ \A a \in Actors : act[a].pc \in Queueing => act[a].at # Keep
  /\ \A a \in Workers : act[a].pc # "idle" => act[a].pc \in AtWork /\ job[act[a].post] = "active"
  /\ \A a, b \in Workers :
       act[a].pc # "idle" /\ act[b].pc # "idle" /\ act[a].post = act[b].post => a = b
  /\ \A p \in Posts : job[p] \in {"waiting", "active"} => attempts[p] < MaxAttempts

Typed == TypeOK /\ Wired

\* One actor moves, and no job that runs is taken from the worker that runs it.
LEMMA WiredChange ==
  ASSUME Typed, NEW a \in Actors, NEW x, act' = [act EXCEPT ![a] = x], x.pc = "idle" => x = Idle,
         x.pc \in Queueing => x.at # Keep,
         a \in Workers /\ x.pc # "idle" =>
           x.pc \in AtWork /\ act[a].pc # "idle" /\ x.post = act[a].post,
         \A p \in Posts : job[p] = "active" /\ ~(a \in Workers /\ x.pc = "idle" /\ act[a].post = p) =>
           job'[p] = "active",
         \A p \in Posts : job'[p] \in {"waiting", "active"} => attempts'[p] < MaxAttempts
  PROVE  Wired'
<1>1. act \in [Actors -> Doing] /\ \A b \in Actors : Placed(act[b])
  BY Parts DEF Typed
<1>2. \A b \in Actors : act'[b] = IF b = a THEN x ELSE act[b]
  BY <1>1
<1>3. Workers \subseteq Actors
  BY DEF Actors
<1>4. \A b \in Actors : /\ act'[b].pc = "idle" => act'[b] = Idle
                        /\ act'[b].pc \in Queueing => act'[b].at # Keep
  BY <1>2 DEF Typed, Wired
<1>5. ASSUME NEW b \in Workers, act'[b].pc # "idle"
      PROVE  act'[b].pc \in AtWork /\ job'[act'[b].post] = "active" /\ act[b].pc # "idle"
             /\ act'[b].post = act[b].post
  <2>1. act[b].pc # "idle" /\ act'[b].post = act[b].post /\ act'[b].pc \in AtWork
    BY <1>2, <1>3, <1>5 DEF Typed, Wired
  <2>2. job[act[b].post] = "active" /\ act[b].post \in Posts
    BY <1>1, <1>3, <2>1 DEF Typed, Wired, Placed, AtWork
  <2>3. ~(a \in Workers /\ x.pc = "idle" /\ act[a].post = act[b].post)
    <3>1. CASE b = a
      BY <1>2, <1>3, <1>5, <3>1
    <3>2. CASE b # a /\ a \in Workers /\ act[a].pc # "idle"
      BY <2>1, <3>2 DEF Typed, Wired
    <3>3. CASE b # a /\ a \in Workers /\ act[a].pc = "idle"
      BY <2>2, <3>3, IdleFields, NoPostIsNone DEF Typed, Wired
    <3> QED BY <3>1, <3>2, <3>3
  <2> QED BY <2>1, <2>2, <2>3
<1> QED BY <1>3, <1>4, <1>5 DEF Typed, Wired

\* An actor that goes on within its handler.
LEMMA WiredGoto ==
  ASSUME Typed, NEW a \in Actors, NEW pc \in PCs \ {"idle"}, Goto(a, pc), act[a].pc # "idle",
         a \in Workers => pc \in AtWork, pc \in Queueing => act[a].at # Keep,
         \A p \in Posts : job[p] = "active" => job'[p] = "active",
         \A p \in Posts : job'[p] \in {"waiting", "active"} => attempts'[p] < MaxAttempts
  PROVE  Wired'
<1>1. act[a] \in Doing
  BY Parts DEF Typed
<1>2. [act[a] EXCEPT !.pc = pc].pc = pc /\ [act[a] EXCEPT !.pc = pc].post = act[a].post
      /\ [act[a] EXCEPT !.pc = pc].at = act[a].at
  BY <1>1 DEF Doing
<1>3. act' = [act EXCEPT ![a] = [act[a] EXCEPT !.pc = pc]]
  BY DEF Goto
<1> QED BY <1>2, <1>3, WiredChange

\* A request or a sweep that begins, or goes on to something else.
LEMMA WiredBegin ==
  ASSUME Typed, NEW a \in Actors \ Workers, NEW x, act' = [act EXCEPT ![a] = x],
         x.pc # "idle" \/ x = Idle,
         x.pc \in Queueing => x.at # Keep,
         \A p \in Posts : job[p] = "active" => job'[p] = "active",
         \A p \in Posts : job'[p] \in {"waiting", "active"} => attempts'[p] < MaxAttempts
  PROVE  Wired'
BY WiredChange

\* A handler returns.
LEMMA WiredReturn ==
  ASSUME Typed, NEW a \in Actors, Return(a), act[a].pc # "idle"
  PROVE  Wired'
<1>1. CASE a \in Workers
  <2>1. act' = [act EXCEPT ![a] = Idle] /\ job' = [job EXCEPT ![act[a].post] = "kept"]
        /\ UNCHANGED attempts
    BY <1>1, ActorsDisjoint DEF Return
  <2>2. \A p \in Posts : job'[p] = IF p = act[a].post THEN "kept" ELSE job[p]
    BY <2>1, Parts DEF Typed
  <2>3. \A p \in Posts : job'[p] \in {"waiting", "active"} => attempts'[p] < MaxAttempts
    BY <2>1, <2>2 DEF Typed, Wired
  <2>4. Idle.pc = "idle" /\ Idle.pc \notin Queueing
    BY IdleFields DEF Queueing
  <2> QED BY <1>1, <2>1, <2>2, <2>3, <2>4, WiredChange
<1>2. CASE a \notin Workers
  <2>1. PICK x : act' = [act EXCEPT ![a] = x] /\ x \in {Idle, [Idle EXCEPT !.pc = "scan"]}
    BY DEF Return
  <2>2. (x.pc # "idle" \/ x = Idle) /\ x.pc \notin Queueing
    BY <2>1 DEF Idle, Queueing
  <2>3. UNCHANGED <<job, attempts>>
    BY <1>2 DEF Return
  <2>4. \A p \in Posts : job'[p] \in {"waiting", "active"} => attempts'[p] < MaxAttempts
    BY <2>3 DEF Typed, Wired
  <2> QED BY <1>2, <2>1, <2>2, <2>3, <2>4, WiredBegin
<1> QED BY <1>1, <1>2

\* What a worker that is at work has.
LEMMA Working ==
  ASSUME Typed, NEW a \in Workers, act[a].pc # "idle"
  PROVE  /\ act[a].pc \in AtWork /\ act[a].post \in Posts /\ job[act[a].post] = "active"
         /\ attempts[act[a].post] < MaxAttempts
<1>1. a \in Actors
  BY DEF Actors
<1>2. act[a].pc \in AtWork /\ job[act[a].post] = "active"
  BY DEF Typed, Wired
<1>3. act[a].post \in Posts
  BY <1>1, <1>2, Parts DEF Typed, Placed, AtWork
<1> QED BY <1>2, <1>3 DEF Typed, Wired

\* A handler throws.
LEMMA WiredThrow ==
  ASSUME Typed, NEW a \in Actors, Throw(a), act[a].pc # "idle"
  PROVE  Wired'
<1>0. act' = [act EXCEPT ![a] = Idle] /\ Idle.pc = "idle" /\ Idle.pc \notin Queueing
  BY IdleFields DEF Throw, Queueing
<1>1. CASE a \in Workers
  <2>1. act[a].post \in Posts /\ attempts[act[a].post] < MaxAttempts
    BY <1>1, Working
  <2>2. \A p \in Posts : p # act[a].post => job'[p] = job[p] /\ attempts'[p] = attempts[p]
    BY <1>1, Parts DEF Throw, Typed
  <2>3. /\ attempts'[act[a].post] = attempts[act[a].post] + 1
        /\ job'[act[a].post] = IF attempts[act[a].post] + 1 < MaxAttempts THEN "waiting" ELSE "kept"
    BY <1>1, <2>1, Parts DEF Throw, Typed
  <2>4. \A p \in Posts : job'[p] \in {"waiting", "active"} => attempts'[p] < MaxAttempts
    BY <2>1, <2>2, <2>3 DEF Typed, Wired
  <2> QED BY <1>0, <1>1, <2>2, <2>4, WiredChange
<1>2. CASE a \notin Workers
  <2>1. UNCHANGED <<job, attempts>>
    BY <1>2 DEF Throw, queue
  <2>2. \A p \in Posts : job'[p] \in {"waiting", "active"} => attempts'[p] < MaxAttempts
    BY <2>1 DEF Typed, Wired
  <2> QED BY <1>0, <1>2, <2>1, <2>2, WiredBegin
<1> QED BY <1>1, <1>2

-----------------------------------------------------------------------------
\* Nothing is written, scheduled or under way.
LEMMA InitTyped == Init => Typed
<1> SUFFICES ASSUME Init PROVE Typed
  OBVIOUS
<1>1. budget.time \in Nat \ {0} /\ budget.faults \in Nat /\ budget \in Budgets
  BY BoundsType DEF Init
<1>2. Idle \in [pc : PCs, op : Ops, post : Posts \cup {NoPost}, at : Times \cup {Keep}, first : BOOLEAN]
  BY <1>1 DEF Idle, PCs, Ops, Times
<1>3. NoSweep \in [rows : SUBSET [post : Posts, at : 1..budget.time],
                   kind : {"announcement", "activity"}, clock : Times]
  BY <1>1 DEF NoSweep, Times
<1>4. TypeOK
  BY <1>1, <1>2, <1>3, IdleFields, BoundsType DEF Init, TypeOK, Times
<1>5. Wired
  BY ActorsDisjoint, IdleFields DEF Init, Wired, Actors, Queueing
<1> QED BY <1>4, <1>5 DEF Typed

\* What most steps leave alone.
LEMMA Unmoved ==
  ASSUME Typed
  PROVE  /\ UNCHANGED <<budget, status, sched, pubAt>> => RowsTyped
         /\ UNCHANGED <<budget, job, jobAt, attempts>> => QueueTyped
         /\ UNCHANGED <<budget, sweep>> => SweepsTyped
         /\ UNCHANGED <<job, attempts>> =>
              \A p \in Posts : /\ job[p] = "active" => job'[p] = "active"
                              /\ job'[p] \in {"waiting", "active"} => attempts'[p] < MaxAttempts
BY Parts DEF Typed, RowsTyped, QueueTyped, SweepsTyped, Wired

\* Every step keeps the types and what the workers and the queue owe each other.
LEMMA TypedStep == Typed /\ [Next]_vars => Typed'
<1> SUFFICES ASSUME Typed, [Next]_vars PROVE Typed'
  OBVIOUS
<1>p. /\ budget.time \in Nat \ {0} /\ budget.faults \in Nat /\ budget \in Budgets
      /\ now \in 1..budget.time /\ faults \in 0..budget.faults
      /\ status \in [Posts -> Statuses] /\ sched \in [Posts -> Times] /\ pubAt \in [Posts -> BOOLEAN]
      /\ job \in [Posts -> Jobs] /\ jobAt \in [Posts -> Times] /\ attempts \in [Posts -> 0..MaxAttempts]
      /\ notified \in [Posts -> Nat] /\ stale \in [Posts -> BOOLEAN]
      /\ act \in [Actors -> Doing] /\ sweep \in [Sweepers -> Sweeping] /\ TypeOK
  BY Parts DEF Typed
<1>a. \A a \in Actors : /\ act[a] \in Doing /\ Placed(act[a]) /\ (act[a].pc = "idle" => act[a] = Idle)
                        /\ (act[a].pc \notin {"idle", "scan"} => act[a].post \in Posts)
  BY Parts DEF Typed, Wired, Placed
<1>w. \A a \in Workers : a \in Actors /\ a \notin Staff /\ a \notin Sweepers
  BY ActorsDisjoint DEF Actors
<1>k. \A a \in Workers : act[a].pc # "idle" => act[a].pc \in AtWork
  BY Working
<1>z. 0 \in Times /\ 0 # Keep
  BY <1>p DEF Times, Keep
<1>c. ASSUME RowsTyped, QueueTyped, ActsTyped, SweepsTyped, UNCHANGED <<budget, now, faults>>, Wired',
             notified' \in [Posts -> Nat], stale' \in [Posts -> BOOLEAN]
      PROVE  Typed'
  BY <1>c, <1>p, TypedChange DEF Typed
\* A request or a sweep begins with its read alone.
<1>b. ASSUME NEW a \in Actors \ Workers, NEW pc \in PCs \ {"idle"}, NEW op \in Ops, NEW p \in Posts,
             NEW at \in Times \cup {Keep}, NEW first \in BOOLEAN, Begin(a, pc, op, p, at, first),
             pc \in Queueing => at # Keep, RowsTyped, SweepsTyped,
             UNCHANGED <<budget, now, faults, queue, notified>>,
             stale' \in [Posts -> BOOLEAN]
      PROVE  Typed'
  <2>1. ActsTyped
    BY <1>b, <1>p, BeginPlaced
  <2>2. UNCHANGED <<job, jobAt, attempts>>
    BY <1>b DEF queue
  <2>3. Wired'
    BY <1>b, <2>2, Unmoved, WiredBegin DEF Begin
  <2> QED BY <1>b, <1>c, <1>p, <2>1, <2>2, <2>3, Unmoved
\* An actor goes on, and the queue and its sweep stay.
<1>g. ASSUME NEW a \in Actors, act[a].pc \notin {"idle", "scan"}, NEW pc \in PCs \ {"idle"},
             Goto(a, pc),
             a \in Workers => pc \in AtWork, pc \in Queueing => act[a].at # Keep, RowsTyped,
             UNCHANGED <<budget, now, faults, queue, sweep>>,
             notified' \in [Posts -> Nat], stale' \in [Posts -> BOOLEAN]
      PROVE  Typed'
  <2>1. ActsTyped
    BY <1>a, <1>g, <1>p, GotoPlaced
  <2>2. UNCHANGED <<job, jobAt, attempts>>
    BY <1>g DEF queue
  <2>3. Wired'
    BY <1>g, <2>2, Unmoved, WiredGoto
  <2> QED BY <1>c, <1>g, <1>p, <2>1, <2>2, <2>3, Unmoved
<1>r. ASSUME NEW a \in Actors, act[a].pc \notin {"idle", "scan"}, Return(a), RowsTyped,
             UNCHANGED <<budget, now, faults, notified>>, stale' \in [Posts -> BOOLEAN]
      PROVE  Typed'
  BY <1>a, <1>c, <1>p, <1>r, ReturnPlaced, WiredReturn
<1>t. ASSUME NEW a \in Actors, act[a].pc # "idle", Throw(a), RowsTyped,
             UNCHANGED <<budget, now, notified>>,
             stale' \in [Posts -> BOOLEAN], faults' \in 0..budget.faults
      PROVE  Typed'
  <2>1. ActsTyped /\ QueueTyped /\ SweepsTyped
    BY <1>p, <1>t, ThrowPlaced, Working
  <2>2. Wired'
    BY <1>t, WiredThrow
  <2> QED BY <1>p, <1>t, <2>1, <2>2, TypedChange DEF Typed
<1>1. ASSUME NEW a \in Actors, NEW p \in Posts, Create(a, p) PROVE Typed'
  <2>0. a \notin Workers /\ UNCHANGED <<budget, now, queue, notified, sweep, faults>> /\ act[a] = Idle
    BY <1>1, <1>w DEF Create
  <2>1. PICK at \in {0} \cup (now + 1)..budget.time, publish \in BOOLEAN :
          LET live == publish /\ at = 0
              seen == live \/ Kind[p] = "announcement"
          IN
          /\ status' = [status EXCEPT ![p] = IF live THEN "published" ELSE "draft"]
          /\ sched' = [sched EXCEPT ![p] = at]
          /\ pubAt' = [pubAt EXCEPT ![p] = live /\ Kind[p] = "announcement"]
          /\ stale' = [stale EXCEPT ![p] = seen]
          /\ CASE at # 0 -> Begin(a, "getJob", "create", p, at, TRUE)
               [] live -> Begin(a, "note", "create", p, at, TRUE)
               [] at = 0 /\ seen /\ ~live -> Begin(a, "emit", "create", p, at, TRUE)
               [] OTHER -> act' = act
    BY <1>1 DEF Create
  <2>2. at \in Times /\ at # Keep
    BY <1>p DEF Times, Keep
  <2>3. RowsTyped /\ stale' \in [Posts -> BOOLEAN]
    BY <1>p, <2>1, <2>2 DEF RowsTyped, Statuses
  <2>4. SweepsTyped
    BY <2>0, Unmoved
  <2>5. ASSUME NEW pc \in {"getJob", "note", "emit"}, Begin(a, pc, "create", p, at, TRUE) PROVE Typed'
    <3>1. a \in Actors \ Workers /\ pc \in PCs \ {"idle"} /\ "create" \in Ops
          /\ at \in Times \cup {Keep}
      BY <2>0, <2>2, <2>5 DEF PCs, Ops
    <3>2. TRUE \in BOOLEAN
      OBVIOUS
    <3> QED BY <1>b, <2>0, <2>2, <2>3, <2>4, <2>5, <3>1, <3>2
  <2>6. CASE act' = act
    <3>1. UNCHANGED <<job, jobAt, attempts>>
      BY <2>0 DEF queue
    <3>2. ActsTyped
      BY <1>a, <1>p, <2>6 DEF ActsTyped
    <3>3. Wired'
      BY <2>6, <3>1 DEF Typed, Wired
    <3> QED BY <1>c, <1>p, <2>0, <2>3, <2>4, <3>1, <3>2, <3>3, Unmoved
  <2> QED BY <2>1, <2>5, <2>6
<1>2. ASSUME NEW a \in Actors, NEW p \in Posts, Update(a, p) PROVE Typed'
  <2>0. PICK at \in {Keep, 0} \cup (now + 1)..budget.time :
          Begin(a, IF at = Keep THEN "save" ELSE "getJob", "update", p, at, FALSE)
    BY <1>2 DEF Update
  <2>1. at \in Times \cup {Keep}
    BY <1>p, <2>0 DEF Times
  <2>2. a \notin Workers /\ UNCHANGED <<budget, now, rows, queue, notified, stale, sweep, faults>>
    BY <1>2, <1>w DEF Update
  <2>3. RowsTyped /\ SweepsTyped /\ stale' \in [Posts -> BOOLEAN]
    BY <1>p, <2>2, Unmoved DEF rows
  <2>4. CASE at = Keep
    <3>1. Begin(a, "save", "update", p, at, FALSE)
      BY <2>0, <2>4
    <3> QED BY <1>b, <2>1, <2>2, <2>3, <3>1 DEF PCs, Ops, Queueing
  <2>5. CASE at # Keep
    <3>1. Begin(a, "getJob", "update", p, at, FALSE)
      BY <2>0, <2>5
    <3> QED BY <1>b, <2>1, <2>2, <2>3, <2>5, <3>1 DEF PCs, Ops
  <2> QED BY <2>4, <2>5
<1>3. ASSUME NEW a \in Actors, NEW p \in Posts, Publish(a, p) PROVE Typed'
  <2>1. Begin(a, "pub", "publish", p, 0, ~pubAt[p])
    BY <1>3 DEF Publish
  <2>2. a \notin Workers /\ UNCHANGED <<budget, now, rows, queue, notified, stale, sweep, faults>>
    BY <1>3, <1>w DEF Publish
  <2> QED BY <1>b, <1>p, <1>z, <2>1, <2>2, Unmoved DEF PCs, Ops, Queueing, rows
<1>4. ASSUME NEW a \in Actors, NEW p \in Posts, Cancel(a, p) PROVE Typed'
  <2>1. Begin(a, "cancel", "cancel", p, 0, FALSE)
    BY <1>4 DEF Cancel
  <2>2. a \notin Workers /\ UNCHANGED <<budget, now, rows, queue, notified, stale, sweep, faults>>
    BY <1>4, <1>w DEF Cancel
  <2> QED BY <1>b, <1>p, <1>z, <2>1, <2>2, Unmoved DEF PCs, Ops, Queueing, rows
<1>5. ASSUME NEW a \in Actors, NEW p \in Posts, Remove(a, p) PROVE Typed'
  <2>1. Begin(a, "emit", "delete", p, 0, FALSE)
    BY <1>5 DEF Remove
  <2>2. a \notin Workers /\ UNCHANGED <<budget, now, queue, notified, sweep, faults>>
    BY <1>5, <1>w DEF Remove
  <2>3. RowsTyped /\ stale' \in [Posts -> BOOLEAN]
    BY <1>5, <1>p, <1>z DEF Remove, RowsTyped, Statuses
  <2>4. SweepsTyped
    BY <2>2, Unmoved
  <2> QED BY <1>b, <1>z, <2>1, <2>2, <2>3, <2>4 DEF PCs, Ops, Queueing
<1>6. ASSUME NEW a \in Actors, GetJob(a) PROVE Typed'
  <2>1. PICK pc \in {"remove", "save", "add"} : Goto(a, pc)
    BY <1>6 DEF GetJob
  <2>2. act[a].pc = "getJob" /\ UNCHANGED <<budget, now, rows, queue, notified, stale, sweep, faults>>
    BY <1>6 DEF GetJob
  <2>3. a \notin Workers
    BY <1>k, <2>2 DEF AtWork
  <2>4. act[a].at # Keep
    BY <2>2 DEF Typed, Wired, Queueing
  <2> QED BY <1>g, <1>p, <2>1, <2>2, <2>3, <2>4, Unmoved DEF PCs, rows
<1>7. ASSUME NEW a \in Actors, RemoveJob(a) PROVE Typed'
  <2> DEFINE p == act[a].post
  <2>0. act[a].pc = "remove" /\ UNCHANGED <<budget, now, rows, notified, stale, faults>> /\ p \in Posts
    BY <1>7, <1>a DEF RemoveJob
  <2>1. a \notin Workers
    BY <1>k, <2>0 DEF AtWork
  <2>2. CASE job[p] = "active"
    BY <1>7, <1>p, <1>t, <2>0, <2>2, Unmoved DEF RemoveJob, rows
  <2>3. CASE job[p] # "active"
    <3>1. PICK pc \in {"save", "add"} : Goto(a, pc)
      BY <1>7, <2>3 DEF RemoveJob
    <3>2. job' = [job EXCEPT ![p] = "none"] /\ UNCHANGED <<jobAt, attempts, sweep>>
      BY <1>7, <2>3 DEF RemoveJob
    <3>3. QueueTyped
      BY <1>p, <2>0, <3>2 DEF QueueTyped, Jobs
    <3>4. \A q \in Posts : /\ job[q] = "active" => job'[q] = "active"
                           /\ job'[q] \in {"waiting", "active"} => attempts'[q] < MaxAttempts
      BY <1>p, <2>0, <2>3, <3>2 DEF Typed, Wired
    <3>5. Wired'
      <4>1. act[a].at # Keep
        BY <2>0 DEF Typed, Wired, Queueing
      <4> QED BY <2>0, <2>1, <3>1, <3>4, <4>1, WiredGoto DEF PCs
    <3>6. ActsTyped
      BY <1>p, <2>0, <3>1, GotoPlaced DEF PCs
    <3> QED BY <1>c, <1>p, <2>0, <3>2, <3>3, <3>5, <3>6, Unmoved DEF rows
  <2> QED BY <2>2, <2>3
<1>8. ASSUME NEW a \in Actors, AddJob(a) PROVE Typed'
  <2> DEFINE p == act[a].post
  <2>0. act[a].pc = "add" /\ UNCHANGED <<budget, now, rows, notified, stale, sweep, faults>>
        /\ p \in Posts
    BY <1>8, <1>a DEF AddJob
  <2>1. a \notin Workers
    BY <1>k, <2>0 DEF AtWork
  <2>2. /\ job' = [job EXCEPT ![p] = IF @ = "none" THEN "waiting" ELSE @]
        /\ attempts' = [attempts EXCEPT ![p] = IF job[p] = "none" THEN 0 ELSE @]
        /\ jobAt' = [jobAt EXCEPT ![p] = IF job[p] = "none" THEN act[a].at ELSE @]
    BY <1>8 DEF AddJob
  <2>3. act[a].at \in Times
    BY <1>a, <2>0 DEF Doing, Typed, Wired, Queueing
  <2>4. QueueTyped
    BY <1>p, <2>0, <2>2, <2>3, BoundsType DEF QueueTyped, Jobs
  <2>5. \A q \in Posts : /\ job[q] = "active" => job'[q] = "active"
                         /\ job'[q] \in {"waiting", "active"} => attempts'[q] < MaxAttempts
    BY <1>p, <2>0, <2>2, BoundsType DEF Typed, Wired
  <2>6. PICK x \in {[act[a] EXCEPT !.pc = "save"], [act[a] EXCEPT !.pc = "emit"], Idle,
                    [Idle EXCEPT !.pc = "scan"]} : act' = [act EXCEPT ![a] = x]
    <3> DEFINE y == CASE act[a].op = "update" -> [act[a] EXCEPT !.pc = "save"]
                      [] act[a].op = "create" /\ act[a].post \in Announcements
                          -> [act[a] EXCEPT !.pc = "emit"]
                      [] act[a].op = "create" /\ act[a].post \in Activities -> Idle
                      [] OTHER -> [Idle EXCEPT !.pc = "scan"]
    <3>1. act' = [act EXCEPT ![a] = y]
      BY <1>8 DEF AddJob
    <3>2. y \in {[act[a] EXCEPT !.pc = "save"], [act[a] EXCEPT !.pc = "emit"], Idle,
                 [Idle EXCEPT !.pc = "scan"]}
      OBVIOUS
    <3> QED BY <3>1, <3>2
  <2>7. Placed(x) /\ (x.pc # "idle" \/ x = Idle) /\ x.pc \notin Queueing
    <3>1. CASE x \in {[act[a] EXCEPT !.pc = "save"], [act[a] EXCEPT !.pc = "emit"]}
      BY <1>a, <2>0, <3>1 DEF Doing, Placed, PCs, Queueing
    <3>2. CASE x \in {Idle, [Idle EXCEPT !.pc = "scan"]}
      <4>1. Placed(x)
        BY <1>p, <3>2, IdlePlaced
      <4>2. (x.pc # "idle" \/ x = Idle) /\ x.pc \notin Queueing
        BY <3>2 DEF Idle, Queueing
      <4> QED BY <4>1, <4>2
    <3> QED BY <3>1, <3>2
  <2>8. ActsTyped
    BY <1>p, <2>6, <2>7, ActChange
  <2>9. Wired'
    BY <2>1, <2>5, <2>6, <2>7, WiredBegin
  <2> QED BY <1>c, <1>p, <2>0, <2>4, <2>8, <2>9, Unmoved DEF rows
<1>9. ASSUME NEW a \in Actors, Save(a) PROVE Typed'
  <2> DEFINE p == act[a].post
  <2>0. act[a].pc = "save" /\ UNCHANGED <<budget, now, status, pubAt, notified, faults>> /\ p \in Posts
    BY <1>9, <1>a DEF Save
  <2>1. a \notin Workers
    BY <1>k, <2>0 DEF AtWork
  <2>2. CASE status[p] = "deleted"
    BY <1>9, <1>p, <1>t, <2>0, <2>2, Unmoved DEF Save
  <2>3. CASE status[p] # "deleted"
    <3>1. /\ sched' = IF act[a].at = Keep THEN sched ELSE [sched EXCEPT ![p] = act[a].at]
          /\ stale' = [stale EXCEPT ![p] = TRUE] /\ Goto(a, "emit") /\ UNCHANGED <<queue, sweep>>
      BY <1>9, <2>3 DEF Save
    <3>2. RowsTyped /\ stale' \in [Posts -> BOOLEAN]
      BY <1>a, <1>p, <2>0, <3>1 DEF RowsTyped, Doing
    <3> QED BY <1>g, <1>p, <2>0, <2>1, <3>1, <3>2 DEF PCs, Queueing
  <2> QED BY <2>2, <2>3
<1>10. ASSUME NEW a \in Actors, CancelRow(a) PROVE Typed'
  <2>0. /\ act[a].pc = "cancel" /\ Goto(a, "emit") /\ act[a].post \in Posts
        /\ UNCHANGED <<budget, now, sched, pubAt, queue, notified, sweep, faults>>
    BY <1>10, <1>a DEF CancelRow
  <2>1. a \notin Workers
    BY <1>k, <2>0 DEF AtWork
  <2>2. RowsTyped /\ stale' \in [Posts -> BOOLEAN]
    BY <1>10, <1>p, <2>0 DEF CancelRow, RowsTyped, Statuses
  <2> QED BY <1>g, <1>p, <2>0, <2>1, <2>2 DEF PCs, Queueing
<1>11. ASSUME NEW a \in Actors, ReadScheduled(a) PROVE Typed'
  <2>0. act[a].pc = "read" /\ UNCHANGED <<budget, now, rows, notified, stale, faults>>
        /\ act[a].post \in Posts
    BY <1>11, <1>a DEF ReadScheduled
  <2>1. CASE Return(a)
    BY <1>p, <1>r, <2>0, <2>1, Unmoved DEF rows
  <2>2. CASE act' = [act EXCEPT ![a].pc = "pub", ![a].first = ~pubAt[act[a].post]]
             /\ UNCHANGED <<queue, sweep>>
    <3> DEFINE x == [act[a] EXCEPT !.pc = "pub", !.first = ~pubAt[act[a].post]]
    <3>1. act' = [act EXCEPT ![a] = x]
      BY <2>2
    <3>2. Placed(x) /\ x.pc = "pub" /\ x.post = act[a].post
      BY <1>a, <1>p, <2>0 DEF Doing, Placed, PCs
    <3> HIDE DEF x
    <3>3. ActsTyped
      BY <1>p, <3>1, <3>2, ActChange
    <3>4. UNCHANGED <<job, jobAt, attempts, sweep>>
      BY <2>2 DEF queue
    <3>5. Wired'
      BY <2>0, <3>1, <3>2, <3>4, Unmoved, WiredChange DEF AtWork, Queueing
    <3> QED BY <1>c, <1>p, <2>0, <3>3, <3>4, <3>5, Unmoved DEF rows
  <2> QED BY <1>11, <2>1, <2>2 DEF ReadScheduled
<1>12. ASSUME NEW a \in Actors, PublishRow(a) PROVE Typed'
  <2> DEFINE p == act[a].post
  <2>0. act[a].pc = "pub" /\ UNCHANGED <<budget, now, notified, faults>> /\ p \in Posts
    BY <1>12, <1>a DEF PublishRow
  <2>1. CASE Publishes(p)
    <3>0. /\ status' = [status EXCEPT ![p] = "published"] /\ sched' = [sched EXCEPT ![p] = 0]
          /\ pubAt' = [pubAt EXCEPT ![p] = (Kind[p] = "announcement")]
          /\ stale' = [stale EXCEPT ![p] = TRUE]
      BY <1>12, <2>1 DEF PublishRow
    <3>1. RowsTyped /\ stale' \in [Posts -> BOOLEAN]
      BY <1>p, <1>z, <2>0, <3>0 DEF RowsTyped, Statuses
    <3>2. /\ Goto(a, IF act[a].first \/ p \in Activities THEN "note" ELSE "emit")
          /\ UNCHANGED <<queue, sweep>>
      BY <1>12, <2>1 DEF PublishRow
    <3>3. PICK pc \in {"note", "emit"} : Goto(a, pc)
      <4>1. CASE act[a].first \/ p \in Activities
        BY <3>2, <4>1
      <4>2. CASE ~(act[a].first \/ p \in Activities)
        BY <3>2, <4>2
      <4> QED BY <4>1, <4>2
    <3> QED BY <1>g, <1>p, <2>0, <3>1, <3>2, <3>3 DEF PCs, AtWork, Queueing
  <2>2. CASE ~Publishes(p)
    BY <1>12, <1>p, <1>r, <2>0, <2>2, Unmoved DEF PublishRow, rows
  <2> QED BY <2>1, <2>2
<1>13. ASSUME NEW a \in Actors, Notify(a) PROVE Typed'
  <2>0. /\ act[a].pc = "note" /\ Goto(a, "emit") /\ act[a].post \in Posts
        /\ UNCHANGED <<budget, now, rows, queue, stale, sweep, faults>>
    BY <1>13, <1>a DEF Notify
  <2>1. notified' \in [Posts -> Nat]
    BY <1>13, <1>p, <2>0 DEF Notify
  <2> QED BY <1>g, <1>p, <2>0, <2>1, Unmoved DEF PCs, AtWork, Queueing, rows
<1>14. ASSUME NEW a \in Actors, Emit(a) PROVE Typed'
  <2>0. act[a].pc = "emit" /\ UNCHANGED <<budget, now, rows, notified, faults>> /\ act[a].post \in Posts
    BY <1>14, <1>a DEF Emit
  <2>1. stale' \in [Posts -> BOOLEAN]
    BY <1>14, <1>p, <2>0 DEF Emit
  <2>2. CASE Throw(a)
    BY <1>p, <1>t, <2>0, <2>1, <2>2, Unmoved DEF rows
  <2>3. CASE Return(a)
    BY <1>p, <1>r, <2>0, <2>1, <2>3, Unmoved DEF rows
  <2> QED BY <1>14, <2>2, <2>3 DEF Emit
<1>15. ASSUME NEW a \in Actors, NEW p \in Posts, TakeJob(a, p) PROVE Typed'
  <2> DEFINE x == [pc |-> "read", op |-> "scheduled", post |-> p, at |-> 0, first |-> FALSE]
  <2>0. /\ a \in Workers /\ act[a] = Idle /\ job[p] = "waiting" /\ job' = [job EXCEPT ![p] = "active"]
        /\ act' = [act EXCEPT ![a] = x]
        /\ UNCHANGED <<budget, now, rows, jobAt, attempts, notified, stale, sweep, faults>>
    BY <1>15 DEF TakeJob, Begin
  <2>1. Placed(x)
    BY <1>p DEF Placed, Doing, PCs, Ops, Times
  <2>2. ActsTyped
    BY <1>p, <2>0, <2>1, ActChange
  <2>3. QueueTyped
    BY <1>p, <2>0 DEF QueueTyped, Jobs
  <2>4. \A b \in Workers \ {a} : act'[b] = act[b] /\ (act[b].pc # "idle" => act[b].post # p)
    BY <1>p, <1>w, <2>0 DEF Typed, Wired
  <2>5. Wired'
    <3>1. act'[a] = x /\ \A b \in Actors \ {a} : act'[b] = act[b]
      BY <1>p, <2>0
    <3>2. \A q \in Posts : job'[q] = IF q = p THEN "active" ELSE job[q]
      BY <1>p, <2>0
    <3>3. \A b \in Workers : act'[b].pc # "idle" => act'[b].pc \in AtWork
          /\ job'[act'[b].post] = "active"
      <4> SUFFICES ASSUME NEW b \in Workers, act'[b].pc # "idle"
                   PROVE  act'[b].pc \in AtWork /\ job'[act'[b].post] = "active"
        OBVIOUS
      <4>1. CASE b = a
        BY <3>1, <3>2, <4>1 DEF AtWork
      <4>2. CASE b # a
        BY <2>4, <3>2, <4>2, Working
      <4> QED BY <4>1, <4>2
    <3>4. \A q \in Posts : job'[q] \in {"waiting", "active"} => attempts'[q] < MaxAttempts
      BY <2>0, <3>2 DEF Typed, Wired
    <3>5. \A b, c \in Workers :
            act'[b].pc # "idle" /\ act'[c].pc # "idle" /\ act'[b].post = act'[c].post => b = c
      BY <2>4, <3>1 DEF Typed, Wired
    <3>6. \A b \in Actors : /\ act'[b].pc = "idle" => act'[b] = Idle
                            /\ act'[b].pc \in Queueing => act'[b].at # Keep
      BY <3>1 DEF Typed, Wired, Queueing
    <3> QED BY <3>3, <3>4, <3>5, <3>6 DEF Wired
  <2> QED BY <1>c, <1>p, <2>0, <2>2, <2>3, <2>5, Unmoved DEF rows
<1>16. ASSUME NEW a \in Actors, SweepReads(a) PROVE Typed'
  <2>0. /\ a \in Sweepers /\ Goto(a, "scan") /\ act[a] = Idle
        /\ UNCHANGED <<budget, now, rows, queue, notified, stale, faults>>
    BY <1>16 DEF SweepReads
  <2>1. a \notin Workers
    BY <1>w, <2>0
  <2>2. [Idle EXCEPT !.pc = "scan"].pc = "scan"
    BY DEF Idle
  <2>3. act' = [act EXCEPT ![a] = [Idle EXCEPT !.pc = "scan"]]
    BY <2>0 DEF Goto
  <2>4. ActsTyped
    BY <1>p, <2>3, ActChange, IdlePlaced
  <2>5. UNCHANGED <<job, jobAt, attempts>>
    BY <2>0 DEF queue
  <2>6. Wired'
    BY <2>1, <2>2, <2>3, <2>5, Unmoved, WiredBegin DEF Queueing
  <2>7. {[post |-> p, at |-> sched[p]] : p \in {q \in Posts : status[q] = "draft" /\ sched[q] # 0}}
        \in SUBSET [post : Posts, at : 1..budget.time]
    BY <1>p DEF Times
  <2>8. SweepsTyped
    BY <1>16, <1>p, <2>7 DEF SweepReads, SweepsTyped, Sweeping, Times
  <2> QED BY <1>c, <1>p, <2>0, <2>4, <2>5, <2>6, <2>8, Unmoved DEF rows
<1>17. ASSUME NEW a \in Actors, SweepRow(a) PROVE Typed'
  <2>0. /\ a \in Sweepers /\ act[a].pc = "scan" /\ sweep[a] \in Sweeping /\ a \notin Workers
        /\ UNCHANGED <<budget, now, rows, queue, notified, stale, faults>>
    BY <1>17, <1>p, <1>w DEF SweepRow
  <2>1. PICK r \in OfKind(a) :
          /\ sweep' = [sweep EXCEPT ![a].rows = @ \ {r}]
          /\ IF r.at <= sweep[a].clock THEN Begin(a, "read", "scheduled", r.post, 0, FALSE)
             ELSE IF job[r.post] = "none" THEN Begin(a, "getJob", "scheduled", r.post, r.at, FALSE)
             ELSE act' = act
    BY <1>17 DEF SweepRow
  <2>2. r.post \in Posts /\ r.at \in Times /\ r.at # Keep /\ 0 \in Times /\ 0 # Keep
    BY <1>p, <2>0, <2>1 DEF OfKind, Sweeping, Times, Keep
  <2>3. SweepsTyped
    BY <1>p, <2>0, <2>1 DEF SweepsTyped, Sweeping
  <2>4. RowsTyped
    BY <2>0, Unmoved DEF rows
  <2>5. ASSUME NEW pc \in {"read", "getJob"}, NEW at \in {0, r.at},
               Begin(a, pc, "scheduled", r.post, at, FALSE)
        PROVE  Typed'
    BY <1>b, <1>p, <2>0, <2>2, <2>3, <2>4, <2>5 DEF PCs, Ops
  <2>6. CASE act' = act
    <3>1. UNCHANGED <<job, jobAt, attempts>>
      BY <2>0 DEF queue
    <3>2. ActsTyped
      BY <1>a, <1>p, <2>6 DEF ActsTyped
    <3>3. Wired'
      BY <2>6, <3>1 DEF Typed, Wired
    <3> QED BY <1>c, <1>p, <2>0, <2>3, <2>4, <3>1, <3>2, <3>3, Unmoved
  <2> QED BY <2>1, <2>5, <2>6
<1>18. ASSUME NEW a \in Actors, SweepNext(a) PROVE Typed'
  <2>0. /\ a \in Sweepers /\ act[a].pc = "scan" /\ a \notin Workers
        /\ UNCHANGED <<budget, now, rows, queue, notified, stale, faults>>
    BY <1>18, <1>w DEF SweepNext
  <2>1. SweepsTyped
    <3>1. sweep \in [Sweepers -> Sweeping] /\ now \in Times /\ sweep[a] \in Sweeping
      BY <1>p, <2>0 DEF Times
    <3>2. CASE sweep' = [sweep EXCEPT ![a] = NoSweep]
      BY <1>p, <3>1, <3>2, NoSweepTyped DEF SweepsTyped
    <3>3. CASE sweep' = [sweep EXCEPT ![a].kind = "activity", ![a].clock = now]
      <4> DEFINE x == [sweep[a] EXCEPT !.kind = "activity", !.clock = now]
      <4>1. sweep' = [sweep EXCEPT ![a] = x]
        BY <3>3
      <4>2. x \in Sweeping
        BY <3>1 DEF Sweeping
      <4> HIDE DEF x
      <4> QED BY <3>1, <4>1, <4>2 DEF SweepsTyped
    <3> QED BY <1>18, <3>2, <3>3 DEF SweepNext
  <2>2. UNCHANGED <<job, jobAt, attempts>>
    BY <2>0 DEF queue
  <2>3. CASE act' = act
    <3>1. ActsTyped
      BY <1>a, <1>p, <2>3 DEF ActsTyped
    <3>2. Wired'
      BY <2>2, <2>3 DEF Typed, Wired
    <3> QED BY <1>c, <1>p, <2>0, <2>1, <2>2, <3>1, <3>2, Unmoved DEF rows
  <2>4. CASE act' = [act EXCEPT ![a] = Idle]
    <3>1. ActsTyped
      BY <1>p, <2>4, ActChange, IdlePlaced
    <3>2. Wired'
      BY <2>0, <2>2, <2>4, IdleFields, Unmoved, WiredBegin DEF Queueing
    <3> QED BY <1>c, <1>p, <2>0, <2>1, <2>2, <3>1, <3>2, Unmoved DEF rows
  <2> QED BY <1>18, <2>3, <2>4 DEF SweepNext
<1>19. CASE Tick
  <2>1. now' \in 1..budget.time
        /\ UNCHANGED <<budget, rows, queue, notified, stale, act, sweep, faults>>
    BY <1>19, <1>p DEF Tick
  <2>2. RowsTyped /\ QueueTyped /\ SweepsTyped
    BY <2>1, Unmoved DEF rows, queue
  <2>3. ActsTyped
    BY <1>a, <1>p, <2>1 DEF ActsTyped
  <2>4. Wired'
    BY <2>1 DEF Typed, Wired, queue
  <2> QED BY <1>p, <2>1, <2>2, <2>3, <2>4, TypedChange DEF Typed
<1>20. ASSUME NEW a \in Actors, Fail(a) PROVE Typed'
  <2>1. /\ Throw(a) /\ act[a] # Idle /\ faults' \in 0..budget.faults
        /\ UNCHANGED <<budget, now, rows, notified, stale>>
    BY <1>20, <1>p DEF Fail
  <2>2. act[a].pc # "idle"
    BY <1>a, <2>1
  <2> QED BY <1>p, <1>t, <2>1, <2>2, Unmoved DEF rows
<1>21. CASE Crash
  <2>0. /\ act' = [a \in Actors |-> Idle] /\ sweep' = [s \in Sweepers |-> NoSweep]
        /\ job' = [p \in Posts |-> IF job[p] = "active" THEN "waiting" ELSE job[p]]
        /\ UNCHANGED <<budget, now, rows, jobAt, attempts, notified, stale>>
        /\ faults' \in 0..budget.faults
    BY <1>21, <1>p DEF Crash
  <2>1. RowsTyped
    BY <2>0, Unmoved DEF rows
  <2>2. QueueTyped /\ SweepsTyped
    BY <1>p, <2>0, NoSweepTyped DEF QueueTyped, SweepsTyped, Jobs
  <2>3. ActsTyped
    BY <1>p, <2>0, IdlePlaced DEF ActsTyped, Placed
  <2>4. Wired'
    BY <1>p, <1>w, <2>0, IdleFields DEF Typed, Wired, Queueing
  <2> QED BY <1>p, <2>0, <2>1, <2>2, <2>3, <2>4, TypedChange DEF Typed
<1>22. ASSUME NEW p \in Posts, LoseJob(p) \/ Trim(p) PROVE Typed'
  <2>0. /\ job' = [job EXCEPT ![p] = "none"] /\ job[p] # "active" /\ faults' \in 0..budget.faults
        /\ UNCHANGED <<budget, now, rows, jobAt, attempts, notified, stale, act, sweep>>
    BY <1>22, <1>p DEF LoseJob, Trim
  <2>1. RowsTyped /\ SweepsTyped
    BY <2>0, Unmoved DEF rows
  <2>2. QueueTyped
    BY <1>p, <2>0 DEF QueueTyped, Jobs
  <2>3. ActsTyped
    BY <1>a, <1>p, <2>0 DEF ActsTyped
  <2>4. \A q \in Posts : job'[q] = IF q = p THEN "none" ELSE job[q]
    BY <1>p, <2>0
  <2>5. \A a \in Workers : act[a].pc # "idle" => act[a].post \in Posts /\ act[a].post # p
    BY <2>0, Working
  <2>6. Wired'
    BY <2>0, <2>4, <2>5 DEF Typed, Wired
  <2> QED BY <1>p, <2>0, <2>1, <2>2, <2>3, <2>6, TypedChange DEF Typed
<1>23. CASE UNCHANGED vars
  <2>1. UNCHANGED <<budget, now, faults, status, sched, pubAt, job, jobAt, attempts, notified, stale,
                    act, sweep>>
    BY <1>23 DEF vars
  <2> QED BY <2>1 DEF Typed, TypeOK, Wired, Times
<1> QED
  BY <1>1, <1>2, <1>3, <1>4, <1>5, <1>6, <1>7, <1>8, <1>9, <1>10, <1>11, <1>12, <1>13, <1>14, <1>15,
     <1>16, <1>17, <1>18, <1>19, <1>20, <1>21, <1>22, <1>23 DEF Next, Step

-----------------------------------------------------------------------------
(***************************************************************************)
(* An announcement that is not published yet was never notified and nobody *)
(* is about to; one actor at most is about to, and then for the first time.*)
(***************************************************************************)
Noting(a, p) == act[a].pc = "note" /\ act[a].post = p
Once(p) ==
  /\ status[p] \in {"none", "draft"} => notified[p] = 0 /\ \A a \in Actors : ~Noting(a, p)
  /\ notified[p] <= 1
  /\ \A a \in Actors : Noting(a, p) => notified[p] = 0
  /\ \A a, b \in Actors : Noting(a, p) /\ Noting(b, p) => a = b
AllOnce == \A p \in Announcements : Once(p)

\* After the step, a is about to notify p.
NotingBy(a, p) == act'[a].pc = "note" /\ act'[a].post = p

\* Nobody new is about to notify p, and p does not become a draft.
LEMMA OnceKept ==
  ASSUME NEW p \in Posts, Once(p), UNCHANGED notified,
         status'[p] \in {"none", "draft"} => status[p] \in {"none", "draft"},
         \A a \in Actors : NotingBy(a, p) => Noting(a, p)
  PROVE  Once(p)'
BY DEF Once, Noting, NotingBy

\* One actor moves, to a place where it notifies nobody.
LEMMA OnceMove ==
  ASSUME Typed, AllOnce, NEW a \in Actors, NEW x, act' = [act EXCEPT ![a] = x], x.pc # "note",
         UNCHANGED notified,
         \A p \in Posts : status'[p] \in {"none", "draft"} => status[p] \in {"none", "draft"}
  PROVE  AllOnce'
<1>1. act \in [Actors -> Doing]
  BY Parts DEF Typed
<1>2. \A b \in Actors, p \in Posts : NotingBy(b, p) => Noting(b, p)
  BY <1>1 DEF Noting, NotingBy
<1> QED BY <1>2, OnceKept DEF AllOnce, Announcements

\* A handler that begins with anything else than the notification.
LEMMA OnceBegin ==
  ASSUME Typed, AllOnce, NEW a \in Actors, NEW pc, pc # "note", NEW op, NEW p, NEW at, NEW first,
         Begin(a, pc, op, p, at, first), UNCHANGED notified,
         \A q \in Posts : status'[q] \in {"none", "draft"} => status[q] \in {"none", "draft"}
  PROVE  AllOnce'
<1> DEFINE x == [pc |-> pc, op |-> op, post |-> p, at |-> at, first |-> first]
<1>1. act' = [act EXCEPT ![a] = x] /\ x.pc = pc
  BY DEF Begin
<1> HIDE DEF x
<1> QED BY <1>1, OnceMove

\* One actor goes on within its handler, elsewhere than to notify.
LEMMA OnceGoto ==
  ASSUME Typed, AllOnce, NEW a \in Actors, NEW pc \in PCs \ {"note"}, Goto(a, pc), UNCHANGED notified,
         \A p \in Posts : status'[p] \in {"none", "draft"} => status[p] \in {"none", "draft"}
  PROVE  AllOnce'
<1>1. act[a] \in Doing
  BY Parts DEF Typed
<1>2. [act[a] EXCEPT !.pc = pc].pc = pc
  BY <1>1 DEF Doing
<1>3. act' = [act EXCEPT ![a] = [act[a] EXCEPT !.pc = pc]]
  BY DEF Goto
<1> QED BY <1>2, <1>3, OnceMove

\* A handler begins, returns or throws.
LEMMA OnceEnds ==
  ASSUME Typed, AllOnce, NEW a \in Actors, UNCHANGED notified,
         \A p \in Posts : status'[p] \in {"none", "draft"} => status[p] \in {"none", "draft"},
         Return(a) \/ Throw(a)
  PROVE  AllOnce'
<1>1. PICK x \in {Idle, [Idle EXCEPT !.pc = "scan"]} : act' = [act EXCEPT ![a] = x]
  BY DEF Return, Throw
<1>2. x.pc # "note"
  BY <1>1 DEF Idle
<1> QED BY <1>1, <1>2, OnceMove

\* An actor that was not about to notify is about to notify p, of which nobody
\* heard and which nobody else is about to notify.
LEMMA OnceNoting ==
  ASSUME Typed, AllOnce, NEW a \in Actors, NEW p \in Posts, NEW x, act' = [act EXCEPT ![a] = x],
         x.post = p, UNCHANGED notified,
         \A q \in Posts : status'[q] \in {"none", "draft"} => status[q] \in {"none", "draft"},
         p \in Announcements => status[p] \in {"none", "draft"} /\ status'[p] = "published"
  PROVE  AllOnce'
<1>1. act \in [Actors -> Doing]
  BY Parts DEF Typed
<1>2. act'[a] = x /\ \A b \in Actors : b # a => act'[b] = act[b]
  BY <1>1
<1> SUFFICES ASSUME NEW q \in Announcements PROVE Once(q)'
  BY DEF AllOnce, Announcements
<1>3. Once(q) /\ q \in Posts
  BY DEF AllOnce, Announcements
<1>4. CASE q # p
  <2>1. \A b \in Actors : NotingBy(b, q) => Noting(b, q)
    BY <1>2, <1>4 DEF Noting, NotingBy
  <2> QED BY <1>3, <2>1, OnceKept
<1>5. CASE q = p
  <2>1. notified[p] = 0 /\ notified'[p] = 0 /\ status'[p] = "published"
        /\ \A b \in Actors : ~Noting(b, p)
    BY <1>3, <1>5 DEF Once
  <2>2. \A b \in Actors : b # a => ~NotingBy(b, p)
    BY <1>2, <2>1 DEF Noting, NotingBy
  <2>3. \A b \in Actors : (act'[b].pc = "note" /\ act'[b].post = p) => b = a
    BY <2>2 DEF NotingBy
  <2> QED BY <1>5, <2>1, <2>3 DEF Once, Noting
<1> QED BY <1>4, <1>5

\* Nothing is published, and nobody is about to notify.
LEMMA OnceInit == Init => AllOnce
BY IdleFields DEF Init, AllOnce, Once, Noting, Announcements

\* Every step keeps it: only a publication, or a post that is created live, sends an
\* actor to notify, and both leave the status of a draft behind.
LEMMA OnceStep == Typed /\ AllOnce /\ [Next]_vars => AllOnce'
<1> SUFFICES ASSUME Typed, AllOnce, [Next]_vars PROVE AllOnce'
  OBVIOUS
<1>p. /\ act \in [Actors -> Doing] /\ status \in [Posts -> Statuses] /\ notified \in [Posts -> Nat]
      /\ \A a \in Actors : /\ act[a] \in Doing
                            /\ act[a].pc \notin {"idle", "scan"} => act[a].post \in Posts
  BY Parts DEF Typed, Placed
<1>s. UNCHANGED status => \A q \in Posts : status'[q] \in {"none", "draft"}
          => status[q] \in {"none", "draft"}
  OBVIOUS
<1>u. ASSUME UNCHANGED <<act, status, notified>> PROVE AllOnce'
  <2>1. \A a \in Actors, q \in Posts : NotingBy(a, q) => Noting(a, q)
    BY <1>u DEF Noting, NotingBy
  <2> QED BY <1>s, <1>u, <2>1, OnceKept DEF AllOnce, Announcements
<1>1. ASSUME NEW a \in Actors, NEW p \in Posts, Create(a, p) PROVE AllOnce'
  <2>0. a \in Staff /\ act[a] = Idle /\ status[p] = "none" /\ UNCHANGED notified
    BY <1>1 DEF Create
  <2>1. PICK at \in {0} \cup (now + 1)..budget.time, publish \in BOOLEAN :
          LET live == publish /\ at = 0
              seen == live \/ Kind[p] = "announcement"
          IN
          /\ status' = [status EXCEPT ![p] = IF live THEN "published" ELSE "draft"]
          /\ CASE at # 0 -> Begin(a, "getJob", "create", p, at, TRUE)
               [] live -> Begin(a, "note", "create", p, at, TRUE)
               [] at = 0 /\ seen /\ ~live -> Begin(a, "emit", "create", p, at, TRUE)
               [] OTHER -> act' = act
    BY <1>1 DEF Create
  <2>2. \A q \in Posts : status'[q] \in {"none", "draft"} => status[q] \in {"none", "draft"}
    BY <1>p, <2>0, <2>1
  <2>3. ASSUME NEW pc \in {"getJob", "emit"}, Begin(a, pc, "create", p, at, TRUE) PROVE AllOnce'
    BY <2>0, <2>2, <2>3, OnceBegin
  <2>4. ASSUME publish /\ at = 0, Begin(a, "note", "create", p, at, TRUE) PROVE AllOnce'
    <3> DEFINE x == [pc |-> "note", op |-> "create", post |-> p, at |-> at, first |-> TRUE]
    <3>1. act' = [act EXCEPT ![a] = x] /\ x.post = p
      BY <2>4 DEF Begin
    <3>2. status'[p] = "published"
      BY <1>p, <2>1, <2>4
    <3> QED BY <2>0, <2>2, <3>1, <3>2, OnceNoting
  <2>5. ASSUME act' = act PROVE AllOnce'
    <3>1. act' = [act EXCEPT ![a] = Idle]
      BY <1>p, <2>0, <2>5
    <3>2. Idle.pc # "note"
      BY IdleFields
    <3> QED BY <2>0, <2>2, <3>1, <3>2, OnceMove
  <2> QED BY <2>1, <2>3, <2>4, <2>5
<1>2. ASSUME NEW a \in Actors, NEW p \in Posts, Update(a, p) PROVE AllOnce'
  <2>1. PICK at \in {Keep, 0} \cup (now + 1)..budget.time :
          Begin(a, IF at = Keep THEN "save" ELSE "getJob", "update", p, at, FALSE)
    BY <1>2 DEF Update
  <2>2. UNCHANGED <<notified, status>>
    BY <1>2 DEF Update, rows
  <2> QED BY <1>s, <2>1, <2>2, OnceBegin
<1>3. ASSUME NEW a \in Actors, NEW p \in Posts, Publish(a, p) PROVE AllOnce'
  <2>1. Begin(a, "pub", "publish", p, 0, ~pubAt[p]) /\ UNCHANGED <<notified, status>>
    BY <1>3 DEF Publish, rows
  <2> QED BY <1>s, <2>1, OnceBegin
<1>4. ASSUME NEW a \in Actors, NEW p \in Posts, Cancel(a, p) PROVE AllOnce'
  <2>1. Begin(a, "cancel", "cancel", p, 0, FALSE) /\ UNCHANGED <<notified, status>>
    BY <1>4 DEF Cancel, rows
  <2> QED BY <1>s, <2>1, OnceBegin
<1>5. ASSUME NEW a \in Actors, NEW p \in Posts, Remove(a, p) PROVE AllOnce'
  <2>1. Begin(a, "emit", "delete", p, 0, FALSE) /\ UNCHANGED notified
        /\ status' = [status EXCEPT ![p] = "deleted"]
    BY <1>5 DEF Remove
  <2>2. \A q \in Posts : status'[q] \in {"none", "draft"} => status[q] \in {"none", "draft"}
    BY <1>p, <2>1
  <2> QED BY <2>1, <2>2, OnceBegin
<1>6. ASSUME NEW a \in Actors, GetJob(a) PROVE AllOnce'
  <2>1. PICK pc \in {"remove", "save", "add"} : Goto(a, pc)
    BY <1>6 DEF GetJob
  <2>2. UNCHANGED <<notified, status>>
    BY <1>6 DEF GetJob, rows
  <2> QED BY <1>s, <2>1, <2>2, OnceGoto DEF PCs
<1>7. ASSUME NEW a \in Actors, RemoveJob(a) PROVE AllOnce'
  <2>1. UNCHANGED <<notified, status>>
    BY <1>7 DEF RemoveJob, rows
  <2>2. CASE Throw(a)
    BY <1>s, <2>1, <2>2, OnceEnds
  <2>3. ASSUME NEW pc \in {"save", "add"}, Goto(a, pc) PROVE AllOnce'
    BY <1>s, <2>1, <2>3, OnceGoto DEF PCs
  <2> QED BY <1>7, <2>2, <2>3 DEF RemoveJob
<1>8. ASSUME NEW a \in Actors, AddJob(a) PROVE AllOnce'
  <2>1. UNCHANGED <<notified, status>>
    BY <1>8 DEF AddJob, rows
  <2> DEFINE y == CASE act[a].op = "update" -> [act[a] EXCEPT !.pc = "save"]
                    [] act[a].op = "create" /\ act[a].post \in Announcements
                        -> [act[a] EXCEPT !.pc = "emit"]
                    [] act[a].op = "create" /\ act[a].post \in Activities -> Idle
                    [] OTHER -> [Idle EXCEPT !.pc = "scan"]
  <2>2. act' = [act EXCEPT ![a] = y]
    BY <1>8 DEF AddJob
  <2>3. y \in {[act[a] EXCEPT !.pc = "save"], [act[a] EXCEPT !.pc = "emit"], Idle,
              [Idle EXCEPT !.pc = "scan"]}
    OBVIOUS
  <2> HIDE DEF y
  <2>4. y.pc # "note"
    BY <1>p, <2>3 DEF Doing, Idle
  <2> QED BY <1>s, <2>1, <2>2, <2>4, OnceMove
<1>9. ASSUME NEW a \in Actors, Save(a) PROVE AllOnce'
  <2>1. UNCHANGED <<notified, status>> /\ (Throw(a) \/ Goto(a, "emit"))
    BY <1>9 DEF Save
  <2> QED BY <1>s, <2>1, OnceEnds, OnceGoto DEF PCs
<1>10. ASSUME NEW a \in Actors, CancelRow(a) PROVE AllOnce'
  <2>1. UNCHANGED notified /\ Goto(a, "emit") /\ status' = [status EXCEPT ![act[a].post] = "cancelled"]
    BY <1>10 DEF CancelRow
  <2>2. \A q \in Posts : status'[q] \in {"none", "draft"} => status[q] \in {"none", "draft"}
    BY <1>p, <2>1
  <2> QED BY <2>1, <2>2, OnceGoto DEF PCs
<1>11. ASSUME NEW a \in Actors, ReadScheduled(a) PROVE AllOnce'
  <2>1. UNCHANGED <<notified, status>>
    BY <1>11 DEF ReadScheduled, rows
  <2>2. CASE Return(a)
    BY <1>s, <2>1, <2>2, OnceEnds
  <2>3. CASE act' = [act EXCEPT ![a].pc = "pub", ![a].first = ~pubAt[act[a].post]]
    <3> DEFINE x == [act[a] EXCEPT !.pc = "pub", !.first = ~pubAt[act[a].post]]
    <3>1. act' = [act EXCEPT ![a] = x]
      BY <2>3
    <3>2. x.pc = "pub"
      BY <1>p DEF Doing
    <3> HIDE DEF x
    <3> QED BY <1>s, <2>1, <3>1, <3>2, OnceMove
  <2> QED BY <1>11, <2>2, <2>3 DEF ReadScheduled
<1>12. ASSUME NEW a \in Actors, PublishRow(a) PROVE AllOnce'
  <2> DEFINE p == act[a].post
  <2>0. act[a].pc = "pub" /\ UNCHANGED notified /\ p \in Posts
    BY <1>12, <1>p DEF PublishRow
  <2>1. CASE Publishes(p)
    <3>1. /\ status' = [status EXCEPT ![p] = "published"]
          /\ Goto(a, IF act[a].first \/ p \in Activities THEN "note" ELSE "emit")
      BY <1>12, <2>1 DEF PublishRow
    <3>2. \A q \in Posts : status'[q] \in {"none", "draft"} => status[q] \in {"none", "draft"}
      BY <1>p, <3>1
    <3>3. p \in Announcements => status[p] \in {"none", "draft"} /\ status'[p] = "published"
      BY <1>p, <2>0, <2>1, <3>1 DEF Publishes, Announcements
    <3>4. CASE Goto(a, "note")
      <4> DEFINE x == [act[a] EXCEPT !.pc = "note"]
      <4>1. act' = [act EXCEPT ![a] = x]
        BY <3>4 DEF Goto
      <4>2. x.post = p
        BY <1>p DEF Doing
      <4> HIDE DEF x, p
      <4> QED BY <2>0, <3>2, <3>3, <4>1, <4>2, OnceNoting
    <3>5. CASE Goto(a, "emit")
      BY <2>0, <3>2, <3>5, OnceGoto DEF PCs
    <3>6. CASE act[a].first \/ p \in Activities
      BY <3>1, <3>4, <3>6
    <3>7. CASE ~(act[a].first \/ p \in Activities)
      BY <3>1, <3>5, <3>7
    <3> QED BY <3>6, <3>7
  <2>2. CASE ~Publishes(p)
    <3>1. Return(a) /\ UNCHANGED status
      BY <1>12, <2>2 DEF PublishRow, rows
    <3> QED BY <1>s, <2>0, <3>1, OnceEnds
  <2> QED BY <2>1, <2>2
\* The one actor that was about to notify has done so.
<1>13. ASSUME NEW a \in Actors, Notify(a) PROVE AllOnce'
  <2> DEFINE p == act[a].post
  <2>0. /\ act[a].pc = "note" /\ notified' = [notified EXCEPT ![p] = @ + 1] /\ UNCHANGED status
        /\ act' = [act EXCEPT ![a] = [act[a] EXCEPT !.pc = "emit"]] /\ p \in Posts
    BY <1>13, <1>p DEF Notify, Goto, rows
  <2>1. act'[a].pc = "emit" /\ \A b \in Actors : b # a => act'[b] = act[b]
    BY <1>p, <2>0 DEF Doing
  <2>2. \A b \in Actors, q \in Posts : NotingBy(b, q) => Noting(b, q) /\ b # a
    BY <2>1 DEF Noting, NotingBy
  <2>3. ASSUME NEW q \in Announcements PROVE Once(q)'
    <3>1. Once(q) /\ q \in Posts
      BY DEF AllOnce, Announcements
    <3>2. CASE q = p
      <4>1. Noting(a, q)
        BY <2>0, <3>2 DEF Noting
      <4>2. notified'[q] = 1 /\ status'[q] \notin {"none", "draft"}
        BY <1>p, <2>0, <3>1, <3>2, <4>1 DEF Once
      <4>3. \A b \in Actors : ~(act'[b].pc = "note" /\ act'[b].post = q)
        BY <2>2, <3>1, <4>1 DEF Once, NotingBy
      <4> QED BY <4>2, <4>3 DEF Once, Noting
    <3>3. CASE q # p
      <4>1. notified'[q] = notified[q]
        BY <1>p, <2>0, <3>1, <3>3
      <4>2. \A b \in Actors : (act'[b].pc = "note" /\ act'[b].post = q) => Noting(b, q)
        BY <2>2, <3>1 DEF NotingBy
      <4> QED BY <2>0, <3>1, <4>1, <4>2 DEF Once, Noting
    <3> QED BY <3>2, <3>3
  <2> QED BY <2>3 DEF AllOnce, Announcements
<1>14. ASSUME NEW a \in Actors, Emit(a) PROVE AllOnce'
  <2>1. UNCHANGED <<notified, status>> /\ (Throw(a) \/ Return(a))
    BY <1>14 DEF Emit, rows
  <2> QED BY <1>s, <2>1, OnceEnds
<1>15. ASSUME NEW a \in Actors, NEW p \in Posts, TakeJob(a, p) PROVE AllOnce'
  <2>1. Begin(a, "read", "scheduled", p, 0, FALSE) /\ UNCHANGED <<notified, status>>
    BY <1>15 DEF TakeJob, rows
  <2> QED BY <1>s, <2>1, OnceBegin
<1>16. ASSUME NEW a \in Actors, SweepReads(a) PROVE AllOnce'
  <2>1. Goto(a, "scan") /\ UNCHANGED <<notified, status>>
    BY <1>16 DEF SweepReads, rows
  <2> QED BY <1>s, <2>1, OnceGoto DEF PCs
<1>17. ASSUME NEW a \in Actors, SweepRow(a) PROVE AllOnce'
  <2>1. PICK r \in OfKind(a) :
          IF r.at <= sweep[a].clock THEN Begin(a, "read", "scheduled", r.post, 0, FALSE)
          ELSE IF job[r.post] = "none" THEN Begin(a, "getJob", "scheduled", r.post, r.at, FALSE)
          ELSE act' = act
    BY <1>17 DEF SweepRow
  <2>2. UNCHANGED <<notified, status>>
    BY <1>17 DEF SweepRow, rows
  <2>3. CASE Begin(a, "read", "scheduled", r.post, 0, FALSE)
    BY <1>s, <2>2, <2>3, OnceBegin
  <2>4. CASE Begin(a, "getJob", "scheduled", r.post, r.at, FALSE)
    BY <1>s, <2>2, <2>4, OnceBegin
  <2> QED BY <1>u, <2>1, <2>2, <2>3, <2>4
<1>18. ASSUME NEW a \in Actors, SweepNext(a) PROVE AllOnce'
  <2>1. UNCHANGED <<notified, status>> /\ (act' = act \/ act' = [act EXCEPT ![a] = Idle])
    BY <1>18 DEF SweepNext, rows
  <2> QED BY <1>s, <1>u, <2>1, IdleFields, OnceMove
<1>19. ASSUME NEW a \in Actors, Fail(a) PROVE AllOnce'
  <2>1. Throw(a) /\ UNCHANGED <<notified, status>>
    BY <1>19 DEF Fail, rows
  <2> QED BY <1>s, <2>1, OnceEnds
<1>20. CASE Crash
  <2>1. act' = [a \in Actors |-> Idle] /\ UNCHANGED <<notified, status>>
    BY <1>20 DEF Crash, rows
  <2>2. \A a \in Actors, q \in Posts : NotingBy(a, q) => Noting(a, q)
    BY <2>1, IdleFields DEF NotingBy
  <2> QED BY <1>s, <2>1, <2>2, OnceKept DEF AllOnce, Announcements
<1>21. CASE Tick \/ (\E p \in Posts : LoseJob(p) \/ Trim(p)) \/ UNCHANGED vars
  <2>1. UNCHANGED <<act, status, notified>>
    BY <1>21 DEF Tick, LoseJob, Trim, rows, vars
  <2> QED BY <1>u, <2>1
<1> QED
  BY <1>1, <1>2, <1>3, <1>4, <1>5, <1>6, <1>7, <1>8, <1>9, <1>10, <1>11, <1>12, <1>13, <1>14, <1>15,
     <1>16, <1>17, <1>18, <1>19, <1>20, <1>21 DEF Next, Step

-----------------------------------------------------------------------------
(***************************************************************************)
(* What is over is done.  While no handler failed: a published post was    *)
(* notified or is about to be, and an announcement whose cached lists are  *)
(* behind has somebody who will drop them.                                 *)
(*                                                                         *)
(* The hard case is a creation that queues its job while the sweep, a      *)
(* worker and another request are at the same post: it throws when the     *)
(* worker has the job, and it is then the worker that must drop the lists, *)
(* which it does because nobody moved the schedule: who saves another time *)
(* drops the lists himself.                                                *)
(***************************************************************************)
About(x, p) == x.pc \notin {"idle", "scan"} /\ x.post = p
Emitting(x, p) == x.pc \in {"note", "emit"} /\ x.post = p

\* Nobody knows of a row that is not there yet.
Unborn(p) ==
  status[p] = "none" =>
    /\ job[p] = "none"
    /\ \A a \in Actors : ~About(act[a], p)
    /\ \A s \in Sweepers : \A r \in sweep[s].rows : r.post # p

\* A job that runs is in the hands of a worker.
Held(p) == job[p] = "active" => \E w \in Workers : About(act[w], p)

\* What is not published never was.
NewIs(p) == status[p] \in {"none", "draft"} => ~pubAt[p]

Heard(p) == status[p] = "published" /\ notified[p] = 0 => \E a \in Actors : Noting(a, p)

\* The lists are behind and nobody is about to drop them.
Behind(p) == stale[p] /\ \A a \in Actors : ~Emitting(act[a], p)

\* Somebody will write the row, and drop the lists after it.
Saving(p) == \E a \in Actors : act[a].pc = "save" /\ act[a].post = p

\* Somebody will publish the draft, or the creation is still queueing its job.
Comes(x, a, p) ==
  /\ x.post = p
  /\ \/ x.pc = "pub"
     \/ x.pc \in Queueing /\ x.op = "create"
     \/ x.pc = "read" /\ a \in Workers
Coming(p) == \E a \in Actors : Comes(act[a], a, p)

\* A job that may run, or runs, does so when the draft is due.
Fits(p) ==
  /\ job[p] = "waiting" => jobAt[p] >= sched[p]
  /\ \A w \in Workers : act[w].pc = "read" /\ act[w].post = p => sched[p] <= now

\* A sweep knows the schedule.
Agreed(p) ==
  \A s \in Sweepers :
    /\ \A r \in sweep[s].rows : r.post = p => r.at = sched[p]
    /\ act[s].pc \in Queueing /\ act[s].post = p => act[s].at = sched[p]

Fresh(p) ==
  Behind(p) => /\ status[p] = "draft" /\ sched[p] # 0
               /\ Agreed(p)
               /\ Saving(p) \/ (Fits(p) /\ Coming(p))

Tended(p) == Unborn(p) /\ Held(p) /\ NewIs(p) /\ Heard(p) /\ (p \in Announcements => Fresh(p))

\* Who publishes does it for the first time; who queues and is no sweep is a
\* request that creates or updates.
Fit(x, a) ==
  /\ x.pc = "pub" => x.first
  /\ x.pc \in Queueing => a \in Sweepers \/ x.op \in {"create", "update"}

Good == (\A p \in Posts : Tended(p)) /\ (\A a \in Actors : Fit(act[a], a))

\* A step of a, about p alone.
Only(a, p) ==
  /\ now' >= now
  /\ \A q \in Posts \ {p} :
       /\ status'[q] = status[q] /\ sched'[q] = sched[q] /\ pubAt'[q] = pubAt[q]
       /\ job'[q] = job[q] /\ jobAt'[q] = jobAt[q]
       /\ notified'[q] = notified[q] /\ stale'[q] = stale[q]
  /\ \A x \in Actors \ {a} : act'[x] = act[x]
  /\ \A q \in Posts \ {p} : ~About(act[a], q) /\ ~About(act'[a], q)
  /\ \A s \in Sweepers : sweep'[s].rows \subseteq sweep[s].rows

LEMMA Kinds3 == Workers \subseteq Actors /\ Sweepers \subseteq Actors /\ Staff \subseteq Actors
                /\ Workers \cap Sweepers = {} /\ Staff \cap Workers = {} /\ Staff \cap Sweepers = {}
BY ActorsDisjoint DEF Actors

\* A post that a step is not about stays tended.
LEMMA Elsewhere ==
  ASSUME Typed, Typed', NEW q \in Posts, Tended(q), now' >= now,
         status'[q] = status[q], sched'[q] = sched[q], pubAt'[q] = pubAt[q],
         job'[q] = job[q], jobAt'[q] = jobAt[q], notified'[q] = notified[q], stale'[q] = stale[q],
         \A x \in Actors : act'[x] = act[x] \/ (~About(act[x], q) /\ ~About(act'[x], q)),
         \A s \in Sweepers : \A r \in sweep'[s].rows :
           r.post = q => r \in sweep[s].rows \/ (status[q] = "draft" /\ r.at = sched[q])
  PROVE  Tended(q)'
<1>1. \A x \in Actors : /\ Emitting(act'[x], q) <=> Emitting(act[x], q)
                        /\ Comes(act[x], x, q) => Comes(act'[x], x, q)
  BY DEF About, Emitting, Comes, Queueing
<1>2. Unborn(q)'
  BY DEF Tended, Unborn
<1>3. Held(q)' /\ NewIs(q)'
  BY Kinds3 DEF Tended, Held, NewIs
<1>4. Heard(q)'
  BY DEF Tended, Heard, Noting, About
<1>5. ASSUME q \in Announcements, Behind(q)' PROVE Fresh(q)'
  <2>1. Behind(q)
    BY <1>1, <1>5 DEF Behind
  <2>2. /\ status[q] = "draft" /\ sched[q] # 0 /\ Agreed(q)
        /\ Saving(q) \/ (Fits(q) /\ Coming(q))
    BY <1>5, <2>1 DEF Tended, Fresh
  <2>3. Agreed(q)'
    BY <2>2, Kinds3 DEF Agreed, About, Queueing
  <2>4. Saving(q) => Saving(q)'
    BY DEF Saving, About
  <2>5. Coming(q) => Coming(q)'
    BY <1>1 DEF Coming
  <2>6. Fits(q) => Fits(q)'
    <3> SUFFICES ASSUME Fits(q) PROVE Fits(q)'
      OBVIOUS
    <3>1. sched[q] \in Nat /\ now \in Nat /\ now' \in Nat
      BY Parts DEF Typed, Times, TypeOK
    <3> QED
      BY <3>1, Kinds3 DEF Fits, About
  <2> QED
    BY <2>2, <2>3, <2>4, <2>5, <2>6 DEF Fresh
<1> QED
  BY <1>2, <1>3, <1>4, <1>5 DEF Tended, Fresh

\* A step about p alone, which leaves p tended.
LEMMA OnlyStep ==
  ASSUME Typed, Typed', Good, NEW a \in Actors, NEW p \in Posts, Only(a, p), Tended(p)',
         Fit(act'[a], a)
  PROVE  Good'
<1>1. ASSUME NEW q \in Posts, q # p PROVE Tended(q)'
  BY <1>1, Elsewhere DEF Good, Only
<1>2. \A b \in Actors : Fit(act[b], b)'
  BY DEF Good, Only, Fit
<1> QED
  BY <1>1, <1>2 DEF Good

\* The fields of an actor that goes on, begins, returns or throws.
LEMMA GotoFields ==
  ASSUME TypeOK, NEW a \in Actors, NEW pc, Goto(a, pc)
  PROVE  /\ act'[a].pc = pc /\ act'[a].op = act[a].op /\ act'[a].post = act[a].post
         /\ act'[a].at = act[a].at /\ act'[a].first = act[a].first
         /\ \A x \in Actors \ {a} : act'[x] = act[x]
BY Parts DEF Goto, Doing

LEMMA BeginFields ==
  ASSUME TypeOK, NEW a \in Actors, NEW pc, NEW op, NEW p, NEW at, NEW first,
         Begin(a, pc, op, p, at, first)
  PROVE  /\ act'[a].pc = pc /\ act'[a].op = op /\ act'[a].post = p
         /\ act'[a].at = at /\ act'[a].first = first
         /\ \A x \in Actors \ {a} : act'[x] = act[x]
BY Parts DEF Begin

LEMMA EndFields ==
  ASSUME TypeOK, NEW a \in Actors, Return(a) \/ Throw(a)
  PROVE  act'[a].pc \in {"idle", "scan"} /\ \A x \in Actors \ {a} : act'[x] = act[x]
BY Parts DEF Return, Throw, Idle

LEMMA NoSweepRows ==
  ASSUME TypeOK, NEW a \in Actors, Return(a) \/ Throw(a) \/ UNCHANGED sweep
  PROVE  \A s \in Sweepers : sweep'[s].rows \subseteq sweep[s].rows
<1>1. NoSweep.rows = {}
  BY DEF NoSweep
<1> QED
  BY <1>1, Parts DEF Return, Throw

\* What is idle or between two rows is about no post.
LEMMA NotAbout ==
  ASSUME NEW x, x.pc \in {"idle", "scan"}
  PROVE  \A q \in Posts : ~About(x, q)
BY DEF About

-----------------------------------------------------------------------------
LEMMA IdleNotAbout == Idle.pc = "idle"
BY DEF Idle

LEMMA GoodInit == Init => Good
BY IdleNotAbout, Kinds3 DEF Init, Good, Tended, Unborn, Held, NewIs, Heard, Fresh, Behind, About,
   Fit, NoSweep, Queueing

(* A new row.                                                              *)
LEMMA CreateTends ==
  ASSUME Typed, Typed', Good, NEW a \in Actors, NEW p \in Posts, Create(a, p)
  PROVE  Good'
<1>1. /\ a \in Staff /\ a \notin Workers /\ a \notin Sweepers
      /\ act[a].pc = "idle" /\ status[p] = "none"
      /\ UNCHANGED <<now, queue, notified, sweep>>
  BY Kinds3, IdleNotAbout DEF Create
<1>2. /\ job[p] = "none"
      /\ \A x \in Actors : ~About(act[x], p)
      /\ \A s \in Sweepers : \A r \in sweep[s].rows : r.post # p
  BY <1>1 DEF Good, Tended, Unborn
<1>3. PICK at \in {0} \cup (now + 1)..budget.time, publish \in BOOLEAN :
        LET live == publish /\ at = 0
            seen == live \/ Kind[p] = "announcement"
        IN
        /\ status' = [status EXCEPT ![p] = IF live THEN "published" ELSE "draft"]
        /\ sched' = [sched EXCEPT ![p] = at]
        /\ pubAt' = [pubAt EXCEPT ![p] = live /\ Kind[p] = "announcement"]
        /\ stale' = [stale EXCEPT ![p] = seen]
        /\ CASE at # 0 -> Begin(a, "getJob", "create", p, at, TRUE)
             [] live -> Begin(a, "note", "create", p, at, TRUE)
             [] at = 0 /\ seen /\ ~live -> Begin(a, "emit", "create", p, at, TRUE)
             [] OTHER -> act' = act
  BY DEF Create
<1> DEFINE live == publish /\ at = 0
           seen == live \/ Kind[p] = "announcement"
<1>4. /\ status'[p] = IF live THEN "published" ELSE "draft"
      /\ sched'[p] = at
      /\ ~live => ~pubAt'[p]
      /\ \A q \in Posts \ {p} : /\ status'[q] = status[q] /\ sched'[q] = sched[q]
                                /\ pubAt'[q] = pubAt[q] /\ stale'[q] = stale[q]
  BY <1>3, Parts DEF Typed
<1>5. stale'[p] = seen
  BY <1>3, Parts DEF Typed
<1>6. \A x \in Actors \ {a} : act'[x] = act[x]
  BY <1>3, BeginFields DEF Typed
<1>7. \/ /\ at # 0 /\ act'[a].pc = "getJob" /\ act'[a].op = "create" /\ act'[a].post = p
      \/ /\ live /\ act'[a].pc = "note" /\ act'[a].post = p
      \/ /\ at = 0 /\ ~live /\ act'[a].pc = "emit" /\ act'[a].post = p
      \/ /\ ~seen /\ act'[a] = act[a]
  <2>1. CASE at # 0
    <3>1. ~(publish /\ at = 0)
      BY <2>1
    <3>2. (CASE at # 0 -> Begin(a, "getJob", "create", p, at, TRUE)
            [] live -> Begin(a, "note", "create", p, at, TRUE)
            [] at = 0 /\ seen /\ ~live -> Begin(a, "emit", "create", p, at, TRUE)
            [] OTHER -> act' = act)
      BY <1>3
    <3>3. Begin(a, "getJob", "create", p, at, TRUE)
      BY <2>1, <3>1, <3>2
    <3> QED
      BY <2>1, <3>3, BeginFields DEF Typed
  <2>2. CASE live
    <3>1. Begin(a, "note", "create", p, at, TRUE)
      BY <1>3, <2>2
    <3> QED
      BY <2>2, <3>1, BeginFields DEF Typed
  <2>3. CASE at = 0 /\ ~live /\ seen
    <3>1. Begin(a, "emit", "create", p, at, TRUE)
      BY <1>3, <2>3
    <3> QED
      BY <2>3, <3>1, BeginFields DEF Typed
  <2>4. CASE at = 0 /\ ~seen
    BY <1>3, <2>4
  <2> QED
    BY <2>1, <2>2, <2>3, <2>4
<1>8. now \in Nat /\ now' >= now
  BY <1>1, Parts DEF Typed
<1>9. Only(a, p)
  BY <1>1, <1>4, <1>6, <1>7, <1>8, NotAbout DEF Only, About, queue
<1>10. Fit(act'[a], a)
  BY <1>7 DEF Fit, Queueing, Good
<1>11. p \in Announcements => Kind[p] = "announcement"
  BY DEF Announcements
<1> HIDE DEF live, seen
<1>12. Unborn(p)' /\ Held(p)' /\ NewIs(p)' /\ Heard(p)'
  <2>1. status'[p] # "none" /\ job'[p] = "none"
    BY <1>1, <1>2, <1>4 DEF queue
  <2>2. Unborn(p)' /\ Held(p)'
    BY <2>1 DEF Unborn, Held
  <2>3. NewIs(p)'
    BY <1>4 DEF NewIs
  <2>4. Heard(p)'
    BY <1>4, <1>7 DEF Heard, Noting, live, seen
  <2> QED
    BY <2>2, <2>3, <2>4
<1>13. ASSUME p \in Announcements, Behind(p)' PROVE Fresh(p)'
  <2>1. seen
    BY <1>11, <1>13 DEF seen
  <2>2. at # 0 /\ act'[a].pc = "getJob" /\ act'[a].op = "create" /\ act'[a].post = p
    BY <1>7, <1>13, <2>1 DEF Behind, Emitting
  <2>3. ~live
    BY <2>2 DEF live
  <2>4. Agreed(p)'
    BY <1>1, <1>2, <1>6, Kinds3 DEF Agreed, About, Queueing
  <2>5. Fits(p)'
    BY <1>1, <1>2, <1>6, Kinds3 DEF Fits, About, queue
  <2>6. Coming(p)'
    BY <2>2 DEF Coming, Comes, Queueing
  <2> QED
    BY <1>4, <2>2, <2>3, <2>4, <2>5, <2>6 DEF Fresh
<1>14. Tended(p)'
  BY <1>12, <1>13 DEF Tended, Fresh
<1> QED
  BY <1>9, <1>10, <1>14, OnlyStep

\* Workers are about the post of a job that runs, and do four things to it.
LEMMA AtPost ==
  ASSUME Typed, NEW a \in Actors, act[a].pc \notin {"idle", "scan"}
  PROVE  /\ act[a].post \in Posts /\ About(act[a], act[a].post)
         /\ \A q \in Posts \ {act[a].post} : ~About(act[a], q)
         /\ act[a].pc \notin AtWork => a \notin Workers
         /\ Good => status[act[a].post] # "none"
<1>1. act[a].post \in Posts
  BY Parts DEF Typed, Placed
<1>2. act[a].pc \notin AtWork => a \notin Workers
  BY DEF Typed, Wired
<1> QED
  BY <1>1, <1>2 DEF About, Good, Tended, Unborn

\* A step of a that writes neither the row nor its notification.
LEMMA SteadyStep ==
  ASSUME Typed, Typed', Good, NEW a \in Actors, NEW p \in Posts, Only(a, p),
         Fit(act'[a], a), status[p] # "none",
         status'[p] = status[p], pubAt'[p] = pubAt[p], notified'[p] = notified[p],
         stale'[p] = stale[p],
         act[a].pc \notin {"note", "emit"} \/ ~About(act[a], p),
         job'[p] = "active" => \E w \in Workers : About(act'[w], p),
         p \in Announcements /\ Behind(p) =>
           sched'[p] = sched[p] /\ Agreed(p)' /\ (Saving(p)' \/ (Fits(p)' /\ Coming(p)'))
  PROVE  Good'
<1>1. Unborn(p)' /\ NewIs(p)' /\ Held(p)'
  BY DEF Good, Tended, Unborn, NewIs, Held
<1>2. Heard(p)'
  <2> SUFFICES ASSUME status'[p] = "published", notified'[p] = 0 PROVE \E b \in Actors : Noting(b, p)'
    BY DEF Heard
  <2>1. PICK b \in Actors : Noting(b, p)
    BY DEF Good, Tended, Heard
  <2>2. b # a
    BY <2>1 DEF Noting, About
  <2> QED
    BY <2>1, <2>2 DEF Noting, Only
<1>3. ASSUME p \in Announcements, Behind(p)' PROVE Fresh(p)'
  <2>1. \A x \in Actors : Emitting(act[x], p) => Emitting(act'[x], p)
    BY DEF Only, Emitting, About
  <2>2. Behind(p)
    BY <1>3, <2>1 DEF Behind
  <2> QED
    BY <1>3, <2>2 DEF Good, Tended, Fresh
<1>4. Tended(p)'
  BY <1>1, <1>2, <1>3 DEF Tended, Fresh
<1> QED
  BY <1>4, OnlyStep

\* A step of a that drops the lists in the end.
LEMMA EmittingStep ==
  ASSUME Typed, Typed', Good, NEW a \in Actors, NEW p \in Posts, Only(a, p),
         status'[p] # "none", Emitting(act'[a], p),
         job'[p] = "active" => \E w \in Workers : About(act'[w], p),
         NewIs(p)', Heard(p)'
  PROVE  Good'
<1>1. Unborn(p)' /\ Held(p)' /\ Fresh(p)'
  BY DEF Unborn, Held, Fresh, Behind
<1>2. Fit(act'[a], a)
  BY DEF Emitting, Fit, Queueing
<1> QED
  BY <1>1, <1>2, OnlyStep DEF Tended

(* The requests that only read before they begin.                          *)
LEMMA RequestTends ==
  ASSUME Typed, Typed', Good, NEW a \in Actors, NEW p \in Posts,
         Update(a, p) \/ Publish(a, p) \/ Cancel(a, p)
  PROVE  Good'
<1>1. /\ a \in Staff /\ a \notin Workers /\ a \notin Sweepers /\ act[a].pc = "idle"
      /\ status[p] \in {"draft", "published"}
      /\ UNCHANGED <<now, status, sched, pubAt, job, jobAt, notified, stale, sweep>>
  <2>1. a \in Staff /\ act[a] = Idle
    BY DEF Update, Publish, Cancel
  <2>2. status[p] \in {"draft", "published"}
    BY DEF Update, Publish, Cancel
  <2> QED
    BY <2>1, <2>2, Kinds3, IdleNotAbout DEF Update, Publish, Cancel, rows, queue
<1>2. /\ \A x \in Actors \ {a} : act'[x] = act[x]
      /\ act'[a].post = p
      /\ \/ act'[a].pc \in {"save", "getJob"} /\ act'[a].op = "update"
         \/ act'[a].pc = "pub" /\ act'[a].first
         \/ act'[a].pc = "cancel"
  <2>1. CASE Update(a, p)
    <3>1. \E at, pc : Begin(a, pc, "update", p, at, FALSE) /\ pc \in {"save", "getJob"}
      BY <2>1 DEF Update
    <3>2. PICK at, pc : Begin(a, pc, "update", p, at, FALSE) /\ pc \in {"save", "getJob"}
      BY <3>1
    <3>3. Begin(a, pc, "update", p, at, FALSE)
      BY <3>2
    <3>4. /\ act'[a].pc = pc /\ act'[a].op = "update" /\ act'[a].post = p
          /\ \A x \in Actors \ {a} : act'[x] = act[x]
      BY <3>3, BeginFields DEF Typed
    <3> QED
      BY <3>2, <3>4
  <2>2. CASE Publish(a, p)
    <3>1. Begin(a, "pub", "publish", p, 0, ~pubAt[p]) /\ status[p] = "draft"
      BY <2>2 DEF Publish
    <3>2. ~pubAt[p]
      BY <3>1 DEF Good, Tended, NewIs
    <3> QED
      BY <3>1, <3>2, BeginFields DEF Typed
  <2>3. CASE Cancel(a, p)
    <3>1. Begin(a, "cancel", "cancel", p, 0, FALSE)
      BY <2>3 DEF Cancel
    <3> QED
      BY <3>1, BeginFields DEF Typed
  <2> QED
    BY <2>1, <2>2, <2>3
<1>3. now \in Nat /\ now' >= now
  BY <1>1, Parts DEF Typed
<1>4. Only(a, p)
  BY <1>1, <1>2, <1>3 DEF Only, About
<1>5. Fit(act'[a], a)
  BY <1>2 DEF Fit, Queueing
<1>6. job'[p] = "active" => \E w \in Workers : About(act'[w], p)
  BY <1>1, <1>2, Kinds3 DEF Good, Tended, Held
<1>7. ASSUME p \in Announcements, Behind(p)
      PROVE  Agreed(p)' /\ (Saving(p)' \/ (Fits(p)' /\ Coming(p)'))
  <2>1. Agreed(p) /\ (Saving(p) \/ (Fits(p) /\ Coming(p)))
    BY <1>7 DEF Good, Tended, Fresh
  <2>2. Agreed(p)'
    BY <1>1, <1>2, <2>1, Kinds3 DEF Agreed
  <2>3. Saving(p) => Saving(p)'
    BY <1>1, <1>2 DEF Saving
  <2>4. Fits(p) => Fits(p)'
    BY <1>1, <1>2, Kinds3 DEF Fits
  <2>5. Coming(p) => Coming(p)'
    <3>1. ~Comes(act[a], a, p)
      BY <1>1 DEF Comes, Queueing
    <3> QED
      BY <1>2, <3>1 DEF Coming
  <2> QED
    BY <2>1, <2>2, <2>3, <2>4, <2>5
<1> QED
  BY <1>1, <1>4, <1>5, <1>6, <1>7, SteadyStep DEF About

(* A row that is removed.                                                  *)
LEMMA RemoveTends ==
  ASSUME Typed, Typed', Good, NEW a \in Actors, NEW p \in Posts, Remove(a, p)
  PROVE  Good'
<1>1. /\ a \notin Workers /\ act[a].pc = "idle"
      /\ UNCHANGED <<now, pubAt, job, jobAt, notified, sweep>>
      /\ Begin(a, "emit", "delete", p, 0, FALSE)
  BY Kinds3, IdleNotAbout DEF Remove, queue
<1>2. /\ status'[p] = "deleted"
      /\ \A q \in Posts \ {p} : /\ status'[q] = status[q] /\ sched'[q] = sched[q]
                                /\ stale'[q] = stale[q]
  BY Parts DEF Typed, Remove
<1>3. /\ act'[a].pc = "emit" /\ act'[a].post = p
      /\ \A x \in Actors \ {a} : act'[x] = act[x]
  BY <1>1, BeginFields DEF Typed
<1>4. now \in Nat /\ now' >= now
  BY <1>1, Parts DEF Typed
<1>5. Only(a, p)
  BY <1>1, <1>2, <1>3, <1>4 DEF Only, About
<1>6. job'[p] = "active" => \E w \in Workers : About(act'[w], p)
  BY <1>1, <1>3, Kinds3 DEF Good, Tended, Held
<1> QED
  BY <1>2, <1>3, <1>5, <1>6, EmittingStep DEF NewIs, Heard, Emitting

-----------------------------------------------------------------------------
\* A step of a, who is no worker, that takes nobody away from the lists.
LEMMA QueueStep ==
  ASSUME Typed, Typed', Good, NEW a \in Actors \ Workers, NEW p \in Announcements, Only(a, p),
         Behind(p), now' = now, sched'[p] = sched[p], act[a].pc # "save",
         act'[a].pc \in Queueing /\ act'[a].post = p /\ a \in Sweepers =>
           act'[a].at = sched[p],
         job'[p] = "waiting" =>
           \/ job[p] = "waiting" /\ jobAt'[p] = jobAt[p]
           \/ jobAt'[p] >= sched[p]
           \/ act'[a].pc = "save" /\ act'[a].post = p,
         Comes(act[a], a, p) =>
           Comes(act'[a], a, p) \/ (act'[a].pc = "save" /\ act'[a].post = p)
  PROVE  Agreed(p)' /\ (Saving(p)' \/ (Fits(p)' /\ Coming(p)'))
<1>0. p \in Posts
  BY DEF Announcements
<1>1. Agreed(p) /\ (Saving(p) \/ (Fits(p) /\ Coming(p)))
  BY <1>0 DEF Good, Tended, Fresh
<1>2. Agreed(p)'
  BY <1>1, Kinds3 DEF Agreed, Only
<1>3. Saving(p) => Saving(p)'
  BY DEF Saving, Only
<1>4. CASE act'[a].pc = "save" /\ act'[a].post = p
  BY <1>2, <1>4 DEF Saving
<1>5. CASE ~(act'[a].pc = "save" /\ act'[a].post = p)
  <2>1. Fits(p) => Fits(p)'
    BY <1>5, Kinds3 DEF Fits, Only
  <2>2. Coming(p) => Coming(p)'
    BY <1>5 DEF Coming, Only, Comes
  <2> QED
    BY <1>1, <1>2, <1>3, <2>1, <2>2
<1> QED
  BY <1>4, <1>5

(* Looking for the job of a post.                                          *)
LEMMA GetJobTends ==
  ASSUME Typed, Typed', Good, NEW a \in Actors, NEW p, p = act[a].post, GetJob(a)
  PROVE  Good'
<1>1. /\ act[a].pc = "getJob"
      /\ UNCHANGED <<now, status, sched, pubAt, job, jobAt, notified, stale, sweep>>
  BY DEF GetJob, rows, queue
<1>2. /\ p \in Posts /\ a \notin Workers /\ status[p] # "none"
      /\ \A q \in Posts \ {p} : ~About(act[a], q)
  BY <1>1, AtPost DEF AtWork
<1>3. PICK pc \in {"remove", "save", "add"} : Goto(a, pc)
  BY DEF GetJob
<1>4. /\ act'[a].pc = pc /\ act'[a].op = act[a].op /\ act'[a].post = p
      /\ act'[a].at = act[a].at /\ \A x \in Actors \ {a} : act'[x] = act[x]
  BY <1>3, GotoFields DEF Typed
<1>5. now \in Nat /\ now' >= now
  BY <1>1, Parts DEF Typed
<1>6. Only(a, p)
  BY <1>1, <1>2, <1>4, <1>5 DEF Only, About
<1>7. Fit(act'[a], a)
  BY <1>1, <1>4 DEF Good, Fit, Queueing
<1>8. job'[p] = "active" => \E w \in Workers : About(act'[w], p)
  BY <1>1, <1>2, <1>4, Kinds3 DEF Good, Tended, Held
<1>9. ASSUME p \in Announcements, Behind(p)
      PROVE  Agreed(p)' /\ (Saving(p)' \/ (Fits(p)' /\ Coming(p)'))
  <2>1. a \in Sweepers => act[a].at = sched[p]
    BY <1>1, <1>2, <1>9 DEF Good, Tended, Fresh, Agreed, Queueing
  <2>2. Comes(act[a], a, p) => Comes(act'[a], a, p) \/ (act'[a].pc = "save" /\ act'[a].post = p)
    BY <1>1, <1>4 DEF Comes, Queueing
  <2> QED
    BY <1>1, <1>2, <1>4, <1>6, <1>9, <2>1, <2>2, QueueStep
<1> QED
  BY <1>1, <1>2, <1>6, <1>7, <1>8, <1>9, SteadyStep

(* Removing it.  The job that runs is not removed: its worker drops the    *)
(* lists then.                                                             *)
LEMMA RemoveJobTends ==
  ASSUME Typed, Typed', Good, NEW a \in Actors, NEW p, p = act[a].post, RemoveJob(a)
  PROVE  Good'
<1>1. /\ act[a].pc = "remove"
      /\ UNCHANGED <<now, status, sched, pubAt, notified, stale>>
  BY DEF RemoveJob, rows
<1>2. /\ p \in Posts /\ a \notin Workers /\ status[p] # "none"
      /\ \A q \in Posts \ {p} : ~About(act[a], q)
  BY <1>1, AtPost DEF AtWork
<1>3. now \in Nat /\ now' >= now
  BY <1>1, Parts DEF Typed
<1>4. CASE job[p] = "active"
  <2>1. Throw(a)
    BY <1>4 DEF RemoveJob
  <2>2. UNCHANGED <<job, jobAt>>
    BY <1>2, <2>1 DEF Throw, queue
  <2>3. act'[a].pc \in {"idle", "scan"} /\ \A x \in Actors \ {a} : act'[x] = act[x]
    BY <2>1, EndFields DEF Typed
  <2>4. \A s \in Sweepers : sweep'[s].rows \subseteq sweep[s].rows
    BY <2>1, NoSweepRows DEF Typed
  <2>5. Only(a, p)
    BY <1>1, <1>2, <1>3, <2>2, <2>3, <2>4, NotAbout DEF Only
  <2>6. Fit(act'[a], a)
    BY <2>3 DEF Fit, Queueing
  <2>7. PICK w \in Workers : About(act[w], p)
    BY <1>2, <1>4 DEF Good, Tended, Held
  <2>8. w # a /\ w \in Actors /\ act'[w] = act[w]
    BY <1>2, <2>3, <2>7, Kinds3
  <2>9. ASSUME p \in Announcements, Behind(p)
        PROVE  Agreed(p)' /\ (Saving(p)' \/ (Fits(p)' /\ Coming(p)'))
    <3>1. Agreed(p) /\ (Saving(p) \/ (Fits(p) /\ Coming(p)))
      BY <1>2, <2>9 DEF Good, Tended, Fresh
    <3>2. Agreed(p)'
      BY <1>1, <2>3, <2>4, <3>1, Kinds3 DEF Agreed, Queueing
    <3>3. Saving(p) => Saving(p)'
      BY <1>1, <2>3 DEF Saving
    <3>4. Fits(p) => Fits(p)'
      BY <1>1, <1>2, <2>2, <2>3, Kinds3 DEF Fits
    <3>5. Comes(act[w], w, p)
      <4>1. act[w].pc \in AtWork
        BY <2>7, Working DEF About
      <4> QED
        BY <2>7, <2>8, <2>9, <4>1 DEF Behind, Emitting, AtWork, Comes, About
    <3>6. Coming(p)'
      BY <2>8, <3>5 DEF Coming
    <3> QED
      BY <3>1, <3>2, <3>3, <3>4, <3>6
  <2> QED
    BY <1>1, <1>2, <2>5, <2>6, <2>7, <2>8, <2>9, SteadyStep
<1>5. CASE job[p] # "active"
  <2>1. PICK pc \in {"save", "add"} : Goto(a, pc)
    BY <1>5 DEF RemoveJob
  <2>2. job' = [job EXCEPT ![p] = "none"] /\ UNCHANGED <<jobAt, sweep>>
    BY <1>5 DEF RemoveJob
  <2>3. job'[p] = "none" /\ \A q \in Posts \ {p} : job'[q] = job[q]
    BY <1>2, <2>2, Parts DEF Typed
  <2>4. /\ act'[a].pc = pc /\ act'[a].op = act[a].op /\ act'[a].post = p
        /\ act'[a].at = act[a].at /\ \A x \in Actors \ {a} : act'[x] = act[x]
    BY <2>1, GotoFields DEF Typed
  <2>5. Only(a, p)
    BY <1>1, <1>2, <1>3, <2>2, <2>3, <2>4 DEF Only, About
  <2>6. Fit(act'[a], a)
    BY <1>1, <2>4 DEF Good, Fit, Queueing
  <2>7. ASSUME p \in Announcements, Behind(p)
        PROVE  Agreed(p)' /\ (Saving(p)' \/ (Fits(p)' /\ Coming(p)'))
    <3>1. a \in Sweepers => act[a].at = sched[p]
      BY <1>1, <1>2, <2>7 DEF Good, Tended, Fresh, Agreed, Queueing
    <3>2. Comes(act[a], a, p) => Comes(act'[a], a, p) \/ (act'[a].pc = "save" /\ act'[a].post = p)
      BY <1>1, <2>4 DEF Comes, Queueing
    <3> QED
      BY <1>1, <1>2, <2>3, <2>4, <2>5, <2>7, <3>1, <3>2, QueueStep
  <2> QED
    BY <1>1, <1>2, <2>3, <2>5, <2>6, <2>7, SteadyStep
<1> QED
  BY <1>4, <1>5

(* Adding it.  Whoever adds goes on: to save the row, to drop the lists,   *)
(* to be done with an activity, or to the next row of the sweep.           *)
LEMMA AddJobTends ==
  ASSUME Typed, Typed', Good, NEW a \in Actors, NEW p, p = act[a].post, AddJob(a)
  PROVE  Good'
<1>1. /\ act[a].pc = "add"
      /\ UNCHANGED <<now, status, sched, pubAt, notified, stale, sweep>>
  BY DEF AddJob, rows
<1>2. /\ p \in Posts /\ a \notin Workers /\ status[p] # "none"
      /\ \A q \in Posts \ {p} : ~About(act[a], q)
  BY <1>1, AtPost DEF AtWork
<1>3. now \in Nat /\ now' >= now
  BY <1>1, Parts DEF Typed
<1>4. /\ job'[p] = (IF job[p] = "none" THEN "waiting" ELSE job[p])
      /\ jobAt'[p] = (IF job[p] = "none" THEN act[a].at ELSE jobAt[p])
      /\ \A q \in Posts \ {p} : job'[q] = job[q] /\ jobAt'[q] = jobAt[q]
  BY <1>2, Parts DEF Typed, AddJob
<1>5. a \in Sweepers \/ act[a].op \in {"create", "update"}
  BY <1>1 DEF Good, Fit, Queueing
<1>6. /\ \A x \in Actors \ {a} : act'[x] = act[x]
      /\ \/ act'[a].pc = "save" /\ act'[a].post = p
         \/ act[a].op = "create" /\ act'[a].pc = "emit" /\ act'[a].post = p
         \/ act[a].op = "create" /\ p \notin Announcements /\ act'[a].pc = "idle"
         \/ act[a].op \notin {"create", "update"} /\ act'[a].pc = "scan"
  <2>1. act \in [Actors -> Doing]
    BY Parts DEF Typed
  <2>2. PICK x : /\ act' = [act EXCEPT ![a] = x]
                 /\ x = CASE act[a].op = "update" -> [act[a] EXCEPT !.pc = "save"]
                          [] act[a].op = "create" /\ p \in Announcements
                              -> [act[a] EXCEPT !.pc = "emit"]
                          [] act[a].op = "create" /\ p \in Activities -> Idle
                          [] OTHER -> [Idle EXCEPT !.pc = "scan"]
    BY DEF AddJob
  <2>3. \A b \in Actors \ {a} : act'[b] = act[b]
    BY <2>1, <2>2
  <2>4. act'[a] = x
    BY <2>1, <2>2
  <2>5. CASE act[a].op = "update"
    <3>1. x = [act[a] EXCEPT !.pc = "save"]
      BY <2>2, <2>5
    <3> QED
      BY <2>1, <2>3, <2>4, <3>1 DEF Doing
  <2>6. CASE act[a].op = "create" /\ p \in Announcements
    <3>1. p \notin Activities
      BY <2>6 DEF Activities
    <3>2. x = [act[a] EXCEPT !.pc = "emit"]
      BY <2>2, <2>6, <3>1
    <3> QED
      BY <2>1, <2>3, <2>4, <2>6, <3>2 DEF Doing
  <2>7. CASE act[a].op = "create" /\ p \notin Announcements
    <3>1. p \in Activities
      BY <1>2, <2>7 DEF Activities
    <3>2. x = Idle
      BY <2>2, <2>7, <3>1
    <3> QED
      BY <2>3, <2>4, <2>7, <3>2, IdleNotAbout
  <2>8. CASE act[a].op \notin {"create", "update"}
    <3>1. x = [Idle EXCEPT !.pc = "scan"]
      BY <2>2, <2>8
    <3>2. [Idle EXCEPT !.pc = "scan"].pc = "scan"
      BY DEF Idle
    <3> QED
      BY <2>3, <2>4, <2>8, <3>1, <3>2
  <2> QED
    BY <2>5, <2>6, <2>7, <2>8
<1>7. Only(a, p)
  BY <1>1, <1>2, <1>3, <1>4, <1>6, NotAbout DEF Only, About
<1>8. Fit(act'[a], a)
  BY <1>6 DEF Fit, Queueing
<1>9. job'[p] = "active" => \E w \in Workers : About(act'[w], p)
  BY <1>2, <1>4, <1>6, Kinds3 DEF Good, Tended, Held
<1>10. CASE act'[a].pc = "emit" /\ act'[a].post = p
  <2>1. NewIs(p)'
    BY <1>1, <1>2 DEF Good, Tended, NewIs
  <2>2. Heard(p)'
    <3>1. ~Noting(a, p)
      BY <1>1 DEF Noting
    <3>2. \A b \in Actors : Noting(b, p) => Noting(b, p)'
      BY <1>6, <3>1 DEF Noting
    <3> QED
      BY <1>1, <1>2, <3>2 DEF Good, Tended, Heard
  <2> QED
    BY <1>1, <1>2, <1>7, <1>9, <1>10, <2>1, <2>2, EmittingStep DEF Emitting
<1>11. CASE ~(act'[a].pc = "emit" /\ act'[a].post = p)
  <2>1. ASSUME p \in Announcements, Behind(p)
        PROVE  Agreed(p)' /\ (Saving(p)' \/ (Fits(p)' /\ Coming(p)'))
    <3>1. a \in Sweepers => act[a].at = sched[p]
      BY <1>1, <1>2, <2>1 DEF Good, Tended, Fresh, Agreed, Queueing
    <3>2. sched[p] \in Nat /\ act'[a].pc \notin Queueing
      BY <1>2, <1>6, Parts DEF Typed, Times, Queueing
    <3>3. job'[p] = "waiting" =>
            \/ job[p] = "waiting" /\ jobAt'[p] = jobAt[p]
            \/ jobAt'[p] >= sched[p]
            \/ act'[a].pc = "save" /\ act'[a].post = p
      BY <1>4, <1>5, <1>6, <1>11, <2>1, <3>1, <3>2
    <3>4. Comes(act[a], a, p) => Comes(act'[a], a, p) \/ (act'[a].pc = "save" /\ act'[a].post = p)
      BY <1>1, <1>6, <1>11, <2>1 DEF Comes
    <3> QED
      BY <1>1, <1>2, <1>7, <2>1, <3>2, <3>3, <3>4, QueueStep
  <2> QED
    BY <1>1, <1>2, <1>7, <1>8, <1>9, <2>1, SteadyStep
<1> QED
  BY <1>10, <1>11

(* The row of an update is written, whatever it has become; one that is    *)
(* gone has nobody waiting for its lists.                                  *)
LEMMA SaveTends ==
  ASSUME Typed, Typed', Good, NEW a \in Actors, NEW p, p = act[a].post, Save(a)
  PROVE  Good'
<1>1. act[a].pc = "save" /\ UNCHANGED <<now, status, pubAt, notified>>
  BY DEF Save
<1>2. /\ p \in Posts /\ a \notin Workers /\ status[p] # "none"
      /\ \A q \in Posts \ {p} : ~About(act[a], q)
  BY <1>1, AtPost DEF AtWork
<1>3. now \in Nat /\ now' >= now
  BY <1>1, Parts DEF Typed
<1>4. \A x \in Actors \ {a} : act'[x] = act[x]
  <2>1. Throw(a) \/ Goto(a, "emit")
    BY DEF Save
  <2> QED
    BY <2>1, EndFields, GotoFields DEF Typed
<1>5. UNCHANGED <<job, jobAt>> /\ \A s \in Sweepers : sweep'[s].rows \subseteq sweep[s].rows
  <2>1. CASE Throw(a)
    BY <1>2, <2>1, NoSweepRows DEF Throw, queue, Typed
  <2>2. CASE UNCHANGED <<queue, sweep>>
    BY <2>2 DEF queue
  <2> QED
    BY <2>1, <2>2 DEF Save
<1>6. job'[p] = "active" => \E w \in Workers : About(act'[w], p)
  BY <1>2, <1>4, <1>5, Kinds3 DEF Good, Tended, Held
<1>7. CASE status[p] = "deleted"
  <2>1. Throw(a) /\ UNCHANGED <<sched, stale>>
    BY <1>7 DEF Save
  <2>2. act'[a].pc \in {"idle", "scan"}
    BY <2>1, EndFields DEF Typed
  <2>3. Only(a, p)
    BY <1>1, <1>2, <1>3, <1>4, <1>5, <2>1, <2>2, NotAbout DEF Only
  <2>4. Fit(act'[a], a)
    BY <2>2 DEF Fit, Queueing
  <2>5. ~(p \in Announcements /\ Behind(p))
    BY <1>2, <1>7 DEF Good, Tended, Fresh
  <2> QED
    BY <1>1, <1>2, <1>6, <2>1, <2>3, <2>4, <2>5, SteadyStep
<1>8. CASE status[p] # "deleted"
  <2>1. /\ sched' = (IF act[a].at = Keep THEN sched ELSE [sched EXCEPT ![p] = act[a].at])
        /\ stale' = [stale EXCEPT ![p] = TRUE]
        /\ Goto(a, "emit")
    BY <1>8 DEF Save
  <2>2. act'[a].pc = "emit" /\ act'[a].post = p
    BY <2>1, GotoFields DEF Typed
  <2>3. \A q \in Posts \ {p} : sched'[q] = sched[q] /\ stale'[q] = stale[q]
    BY <2>1, Parts DEF Typed
  <2>4. Only(a, p)
    BY <1>1, <1>2, <1>3, <1>4, <1>5, <2>2, <2>3 DEF Only, About
  <2>5. NewIs(p)'
    BY <1>1, <1>2 DEF Good, Tended, NewIs
  <2>6. Heard(p)'
    <3>1. \A b \in Actors : Noting(b, p) => Noting(b, p)'
      BY <1>1, <1>4 DEF Noting
    <3> QED
      BY <1>1, <1>2, <3>1 DEF Good, Tended, Heard
  <2> QED
    BY <1>1, <1>2, <1>6, <2>2, <2>4, <2>5, <2>6, EmittingStep DEF Emitting
<1> QED
  BY <1>7, <1>8

(* The row of an activity that is called off.                              *)
LEMMA CancelRowTends ==
  ASSUME Typed, Typed', Good, NEW a \in Actors, NEW p, p = act[a].post, CancelRow(a)
  PROVE  Good'
<1>1. /\ act[a].pc = "cancel" /\ Goto(a, "emit")
      /\ UNCHANGED <<now, sched, pubAt, job, jobAt, notified, sweep>>
  BY DEF CancelRow, queue
<1>2. /\ p \in Posts /\ a \notin Workers /\ status[p] # "none"
      /\ \A q \in Posts \ {p} : ~About(act[a], q)
  BY <1>1, AtPost DEF AtWork
<1>3. now \in Nat /\ now' >= now
  BY <1>1, Parts DEF Typed
<1>4. /\ act'[a].pc = "emit" /\ act'[a].post = p
      /\ \A x \in Actors \ {a} : act'[x] = act[x]
  BY <1>1, GotoFields DEF Typed
<1>5. /\ status'[p] = "cancelled"
      /\ \A q \in Posts \ {p} : status'[q] = status[q] /\ stale'[q] = stale[q]
  BY <1>2, Parts DEF Typed, CancelRow
<1>6. Only(a, p)
  BY <1>1, <1>2, <1>3, <1>4, <1>5 DEF Only, About
<1>7. job'[p] = "active" => \E w \in Workers : About(act'[w], p)
  BY <1>1, <1>2, <1>4, Kinds3 DEF Good, Tended, Held
<1> QED
  BY <1>2, <1>4, <1>5, <1>6, <1>7, EmittingStep DEF Emitting, NewIs, Heard

-----------------------------------------------------------------------------
(* publishScheduled reads the row.  A worker that turns away leaves no     *)
(* lists behind: the job that ran was due.                                 *)
LEMMA ReadScheduledTends ==
  ASSUME Typed, Typed', Good, NEW a \in Actors, NEW p, p = act[a].post, ReadScheduled(a)
  PROVE  Good'
<1>1. act[a].pc = "read" /\ UNCHANGED <<now, status, sched, pubAt, notified, stale>>
  BY DEF ReadScheduled, rows
<1>2. /\ p \in Posts /\ status[p] # "none"
      /\ \A q \in Posts \ {p} : ~About(act[a], q)
  BY <1>1, AtPost
<1>3. now \in Nat /\ now' >= now /\ sched[p] \in Nat
  BY <1>1, <1>2, Parts DEF Typed, Times
<1>4. CASE status[p] = "draft" /\ sched[p] # 0 /\ sched[p] <= now
  <2>1. /\ act' = [act EXCEPT ![a].pc = "pub", ![a].first = ~pubAt[p]]
        /\ UNCHANGED <<job, jobAt, sweep>>
    BY <1>4 DEF ReadScheduled, queue
  <2>2. ~pubAt[p]
    BY <1>2, <1>4 DEF Good, Tended, NewIs
  <2>3. act[a] \in Doing /\ act \in [Actors -> Doing]
    BY Parts DEF Typed
  <2>4. act'[a].pc = "pub" /\ act'[a].post = p
    BY <2>1, <2>3 DEF Doing
  <2>5. act'[a].first = ~pubAt[p]
    BY <2>1, <2>3 DEF Doing
  <2>6. \A x \in Actors \ {a} : act'[x] = act[x]
    BY <2>1, <2>3
  <2>7. Only(a, p)
    BY <1>1, <1>2, <1>3, <2>1, <2>4, <2>6 DEF Only, About
  <2>8. Fit(act'[a], a)
    BY <2>2, <2>4, <2>5 DEF Fit, Queueing
  <2>9. job'[p] = "active" => \E w \in Workers : About(act'[w], p)
    <3>1. \A w \in Workers : About(act[w], p) => About(act'[w], p)
      BY <2>4, <2>6, Kinds3 DEF About
    <3> QED
      BY <1>2, <2>1, <3>1 DEF Good, Tended, Held
  <2>10. ASSUME p \in Announcements, Behind(p)
         PROVE  Agreed(p)' /\ (Saving(p)' \/ (Fits(p)' /\ Coming(p)'))
    <3>1. Agreed(p) /\ (Saving(p) \/ (Fits(p) /\ Coming(p)))
      BY <1>2, <2>10 DEF Good, Tended, Fresh
    <3>2. Agreed(p)'
      BY <1>1, <2>1, <2>4, <2>6, <3>1, Kinds3 DEF Agreed, Queueing
    <3>3. Saving(p) => Saving(p)'
      BY <1>1, <2>6 DEF Saving
    <3>4. Fits(p) => Fits(p)'
      BY <1>1, <2>1, <2>4, <2>6, Kinds3 DEF Fits
    <3>5. Coming(p)'
      BY <2>4 DEF Coming, Comes
    <3> QED
      BY <3>1, <3>2, <3>3, <3>4, <3>5
  <2> QED
    BY <1>1, <1>2, <2>7, <2>8, <2>9, <2>10, SteadyStep
<1>5. CASE ~(status[p] = "draft" /\ sched[p] # 0 /\ sched[p] <= now)
  <2>1. Return(a)
    BY <1>5 DEF ReadScheduled
  <2>2. act'[a].pc \in {"idle", "scan"} /\ \A x \in Actors \ {a} : act'[x] = act[x]
    BY <2>1, EndFields DEF Typed
  <2>3. /\ \A q \in Posts \ {p} : job'[q] = job[q] /\ jobAt'[q] = jobAt[q]
        /\ a \in Workers => job'[p] = "kept"
        /\ a \notin Workers => job'[p] = job[p]
        /\ UNCHANGED <<jobAt, sweep>>
    BY <1>2, <2>1, Parts DEF Return, Typed
  <2>4. Only(a, p)
    BY <1>1, <1>2, <1>3, <2>2, <2>3, NotAbout DEF Only
  <2>5. Fit(act'[a], a)
    BY <2>2 DEF Fit, Queueing
  <2>6. job'[p] = "active" => \E w \in Workers : About(act'[w], p)
    BY <1>2, <2>2, <2>3, Kinds3 DEF Good, Tended, Held
  <2>7. ASSUME p \in Announcements, Behind(p)
        PROVE  Agreed(p)' /\ (Saving(p)' \/ (Fits(p)' /\ Coming(p)'))
    <3>1. /\ Agreed(p) /\ (Saving(p) \/ (Fits(p) /\ Coming(p)))
          /\ status[p] = "draft" /\ sched[p] # 0
      BY <1>2, <2>7 DEF Good, Tended, Fresh
    <3>2. Agreed(p)'
      BY <1>1, <2>2, <2>3, <3>1, Kinds3 DEF Agreed, Queueing
    <3>3. Saving(p) => Saving(p)'
      BY <1>1, <2>2 DEF Saving
    <3>4. ASSUME Fits(p), Coming(p) PROVE Fits(p)' /\ Coming(p)'
      <4>1. a \notin Workers
        BY <1>1, <1>5, <3>1, <3>4 DEF Fits
      <4>2. ~Comes(act[a], a, p)
        BY <1>1, <4>1 DEF Comes, Queueing
      <4> QED
        BY <1>1, <2>2, <2>3, <3>4, <4>1, <4>2, Kinds3 DEF Fits, Coming
    <3> QED
      BY <3>1, <3>2, <3>3, <3>4
  <2> QED
    BY <1>1, <1>2, <2>4, <2>5, <2>6, <2>7, SteadyStep
<1> QED
  BY <1>4, <1>5

(* The draft is published, or was before.                                  *)
LEMMA PublishRowTends ==
  ASSUME Typed, Typed', Good, NEW a \in Actors, NEW p, p = act[a].post, PublishRow(a)
  PROVE  Good'
<1>1. act[a].pc = "pub" /\ UNCHANGED <<now, notified>>
  BY DEF PublishRow
<1>2. /\ p \in Posts /\ status[p] # "none"
      /\ \A q \in Posts \ {p} : ~About(act[a], q)
  BY <1>1, AtPost
<1>3. now \in Nat /\ now' >= now
  BY <1>1, Parts DEF Typed
<1>4. CASE Publishes(p)
  <2>1. /\ status' = [status EXCEPT ![p] = "published"]
        /\ sched' = [sched EXCEPT ![p] = 0]
        /\ pubAt' = [pubAt EXCEPT ![p] = (Kind[p] = "announcement")]
        /\ stale' = [stale EXCEPT ![p] = TRUE]
        /\ UNCHANGED <<job, jobAt, sweep>>
        /\ Goto(a, IF act[a].first \/ p \in Activities THEN "note" ELSE "emit")
    BY <1>4 DEF PublishRow, queue
  <2>2. act[a].first
    BY <1>1 DEF Good, Fit
  <2>3. Goto(a, "note")
    BY <2>1, <2>2
  <2>4. /\ act'[a].pc = "note" /\ act'[a].post = p
        /\ \A x \in Actors \ {a} : act'[x] = act[x]
    BY <2>3, GotoFields DEF Typed
  <2>5. /\ status'[p] = "published"
        /\ \A q \in Posts \ {p} : /\ status'[q] = status[q] /\ sched'[q] = sched[q]
                                  /\ pubAt'[q] = pubAt[q]
    BY <1>2, <2>1, Parts DEF Typed
  <2>6. \A q \in Posts \ {p} : stale'[q] = stale[q]
    BY <1>2, <2>1, Parts DEF Typed
  <2>7. Only(a, p)
    BY <1>1, <1>2, <1>3, <2>1, <2>4, <2>5, <2>6 DEF Only, About
  <2>8. job'[p] = "active" => \E w \in Workers : About(act'[w], p)
    <3>1. \A w \in Workers : About(act[w], p) => About(act'[w], p)
      BY <2>4, Kinds3 DEF About
    <3> QED
      BY <1>2, <2>1, <3>1 DEF Good, Tended, Held
  <2>9. NewIs(p)' /\ Heard(p)'
    BY <2>4, <2>5 DEF NewIs, Heard, Noting
  <2> QED
    BY <2>4, <2>5, <2>7, <2>8, <2>9, <1>2, EmittingStep DEF Emitting
<1>5. CASE ~Publishes(p)
  <2>1. Return(a) /\ UNCHANGED <<status, sched, pubAt, stale>>
    BY <1>5 DEF PublishRow, rows
  <2>2. act'[a].pc \in {"idle", "scan"} /\ \A x \in Actors \ {a} : act'[x] = act[x]
    BY <2>1, EndFields DEF Typed
  <2>3. /\ \A q \in Posts \ {p} : job'[q] = job[q] /\ jobAt'[q] = jobAt[q]
        /\ a \in Workers => job'[p] = "kept"
        /\ a \notin Workers => job'[p] = job[p]
        /\ UNCHANGED <<jobAt, sweep>>
    BY <1>2, <2>1, Parts DEF Return, Typed
  <2>4. Only(a, p)
    BY <1>1, <1>2, <1>3, <2>1, <2>2, <2>3, NotAbout DEF Only
  <2>5. Fit(act'[a], a)
    BY <2>2 DEF Fit, Queueing
  <2>6. job'[p] = "active" => \E w \in Workers : About(act'[w], p)
    BY <1>2, <2>2, <2>3, Kinds3 DEF Good, Tended, Held
  <2>7. ~(p \in Announcements /\ Behind(p))
    BY <1>2, <1>5 DEF Good, Tended, Fresh, Publishes, Announcements
  <2> QED
    BY <1>1, <1>2, <2>1, <2>4, <2>5, <2>6, <2>7, SteadyStep
<1> QED
  BY <1>4, <1>5

-----------------------------------------------------------------------------
(* The fan-out of the post.                                                *)
LEMMA NotifyTends ==
  ASSUME Typed, Typed', Good, NEW a \in Actors, NEW p, p = act[a].post, Notify(a)
  PROVE  Good'
<1>1. /\ act[a].pc = "note" /\ Goto(a, "emit") /\ notified' = [notified EXCEPT ![p] = @ + 1]
      /\ UNCHANGED <<now, status, sched, pubAt, job, jobAt, stale, sweep>>
  BY DEF Notify, rows, queue
<1>2. /\ p \in Posts /\ status[p] # "none"
      /\ \A q \in Posts \ {p} : ~About(act[a], q)
  BY <1>1, AtPost
<1>3. now \in Nat /\ now' >= now
  BY <1>1, Parts DEF Typed
<1>4. /\ act'[a].pc = "emit" /\ act'[a].post = p
      /\ \A x \in Actors \ {a} : act'[x] = act[x]
  BY <1>1, GotoFields DEF Typed
<1>5. notified'[p] # 0 /\ \A q \in Posts \ {p} : notified'[q] = notified[q]
  BY <1>1, <1>2, Parts DEF Typed
<1>6. Only(a, p)
  BY <1>1, <1>2, <1>3, <1>4, <1>5 DEF Only, About
<1>7. job'[p] = "active" => \E w \in Workers : About(act'[w], p)
  <2>1. \A w \in Workers : About(act[w], p) => About(act'[w], p)
    BY <1>4, Kinds3 DEF About
  <2> QED
    BY <1>1, <1>2, <2>1 DEF Good, Tended, Held
<1>8. NewIs(p)' /\ Heard(p)'
  BY <1>1, <1>2, <1>5 DEF Good, Tended, NewIs, Heard
<1> QED
  BY <1>1, <1>2, <1>4, <1>6, <1>7, <1>8, EmittingStep DEF Emitting

(* The lists are dropped, and the handler is done.                         *)
LEMMA EmitTends ==
  ASSUME Typed, Typed', Good, NEW a \in Actors, NEW p, p = act[a].post, Emit(a)
  PROVE  Good'
<1>1. act[a].pc = "emit" /\ UNCHANGED <<now, status, sched, pubAt, notified>>
  BY DEF Emit, rows
<1>2. /\ p \in Posts /\ status[p] # "none"
      /\ \A q \in Posts \ {p} : ~About(act[a], q)
  BY <1>1, AtPost
<1>3. now \in Nat /\ now' >= now
  BY <1>1, Parts DEF Typed
<1>4. /\ act'[a].pc \in {"idle", "scan"} /\ \A x \in Actors \ {a} : act'[x] = act[x]
      /\ \A s \in Sweepers : sweep'[s].rows \subseteq sweep[s].rows
  <2>1. Return(a) \/ Throw(a)
    BY DEF Emit
  <2> QED
    BY <2>1, EndFields, NoSweepRows DEF Typed
<1>5. /\ \A q \in Posts \ {p} : stale'[q] = stale[q]
      /\ p \in Announcements => ~stale'[p]
  <2>1. p \in Announcements => ~Unbound(a)
    BY DEF Unbound, Activities
  <2> QED
    BY <1>2, <2>1, Parts DEF Emit, Typed
<1>6. /\ \A q \in Posts \ {p} : job'[q] = job[q] /\ jobAt'[q] = jobAt[q]
      /\ a \in Workers => job'[p] # "active"
      /\ a \notin Workers => job'[p] = job[p]
  <2>1. CASE Return(a)
    BY <1>2, <2>1, Parts DEF Return, Typed
  <2>2. CASE Throw(a) /\ Unbound(a)
    BY <2>2, Kinds3 DEF Throw, Unbound, queue
  <2> QED
    BY <2>1, <2>2 DEF Emit
<1>7. Only(a, p)
  BY <1>1, <1>2, <1>3, <1>4, <1>5, <1>6, NotAbout DEF Only
<1>8. Unborn(p)' /\ NewIs(p)'
  BY <1>1, <1>2 DEF Good, Tended, Unborn, NewIs
<1>9. Held(p)'
  BY <1>2, <1>4, <1>6, Kinds3 DEF Good, Tended, Held
<1>10. Heard(p)'
  <2>1. \A b \in Actors : Noting(b, p) => Noting(b, p)'
    BY <1>1, <1>4 DEF Noting
  <2> QED
    BY <1>1, <1>2, <2>1 DEF Good, Tended, Heard
<1>11. p \in Announcements => Fresh(p)'
  BY <1>5 DEF Fresh, Behind
<1>12. Fit(act'[a], a)
  BY <1>4 DEF Fit, Queueing
<1> QED
  BY <1>2, <1>7, <1>8, <1>9, <1>10, <1>11, <1>12, OnlyStep DEF Tended

(* The worker takes a job that is due; its draft is due then, unless       *)
(* somebody is about to write it.                                          *)
LEMMA TakeJobTends ==
  ASSUME Typed, Typed', Good, NEW a \in Actors, NEW p \in Posts, TakeJob(a, p)
  PROVE  Good'
<1>1. /\ a \in Workers /\ act[a].pc = "idle" /\ job[p] = "waiting" /\ jobAt[p] <= now
      /\ job' = [job EXCEPT ![p] = "active"] /\ Begin(a, "read", "scheduled", p, 0, FALSE)
      /\ UNCHANGED <<now, status, sched, pubAt, jobAt, notified, stale, sweep>>
  BY IdleNotAbout DEF TakeJob, rows
<1>2. status[p] # "none"
  BY <1>1 DEF Good, Tended, Unborn
<1>3. now \in Nat /\ now' >= now /\ sched[p] \in Nat /\ jobAt[p] \in Nat
  BY <1>1, Parts DEF Typed, Times
<1>4. /\ act'[a].pc = "read" /\ act'[a].post = p
      /\ \A x \in Actors \ {a} : act'[x] = act[x]
  BY <1>1, BeginFields DEF Typed
<1>5. job'[p] = "active" /\ \A q \in Posts \ {p} : job'[q] = job[q]
  BY <1>1, Parts DEF Typed
<1>6. Only(a, p)
  BY <1>1, <1>3, <1>4, <1>5 DEF Only, About
<1>7. Fit(act'[a], a)
  BY <1>4 DEF Fit, Queueing
<1>8. \E w \in Workers : About(act'[w], p)
  BY <1>1, <1>4 DEF About
<1>9. ASSUME p \in Announcements, Behind(p)
      PROVE  Agreed(p)' /\ (Saving(p)' \/ (Fits(p)' /\ Coming(p)'))
  <2>1. Agreed(p) /\ (Saving(p) \/ (Fits(p) /\ Coming(p)))
    BY <1>9 DEF Good, Tended, Fresh
  <2>2. Agreed(p)'
    BY <1>1, <1>4, <2>1, Kinds3 DEF Agreed
  <2>3. Saving(p) => Saving(p)'
    BY <1>1, <1>4 DEF Saving
  <2>4. Fits(p) => Fits(p)'
    BY <1>1, <1>3, <1>4, <1>5, Kinds3 DEF Fits
  <2>5. Coming(p)'
    BY <1>1, <1>4 DEF Coming, Comes
  <2> QED
    BY <2>1, <2>2, <2>3, <2>4, <2>5
<1> QED
  BY <1>1, <1>2, <1>6, <1>7, <1>8, <1>9, SteadyStep DEF About

-----------------------------------------------------------------------------
\* A step that writes no row and no job, of one actor or of none.
LEMMA QuietStep ==
  ASSUME Typed, Typed', Good, UNCHANGED <<status, sched, pubAt, jobAt, notified, stale, act>>,
         now' >= now,
         \A q \in Posts : job'[q] = job[q] \/ (job[q] = "kept" /\ job'[q] = "none"),
         \A s \in Sweepers : \A r \in sweep'[s].rows :
           r \in sweep[s].rows \/ (status[r.post] = "draft" /\ r.at = sched[r.post])
  PROVE  Good'
<1>1. ASSUME NEW q \in Posts PROVE Tended(q)'
  <2>1. Tended(q)
    BY DEF Good
  <2>2. CASE job'[q] = job[q]
    BY <2>1, <2>2, Elsewhere
  <2>3. CASE job[q] = "kept" /\ job'[q] = "none"
    <3>1. sched[q] \in Nat /\ now \in Nat /\ now' \in Nat
      BY Parts DEF Typed, Times, TypeOK
    <3>2. Unborn(q)' /\ Held(q)' /\ NewIs(q)' /\ Heard(q)'
      BY <2>1, <2>3 DEF Tended, Unborn, Held, NewIs, Heard, Noting
    <3>3. Fits(q) => Fits(q)'
      BY <2>3, <3>1, Kinds3 DEF Fits
    <3>4. Agreed(q) => Agreed(q)'
      BY Kinds3 DEF Agreed
    <3>5. q \in Announcements => Fresh(q)'
      BY <2>1, <3>3, <3>4 DEF Tended, Fresh, Behind, Saving, Coming
    <3> QED
      BY <3>2, <3>5 DEF Tended
  <2> QED
    BY <2>2, <2>3
<1> QED
  BY <1>1 DEF Good

\* A sweep that goes on to no row, begins or is over.
LEMMA SweepStep ==
  ASSUME Typed, Typed', Good, NEW a \in Sweepers,
         UNCHANGED <<now, status, sched, pubAt, job, jobAt, notified, stale>>,
         act[a].pc \in {"idle", "scan"}, act'[a].pc \in {"idle", "scan"},
         \A x \in Actors \ {a} : act'[x] = act[x],
         \A s \in Sweepers : \A r \in sweep'[s].rows :
           r \in sweep[s].rows \/ (status[r.post] = "draft" /\ r.at = sched[r.post])
  PROVE  Good'
<1>1. now' >= now
  BY Parts DEF Typed
<1>2. ASSUME NEW q \in Posts PROVE Tended(q)'
  <2>1. \A x \in Actors : act'[x] = act[x] \/ (~About(act[x], q) /\ ~About(act'[x], q))
    BY DEF About
  <2> QED
    BY <1>1, <2>1, Elsewhere DEF Good
<1>3. \A x \in Actors : Fit(act'[x], x)
  BY DEF Good, Fit, Queueing
<1> QED
  BY <1>2, <1>3 DEF Good, Fit

LEMMA SweepReadsTends ==
  ASSUME Typed, Typed', Good, NEW a \in Actors, SweepReads(a)
  PROVE  Good'
<1>1. /\ a \in Sweepers /\ act[a].pc = "idle" /\ Goto(a, "scan")
      /\ UNCHANGED <<now, status, sched, pubAt, job, jobAt, notified, stale>>
  BY IdleNotAbout DEF SweepReads, rows, queue
<1>2. act'[a].pc = "scan" /\ \A x \in Actors \ {a} : act'[x] = act[x]
  BY <1>1, GotoFields DEF Typed
<1>3. /\ sweep'[a].rows = {[post |-> p, at |-> sched[p]] :
                             p \in {q \in Posts : status[q] = "draft" /\ sched[q] # 0}}
      /\ \A s \in Sweepers \ {a} : sweep'[s] = sweep[s]
  BY <1>1, Parts DEF Typed, SweepReads
<1> QED
  BY <1>1, <1>2, <1>3, SweepStep

LEMMA SweepNextTends ==
  ASSUME Typed, Typed', Good, NEW a \in Actors, SweepNext(a)
  PROVE  Good'
<1>1. /\ a \in Sweepers /\ act[a].pc = "scan"
      /\ UNCHANGED <<now, status, sched, pubAt, job, jobAt, notified, stale>>
  BY DEF SweepNext, rows, queue
<1>2. act'[a].pc \in {"idle", "scan"} /\ \A x \in Actors \ {a} : act'[x] = act[x]
  BY <1>1, IdleNotAbout, Parts DEF Typed, SweepNext
<1>3. \A s \in Sweepers : sweep'[s].rows \subseteq sweep[s].rows
  <2>1. NoSweep.rows = {}
    BY DEF NoSweep
  <2>2. sweep \in [Sweepers -> Sweeping]
    BY Parts DEF Typed
  <2>3. CASE sweep' = [sweep EXCEPT ![a].kind = "activity", ![a].clock = now]
    BY <1>1, <2>2, <2>3 DEF Sweeping
  <2>4. CASE sweep' = [sweep EXCEPT ![a] = NoSweep]
    BY <1>1, <2>1, <2>2, <2>4
  <2> QED
    BY <2>3, <2>4 DEF SweepNext
<1> QED
  BY <1>1, <1>2, <1>3, SweepStep

LEMMA SweepRowTends ==
  ASSUME Typed, Typed', Good, NEW a \in Actors, SweepRow(a)
  PROVE  Good'
<1>1. /\ a \in Sweepers /\ act[a].pc = "scan" /\ a \notin Workers
      /\ UNCHANGED <<now, status, sched, pubAt, job, jobAt, notified, stale>>
  BY Kinds3 DEF SweepRow, rows, queue
<1>2. PICK r \in OfKind(a) :
        /\ sweep' = [sweep EXCEPT ![a].rows = @ \ {r}]
        /\ IF r.at <= sweep[a].clock THEN Begin(a, "read", "scheduled", r.post, 0, FALSE)
           ELSE IF job[r.post] = "none" THEN Begin(a, "getJob", "scheduled", r.post, r.at, FALSE)
           ELSE act' = act
  BY DEF SweepRow
<1>3. \A s \in Sweepers : sweep'[s].rows \subseteq sweep[s].rows
  BY <1>1, <1>2, Parts DEF Typed, Sweeping
<1>4. CASE act' = act
  BY <1>1, <1>3, <1>4, SweepStep
<1>5. CASE act' # act
  <2>1. PICK p : p = r.post
    OBVIOUS
  <2>2. r \in sweep[a].rows /\ p \in Posts
    BY <1>1, <1>2, <2>1, Parts DEF Typed, OfKind, Sweeping
  <2>3. status[p] # "none"
    BY <1>1, <2>1, <2>2 DEF Good, Tended, Unborn
  <2>4. now \in Nat /\ now' >= now
    BY <1>1, Parts DEF Typed
  <2>5. /\ \/ act'[a].pc = "read"
           \/ act'[a].pc = "getJob" /\ act'[a].at = r.at
        /\ act'[a].post = p /\ \A x \in Actors \ {a} : act'[x] = act[x]
    <3>0. act \in [Actors -> Doing]
      BY Parts DEF Typed
    <3>1. \/ Begin(a, "read", "scheduled", p, 0, FALSE)
          \/ Begin(a, "getJob", "scheduled", p, r.at, FALSE)
      BY <1>2, <1>5, <2>1
    <3>2. CASE Begin(a, "read", "scheduled", p, 0, FALSE)
      <4>1. /\ act'[a].pc = "read" /\ act'[a].post = p /\ act'[a].at = 0
            /\ \A x \in Actors \ {a} : act'[x] = act[x]
        BY <3>0, <3>2 DEF Begin
      <4> QED
        BY <4>1
    <3>3. CASE Begin(a, "getJob", "scheduled", p, r.at, FALSE)
      <4>1. /\ act'[a].pc = "getJob" /\ act'[a].post = p /\ act'[a].at = r.at
            /\ \A x \in Actors \ {a} : act'[x] = act[x]
        BY <3>0, <3>3 DEF Begin
      <4> QED
        BY <4>1
    <3> QED
      BY <3>1, <3>2, <3>3
  <2>6. Only(a, p)
    BY <1>1, <1>3, <2>4, <2>5, NotAbout DEF Only, About
  <2>7. Fit(act'[a], a)
    BY <1>1, <2>5 DEF Fit
  <2>8. job'[p] = "active" => \E w \in Workers : About(act'[w], p)
    BY <1>1, <2>2, <2>5, Kinds3 DEF Good, Tended, Held
  <2>9. ASSUME p \in Announcements, Behind(p)
        PROVE  Agreed(p)' /\ (Saving(p)' \/ (Fits(p)' /\ Coming(p)'))
    <3>1. r.at = sched[p]
      BY <1>1, <2>1, <2>2, <2>9 DEF Good, Tended, Fresh, Agreed
    <3>2. ~Comes(act[a], a, p)
      BY <1>1 DEF Comes, Queueing
    <3>3. act'[a].pc \in Queueing => act'[a].at = sched[p]
      BY <2>5, <3>1 DEF Queueing
    <3> QED
      BY <1>1, <2>6, <2>9, <3>2, <3>3, QueueStep
  <2> QED
    BY <1>1, <2>2, <2>3, <2>6, <2>7, <2>8, <2>9, SteadyStep
<1> QED
  BY <1>4, <1>5

-----------------------------------------------------------------------------
\* While no handler failed.
Clean == faults = 0 => Good

LEMMA CleanInit == Init => Clean
BY GoodInit DEF Clean

\* Every step that is no failure tends every post; a failure ends the promise.
LEMMA CleanStep == Typed /\ Clean /\ [Next]_vars => Clean'
<1> SUFFICES ASSUME Typed, Clean, [Next]_vars, faults' = 0 PROVE Good'
  BY DEF Clean
<1>0. Typed'
  BY TypedStep
<1>1. faults \in Nat
  BY Parts DEF Typed
<1>2. ASSUME NEW a \in Actors, Fail(a) PROVE FALSE
  BY <1>1, <1>2 DEF Fail
<1>3. ~Crash /\ \A p \in Posts : ~LoseJob(p)
  BY <1>1 DEF Crash, LoseJob
<1>4. UNCHANGED faults
  <2>1. ASSUME NEW a \in Actors, Step(a) PROVE UNCHANGED faults
    BY <2>1 DEF Step, GetJob, RemoveJob, AddJob, Save, CancelRow, ReadScheduled, PublishRow,
       Notify, Emit, SweepRow, SweepNext
  <2>2. ASSUME NEW a \in Actors, SweepReads(a) PROVE UNCHANGED faults
    BY <2>2 DEF SweepReads
  <2>3. ASSUME NEW a \in Actors, NEW p \in Posts,
               Create(a, p) \/ Update(a, p) \/ Publish(a, p) \/ Cancel(a, p) \/ Remove(a, p)
                 \/ TakeJob(a, p)
        PROVE  UNCHANGED faults
    BY <2>3 DEF Create, Update, Publish, Cancel, Remove, TakeJob
  <2>4. ASSUME NEW p \in Posts, Trim(p) PROVE UNCHANGED faults
    BY <2>4 DEF Trim
  <2> QED
    BY <1>2, <1>3, <2>1, <2>2, <2>3, <2>4 DEF Next, Tick, vars
<1>5. Good
  BY <1>4 DEF Clean
<1>6. ASSUME NEW a \in Actors, Step(a) PROVE Good'
  BY <1>0, <1>5, <1>6, GetJobTends, RemoveJobTends, AddJobTends, SaveTends, CancelRowTends,
     ReadScheduledTends, PublishRowTends, NotifyTends, EmitTends, SweepRowTends, SweepNextTends
     DEF Step
<1>7. ASSUME NEW a \in Actors, SweepReads(a) PROVE Good'
  BY <1>0, <1>5, <1>7, SweepReadsTends
<1>8. ASSUME NEW a \in Actors, NEW p \in Posts,
             Create(a, p) \/ Update(a, p) \/ Publish(a, p) \/ Cancel(a, p) \/ Remove(a, p)
               \/ TakeJob(a, p)
      PROVE  Good'
  BY <1>0, <1>5, <1>8, CreateTends, RequestTends, RemoveTends, TakeJobTends
<1>9. ASSUME NEW p \in Posts, Trim(p) PROVE Good'
  <2>1. /\ job[p] = "kept" /\ job' = [job EXCEPT ![p] = "none"]
        /\ UNCHANGED <<now, status, sched, pubAt, jobAt, notified, stale, act, sweep>>
    BY <1>9 DEF Trim, rows
  <2>2. \A q \in Posts : job'[q] = job[q] \/ (job[q] = "kept" /\ job'[q] = "none")
    BY <2>1, Parts DEF Typed
  <2>3. now' >= now
    BY <2>1, Parts DEF Typed
  <2> QED
    BY <1>0, <1>5, <2>1, <2>2, <2>3, QuietStep
<1>10. ASSUME Tick PROVE Good'
  <2>1. UNCHANGED <<status, sched, pubAt, job, jobAt, notified, stale, act, sweep>>
    BY <1>10 DEF Tick, rows, queue
  <2>2. now' >= now
    BY <1>10, Parts DEF Tick, Typed
  <2> QED
    BY <1>0, <1>5, <2>1, <2>2, QuietStep
<1>11. ASSUME UNCHANGED vars PROVE Good'
  <2>1. UNCHANGED <<now, status, sched, pubAt, job, jobAt, notified, stale, act, sweep>>
    BY <1>11 DEF vars
  <2>2. now' >= now
    BY <2>1, Parts DEF Typed
  <2> QED
    BY <1>0, <1>5, <2>1, <2>2, QuietStep
<1> QED
  BY <1>2, <1>3, <1>6, <1>7, <1>8, <1>9, <1>10, <1>11 DEF Next

\* Nobody is about anything when all is quiet.
LEMMA CleanIsDone == Typed /\ Clean => QuietIsDone
<1> SUFFICES ASSUME Typed, Clean, Quiet, faults = 0
             PROVE  /\ \A p \in Posts : status[p] = "published" => notified[p] >= 1
                    /\ \A p \in Announcements : ~stale[p]
  BY DEF QuietIsDone
<1>1. Good
  BY DEF Clean
<1>2. \A a \in Actors : act[a].pc = "idle"
  BY IdleNotAbout DEF Quiet
<1>3. ASSUME NEW p \in Posts, status[p] = "published" PROVE notified[p] >= 1
  <2>1. notified[p] \in Nat
    BY Parts DEF Typed
  <2>2. notified[p] # 0
    BY <1>1, <1>2, <1>3 DEF Good, Tended, Heard, Noting
  <2> QED
    BY <2>1, <2>2
<1>4. ASSUME NEW p \in Announcements, stale[p] PROVE FALSE
  <2>1. p \in Posts
    BY DEF Announcements
  <2>2. Behind(p)
    BY <1>2, <1>4 DEF Behind, Emitting
  <2>3. ~Saving(p) /\ ~Coming(p)
    BY <1>2 DEF Saving, Coming, Comes, Queueing
  <2> QED
    BY <1>1, <2>1, <2>2, <2>3 DEF Good, Tended, Fresh
<1> QED
  BY <1>3, <1>4

-----------------------------------------------------------------------------
(* Rows, jobs, handlers and sweeps keep their types.                       *)
THEOREM TypeCorrect == Spec => []TypeOK
<1>1. Spec => []Typed
  BY InitTyped, TypedStep, PTL DEF Spec
<1> QED
  BY <1>1, PTL DEF Typed

(* An announcement reaches its recipients at most once, however the job,   *)
(* the sweep and staff race to publish it.                                 *)
THEOREM NotifiedOnce == Spec => []AnnouncedOnce
<1>1. Init => Typed /\ AllOnce
  BY InitTyped, OnceInit
<1>2. (Typed /\ AllOnce) /\ [Next]_vars => (Typed /\ AllOnce)'
  BY TypedStep, OnceStep
<1>3. Typed /\ AllOnce => AnnouncedOnce
  BY DEF AllOnce, Once, AnnouncedOnce
<1> QED
  BY <1>1, <1>2, <1>3, PTL DEF Spec

(* What is over is done: as long as no handler failed, no process died and *)
(* no job was lost, a state in which every handler has returned has no     *)
(* published post without its notification and no announcement list that   *)
(* is older than its rows, whatever worker, sweep and staff did to the     *)
(* same post in between.                                                   *)
THEOREM PostsAreSound == Spec => []PostsSound
<1>1. Init => Typed /\ Clean
  BY InitTyped, CleanInit
<1>2. (Typed /\ Clean) /\ [Next]_vars => (Typed /\ Clean)'
  BY TypedStep, CleanStep
<1>3. Typed /\ Clean => PostsSound
  BY CleanIsDone DEF Typed, PostsSound
<1> QED
  BY <1>1, <1>2, <1>3, PTL DEF Spec
=============================================================================
