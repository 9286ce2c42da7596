------------------------------ MODULE Shutdown ------------------------------
(***************************************************************************)
(* The end of a process: a signal runs the shutdown tasks in the order     *)
(* they were registered, each to its end, within one budget.  What the     *)
(* process still works on uses the connections those tasks close.  The     *)
(* load balancer learns from the health check that it should look          *)
(* elsewhere.                                                              *)
(***************************************************************************)
EXTENDS Naturals, Sequences

CONSTANTS Signals

VARIABLES runner,    \* each signal's call of shutdown: [pc, next task]
          opened,    \* tasks whose resource still answers
          busy,      \* kinds of work the process has in hand, one of each at most
          draining,  \* health: readiness was pulled down
          probe,     \* the health check: "none", "checking", "up" or "down"
          exit,      \* "none", or the code the process ended with
          ranTask,   \* history: tasks begun, in order
          threw,     \* history: a task threw or the budget ended the process
          stranded,  \* history: <<work, resource>> of work that found it closed
          misled     \* history: the balancer was told "up" of a stopped server

shutdownVars == <<runner, opened, busy, draining, probe, exit, ranTask, threw, stranded, misled>>

\* shutdown.register
TaskOrder == <<"drain", "http", "mails", "fanouts", "publications", "sweeps",
               "subscriber", "redis", "db", "mailer">>
Resources == {TaskOrder[n] : n \in 2..Len(TaskOrder)}

\* Work is named for the task that stops it, and needs these to be open.
Works == {"http", "mails", "fanouts", "publications", "sweeps"}
Needs(w) ==
  CASE w = "http" -> {"mails", "fanouts", "publications", "redis", "db"}
    [] w = "mails" -> {"redis", "mailer"}
    [] w = "fanouts" -> {"redis", "db"}
    [] w = "publications" -> {"fanouts", "redis", "db"}
    [] w = "sweeps" -> {"publications", "fanouts", "redis", "db"}
\* A queue's task closes its worker, which finishes its job, then the queue.
Queues == {"mails", "fanouts", "publications"}
\* Tasks that wait for the work they stop; clearing an interval does not.
Awaits(task) == task \in Queues \cup {"http"}

ShutdownInit ==
  /\ runner = [s \in Signals |-> [pc |-> "none", next |-> 0]]
  /\ opened = Resources /\ busy = {} /\ draining = FALSE /\ probe = "none"
  /\ exit = "none" /\ ranTask = <<>> /\ threw = FALSE /\ stranded = {} /\ misled = FALSE

Alive == exit = "none"

----------------------------------------------------------------------------
(* Work.                                                                   *)

StartWork(w) ==
  /\ Alive /\ w \notin busy
  /\ \A n \in DOMAIN ranTask : ranTask[n] # w
  /\ busy' = busy \cup {w}
  /\ UNCHANGED <<runner, opened, draining, probe, exit, ranTask, threw, stranded, misled>>
\* It turns to a resource that was closed.
MissResource(w, r) ==
  /\ Alive /\ w \in busy /\ r \in Needs(w) \ opened
  /\ stranded' = IF threw THEN stranded ELSE stranded \cup {<<w, r>>}
  /\ busy' = busy \ {w}
  /\ UNCHANGED <<runner, opened, draining, probe, exit, ranTask, threw, misled>>
FinishWork(w) ==
  /\ Alive /\ w \in busy /\ busy' = busy \ {w}
  /\ UNCHANGED <<runner, opened, draining, probe, exit, ranTask, threw, stranded, misled>>

----------------------------------------------------------------------------
(* Shutting down.                                                          *)

\* Mutant: a second signal starts the tasks again.
Mutant_Restarts == TRUE
NotStarted == \A s \in Signals : runner[s].pc = "none"
\* shutdown
Signal(s) ==
  /\ Alive /\ runner[s].pc = "none"
  /\ runner' = [runner EXCEPT ![s] = [pc |-> IF NotStarted THEN "begin" ELSE "ignored", next |-> 1]]
  /\ UNCHANGED <<opened, busy, draining, probe, exit, ranTask, threw, stranded, misled>>

\* A task stops its resource from taking work; drainTask pulls readiness down.
BeginTask(s) ==
  LET task == TaskOrder[runner[s].next] IN
  /\ Alive /\ runner[s].pc = "begin" /\ runner[s].next <= Len(TaskOrder)
  /\ runner' = [runner EXCEPT ![s].pc = "await"]
  /\ opened' = IF task \in Queues THEN opened ELSE opened \ {task}
  /\ draining' = (draining \/ task = "drain")
  /\ ranTask' = Append(ranTask, task)
  /\ UNCHANGED <<busy, probe, exit, threw, stranded, misled>>
\* Mutant: what a queue's worker has in hand is not waited for.
Mutant_ClosesAtOnce(task) == TRUE
Settled(task) == Awaits(task) => task \notin busy
\* A task that throws does not keep the others from running.
EndTask(s, throws) ==
  LET task == TaskOrder[runner[s].next] IN
  /\ Alive /\ runner[s].pc = "await"
  /\ throws \/ Settled(task)
  /\ runner' = [runner EXCEPT ![s] = [pc |-> "begin", next |-> @.next + 1]]
  /\ threw' = (threw \/ throws)
  /\ opened' = IF task \in Queues /\ ~throws THEN opened \ {task} ELSE opened
  /\ UNCHANGED <<busy, draining, probe, exit, ranTask, stranded, misled>>
Complete(s) ==
  /\ Alive /\ runner[s].pc = "begin" /\ runner[s].next > Len(TaskOrder)
  /\ exit' = "done"
  /\ UNCHANGED <<runner, opened, busy, draining, probe, ranTask, threw, stranded, misled>>
\* The budget is over.
ForceExit ==
  /\ Alive /\ ~NotStarted /\ exit' = "forced" /\ threw' = TRUE
  /\ UNCHANGED <<runner, opened, busy, draining, probe, ranTask, stranded, misled>>

----------------------------------------------------------------------------
(* The health check.                                                       *)

StartProbe ==
  /\ Alive /\ probe # "checking" /\ probe' = "checking"
  /\ UNCHANGED <<runner, opened, busy, draining, exit, ranTask, threw, stranded, misled>>
\* Mutant: the report does not look at draining.
Mutant_ChecksOnly(fails) == IF fails THEN "down" ELSE "up"
\* report, once every check came back or ran out of time
Verdict(fails) == IF draining \/ fails THEN "down" ELSE "up"
EndProbe(fails) ==
  /\ Alive /\ probe = "checking"
  /\ {"redis", "db"} \subseteq opened \/ fails
  /\ probe' = Verdict(fails)
  /\ misled' = (misled \/ (probe' = "up" /\ "http" \notin opened))
  /\ UNCHANGED <<runner, opened, busy, draining, exit, ranTask, threw, stranded>>

ShutdownNext ==
  \/ \E w \in Works : StartWork(w) \/ FinishWork(w) \/ \E r \in Needs(w) : MissResource(w, r)
  \/ \E s \in Signals :
       Signal(s) \/ BeginTask(s) \/ Complete(s) \/ \E throws \in BOOLEAN : EndTask(s, throws)
  \/ ForceExit \/ StartProbe \/ \E fails \in BOOLEAN : EndProbe(fails)

ShutdownSpec == ShutdownInit /\ [][ShutdownNext]_shutdownVars

----------------------------------------------------------------------------
ShutdownTypeOK ==
  /\ runner \in [Signals -> [pc : {"none", "begin", "await", "ignored"}, next : 0..Len(TaskOrder) + 1]]
  /\ opened \subseteq Resources /\ busy \subseteq Works
  /\ {draining, threw, misled} \subseteq BOOLEAN /\ probe \in {"none", "checking", "up", "down"}
  /\ exit \in {"none", "done", "forced"} /\ stranded \subseteq Works \X Resources
\* Each task runs once, in order, and all of them before the process is done.
RunOnce ==
  /\ ranTask = SubSeq(TaskOrder, 1, Len(ranTask))
  /\ exit = "done" => ranTask = TaskOrder
\* Work finds what it needs as long as no task threw, but for a publication
\* that needs the queue of fan-outs, which was closed before its worker was,
\* and a sweep, which nobody waits for.
WorkIsFinished ==
  \A m \in stranded : m = <<"publications", "fanouts">> \/ m[1] = "sweeps"

(* Every variable keeps its type; a process runs its tasks once each and   *)
(* in order however many signals it gets, all of them unless its budget    *)
(* ends; requests, mails and fan-outs in hand find what they need open     *)
(* until they are finished (shutdown.ts:46, index.ts:241); and no health   *)
(* check that ends after the server was stopped says that it is up.        *)
ShutdownSound == ShutdownTypeOK /\ RunOnce /\ WorkIsFinished /\ ~misled
=============================================================================
