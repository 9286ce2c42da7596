--------------------------- MODULE ClubApplication ---------------------------
(***************************************************************************)
(* One club application on its way through the tenant's approval chain:    *)
(* decisions of role steps, votes of committee steps, revision rounds,     *)
(* withdrawal, appeal, and the club that the last approval creates.        *)
(*                                                                         *)
(* Every operation is a Postgres transaction at READ COMMITTED that reads  *)
(* the application once and writes by id.  A writer waits for the row lock *)
(* of the one before it and then overwrites, so a transaction is two       *)
(* steps: what it read, and its commit.  A vote has a third in between,    *)
(* the tally, which sees the votes committed by then.                      *)
(***************************************************************************)
EXTENDS Integers, FiniteSets

CONSTANTS Users,         \* staff and committee members
          Applicant,
          None,
          Steps,         \* the chain is 1..Steps
          StepKind,      \* [1..Steps -> {"role_sequential", "committee_majority"}]
          Decides,       \* [1..Steps -> SUBSET Users], who holds the role of a step
          Reviewers,     \* holders of application.view
          Committee,     \* the members of the committee at the start
          FreeSlugs,     \* candidates left of MAX_SLUG_ATTEMPTS for this name
          MaxInFlight,   \* bound on the requests under way at once
          MaxCommitteeChanges

ASSUME ChainType ==
  /\ Steps \in Nat \ {0}
  /\ StepKind \in [1..Steps -> {"role_sequential", "committee_majority"}]
  /\ Decides \in [1..Steps -> SUBSET Users]
  /\ Reviewers \subseteq Users /\ Committee \subseteq Users /\ IsFiniteSet(Committee)
  /\ MaxInFlight \in Nat \ {0}
  /\ FreeSlugs \in Nat \ {0} /\ MaxCommitteeChanges \in Nat
ASSUME ApplicantIsNotStaff == Applicant \notin Users /\ None \notin Users \cup {Applicant}

VARIABLES status,    \* of the application: "none" before, "deleted" after withdrawal
          step,      \* status of each approval row
          votes,     \* votes[k][u]
          appeal,
          rejecter,  \* rejectApproverId
          log,       \* steps with an "approved" row in club_application_events
          clubs,     \* clubs created from this application
          members,   \* of the committee
          changes,   \* how often they were replaced
          tx,        \* the request of each actor
          overlapped \* two requests have ever been under way at once

vars == <<status, step, votes, appeal, rejecter, log, clubs, members, changes, tx, overlapped>>
row == <<status, step, votes, appeal, rejecter, log, clubs>>

Chain == 1..Steps
\* The chain of a tenant that configures none: one role, held by all staff.
DefaultChain == <<"role_sequential">>
DefaultDecides == <<Users>>
Actors == Users \cup {Applicant}
Outcomes == {"approved", "rejected", "revision_requested"}
StepStatus == {"pending"} \cup Outcomes
Ops ==
  Outcomes \cup {"approve", "reject", "resubmit", "withdraw", "appeal", "upheld", "dismissed", "none"}
AllPending == [k \in Chain |-> "pending"]
NoVotes == [k \in Chain |-> [u \in Users |-> "none"]]
Idle == [pc |-> "idle", op |-> "none", row |-> 0, seen |-> AllPending, decision |-> "none"]

TypeOK ==
  /\ status \in {"none", "deleted"} \cup StepStatus
  /\ step \in [Chain -> StepStatus]
  /\ votes \in [Chain -> [Users -> {"none", "approve", "reject"}]]
  /\ appeal \in {"none", "pending", "upheld", "dismissed"}
  /\ rejecter \in Users \cup {None}
  /\ log \subseteq Chain
  /\ clubs \in 0..FreeSlugs
  /\ members \subseteq Users
  /\ changes \in 0..MaxCommitteeChanges
  /\ overlapped \in BOOLEAN
  /\ tx \in [Actors -> [pc : {"idle", "read", "tally", "commit"}, op : Ops, row : 0..Steps,
                        seen : [Chain -> StepStatus], decision : Outcomes \cup {"none"}]]

Init ==
  /\ status = "none"
  /\ step = AllPending
  /\ votes = NoVotes
  /\ appeal = "none"
  /\ rejecter = None
  /\ log = {}
  /\ clubs = 0
  /\ members = Committee
  /\ changes = 0
  /\ tx = [u \in Actors |-> Idle]
  /\ overlapped = FALSE

-----------------------------------------------------------------------------
(***************************************************************************)
(* club-application-chain.core.ts.                                         *)
(***************************************************************************)
Mutant_AnyApproved(s) ==
  IF \E k \in Chain : s[k] = "rejected" THEN "rejected"
  ELSE IF \E k \in Chain : s[k] = "approved" THEN "approved"
  ELSE IF \E k \in Chain : s[k] = "revision_requested" THEN "revision_requested"
  ELSE "pending"
deriveApplicationStatus(s) ==
  IF \E k \in Chain : s[k] = "rejected" THEN "rejected"
  ELSE IF \A k \in Chain : s[k] = "approved" THEN "approved"
  ELSE IF \E k \in Chain : s[k] = "revision_requested" THEN "revision_requested"
  ELSE "pending"

Mutant_AnyPending(s) == {k \in Chain : s[k] = "pending"}
\* The pending row whose predecessors are all approved, as a set of at most one.
findCurrentApprovalStep(s) ==
  {k \in Chain : s[k] = "pending" /\ \A j \in 1..(k - 1) : s[j] = "approved"}

Mutant_HalfIsEnough(n) == IF n = 0 THEN 1 ELSE n \div 2
Mutant_Unanimity(n) == IF n = 0 THEN 1 ELSE n
computeCommitteeMajorityThreshold(n) == IF n = 0 THEN 1 ELSE n \div 2 + 1

Count(v, what) == Cardinality({u \in Users : v[u] = what})

-----------------------------------------------------------------------------
InFlight == {v \in Actors : tx[v] # Idle}
MayBegin(u) ==
  /\ tx[u] = Idle /\ Cardinality(InFlight) < MaxInFlight
  /\ overlapped' = (overlapped \/ InFlight # {})

End(u) == tx' = [tx EXCEPT ![u] = Idle]

\* createApplication / insertApplicationWithApprovals.
Submit ==
  /\ status = "none"
  /\ status' = "pending"
  /\ step' = AllPending
  /\ UNCHANGED <<votes, appeal, rejecter, log, clubs, members, changes, tx, overlapped>>

MayDecide(u, d, k) ==
  IF StepKind[k] = "committee_majority" THEN d = "revision_requested" /\ u \in members
  ELSE u \in Decides[k]

\* approveClubApplication, rejectClubApplication, requestClubApplicationRevision:
\* a holder of application.view asks.  What is looked at before the transaction
\* begins (the application is there, the checklist is complete) only refuses,
\* as if nothing had been asked for.
DecisionRequest(u) == u \in Reviewers /\ MayBegin(u)

\* applyApplicationStepDecision, down to the call that writes.
Decide(u, d) ==
  /\ DecisionRequest(u)
  /\ status = "pending"
  /\ \E k \in findCurrentApprovalStep(step) :
       /\ MayDecide(u, d, k)
       /\ tx' = [tx EXCEPT ![u] = [pc |-> "commit", op |-> d, row |-> k, seen |-> step,
                                    decision |-> d]]
  /\ UNCHANGED <<row, members, changes>>

\* castCommitteeVote: a member of the committee asks.
VoteRequest(u) == u \in members /\ MayBegin(u)

\* castVote up to the upsert of the vote.
Vote(u, v) ==
  /\ VoteRequest(u)
  /\ status = "pending"
  /\ \E k \in findCurrentApprovalStep(step) :
       /\ StepKind[k] = "committee_majority"
       /\ tx' = [tx EXCEPT ![u] = [pc |-> "tally", op |-> v, row |-> k, seen |-> step,
                                    decision |-> "none"]]
  /\ UNCHANGED <<row, members, changes>>

Mutant_VoteAsOutcome(u) ==
  LET v == [votes[tx[u].row] EXCEPT ![u] = tx[u].op]
      needed == computeCommitteeMajorityThreshold(Cardinality(members))
  IN
  /\ tx[u].pc = "tally"
  /\ tx' = [tx EXCEPT ![u].pc = "commit",
                        ![u].decision = IF Count(v, tx[u].op) >= needed THEN tx[u].op ELSE "none"]
  /\ UNCHANGED <<row, members, changes, overlapped>>
\* The tally: the own vote and every vote committed by now, against a majority
\* of the members of now.
Tally(u) ==
  LET v == [votes[tx[u].row] EXCEPT ![u] = tx[u].op]
      needed == computeCommitteeMajorityThreshold(Cardinality(members))
  IN
  /\ tx[u].pc = "tally"
  /\ tx' = [tx EXCEPT ![u].pc = "commit", ![u].decision =
              IF Count(v, "approve") >= needed THEN "approved"
              ELSE IF Count(v, "reject") >= needed THEN "rejected" ELSE "none"]
  /\ UNCHANGED <<row, members, changes, overlapped>>

\* The upsert of a vote that decides nothing.
CommitVote(u) ==
  /\ tx[u].pc = "commit" /\ tx[u].op \in {"approve", "reject"} /\ tx[u].decision = "none"
  /\ votes' = IF status = "deleted" THEN votes ELSE [votes EXCEPT ![tx[u].row][u] = tx[u].op]
  /\ End(u)
  /\ UNCHANGED <<status, step, appeal, rejecter, log, clubs, members, changes, overlapped>>

Mutant_StepMakesClub(derived, d) == d = "approved"
MakesClub(derived, d) == derived = "approved"

\* finalizeApplicationStepInTransaction.  The summary is derived from the rows
\* this transaction read; with the last approval the club is created under the
\* first free slug.  A row deleted in between makes the event insert fail, no
\* free slug throws: both roll everything back.
Finalize(u) ==
  LET d == tx[u].decision
      derived == deriveApplicationStatus([tx[u].seen EXCEPT ![tx[u].row] = d])
      rollback == status = "deleted" \/ (MakesClub(derived, d) /\ clubs = FreeSlugs)
  IN
  /\ tx[u].pc = "commit" /\ d # "none"
  /\ End(u)
  /\ \/ rollback /\ UNCHANGED row
     \/ /\ ~rollback
        /\ step' = [step EXCEPT ![tx[u].row] = d]
        /\ votes' = IF tx[u].op \in {"approve", "reject"}
                    THEN [votes EXCEPT ![tx[u].row][u] = tx[u].op] ELSE votes
        /\ status' = derived
        /\ rejecter' = IF derived = "rejected" THEN u ELSE rejecter
        /\ log' = IF d = "approved" THEN log \cup {tx[u].row} ELSE log
        /\ clubs' = IF MakesClub(derived, d) THEN clubs + 1 ELSE clubs
        /\ UNCHANGED appeal
  /\ UNCHANGED <<members, changes, overlapped>>

-----------------------------------------------------------------------------
(***************************************************************************)
(* The applicant.                                                          *)
(***************************************************************************)
Mutant_WithdrawDecided == status \in {"pending", "approved", "rejected"}
MayWithdraw == status = "pending"

\* resubmitApplication, withdrawApplication, submitAppeal: what they check.
ApplicantReads(op) ==
  /\ MayBegin(Applicant)
  /\ CASE op = "resubmit" ->
              status = "revision_requested" /\ \E k \in Chain : step[k] = "revision_requested"
       [] op = "withdraw" -> MayWithdraw
       [] op = "appeal" -> status = "rejected" /\ appeal = "none"
  /\ tx' = [tx EXCEPT ![Applicant] = [Idle EXCEPT !.pc = "commit", !.op = op, !.seen = step]]
  /\ UNCHANGED <<row, members, changes>>

\* The revision step this transaction read goes back to pending; votes stay.
Resubmit ==
  LET t == tx[Applicant] IN
  /\ t.pc = "commit" /\ t.op = "resubmit"
  /\ End(Applicant)
  /\ \E k \in Chain :
       /\ t.seen[k] = "revision_requested" /\ \A j \in 1..(k - 1) : t.seen[j] # "revision_requested"
       /\ step' = [step EXCEPT ![k] = "pending"]
  /\ status' = "pending"
  /\ UNCHANGED <<votes, appeal, rejecter, log, clubs, members, changes, overlapped>>

\* deleteApplication: by id, whatever the status has become.
Withdraw ==
  /\ tx[Applicant].pc = "commit" /\ tx[Applicant].op = "withdraw"
  /\ End(Applicant)
  /\ status' = "deleted" /\ step' = AllPending /\ votes' = NoVotes
  /\ appeal' = "none" /\ rejecter' = None /\ log' = {}
  /\ UNCHANGED <<clubs, members, changes, overlapped>>

\* createAppeal; application_id is unique in the table of appeals.
Appeal ==
  /\ tx[Applicant].pc = "commit" /\ tx[Applicant].op = "appeal"
  /\ End(Applicant)
  /\ appeal' = IF appeal = "none" THEN "pending" ELSE appeal
  /\ UNCHANGED <<status, step, votes, rejecter, log, clubs, members, changes, overlapped>>

-----------------------------------------------------------------------------
\* reviewAppeal's checks: whoever could decide the rejected step, but not the
\* one who rejected it if anybody else may look at applications.
CanReview(u) ==
  /\ u \in Reviewers
  /\ \E k \in Chain :
       /\ step[k] = "rejected" /\ \A j \in 1..(k - 1) : step[j] # "rejected"
       /\ StepKind[k] = "role_sequential" /\ u \in Decides[k]
  /\ rejecter = u => Reviewers = {u}

BeginReview(u, d) ==
  /\ MayBegin(u)
  /\ appeal = "pending" /\ CanReview(u)
  /\ tx' = [tx EXCEPT ![u] = [Idle EXCEPT !.pc = "read", !.op = d]]
  /\ UNCHANGED <<row, members, changes>>

ReadForReview(u) ==
  /\ tx[u].pc = "read" /\ tx[u].op \in {"upheld", "dismissed"}
  /\ IF appeal = "pending"
     THEN tx' = [tx EXCEPT ![u].pc = "commit", ![u].seen = step]
     ELSE End(u)
  /\ UNCHANGED <<row, members, changes, overlapped>>

Mutant_UpholdStatusOnly(u) ==
  /\ tx[u].pc = "commit" /\ tx[u].op \in {"upheld", "dismissed"}
  /\ End(u)
  /\ appeal' = tx[u].op
  /\ status' = IF tx[u].op = "upheld" THEN "pending" ELSE status
  /\ rejecter' = IF tx[u].op = "upheld" THEN None ELSE rejecter
  /\ UNCHANGED <<step, votes, log, clubs, members, changes, overlapped>>
\* An upheld appeal puts the rejected step and the application back to pending;
\* on an application deleted meanwhile the event insert fails.
CommitReview(u) ==
  LET t == tx[u]
      back == {k \in Chain : t.seen[k] = "rejected" /\ \A j \in 1..(k - 1) : t.seen[j] # "rejected"}
  IN
  /\ t.pc = "commit" /\ t.op \in {"upheld", "dismissed"}
  /\ End(u)
  /\ appeal' = IF status = "deleted" THEN appeal ELSE t.op
  /\ IF t.op = "upheld" /\ status # "deleted"
     THEN /\ step' = [k \in Chain |-> IF k \in back THEN "pending" ELSE step[k]]
          /\ status' = "pending" /\ rejecter' = None
     ELSE UNCHANGED <<step, status, rejecter>>
  /\ UNCHANGED <<votes, log, clubs, members, changes, overlapped>>

\* approvalCommittees update: the list of members is replaced.
SetMembers(m) ==
  /\ changes < MaxCommitteeChanges
  /\ members' = m
  /\ changes' = changes + 1
  /\ UNCHANGED <<row, tx, overlapped>>

Next ==
  \/ Submit
  \/ \E u \in Users, d \in Outcomes : Decide(u, d)
  \/ \E u \in Users, v \in {"approve", "reject"} : Vote(u, v)
  \/ \E u \in Users, d \in {"upheld", "dismissed"} : BeginReview(u, d)
  \/ \E u \in Users : ReadForReview(u) \/ Tally(u) \/ CommitVote(u) \/ Finalize(u) \/ CommitReview(u)
  \/ \E op \in {"resubmit", "withdraw", "appeal"} : ApplicantReads(op)
  \/ Resubmit \/ Withdraw \/ Appeal
  \/ \E m \in (SUBSET Users) \ {{}} : SetMembers(m)

Spec == Init /\ [][Next]_vars

-----------------------------------------------------------------------------
(***************************************************************************)
(* Properties.                                                             *)
(***************************************************************************)
Exists == status \notin {"none", "deleted"}

\* The summary column is what deriveApplicationStatus makes of the rows ("özet
\* durum, approvals adımlarından türetilir", schema/applications.ts), as long
\* as no two requests overlapped: each derives it from the rows it read.
StatusDerived == ~overlapped /\ Exists => status = deriveApplicationStatus(step)

\* docs/integration/admin-panel.md: with all of its steps approved an
\* application is approved and a club exists, one club and only then.
OneClubPerApproval == /\ clubs <= 1
                      /\ Exists => (clubs = 1 <=> status = "approved")

\* So it is as long as no two requests overlapped.
ClubIffApproved == ~overlapped => OneClubPerApproval

\* The chain is decided in order, one request at a time: behind a step that is
\* not approved nothing has been decided, not even after revisions and appeals.
ChainInOrder ==
  ~overlapped =>
    \A j, k \in Chain : j < k /\ step[j] # "approved" => step[k] = "pending"

\* However requests overlap, no step is skipped on the way to a club: the event
\* log of an application with a club holds an approval of every step.
ClubNeedsEveryStep == clubs > 0 /\ Exists => log = Chain

\* A committee that stays as it is, voting one at a time, decides with the vote
\* that completes the majority: none is left pending with a majority cast.
MajorityDecides ==
  ~overlapped /\ changes = 0 /\ status = "pending" =>
    \A k \in findCurrentApprovalStep(step) :
      StepKind[k] = "committee_majority" =>
        LET needed == Cardinality(members) \div 2 + 1 IN
        Count(votes[k], "approve") < needed /\ Count(votes[k], "reject") < needed

(* Every variable keeps its type, and of requests that came one at a time: *)
(* the summary is what the steps derive, a club is there exactly when all  *)
(* of them approved, behind an open step nothing is decided, and a         *)
(* committee that stays as it is never waits with its majority cast.       *)
ChainSound == TypeOK /\ StatusDerived /\ ClubIffApproved /\ ChainInOrder /\ MajorityDecides

\* docs/integration/admin-panel.md: the votes needed are more than half of all
\* members, so a committee that stays as it is approves only with that many for.
MajorityOfMembers ==
  [][\A k \in Chain :
       ~overlapped /\ changes = 0
         /\ StepKind[k] = "committee_majority" /\ step[k] # "approved" /\ step'[k] = "approved"
         => 2 * Cardinality({u \in members : votes'[k][u] = "approve"}) > Cardinality(members)]_vars

\* Whatever the chain is, an application keeps the promise of ApplicationOutcome:
\* between reading and committing nothing shows, and one commit is one step.
Outcome == INSTANCE ApplicationOutcome
             WITH outcome <- IF status \in {"pending", "revision_requested"} THEN "open" ELSE status,
                  contested <- overlapped
KeepsOutcome == Outcome!OutcomeSpec

\* clubs.service.ts: an application that has been approved or rejected cannot
\* be withdrawn; it is not, unless the decision overlapped the withdrawal.
DecidedStays ==
  [][~overlapped /\ (status = "approved" \/ status = "rejected") => status' # "deleted"]_vars
=============================================================================
