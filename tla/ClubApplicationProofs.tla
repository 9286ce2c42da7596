------------------------ MODULE ClubApplicationProofs ------------------------
(***************************************************************************)
(* Proofs about ClubApplication, for any chain, staff, committee and       *)
(* number of requests: its types, that no step is skipped on the way to a  *)
(* club, that the summary, the club and the order of the chain agree while *)
(* no two requests overlap, and that it implements ApplicationOutcome.     *)
(***************************************************************************)
EXTENDS ClubApplication, FiniteSetTheorems, TLAPS

Votes == {"approve", "reject"}
Reviews == {"upheld", "dismissed"}
Wishes == {"resubmit", "withdraw", "appeal"}
Seen == [Chain -> StepStatus]

\* What a request under way looks like, of staff and of the applicant.
OfStaff ==
  {Idle}
    \cup [pc : {"commit"}, op : Outcomes, row : Chain, seen : Seen, decision : Outcomes]
    \cup [pc : {"tally", "commit"}, op : Votes, row : Chain, seen : Seen,
          decision : Outcomes \cup {"none"}]
    \cup [pc : {"read", "commit"}, op : Reviews, row : {0}, seen : Seen, decision : {"none"}]
OfApplicant ==
  {Idle} \cup [pc : {"commit"}, op : Wishes, row : {0}, seen : Seen, decision : {"none"}]

Kinds ==
  /\ tx \in [Actors -> OfStaff \cup OfApplicant]
  /\ \A u \in Users : tx[u] \in OfStaff
  /\ tx[Applicant] \in OfApplicant

Shape == TypeOK /\ Kinds

-----------------------------------------------------------------------------
LEMMA Sets ==
  /\ Users \subseteq Actors /\ Applicant \in Actors /\ Applicant \notin Users
  /\ Actors = Users \cup {Applicant}
  /\ Chain \subseteq 0..Steps /\ 1 \in Chain /\ Steps \in Nat
  /\ findCurrentApprovalStep(step) \subseteq Chain
  /\ AllPending \in Seen
  /\ NoVotes \in [Chain -> [Users -> {"none", "approve", "reject"}]]
BY ChainType, ApplicantIsNotStaff
   DEF Actors, Chain, findCurrentApprovalStep, AllPending, NoVotes, Seen, StepStatus

LEMMA IdleIs == Idle.pc = "idle" /\ Idle.op = "none" /\ Idle.row = 0 /\ Idle.seen = AllPending
                /\ Idle.decision = "none"
BY DEF Idle

\* The requests are of the type that TypeOK states.
LEMMA KindsType ==
  OfStaff \cup OfApplicant \subseteq
    [pc : {"idle", "read", "tally", "commit"}, op : Ops, row : 0..Steps,
     seen : [Chain -> StepStatus], decision : Outcomes \cup {"none"}]
<1> DEFINE R == [pc : {"idle", "read", "tally", "commit"}, op : Ops, row : 0..Steps,
                 seen : [Chain -> StepStatus], decision : Outcomes \cup {"none"}]
<1> USE Sets DEF Seen
<1>1. Idle \in R
  BY ChainType DEF Idle, Ops
<1>2. [pc : {"commit"}, op : Outcomes, row : Chain, seen : Seen, decision : Outcomes] \subseteq R
  BY DEF Ops
<1>3. [pc : {"tally", "commit"}, op : Votes, row : Chain, seen : Seen,
       decision : Outcomes \cup {"none"}] \subseteq R
  BY DEF Ops, Votes
<1>4. [pc : {"read", "commit"}, op : Reviews, row : {0}, seen : Seen, decision : {"none"}] \subseteq R
  BY ChainType DEF Ops, Reviews
<1>5. [pc : {"commit"}, op : Wishes, row : {0}, seen : Seen, decision : {"none"}] \subseteq R
  BY ChainType DEF Ops, Wishes
<1>6. OfStaff \subseteq R
  BY <1>1, <1>2, <1>3, <1>4 DEF OfStaff
<1>7. OfApplicant \subseteq R
  BY <1>1, <1>5 DEF OfApplicant
<1> QED
  BY <1>6, <1>7

\* Replacing a request of staff, or the applicant's, by one of the same kind.
LEMMA StaffKind ==
  ASSUME Kinds, NEW u \in Users, NEW r \in OfStaff, tx' = [tx EXCEPT ![u] = r]
  PROVE  Kinds'
BY Sets DEF Kinds

LEMMA ApplicantKind ==
  ASSUME Kinds, NEW r \in OfApplicant, tx' = [tx EXCEPT ![Applicant] = r]
  PROVE  Kinds'
BY Sets DEF Kinds

LEMMA EndKind ==
  ASSUME Kinds, NEW u \in Actors, End(u)
  PROVE  Kinds'
BY Sets DEF Kinds, End, OfStaff, OfApplicant

LEMMA InitShape == Init => Shape
<1> SUFFICES ASSUME Init PROVE Shape
  OBVIOUS
<1>1. Kinds
  BY Sets DEF Init, Kinds, OfStaff, OfApplicant
<1>2. tx \in [Actors -> [pc : {"idle", "read", "tally", "commit"}, op : Ops, row : 0..Steps,
                         seen : [Chain -> StepStatus], decision : Outcomes \cup {"none"}]]
  BY <1>1, KindsType DEF Kinds
<1>3. clubs \in 0..FreeSlugs /\ changes \in 0..MaxCommitteeChanges /\ members \subseteq Users
  BY ChainType DEF Init
<1> QED
  BY <1>1, <1>2, <1>3, Sets DEF Init, Shape, TypeOK, Seen

LEMMA ShapeStep == Shape /\ [Next]_vars => Shape'
<1> SUFFICES ASSUME Shape, [Next]_vars PROVE Shape'
  OBVIOUS
<1> USE Sets
<1>k. Kinds /\ TypeOK
  BY DEF Shape
<1>q. ASSUME Kinds', UNCHANGED <<row, members, changes>>, overlapped' \in BOOLEAN PROVE Shape'
  BY <1>q, <1>k, KindsType DEF Shape, TypeOK, Kinds, row
<1>s. step \in Seen /\ overlapped \in BOOLEAN
  BY <1>k DEF TypeOK, Seen
<1>o. \A u \in Actors : MayBegin(u) => overlapped' \in BOOLEAN
  BY <1>s DEF MayBegin
<1>t. Kinds' => tx' \in [Actors -> [pc : {"idle", "read", "tally", "commit"}, op : Ops, row : 0..Steps,
                                    seen : [Chain -> StepStatus], decision : Outcomes \cup {"none"}]]
  BY KindsType DEF Kinds
<1>1. CASE Submit
  BY <1>1, <1>k DEF Submit, Shape, TypeOK, Kinds, StepStatus, Seen
<1>2. ASSUME NEW u \in Users, NEW d \in Outcomes, Decide(u, d) PROVE Shape'
  <2>1. PICK k \in findCurrentApprovalStep(step) :
          tx' = [tx EXCEPT ![u] = [pc |-> "commit", op |-> d, row |-> k, seen |-> step, decision |-> d]]
    BY <1>2 DEF Decide
  <2>2. [pc |-> "commit", op |-> d, row |-> k, seen |-> step, decision |-> d] \in OfStaff
    BY <1>s DEF OfStaff
  <2> QED BY <1>2, <1>k, <1>o, <1>q, <2>1, <2>2, StaffKind DEF Decide, DecisionRequest
<1>3. ASSUME NEW u \in Users, NEW v \in Votes, Vote(u, v) PROVE Shape'
  <2>1. PICK k \in findCurrentApprovalStep(step) :
          tx' = [tx EXCEPT ![u] = [pc |-> "tally", op |-> v, row |-> k, seen |-> step, decision |-> "none"]]
    BY <1>3 DEF Vote
  <2>2. [pc |-> "tally", op |-> v, row |-> k, seen |-> step, decision |-> "none"] \in OfStaff
    BY <1>s DEF OfStaff
  <2> QED BY <1>3, <1>k, <1>o, <1>q, <2>1, <2>2, StaffKind DEF Vote, VoteRequest
<1>4. ASSUME NEW u \in Users, NEW d \in Reviews, BeginReview(u, d) PROVE Shape'
  <2>1. [Idle EXCEPT !.pc = "read", !.op = d] \in OfStaff
    BY DEF OfStaff, Idle
  <2> QED BY <1>4, <1>k, <1>o, <1>q, <2>1, StaffKind DEF BeginReview
<1>5. ASSUME NEW u \in Users, ReadForReview(u) PROVE Shape'
  <2>1. [tx[u] EXCEPT !.pc = "commit", !.seen = step] \in OfStaff
    <3>1. tx[u].pc = "read" /\ tx[u] \in OfStaff
      BY <1>5, <1>k DEF ReadForReview, Kinds
    <3>2. tx[u] \in [pc : {"read", "commit"}, op : Reviews, row : {0}, seen : Seen, decision : {"none"}]
      BY <3>1 DEF OfStaff, Idle
    <3>3. [tx[u] EXCEPT !.pc = "commit", !.seen = step] \in
            [pc : {"read", "commit"}, op : Reviews, row : {0}, seen : Seen, decision : {"none"}]
      BY <1>s, <3>2
    <3> QED BY <3>3 DEF OfStaff
  <2>2. CASE appeal = "pending"
    <3>1. tx' = [tx EXCEPT ![u] = [tx[u] EXCEPT !.pc = "commit", !.seen = step]]
      BY <1>5, <2>2 DEF ReadForReview
    <3> QED BY <3>1, <1>5, <1>k, <1>s, <1>q, <2>1, <2>2, StaffKind DEF ReadForReview
  <2>3. CASE appeal # "pending"
    BY <1>5, <1>k, <1>s, <1>q, <2>3, EndKind DEF ReadForReview
  <2> QED BY <2>2, <2>3
<1>6. ASSUME NEW u \in Users, Tally(u) PROVE Shape'
  <2>1. \A d \in {"approved", "rejected", "none"} :
          [tx[u] EXCEPT !.pc = "commit", !.decision = d] \in OfStaff
    <3> DEFINE V == [pc : {"tally", "commit"}, op : Votes, row : Chain, seen : Seen,
                     decision : Outcomes \cup {"none"}]
    <3>1. tx[u].pc = "tally" /\ tx[u] \in OfStaff
      BY <1>6, <1>k DEF Tally, Kinds
    <3>2. tx[u] \in V
      BY <3>1 DEF OfStaff, Idle
    <3>3. \A d \in {"approved", "rejected", "none"} : [tx[u] EXCEPT !.pc = "commit", !.decision = d] \in V
      BY <3>2 DEF Outcomes
    <3> QED BY <3>3 DEF OfStaff
  <2>2. \E d \in {"approved", "rejected", "none"} :
          tx' = [tx EXCEPT ![u] = [tx[u] EXCEPT !.pc = "commit", !.decision = d]]
    BY <1>6 DEF Tally
  <2> QED BY <1>6, <1>k, <1>s, <1>q, <2>1, <2>2, StaffKind DEF Tally
<1>7. ASSUME NEW u \in Users, CommitVote(u) PROVE Shape'
  <2>1. votes' \in [Chain -> [Users -> {"none", "approve", "reject"}]]
    BY <1>7, <1>k DEF CommitVote, TypeOK
  <2> QED BY <1>7, <1>k, <1>t, <2>1, EndKind DEF CommitVote, Shape, TypeOK
<1>8. ASSUME NEW u \in Users, Finalize(u) PROVE Shape'
  <2>1. Kinds' /\ UNCHANGED <<members, changes, overlapped>>
    BY <1>8, <1>k, EndKind DEF Finalize
  <2>2. CASE UNCHANGED row
    BY <1>s, <1>q, <2>1, <2>2
  <2>3. CASE ~UNCHANGED row
    <3>1. tx[u].decision \in Outcomes /\ tx[u].row \in Chain /\ tx[u].op \in Outcomes \cup Votes
      BY <1>8, <1>k DEF Finalize, Kinds, OfStaff, Idle
    <3>2. status' \in StepStatus
      BY <1>8, <2>3 DEF Finalize, deriveApplicationStatus, StepStatus, Outcomes
    <3>3. clubs' \in 0..FreeSlugs
      <4>1. clubs \in 0..FreeSlugs /\ FreeSlugs \in Nat
        BY <1>k, ChainType DEF TypeOK
      <4>2. clubs' = clubs \/ (clubs' = clubs + 1 /\ clubs # FreeSlugs)
        BY <1>8, <2>3 DEF Finalize
      <4> QED BY <4>1, <4>2
    <3>4. step' \in [Chain -> StepStatus]
      BY <1>8, <1>k, <2>3, <3>1 DEF Finalize, TypeOK, StepStatus
    <3>5. votes' \in [Chain -> [Users -> {"none", "approve", "reject"}]]
      BY <1>8, <1>k, <2>3, <3>1 DEF Finalize, TypeOK
    <3>6. log' \subseteq Chain /\ rejecter' \in Users \cup {None} /\ appeal' = appeal
      BY <1>8, <1>k, <2>3, <3>1 DEF Finalize, TypeOK
    <3> QED
      BY <1>k, <1>t, <2>1, <3>2, <3>3, <3>4, <3>5, <3>6 DEF Shape, TypeOK
  <2> QED BY <2>2, <2>3
<1>9. ASSUME NEW u \in Users, CommitReview(u) PROVE Shape'
  <2>1. Kinds' /\ UNCHANGED <<votes, log, clubs, members, changes, overlapped>>
    BY <1>9, <1>k, EndKind DEF CommitReview
  <2>2. /\ appeal' \in {"none", "pending", "upheld", "dismissed"}
        /\ step' \in [Chain -> StepStatus]
        /\ status' \in {"none", "deleted"} \cup StepStatus
        /\ rejecter' \in Users \cup {None}
    BY <1>9, <1>k DEF CommitReview, TypeOK, StepStatus
  <2> QED BY <1>k, <1>t, <2>1, <2>2 DEF Shape, TypeOK
<1>10. ASSUME NEW op \in Wishes, ApplicantReads(op) PROVE Shape'
  <2>1. [Idle EXCEPT !.pc = "commit", !.op = op, !.seen = step] \in OfApplicant
    BY <1>s DEF OfApplicant, Idle
  <2> QED BY <1>10, <1>k, <1>o, <1>q, <2>1, ApplicantKind DEF ApplicantReads
<1>11. CASE Resubmit
  <2>1. Kinds' /\ step' \in [Chain -> StepStatus]
    BY <1>11, <1>k, EndKind DEF Resubmit, TypeOK, StepStatus
  <2> QED BY <1>11, <1>k, <1>t, <2>1 DEF Resubmit, Shape, TypeOK, StepStatus
<1>12. CASE Withdraw
  BY <1>12, <1>k, <1>t, EndKind DEF Withdraw, Shape, TypeOK, Seen
<1>13. CASE Appeal
  BY <1>13, <1>k, <1>t, EndKind DEF Appeal, Shape, TypeOK
<1>14. ASSUME NEW m \in (SUBSET Users) \ {{}}, SetMembers(m) PROVE Shape'
  BY <1>14, <1>k, ChainType DEF SetMembers, Shape, TypeOK, Kinds, row
<1>15. CASE UNCHANGED vars
  BY <1>15, <1>k DEF vars, Shape, TypeOK, Kinds
<1> QED
  BY <1>1, <1>2, <1>3, <1>4, <1>5, <1>6, <1>7, <1>8, <1>9, <1>10, <1>11, <1>12, <1>13, <1>14, <1>15
     DEF Next, Votes, Reviews, Wishes

(* The application, its steps, votes and requests keep their types, however *)
(* many requests are under way.                                            *)
THEOREM TypeCorrect == Spec => []TypeOK
<1>1. Spec => []Shape
  BY InitShape, ShapeStep, PTL DEF Spec
<1> QED
  BY <1>1, PTL DEF Shape

-----------------------------------------------------------------------------
(***************************************************************************)
(* However requests overlap: whatever a step or a request has seen         *)
(* approved is in the log, until the application is deleted for good.      *)
(***************************************************************************)
Logged ==
  /\ status = "none" =>
       tx = [u \in Actors |-> Idle] /\ step = AllPending /\ clubs = 0 /\ appeal = "none"
  /\ tx[Applicant].op = "resubmit" => status # "deleted"
  /\ status # "deleted" =>
       /\ \A k \in Chain : step[k] = "approved" => k \in log
       /\ \A u \in Users, k \in Chain : tx[u].seen[k] = "approved" => k \in log
       /\ clubs > 0 => log = Chain

LEMMA InitLogged == Init => Logged
BY Sets, IdleIs DEF Init, Logged, AllPending

LEMMA Derived ==
  \A s \in Seen : deriveApplicationStatus(s) = "approved" <=> \A k \in Chain : s[k] = "approved"
BY Sets DEF deriveApplicationStatus, Seen

LEMMA LoggedStep == Shape /\ Logged /\ [Next]_vars => Logged'
<1> SUFFICES ASSUME Shape, Logged, [Next]_vars PROVE Logged'
  OBVIOUS
<1> USE Sets, IdleIs
<1>k. Kinds /\ TypeOK
  BY DEF Shape
<1>f. DOMAIN tx = Actors /\ step \in Seen /\ clubs \in Nat /\ tx \in [Actors -> OfStaff \cup OfApplicant]
  BY <1>k, ChainType DEF Kinds, TypeOK, Seen
<1>i. \A k \in Chain : AllPending[k] = "pending"
  BY DEF AllPending
\* A request begins, after which it has seen the steps of now.
<1>b. ASSUME NEW u \in Actors, NEW r \in OfStaff \cup OfApplicant, tx' = [tx EXCEPT ![u] = r],
             r.seen \in {step, AllPending}, status # "none", UNCHANGED row,
             u = Applicant /\ r.op = "resubmit" => status # "deleted"
      PROVE  Logged'
  BY <1>b, <1>f, <1>i DEF Logged, row
\* A request ends.
<1>e. ASSUME NEW u \in Actors, End(u), status # "none", status' # "none",
             status' = "deleted" => tx'[Applicant].op # "resubmit",
             status = "deleted" => status' = "deleted",
             status' # "deleted" =>
               /\ log \subseteq log'
               /\ \A k \in Chain : step'[k] = "approved" => step[k] = "approved" \/ k \in log'
               /\ clubs' > 0 => clubs > 0 \/ log' = Chain
               /\ log' \subseteq Chain
      PROVE  Logged'
  <2>1. status' # "deleted" => \A v \in Users, k \in Chain : tx'[v].seen[k] = "approved" => k \in log'
    BY <1>e, <1>f, <1>i DEF Logged, End
  <2>2. tx'[Applicant].op = "resubmit" => status' # "deleted"
    BY <1>e
  <2> QED BY <1>e, <1>f, <2>1, <2>2 DEF Logged
<1>n. \A u \in Actors : tx[u].pc # "idle" => status # "none"
  BY DEF Logged
<1>1. CASE Submit
  BY <1>1, <1>f, <1>i DEF Submit, Logged
<1>2. ASSUME NEW u \in Users, NEW d \in Outcomes, Decide(u, d) PROVE Logged'
  <2>1. PICK k \in Chain :
          tx' = [tx EXCEPT ![u] = [pc |-> "commit", op |-> d, row |-> k, seen |-> step, decision |-> d]]
    BY <1>2 DEF Decide
  <2>2. [pc |-> "commit", op |-> d, row |-> k, seen |-> step, decision |-> d] \in OfStaff
    BY <1>f DEF OfStaff
  <2> QED BY <1>2, <1>b, <2>1, <2>2 DEF Decide
<1>3. ASSUME NEW u \in Users, NEW v \in Votes, Vote(u, v) PROVE Logged'
  <2>1. PICK k \in Chain :
          tx' = [tx EXCEPT ![u] = [pc |-> "tally", op |-> v, row |-> k, seen |-> step, decision |-> "none"]]
    BY <1>3 DEF Vote
  <2>2. [pc |-> "tally", op |-> v, row |-> k, seen |-> step, decision |-> "none"] \in OfStaff
    BY <1>f DEF OfStaff
  <2> QED BY <1>3, <1>b, <2>1, <2>2 DEF Vote
<1>4. ASSUME NEW u \in Users, NEW d \in Reviews, BeginReview(u, d) PROVE Logged'
  <2>1. [Idle EXCEPT !.pc = "read", !.op = d] \in OfStaff
    BY DEF OfStaff, Idle
  <2>2. [Idle EXCEPT !.pc = "read", !.op = d].seen = AllPending
    BY DEF Idle
  <2> QED BY <1>4, <1>b, <2>1, <2>2 DEF BeginReview, Logged
<1>5. ASSUME NEW u \in Users, ReadForReview(u) PROVE Logged'
  BY <1>5, <1>f, <1>i, <1>n DEF ReadForReview, Logged, row, End, OfStaff, OfApplicant
<1>6. ASSUME NEW u \in Users, Tally(u) PROVE Logged'
  BY <1>6, <1>f, <1>n DEF Tally, Logged, row
<1>7. ASSUME NEW u \in Users, CommitVote(u) PROVE Logged'
  BY <1>7, <1>e, <1>f, <1>n, <1>k DEF CommitVote, End, Logged, TypeOK
<1>8. ASSUME NEW u \in Users, Finalize(u) PROVE Logged'
  <2>1. CASE UNCHANGED row
    BY <1>8, <2>1, <1>e, <1>f, <1>n, <1>k DEF Finalize, End, Logged, row, TypeOK
  <2>2. CASE ~UNCHANGED row
    <3> DEFINE d == tx[u].decision
               s == [tx[u].seen EXCEPT ![tx[u].row] = d]
    <3>1. d \in Outcomes /\ tx[u].row \in Chain /\ tx[u].seen \in Seen
      BY <1>8, <1>k DEF Finalize, Kinds, OfStaff, Idle
    <3>2. /\ status # "deleted" /\ status # "none" /\ status' = deriveApplicationStatus(s)
          /\ step' = [step EXCEPT ![tx[u].row] = d]
          /\ log' = IF d = "approved" THEN log \cup {tx[u].row} ELSE log
          /\ clubs' = IF MakesClub(status', d) THEN clubs + 1 ELSE clubs
      BY <1>8, <2>2, <1>n DEF Finalize
    <3>3. s \in Seen
      BY <3>1 DEF Seen, StepStatus
    <3>4. status' \notin {"none", "deleted"}
      BY <3>2 DEF deriveApplicationStatus
    <3>5. MakesClub(status', d) => log' = Chain
      <4> SUFFICES ASSUME MakesClub(status', d) PROVE log' = Chain
        OBVIOUS
      <4>1. \A k \in Chain : s[k] = "approved"
        BY <3>2, <3>3, Derived DEF MakesClub
      <4>2. d = "approved" /\ \A k \in Chain \ {tx[u].row} : tx[u].seen[k] = "approved"
        BY <3>1, <4>1 DEF Seen
      <4>3. \A k \in Chain \ {tx[u].row} : k \in log
        BY <3>2, <4>2 DEF Logged
      <4> QED BY <1>k, <3>1, <3>2, <4>2, <4>3 DEF TypeOK
    <3>6. \A k \in Chain : step'[k] = "approved" => step[k] = "approved" \/ k \in log'
      BY <1>f, <3>1, <3>2 DEF Seen
    <3>7. log \subseteq log' /\ log' \subseteq Chain
      BY <1>k, <3>1, <3>2 DEF TypeOK
    <3> QED BY <1>8, <1>e, <1>f, <3>2, <3>4, <3>5, <3>6, <3>7 DEF Finalize
  <2> QED BY <2>1, <2>2
<1>9. ASSUME NEW u \in Users, CommitReview(u) PROVE Logged'
  <2>1. status # "none"
    BY <1>9, <1>n DEF CommitReview
  <2>2. End(u) /\ status' # "none" /\ (status = "deleted" <=> status' = "deleted")
    BY <1>9, <2>1 DEF CommitReview
  <2>3. \A k \in Chain : step'[k] = "approved" => step[k] = "approved"
    BY <1>9, <1>f DEF CommitReview
  <2>4. tx'[Applicant] = tx[Applicant]
    BY <2>2, <1>f DEF End
  <2> QED BY <1>9, <1>e, <1>k, <2>1, <2>2, <2>3, <2>4 DEF CommitReview, Logged, TypeOK
<1>10. ASSUME NEW op \in Wishes, ApplicantReads(op) PROVE Logged'
  <2> DEFINE r == [Idle EXCEPT !.pc = "commit", !.op = op, !.seen = step]
  <2>1. r \in OfApplicant /\ r.seen = step /\ r.op = op
    BY <1>f DEF OfApplicant, Idle
  <2>2. status \notin {"none", "deleted"} \/ op = "withdraw"
    BY <1>10 DEF ApplicantReads, Wishes
  <2>3. op = "withdraw" => status = "pending"
    BY <1>10 DEF ApplicantReads, MayWithdraw
  <2> QED BY <1>10, <1>b, <2>1, <2>2, <2>3 DEF ApplicantReads
<1>11. CASE Resubmit
  <2>1. status # "none" /\ status # "deleted" /\ End(Applicant) /\ status' = "pending"
    BY <1>11, <1>n DEF Resubmit, Logged
  <2>2. \A k \in Chain : step'[k] = "approved" => step[k] = "approved"
    BY <1>11, <1>f DEF Resubmit, Seen
  <2> QED BY <1>11, <1>e, <1>k, <2>1, <2>2 DEF Resubmit, TypeOK
<1>12. CASE Withdraw
  <2>1. status # "none" /\ End(Applicant) /\ status' = "deleted"
    BY <1>12, <1>n DEF Withdraw
  <2>2. tx'[Applicant].op # "resubmit"
    BY <2>1, <1>f DEF End
  <2> QED BY <1>e, <2>1, <2>2
<1>13. CASE Appeal
  <2>1. status # "none" /\ End(Applicant) /\ UNCHANGED <<status, step, log, clubs>>
    BY <1>13, <1>n DEF Appeal
  <2>2. tx'[Applicant].op # "resubmit"
    BY <2>1, <1>f DEF End
  <2> QED BY <1>e, <1>k, <2>1, <2>2 DEF TypeOK
<1>14. ASSUME NEW m \in (SUBSET Users) \ {{}}, SetMembers(m) PROVE Logged'
  BY <1>14 DEF SetMembers, Logged, row
<1>15. CASE UNCHANGED vars
  BY <1>15 DEF vars, Logged
<1> QED
  BY <1>1, <1>2, <1>3, <1>4, <1>5, <1>6, <1>7, <1>8, <1>9, <1>10, <1>11, <1>12, <1>13, <1>14, <1>15
     DEF Next, Votes, Reviews, Wishes

(* However requests overlap, a club has an approval of every step in the   *)
(* log of its application: no step is skipped on the way to a club.        *)
THEOREM EveryStepApproved == Spec => []ClubNeedsEveryStep
<1>1. Init => Shape /\ Logged
  BY InitShape, InitLogged
<1>2. Shape /\ Logged /\ [Next]_vars => (Shape /\ Logged)'
  BY ShapeStep, LoggedStep
<1>3. Logged => ClubNeedsEveryStep
  BY DEF Logged, ClubNeedsEveryStep, Exists
<1> QED
  BY <1>1, <1>2, <1>3, PTL DEF Spec

-----------------------------------------------------------------------------
(***************************************************************************)
(* While no two requests have overlapped: the one request under way still  *)
(* finds what it has seen, and the steps, the summary and the club agree.  *)
(***************************************************************************)
InOrder(s) == \A j, k \in Chain : j < k /\ s[j] # "approved" => s[k] = "pending"

\* What holds of a request that no other met.
Current(u) ==
  /\ tx[u].pc \in {"tally", "commit"} => tx[u].seen = step
  /\ tx[u].op \in Outcomes \cup Votes =>
       status = "pending" /\ tx[u].row \in findCurrentApprovalStep(step)
  /\ tx[u].op = "resubmit" => status = "revision_requested"
  /\ tx[u].op = "withdraw" => status = "pending"
  /\ tx[u].op \in Reviews \cup {"appeal"} => status = "rejected"

Agree ==
  /\ status \in {"none", "deleted"} => step = AllPending /\ clubs = 0
  /\ Exists => status = deriveApplicationStatus(step)
  /\ Exists => clubs = IF status = "approved" THEN 1 ELSE 0
  /\ InOrder(step)

Alone == \A u, v \in Actors : tx[u] # Idle /\ tx[v] # Idle => u = v

Careful == ~overlapped => Alone /\ Agree /\ \A u \in Actors : Current(u)

\* Deciding the step whose turn it is keeps the chain in order.
LEMMA DecideInOrder ==
  ASSUME NEW s \in Seen, InOrder(s), NEW k \in findCurrentApprovalStep(s), NEW d \in Outcomes
  PROVE  InOrder([s EXCEPT ![k] = d])
<1> DEFINE t == [s EXCEPT ![k] = d]
<1>1. k \in Chain /\ s[k] = "pending" /\ \A j \in Chain : j < k => s[j] = "approved"
  BY ChainType DEF findCurrentApprovalStep, Chain
<1>2. t \in Seen /\ t[k] = d /\ \A j \in Chain \ {k} : t[j] = s[j]
  BY <1>1 DEF Seen, StepStatus
<1>3. ASSUME NEW j \in Chain, NEW l \in Chain, j < l, t[j] # "approved" PROVE t[l] = "pending"
  <2>1. ~(l <= k)
    BY <1>1, <1>2, <1>3, ChainType DEF Chain
  <2>2. s[j] # "approved" \/ j = k
    BY <1>2, <1>3
  <2> QED BY <1>1, <1>2, <1>3, <2>1, <2>2, ChainType DEF InOrder, Chain
<1> QED
  BY <1>3 DEF InOrder

\* In a chain in order, a step sent back or rejected is the only one that is
\* neither approved nor pending; taken back it leaves the chain waiting for it.
LEMMA BackToPending ==
  ASSUME NEW s \in Seen, InOrder(s), NEW k \in Chain, s[k] \in {"rejected", "revision_requested"}
  PROVE  LET t == [s EXCEPT ![k] = "pending"] IN
         /\ InOrder(t) /\ deriveApplicationStatus(t) = "pending"
         /\ \A j \in Chain \ {k} : s[j] \in {"approved", "pending"}
<1> DEFINE t == [s EXCEPT ![k] = "pending"]
<1>1. \A j \in Chain : (j < k => s[j] = "approved") /\ (k < j => s[j] = "pending")
  BY DEF InOrder
<1>2. \A j \in Chain \ {k} : s[j] \in {"approved", "pending"}
  BY <1>1, ChainType DEF Chain
<1>3. t[k] = "pending" /\ \A j \in Chain \ {k} : t[j] = s[j]
  BY DEF Seen
<1>4. InOrder(t)
  BY <1>1, <1>3, ChainType DEF InOrder, Chain
<1>5. deriveApplicationStatus(t) = "pending"
  BY <1>2, <1>3 DEF deriveApplicationStatus
<1> QED
  BY <1>2, <1>4, <1>5

LEMMA InitCareful == Init => Careful
<1> SUFFICES ASSUME Init PROVE Careful
  OBVIOUS
<1>1. Alone /\ Agree
  BY Sets, IdleIs DEF Init, Alone, Agree, Exists, InOrder, AllPending
<1>2. \A u \in Actors : Current(u)
  BY IdleIs DEF Init, Current, Outcomes, Votes, Reviews
<1> QED
  BY <1>1, <1>2 DEF Careful

LEMMA CarefulStep == Shape /\ Logged /\ Careful /\ [Next]_vars => Careful'
<1> SUFFICES ASSUME Shape, Logged, Careful, [Next]_vars, ~overlapped' PROVE Careful'
  BY DEF Careful
<1> USE Sets, IdleIs
<1>k. Kinds /\ TypeOK
  BY DEF Shape
<1>f. DOMAIN tx = Actors /\ step \in Seen /\ tx \in [Actors -> OfStaff \cup OfApplicant]
  BY <1>k DEF Kinds, TypeOK, Seen
<1>o. ~overlapped
  BY DEF Next, vars, Submit, Decide, DecisionRequest, Vote, VoteRequest, BeginReview, ReadForReview,
         Tally, CommitVote, Finalize, CommitReview, ApplicantReads, Resubmit, Withdraw, Appeal,
         SetMembers, MayBegin, row
<1>a. Alone /\ Agree /\ \A u \in Actors : Current(u)
  BY <1>o DEF Careful
\* A request begins alone.
<1>b. ASSUME NEW u \in Actors, NEW r, MayBegin(u), tx' = [tx EXCEPT ![u] = r], UNCHANGED row, Current(u)'
      PROVE  Careful'
  <2>1. \A v \in Actors : tx[v] = Idle
    BY <1>b DEF MayBegin, InFlight
  <2>2. \A v \in Actors \ {u} : tx'[v] = Idle
    BY <1>b, <1>f, <2>1
  <2>3. Alone'
    BY <2>2 DEF Alone
  <2>4. Agree'
    BY <1>a, <1>b DEF Agree, Exists, row
  <2>5. \A v \in Actors : Current(v)'
    BY <1>b, <2>2 DEF Current, Outcomes, Votes, Reviews
  <2> QED BY <2>3, <2>4, <2>5 DEF Careful
\* The request under way ends, and leaves everything in agreement.
<1>e. ASSUME NEW u \in Actors, End(u), tx[u] # Idle, Agree' PROVE Careful'
  <2>1. \A v \in Actors : tx'[v] = Idle
    BY <1>a, <1>e, <1>f DEF End, Alone
  <2>2. Alone' /\ \A v \in Actors : Current(v)'
    BY <2>1 DEF Alone, Current, Outcomes, Votes, Reviews
  <2> QED BY <1>e, <2>2 DEF Careful
\* The request under way goes on.
<1>g. ASSUME NEW u \in Actors, NEW r, tx[u] # Idle, tx' = [tx EXCEPT ![u] = r], UNCHANGED row,
             r.op = tx[u].op, r.row = tx[u].row, r.seen = step
      PROVE  Careful'
  <2>1. \A v \in Actors \ {u} : tx'[v] = Idle
    BY <1>a, <1>f, <1>g DEF Alone
  <2>2. Alone'
    BY <2>1 DEF Alone
  <2>3. Agree'
    BY <1>a, <1>g DEF Agree, Exists, row
  <2>4. tx'[u] = r
    BY <1>f, <1>g
  <2>5. Current(u)'
    BY <1>a, <1>g, <2>4 DEF Current, row
  <2>6. \A v \in Actors : Current(v)'
    BY <2>1, <2>5 DEF Current, Outcomes, Votes, Reviews
  <2> QED BY <2>2, <2>3, <2>6 DEF Careful
<1>1. CASE Submit
  <2>1. step = AllPending /\ step' = AllPending /\ clubs' = 0 /\ status' = "pending" /\ tx' = tx
        /\ tx = [u \in Actors |-> Idle]
    BY <1>1, <1>a DEF Submit, Agree, Logged
  <2>2. Agree'
    BY <2>1 DEF Agree, Exists, InOrder, deriveApplicationStatus, AllPending
  <2>3. Alone' /\ \A u \in Actors : Current(u)'
    BY <2>1 DEF Alone, Current, Outcomes, Votes, Reviews
  <2> QED BY <2>2, <2>3 DEF Careful
<1>2. ASSUME NEW u \in Users, NEW d \in Outcomes, Decide(u, d) PROVE Careful'
  <2>1. PICK k \in findCurrentApprovalStep(step) :
          tx' = [tx EXCEPT ![u] = [pc |-> "commit", op |-> d, row |-> k, seen |-> step, decision |-> d]]
    BY <1>2 DEF Decide
  <2>2. tx'[u] = [pc |-> "commit", op |-> d, row |-> k, seen |-> step, decision |-> d]
    BY <1>f, <2>1
  <2>3. status' = "pending" /\ step' = step /\ UNCHANGED row
    BY <1>2 DEF Decide, row
  <2>4. Current(u)'
    BY <2>2, <2>3 DEF Current, Outcomes, Reviews
  <2> QED BY <1>2, <1>b, <2>1, <2>3, <2>4 DEF Decide, DecisionRequest
<1>3. ASSUME NEW u \in Users, NEW v \in Votes, Vote(u, v) PROVE Careful'
  <2>1. PICK k \in findCurrentApprovalStep(step) :
          tx' = [tx EXCEPT ![u] = [pc |-> "tally", op |-> v, row |-> k, seen |-> step, decision |-> "none"]]
    BY <1>3 DEF Vote
  <2>2. tx'[u] = [pc |-> "tally", op |-> v, row |-> k, seen |-> step, decision |-> "none"]
    BY <1>f, <2>1
  <2>3. status' = "pending" /\ step' = step /\ UNCHANGED row
    BY <1>3 DEF Vote, row
  <2>4. Current(u)'
    BY <2>2, <2>3 DEF Current, Votes, Reviews
  <2> QED BY <1>3, <1>b, <2>1, <2>3, <2>4 DEF Vote, VoteRequest
<1>4. ASSUME NEW u \in Users, NEW d \in Reviews, BeginReview(u, d) PROVE Careful'
  <2>1. status = "rejected"
    <3>1. PICK k \in Chain : step[k] = "rejected"
      BY <1>4 DEF BeginReview, CanReview
    <3>2. Exists
      BY <1>a, <3>1 DEF Agree, Exists, AllPending
    <3> QED BY <1>a, <3>1, <3>2 DEF Agree, deriveApplicationStatus
  <2>2. tx' = [tx EXCEPT ![u] = [Idle EXCEPT !.pc = "read", !.op = d]] /\ UNCHANGED row /\ MayBegin(u)
    BY <1>4 DEF BeginReview
  <2>3. tx'[u].pc = "read" /\ tx'[u].op = d
    BY <1>f, <2>2 DEF Idle
  <2>4. Current(u)'
    BY <2>1, <2>2, <2>3 DEF Current, Outcomes, Votes, Reviews, row
  <2> QED BY <1>b, <2>2, <2>4
<1>5. ASSUME NEW u \in Users, ReadForReview(u) PROVE Careful'
  <2>1. tx[u] # Idle /\ UNCHANGED row
    BY <1>5 DEF ReadForReview
  <2>2. CASE appeal = "pending"
    <3> DEFINE r == [tx[u] EXCEPT !.pc = "commit", !.seen = step]
    <3>1. tx' = [tx EXCEPT ![u] = r]
      BY <1>5, <2>2 DEF ReadForReview
    <3>2. tx[u].pc = "read" /\ tx[u] \in OfStaff
      BY <1>5, <1>k DEF ReadForReview, Kinds
    <3>3. r.op = tx[u].op /\ r.row = tx[u].row /\ r.seen = step
      BY <3>2 DEF OfStaff, Idle
    <3> QED BY <1>g, <2>1, <3>1, <3>3
  <2>3. CASE appeal # "pending"
    <3>1. End(u)
      BY <1>5, <2>3 DEF ReadForReview
    <3>2. Agree'
      BY <1>a, <2>1 DEF Agree, Exists, row
    <3> QED BY <1>e, <2>1, <3>1, <3>2
  <2> QED BY <2>2, <2>3
<1>6. ASSUME NEW u \in Users, Tally(u) PROVE Careful'
  <2>1. PICK d \in {"approved", "rejected", "none"} :
          tx' = [tx EXCEPT ![u] = [tx[u] EXCEPT !.pc = "commit", !.decision = d]]
    BY <1>6 DEF Tally
  <2> DEFINE r == [tx[u] EXCEPT !.pc = "commit", !.decision = d]
  <2>2. tx[u].pc = "tally" /\ tx[u] \in OfStaff /\ UNCHANGED row
    BY <1>6, <1>k DEF Tally, Kinds
  <2>3. r.op = tx[u].op /\ r.row = tx[u].row /\ r.seen = tx[u].seen
    BY <2>2 DEF OfStaff, Idle
  <2>4. tx[u].seen = step
    BY <1>a, <2>2 DEF Current
  <2> QED BY <1>g, <2>1, <2>2, <2>3, <2>4
<1>7. ASSUME NEW u \in Users, CommitVote(u) PROVE Careful'
  <2>1. tx[u] # Idle /\ End(u) /\ UNCHANGED <<status, step, clubs>>
    BY <1>7 DEF CommitVote
  <2>2. Agree'
    BY <1>a, <2>1 DEF Agree, Exists
  <2> QED BY <1>e, <2>1, <2>2
<1>8. ASSUME NEW u \in Users, Finalize(u) PROVE Careful'
  <2>1. tx[u] # Idle /\ End(u) /\ tx[u].pc = "commit"
    BY <1>8 DEF Finalize
  <2>2. CASE UNCHANGED row
    <3>1. Agree'
      BY <1>a, <2>2 DEF Agree, Exists, row
    <3> QED BY <1>e, <2>1, <3>1
  <2>3. CASE ~UNCHANGED row
    <3> DEFINE d == tx[u].decision
               s == [step EXCEPT ![tx[u].row] = d]
    <3>1. d \in Outcomes /\ tx[u].op \in Outcomes \cup Votes
      BY <1>8, <1>k DEF Finalize, Kinds, OfStaff, Idle
    <3>2. tx[u].seen = step /\ status = "pending" /\ tx[u].row \in findCurrentApprovalStep(step)
      BY <1>a, <2>1, <3>1 DEF Current
    <3>3. /\ status' = deriveApplicationStatus(s) /\ step' = s
          /\ clubs' = IF MakesClub(status', d) THEN clubs + 1 ELSE clubs
      BY <1>8, <2>3, <3>2 DEF Finalize
    <3>4. clubs = 0
      BY <1>a, <3>2 DEF Agree, Exists
    <3>5. InOrder(step')
      BY <1>a, <1>f, <3>1, <3>2, <3>3, DecideInOrder DEF Agree
    <3>6. Exists'
      BY <3>3 DEF Exists, deriveApplicationStatus
    <3>7. status' \notin {"none", "deleted"} /\ status' = deriveApplicationStatus(step')
      BY <3>3, <3>6 DEF Exists
    <3>8. Agree'
      BY <3>3, <3>4, <3>5, <3>7 DEF Agree, MakesClub
    <3> QED BY <1>e, <2>1, <3>8
  <2> QED BY <2>2, <2>3
<1>9. ASSUME NEW u \in Users, CommitReview(u) PROVE Careful'
  <2> DEFINE back == {k \in Chain : tx[u].seen[k] = "rejected"
                        /\ \A j \in 1..(k - 1) : tx[u].seen[j] # "rejected"}
  <2>1. tx[u] # Idle /\ End(u) /\ tx[u].seen = step /\ status = "rejected" /\ clubs' = clubs
    BY <1>9, <1>a DEF CommitReview, Current, Reviews
  <2>2. CASE tx[u].op # "upheld"
    <3>1. UNCHANGED <<status, step, clubs>>
      BY <1>9, <2>2 DEF CommitReview
    <3>2. Agree'
      BY <1>a, <3>1 DEF Agree, Exists
    <3> QED BY <1>e, <2>1, <3>2
  <2>3. CASE tx[u].op = "upheld"
    <3>1. status' = "pending" /\ step' = [k \in Chain |-> IF k \in back THEN "pending" ELSE step[k]]
      BY <1>9, <2>1, <2>3 DEF CommitReview
    <3>2. PICK k \in Chain : step[k] = "rejected"
      BY <1>a, <2>1 DEF Agree, Exists, deriveApplicationStatus
    <3>3. \A j \in Chain \ {k} : step[j] \in {"approved", "pending"}
      BY <1>a, <1>f, <3>2, BackToPending DEF Agree
    <3>4. back = {k}
      <4>1. \A j \in Chain : step[j] = "rejected" <=> j = k
        BY <3>2, <3>3
      <4>2. \A j \in 1..(k - 1) : j \in Chain /\ j # k
        BY ChainType DEF Chain
      <4>3. k \in back /\ back \subseteq {k}
        BY <2>1, <4>1, <4>2
      <4> QED BY <4>3
    <3>5. step' = [step EXCEPT ![k] = "pending"]
      BY <1>f, <3>1, <3>4 DEF Seen
    <3>6. InOrder(step') /\ deriveApplicationStatus(step') = "pending"
      BY <1>a, <1>f, <3>2, <3>5, BackToPending DEF Agree
    <3>7. clubs' = 0
      BY <1>a, <2>1 DEF Agree, Exists
    <3>8. Agree'
      BY <3>1, <3>6, <3>7 DEF Agree, Exists
    <3> QED BY <1>e, <2>1, <3>8
  <2> QED BY <2>2, <2>3
<1>10. ASSUME NEW op \in Wishes, ApplicantReads(op) PROVE Careful'
  <2> DEFINE r == [Idle EXCEPT !.pc = "commit", !.op = op, !.seen = step]
  <2>1. tx' = [tx EXCEPT ![Applicant] = r] /\ UNCHANGED row /\ MayBegin(Applicant)
    BY <1>10 DEF ApplicantReads
  <2>2. tx'[Applicant] = r /\ r.op = op /\ r.seen = step
    BY <1>f, <2>1 DEF Idle
  <2>3. /\ op = "resubmit" => status = "revision_requested"
        /\ op = "withdraw" => status = "pending"
        /\ op = "appeal" => status = "rejected"
    BY <1>10 DEF ApplicantReads, MayWithdraw
  <2>4. Current(Applicant)'
    BY <2>1, <2>2, <2>3 DEF Current, Outcomes, Votes, Reviews, Wishes, row
  <2> QED BY <1>b, <2>1, <2>4
<1>11. CASE Resubmit
  <2>1. /\ tx[Applicant] # Idle /\ End(Applicant) /\ tx[Applicant].seen = step
        /\ status = "revision_requested" /\ status' = "pending" /\ clubs' = clubs
    BY <1>11, <1>a DEF Resubmit, Current
  <2>2. PICK k \in Chain : step[k] = "revision_requested" /\ step' = [step EXCEPT ![k] = "pending"]
    BY <1>11, <2>1 DEF Resubmit
  <2>3. InOrder(step') /\ deriveApplicationStatus(step') = "pending"
    BY <1>a, <1>f, <2>2, BackToPending DEF Agree
  <2>4. Agree'
    BY <1>a, <2>1, <2>3 DEF Agree, Exists
  <2> QED BY <1>e, <2>1, <2>4
<1>12. CASE Withdraw
  <2>1. /\ tx[Applicant] # Idle /\ End(Applicant) /\ status = "pending"
        /\ status' = "deleted" /\ step' = AllPending /\ clubs' = clubs
    BY <1>12, <1>a DEF Withdraw, Current
  <2>2. Agree'
    BY <1>a, <2>1 DEF Agree, Exists, InOrder, AllPending
  <2> QED BY <1>e, <2>1, <2>2
<1>13. CASE Appeal
  <2>1. tx[Applicant] # Idle /\ End(Applicant) /\ UNCHANGED <<status, step, clubs>>
    BY <1>13 DEF Appeal
  <2>2. Agree'
    BY <1>a, <2>1 DEF Agree, Exists
  <2> QED BY <1>e, <2>1, <2>2
<1>14. CASE (\E m \in (SUBSET Users) \ {{}} : SetMembers(m)) \/ UNCHANGED vars
  <2>1. UNCHANGED <<status, step, clubs, tx>>
    BY <1>14 DEF SetMembers, vars, row
  <2> QED BY <1>a, <2>1 DEF Careful, Alone, Agree, Exists, Current
<1> QED
  BY <1>1, <1>2, <1>3, <1>4, <1>5, <1>6, <1>7, <1>8, <1>9, <1>10, <1>11, <1>12, <1>13, <1>14
     DEF Next, Votes, Reviews, Wishes

-----------------------------------------------------------------------------
(***************************************************************************)
(* The committee.  While no two requests overlapped and its members stay:  *)
(* who votes is a member, what is open has no majority cast, and the vote  *)
(* under way was tallied against the votes that are still there.           *)
(***************************************************************************)
Needed == Cardinality(members) \div 2 + 1
Undecided(v) == Count(v, "approve") < Needed /\ Count(v, "reject") < Needed
Open(k) == StepKind[k] = "committee_majority" /\ step[k] \in {"pending", "revision_requested"}
Ballot(u) == [votes[tx[u].row] EXCEPT ![u] = tx[u].op]

\* What a request on its way owes the committee.
Counted(u) ==
  /\ tx[u].op \in Votes =>
       /\ u \in members /\ StepKind[tx[u].row] = "committee_majority"
       /\ tx[u].decision # "revision_requested"
       /\ tx[u].pc = "commit" =>
            /\ tx[u].decision = "none" => Undecided(Ballot(u))
            /\ tx[u].decision = "approved" => Count(Ballot(u), "approve") >= Needed
  /\ tx[u].op \in Outcomes /\ StepKind[tx[u].row] = "committee_majority" =>
       tx[u].decision = "revision_requested"
  /\ tx[u].op \in Reviews =>
       \A k \in Chain : step[k] = "rejected" => StepKind[k] = "role_sequential"

Tallied ==
  /\ members = Committee
  /\ \A k \in Chain : \A u \in Users \ members : votes[k][u] = "none"
  /\ \A k \in Chain : Open(k) => Undecided(votes[k])
  /\ \A u \in Users : Counted(u)

Fairly == ~overlapped /\ changes = 0 => Tallied

LEMMA NeededIs ==
  ASSUME members = Committee
  PROVE  /\ Cardinality(members) \in Nat /\ Needed \in Nat /\ Needed >= 1
         /\ 2 * Needed > Cardinality(members)
         /\ computeCommitteeMajorityThreshold(Cardinality(members)) = Needed
<1>1. Cardinality(members) \in Nat
  BY ChainType, FS_CardinalityType
<1> DEFINE n == Cardinality(members)
<1>2. n \div 2 \in Nat /\ 2 * (n \div 2) >= n - 1 /\ (n = 0 => n \div 2 = 0)
  BY <1>1
<1> HIDE DEF n
<1>3. Needed = n \div 2 + 1
  BY DEF Needed, n
<1>4. computeCommitteeMajorityThreshold(n) = Needed
  BY <1>2, <1>3 DEF computeCommitteeMajorityThreshold
<1> QED
  BY <1>1, <1>2, <1>3, <1>4 DEF n

\* The votes of members alone are a number, and nobody's are none.
LEMMA CountNat ==
  ASSUME members = Committee, NEW v, \A u \in Users \ members : v[u] = "none",
         NEW what \in Votes
  PROVE  Count(v, what) \in Nat /\ Count(v, what) = Cardinality({u \in members : v[u] = what})
<1>1. {u \in Users : v[u] = what} = {u \in members : v[u] = what}
  BY ChainType DEF Votes
<1>2. IsFiniteSet({u \in members : v[u] = what})
  BY ChainType, FS_Subset
<1> QED
  BY <1>1, <1>2, FS_CardinalityType DEF Count

LEMMA NobodyVoted ==
  ASSUME members = Committee, NEW v, \A u \in Users : v[u] = "none"
  PROVE  Undecided(v)
<1>1. {u \in Users : v[u] = "approve"} = {} /\ {u \in Users : v[u] = "reject"} = {}
  OBVIOUS
<1> QED
  BY <1>1, NeededIs, FS_EmptySet DEF Undecided, Count

LEMMA InitFairly == Init => Fairly
<1> SUFFICES ASSUME Init PROVE Tallied
  BY DEF Fairly
<1>1. members = Committee /\ votes = NoVotes /\ tx = [u \in Actors |-> Idle]
  BY DEF Init
<1>2. \A k \in Chain : \A u \in Users : votes[k][u] = "none"
  BY <1>1 DEF NoVotes
<1>3. \A k \in Chain : Undecided(votes[k])
  BY <1>1, <1>2, NobodyVoted
<1>4. \A u \in Users : Counted(u)
  BY <1>1, Sets, IdleIs DEF Counted, Votes, Outcomes, Reviews
<1> QED
  BY <1>1, <1>2, <1>3, <1>4 DEF Tallied

LEMMA FairlyStep == Shape /\ Careful /\ Fairly /\ [Next]_vars => Fairly'
<1> SUFFICES ASSUME Shape, Careful, Fairly, [Next]_vars, ~overlapped', changes' = 0 PROVE Tallied'
  BY DEF Fairly
<1> USE Sets, IdleIs
<1>k. Kinds /\ TypeOK
  BY DEF Shape
<1>f. /\ step \in Seen /\ tx \in [Actors -> OfStaff \cup OfApplicant]
      /\ votes \in [Chain -> [Users -> {"none", "approve", "reject"}]]
  BY <1>k DEF Kinds, TypeOK, Seen
<1>o. ~overlapped
  BY DEF Next, vars, Submit, Decide, DecisionRequest, Vote, VoteRequest, BeginReview, ReadForReview,
         Tally, CommitVote, Finalize, CommitReview, ApplicantReads, Resubmit, Withdraw, Appeal,
         SetMembers, MayBegin, row
<1>s. ASSUME NEW m, SetMembers(m) PROVE FALSE
  BY <1>k, <1>s, ChainType DEF SetMembers, TypeOK
<1>m. members' = members /\ changes = 0
  BY <1>s DEF Next, vars, Submit, Decide, Vote, BeginReview, ReadForReview, Tally, CommitVote,
              Finalize, CommitReview, ApplicantReads, Resubmit, Withdraw, Appeal
<1>a. Alone /\ Agree /\ \A u \in Actors : Current(u)
  BY <1>o DEF Careful
<1>t. Tallied
  BY <1>m, <1>o DEF Fairly
<1>n. Needed' = Needed
  BY <1>m DEF Needed
\* A request that does not move.
<1>v. ASSUME NEW v \in Users, tx'[v] = tx[v], UNCHANGED <<step, votes>> PROVE Counted(v)'
  <2>1. Ballot(v)' = Ballot(v)
    BY <1>v DEF Ballot
  <2>2. Counted(v)
    BY <1>t DEF Tallied
  <2> QED
    BY <1>m, <1>n, <1>v, <2>1, <2>2 DEF Counted, Undecided
\* A request of staff begins or goes on.
<1>b. ASSUME NEW u \in Users, NEW r, tx' = [tx EXCEPT ![u] = r], UNCHANGED row, Counted(u)'
      PROVE  Tallied'
  <2>1. UNCHANGED <<step, votes>> /\ \A v \in Users \ {u} : tx'[v] = tx[v]
    BY <1>b, <1>f DEF row
  <2>2. \A v \in Users \ {u} : Counted(v)'
    BY <1>v, <2>1
  <2> QED
    BY <1>b, <1>m, <1>n, <1>t, <2>1, <2>2 DEF Tallied, Open, Undecided
\* The request under way ends.
<1>e. ASSUME NEW u \in Actors, End(u), tx[u] # Idle,
             \A k \in Chain : \A w \in Users \ members : votes'[k][w] = "none",
             \A k \in Chain : Open(k)' => Undecided(votes'[k])
      PROVE  Tallied'
  <2>1. \A v \in Actors : tx'[v] = Idle
    BY <1>a, <1>e, <1>f DEF End, Alone
  <2>2. \A v \in Users : Counted(v)'
    BY <2>1 DEF Counted, Votes, Outcomes, Reviews
  <2> QED
    BY <1>e, <1>m, <1>n, <1>t, <2>2 DEF Tallied, Undecided
\* It ends, no vote was cast and no step was reopened.
<1>r. ASSUME NEW u \in Actors, End(u), tx[u] # Idle, UNCHANGED votes,
             \A k \in Chain : Open(k)' => Open(k)
      PROVE  Tallied'
  BY <1>e, <1>r, <1>t DEF Tallied
<1>1. CASE Submit
  <2>1. step = AllPending
    BY <1>1, <1>a DEF Submit, Agree
  <2>2. UNCHANGED <<step, votes, tx>>
    BY <1>1, <2>1 DEF Submit
  <2>3. \A u \in Users : Counted(u)'
    BY <1>v, <2>2
  <2> QED
    BY <1>m, <1>n, <1>t, <2>2, <2>3 DEF Tallied, Open, Undecided
<1>2. ASSUME NEW u \in Users, NEW d \in Outcomes, Decide(u, d) PROVE Tallied'
  <2>1. PICK k \in findCurrentApprovalStep(step) :
          /\ MayDecide(u, d, k)
          /\ tx' = [tx EXCEPT ![u] = [pc |-> "commit", op |-> d, row |-> k, seen |-> step,
                                       decision |-> d]]
    BY <1>2 DEF Decide
  <2>2. tx'[u] = [pc |-> "commit", op |-> d, row |-> k, seen |-> step, decision |-> d]
    BY <1>f, <2>1
  <2>3. Counted(u)'
    BY <2>1, <2>2 DEF Counted, MayDecide, Votes, Outcomes, Reviews
  <2> QED
    BY <1>2, <1>b, <2>1, <2>3 DEF Decide
<1>3. ASSUME NEW u \in Users, NEW v \in Votes, Vote(u, v) PROVE Tallied'
  <2>1. PICK k \in findCurrentApprovalStep(step) :
          /\ StepKind[k] = "committee_majority"
          /\ tx' = [tx EXCEPT ![u] = [pc |-> "tally", op |-> v, row |-> k, seen |-> step,
                                       decision |-> "none"]]
    BY <1>3 DEF Vote
  <2>2. tx'[u] = [pc |-> "tally", op |-> v, row |-> k, seen |-> step, decision |-> "none"]
    BY <1>f, <2>1
  <2>3. u \in members
    BY <1>3 DEF Vote, VoteRequest
  <2>4. Counted(u)'
    BY <1>m, <2>1, <2>2, <2>3 DEF Counted, Votes, Outcomes, Reviews
  <2> QED
    BY <1>3, <1>b, <2>1, <2>4 DEF Vote
<1>4. ASSUME NEW u \in Users, NEW d \in Reviews, BeginReview(u, d) PROVE Tallied'
  <2>1. PICK k \in Chain : step[k] = "rejected" /\ StepKind[k] = "role_sequential"
    BY <1>4 DEF BeginReview, CanReview
  <2>2. \A j \in Chain : step[j] = "rejected" => j = k
    BY <1>a, <1>f, <2>1, BackToPending DEF Agree
  <2>3. tx' = [tx EXCEPT ![u] = [Idle EXCEPT !.pc = "read", !.op = d]] /\ UNCHANGED row
    BY <1>4 DEF BeginReview
  <2>4. tx'[u].op = d /\ UNCHANGED step
    BY <1>f, <2>3 DEF Idle, row
  <2>5. Counted(u)'
    BY <2>1, <2>2, <2>4 DEF Counted, Outcomes, Votes, Reviews
  <2> QED
    BY <1>b, <2>3, <2>5
<1>5. ASSUME NEW u \in Users, ReadForReview(u) PROVE Tallied'
  <2>1. /\ tx[u].pc = "read" /\ tx[u].op \in Reviews /\ tx[u] # Idle
        /\ UNCHANGED row /\ UNCHANGED <<step, votes>>
    BY <1>5 DEF ReadForReview, Reviews, row
  <2>2. CASE appeal = "pending"
    <3>1. tx' = [tx EXCEPT ![u] = [tx[u] EXCEPT !.pc = "commit", !.seen = step]]
      BY <1>5, <2>2 DEF ReadForReview
    <3>2. tx[u] \in OfStaff
      BY <1>k DEF Kinds
    <3>3. tx'[u].op = tx[u].op
      BY <1>f, <2>1, <3>1, <3>2 DEF OfStaff, Idle
    <3>4. Counted(u)'
      BY <1>t, <2>1, <3>3 DEF Tallied, Counted, Outcomes, Votes, Reviews
    <3> QED
      BY <1>b, <2>1, <3>1, <3>4
  <2>3. CASE appeal # "pending"
    BY <1>5, <1>r, <2>1, <2>3 DEF ReadForReview, Open
  <2> QED
    BY <2>2, <2>3
<1>6. ASSUME NEW u \in Users, Tally(u) PROVE Tallied'
  <2>1. PICK d : /\ d = (IF Count(Ballot(u), "approve") >= Needed THEN "approved"
                         ELSE IF Count(Ballot(u), "reject") >= Needed THEN "rejected" ELSE "none")
                 /\ tx' = [tx EXCEPT ![u] = [tx[u] EXCEPT !.pc = "commit", !.decision = d]]
    BY <1>6, <1>t, NeededIs DEF Tally, Tallied, Ballot
  <2>2. tx[u].pc = "tally" /\ tx[u] \in OfStaff /\ UNCHANGED row /\ UNCHANGED <<step, votes>>
    BY <1>6, <1>k DEF Tally, Kinds, row
  <2>3. tx[u].op \in Votes /\ tx[u].row \in Chain
    BY <2>2 DEF OfStaff, Idle
  <2>4. /\ tx'[u].op = tx[u].op /\ tx'[u].row = tx[u].row /\ tx'[u].decision = d
        /\ tx'[u].pc = "commit"
    BY <1>f, <2>1, <2>2 DEF OfStaff, Idle
  <2>5. u \in members /\ StepKind[tx[u].row] = "committee_majority"
    BY <1>t, <2>3 DEF Tallied, Counted
  <2>6. \A w \in Users \ members : Ballot(u)[w] = "none"
    BY <1>f, <1>t, <2>3, <2>5 DEF Tallied, Ballot
  <2>7. Count(Ballot(u), "approve") \in Nat /\ Count(Ballot(u), "reject") \in Nat /\ Needed \in Nat
    BY <1>t, <2>6, CountNat, NeededIs DEF Tallied, Votes
  <2>8. /\ d = "none" => Undecided(Ballot(u))
        /\ d = "approved" => Count(Ballot(u), "approve") >= Needed
        /\ d # "revision_requested"
    BY <2>1, <2>7 DEF Undecided
  <2>9. Ballot(u)' = Ballot(u)
    BY <2>2, <2>4 DEF Ballot
  <2>10. Counted(u)'
    BY <1>m, <1>n, <2>3, <2>4, <2>5, <2>8, <2>9 DEF Counted, Undecided, Votes, Outcomes, Reviews
  <2> QED
    BY <1>b, <2>1, <2>2, <2>10
<1>7. ASSUME NEW u \in Users, CommitVote(u) PROVE Tallied'
  <2>1. /\ tx[u].pc = "commit" /\ tx[u].op \in Votes /\ tx[u].decision = "none" /\ tx[u] # Idle
        /\ End(u) /\ UNCHANGED <<step>>
    BY <1>7 DEF CommitVote, Votes
  <2>2. tx[u].row \in Chain /\ status = "pending"
    BY <1>a, <1>k, <2>1 DEF Current, Kinds, OfStaff
  <2>3. votes' = [votes EXCEPT ![tx[u].row][u] = tx[u].op]
    BY <1>7, <2>2 DEF CommitVote
  <2>4. votes'[tx[u].row] = Ballot(u) /\ \A k \in Chain \ {tx[u].row} : votes'[k] = votes[k]
    BY <1>f, <2>2, <2>3 DEF Ballot
  <2>5. u \in members /\ Undecided(Ballot(u))
    BY <1>t, <2>1 DEF Tallied, Counted
  <2>6. \A w \in Users \ members : Ballot(u)[w] = "none"
    BY <1>f, <1>t, <2>2, <2>5 DEF Tallied, Ballot
  <2>7. \A k \in Chain : \A w \in Users \ members : votes'[k][w] = "none"
    BY <1>t, <2>4, <2>6 DEF Tallied
  <2>8. \A k \in Chain : Open(k)' => Undecided(votes'[k])
    BY <1>t, <2>1, <2>4, <2>5 DEF Tallied, Open
  <2> QED
    BY <1>e, <2>1, <2>7, <2>8
<1>8. ASSUME NEW u \in Users, Finalize(u) PROVE Tallied'
  <2>1. tx[u].pc = "commit" /\ tx[u].decision # "none" /\ tx[u] # Idle /\ End(u)
    BY <1>8 DEF Finalize
  <2>2. CASE UNCHANGED row
    BY <1>r, <2>1, <2>2 DEF Open, row
  <2>3. CASE ~UNCHANGED row
    <3>1. /\ tx[u].op \in Outcomes \cup Votes /\ tx[u].row \in Chain /\ tx[u].decision \in Outcomes
      BY <1>k, <2>1 DEF Kinds, OfStaff
    <3>2. /\ step' = [step EXCEPT ![tx[u].row] = tx[u].decision]
          /\ votes' = IF tx[u].op \in {"approve", "reject"}
                      THEN [votes EXCEPT ![tx[u].row][u] = tx[u].op] ELSE votes
      BY <1>8, <2>3 DEF Finalize
    <3>3. step[tx[u].row] = "pending"
      BY <1>a, <3>1 DEF Current, findCurrentApprovalStep
    <3>4. /\ \A k \in Chain \ {tx[u].row} : step'[k] = step[k]
          /\ step'[tx[u].row] = tx[u].decision
      BY <1>f, <3>1, <3>2 DEF Seen
    <3>5. CASE tx[u].op \in Votes
      <4>1. votes'[tx[u].row] = Ballot(u) /\ \A k \in Chain \ {tx[u].row} : votes'[k] = votes[k]
        BY <1>f, <3>1, <3>2, <3>5 DEF Ballot, Votes
      <4>2. u \in members
        BY <1>t, <3>5 DEF Tallied, Counted
      <4>3. \A w \in Users \ members : Ballot(u)[w] = "none"
        BY <1>f, <1>t, <3>1, <4>2 DEF Tallied, Ballot
      <4>4. \A k \in Chain : \A w \in Users \ members : votes'[k][w] = "none"
        BY <1>t, <4>1, <4>3 DEF Tallied
      <4>5. tx[u].decision # "revision_requested"
        BY <1>t, <2>1, <3>1, <3>5 DEF Tallied, Counted
      <4>6. \A k \in Chain : Open(k)' => Undecided(votes'[k])
        BY <1>t, <3>1, <3>4, <4>1, <4>5 DEF Tallied, Open, Outcomes
      <4> QED
        BY <1>e, <2>1, <4>4, <4>6
    <3>6. CASE tx[u].op \in Outcomes
      <4>1. UNCHANGED votes
        BY <3>2, <3>6 DEF Outcomes
      <4>2. \A k \in Chain : Open(k)' => Open(k)
        BY <3>3, <3>4 DEF Open
      <4> QED
        BY <1>r, <2>1, <4>1, <4>2
    <3> QED
      BY <3>1, <3>5, <3>6
  <2> QED
    BY <2>2, <2>3
<1>9. ASSUME NEW u \in Users, CommitReview(u) PROVE Tallied'
  <2>1. /\ tx[u].op \in Reviews /\ tx[u] # Idle /\ End(u) /\ tx[u].seen = step /\ UNCHANGED votes
    BY <1>9, <1>a DEF CommitReview, Current, Reviews
  <2>2. \A k \in Chain : step[k] = "rejected" => StepKind[k] = "role_sequential"
    BY <1>t, <2>1 DEF Tallied, Counted
  <2>3. \A k \in Chain : step'[k] = step[k] \/ step[k] = "rejected"
    BY <1>9, <1>f, <2>1 DEF CommitReview, Seen
  <2>4. \A k \in Chain : Open(k)' => Open(k)
    BY <2>2, <2>3 DEF Open
  <2> QED
    BY <1>r, <2>1, <2>4
<1>10. ASSUME NEW op \in Wishes, ApplicantReads(op) PROVE Tallied'
  <2>1. UNCHANGED <<step, votes>> /\ \A v \in Users : tx'[v] = tx[v]
    BY <1>10, <1>f DEF ApplicantReads, row
  <2>2. \A v \in Users : Counted(v)'
    BY <1>v, <2>1
  <2> QED
    BY <1>m, <1>n, <1>t, <2>1, <2>2 DEF Tallied, Open, Undecided
<1>11. CASE Resubmit
  <2>1. tx[Applicant] # Idle /\ End(Applicant) /\ tx[Applicant].seen = step /\ UNCHANGED votes
    BY <1>11, <1>a DEF Resubmit, Current
  <2>2. \A k \in Chain : step'[k] = step[k] \/ step[k] = "revision_requested"
    BY <1>11, <1>f, <2>1 DEF Resubmit, Seen
  <2>3. \A k \in Chain : Open(k)' => Open(k)
    BY <2>2 DEF Open
  <2> QED
    BY <1>r, <2>1, <2>3
<1>12. CASE Withdraw
  <2>1. tx[Applicant] # Idle /\ End(Applicant) /\ votes' = NoVotes
    BY <1>12 DEF Withdraw
  <2>2. \A k \in Chain : \A w \in Users : votes'[k][w] = "none"
    BY <2>1 DEF NoVotes
  <2>3. \A k \in Chain : Undecided(votes'[k])
    BY <1>t, <2>2, NobodyVoted DEF Tallied
  <2> QED
    BY <1>e, <2>1, <2>2, <2>3
<1>13. CASE Appeal
  BY <1>13, <1>r DEF Appeal, Open
<1>14. CASE UNCHANGED vars
  <2>1. UNCHANGED <<step, votes, tx>>
    BY <1>14 DEF vars
  <2>2. \A v \in Users : Counted(v)'
    BY <1>v, <2>1
  <2> QED
    BY <1>m, <1>n, <1>t, <2>1, <2>2 DEF Tallied, Open, Undecided
<1> QED
  BY <1>1, <1>2, <1>3, <1>4, <1>5, <1>6, <1>7, <1>8, <1>9, <1>10, <1>11, <1>12, <1>13, <1>14, <1>s
     DEF Next, Votes, Reviews, Wishes

-----------------------------------------------------------------------------
(***************************************************************************)
(* The properties.                                                         *)
(***************************************************************************)
AppInv == Shape /\ Logged /\ Careful /\ Fairly

LEMMA Inductive == Spec => []AppInv
<1>1. Init => AppInv
  BY InitShape, InitLogged, InitCareful, InitFairly DEF AppInv
<1>2. AppInv /\ [Next]_vars => AppInv'
  BY ShapeStep, LoggedStep, CarefulStep, FairlyStep DEF AppInv
<1> QED
  BY <1>1, <1>2, PTL DEF Spec

(* As long as no two requests overlap, the summary is what the steps       *)
(* derive, a club is there exactly when all of them approved, and behind   *)
(* an open step nothing is decided.                                        *)
THEOREM ChainAgrees == Spec => [](StatusDerived /\ ClubIffApproved /\ ChainInOrder)
<1>1. AppInv => StatusDerived /\ ChainInOrder
  BY DEF AppInv, Careful, Agree, StatusDerived, ChainInOrder, InOrder
<1>2. AppInv => ClubIffApproved
  BY DEF AppInv, Careful, Agree, ClubIffApproved, OneClubPerApproval, Exists
<1> QED
  BY <1>1, <1>2, Inductive, PTL

(* Types; and of requests that came one at a time, that the summary, the   *)
(* club and the order agree, and that a committee that stays as it is      *)
(* never waits with its majority cast.                                     *)
THEOREM ChainIsSound == Spec => []ChainSound
<1>1. AppInv => MajorityDecides
  BY Sets DEF AppInv, Fairly, Tallied, MajorityDecides, findCurrentApprovalStep, Open, Undecided,
              Needed
<1>2. AppInv => TypeOK
  BY DEF AppInv, Shape
<1> QED
  BY <1>1, <1>2, ChainAgrees, Inductive, PTL DEF ChainSound

(* A committee that stays as it is, voting one at a time, approves a step  *)
(* only with the votes of more than half of its members.                   *)
THEOREM MajorityApproves == Spec => MajorityOfMembers
<1> DEFINE Majority ==
      \A k \in Chain :
        ~overlapped /\ changes = 0
          /\ StepKind[k] = "committee_majority" /\ step[k] # "approved" /\ step'[k] = "approved"
          => 2 * Cardinality({u \in members : votes'[k][u] = "approve"}) > Cardinality(members)
<1>1. ASSUME AppInv, [Next]_vars PROVE Majority
  <2> SUFFICES ASSUME NEW k \in Chain, ~overlapped, changes = 0,
                      StepKind[k] = "committee_majority", step[k] # "approved", step'[k] = "approved"
               PROVE  2 * Cardinality({u \in members : votes'[k][u] = "approve"})
                        > Cardinality(members)
    OBVIOUS
  <2>1. Tallied
    BY <1>1 DEF AppInv, Fairly
  <2>2. /\ step \in Seen /\ votes \in [Chain -> [Users -> {"none", "approve", "reject"}]] /\ Kinds
        /\ \A u \in Actors : Current(u)
    BY <1>1 DEF AppInv, Careful, Shape, TypeOK, Seen
  <2>3. PICK u \in Users : Finalize(u)
    <3>1. ~Resubmit
      BY <2>2 DEF Resubmit, Seen
    <3>2. \A u \in Users : ~CommitReview(u)
      BY <2>2 DEF CommitReview, Seen
    <3>3. ~Submit /\ ~Withdraw
      BY DEF Submit, Withdraw, AllPending
    <3> QED
      BY <1>1, <3>1, <3>2, <3>3 DEF Next, vars, row, Decide, Vote, BeginReview, ReadForReview,
         Tally, CommitVote, ApplicantReads, Appeal, SetMembers
  <2>4. /\ tx[u].pc = "commit" /\ tx[u].decision # "none"
        /\ step' = [step EXCEPT ![tx[u].row] = tx[u].decision]
        /\ votes' = IF tx[u].op \in {"approve", "reject"}
                    THEN [votes EXCEPT ![tx[u].row][u] = tx[u].op] ELSE votes
    BY <2>3 DEF Finalize, row
  <2>5. tx[u].row \in Chain /\ tx[u].op \in Outcomes \cup Votes
    BY <2>2, <2>4 DEF Kinds, OfStaff, Idle
  <2>6. k = tx[u].row /\ tx[u].decision = "approved"
    BY <2>2, <2>4, <2>5 DEF Seen
  <2>7. tx[u].op \in Votes /\ u \in members
    BY <2>1, <2>5, <2>6 DEF Tallied, Counted
  <2>8. votes'[k] = Ballot(u)
    BY <2>2, <2>4, <2>5, <2>6, <2>7 DEF Ballot, Votes
  <2>9. Count(Ballot(u), "approve") >= Needed
    BY <2>1, <2>4, <2>6, <2>7 DEF Tallied, Counted
  <2>10. \A w \in Users \ members : Ballot(u)[w] = "none"
    BY <2>1, <2>2, <2>5, <2>7 DEF Tallied, Ballot
  <2>11. members = Committee /\ "approve" \in Votes
    BY <2>1 DEF Tallied, Votes
  <2>12. /\ Count(Ballot(u), "approve") \in Nat
         /\ Count(Ballot(u), "approve") = Cardinality({w \in members : votes'[k][w] = "approve"})
    BY <2>8, <2>10, <2>11, CountNat
  <2>13. /\ Cardinality(members) \in Nat /\ Needed \in Nat /\ 2 * Needed > Cardinality(members)
    BY <2>11, NeededIs
  <2> QED
    BY <2>9, <2>12, <2>13
<1>2. AppInv /\ [Next]_vars => [Majority]_vars
  BY <1>1
<1> QED
  BY <1>2, Inductive, PTL DEF Spec, MajorityOfMembers

(* What is approved or rejected is not withdrawn, unless the withdrawal    *)
(* overlapped another request.                                             *)
THEOREM DecidedIsFinal == Spec => DecidedStays
<1> DEFINE Stays == ~overlapped /\ (status = "approved" \/ status = "rejected") => status' # "deleted"
<1>1. ASSUME AppInv, [Next]_vars PROVE Stays
  <2> SUFFICES ASSUME ~overlapped, status \in {"approved", "rejected"}, status' = "deleted" PROVE FALSE
    OBVIOUS
  <2>1. Withdraw
    BY <1>1 DEF Next, vars, Submit, Decide, Vote, BeginReview, ReadForReview, Tally, CommitVote,
                Finalize, CommitReview, ApplicantReads, Resubmit, Appeal, SetMembers, row,
                deriveApplicationStatus
  <2>2. Current(Applicant)
    BY <1>1, Sets DEF AppInv, Careful
  <2> QED BY <2>1, <2>2 DEF Withdraw, Current
<1>2. AppInv /\ [Next]_vars => [Stays]_vars
  BY <1>1
<1> QED
  BY <1>2, Inductive, PTL DEF Spec, DecidedStays

\* What the applicant sees of a status: waiting for staff or for a revision.
Seems(s) == IF s \in {"pending", "revision_requested"} THEN "open" ELSE s

LEMMA OutcomeStep == AppInv /\ [Next]_vars => [Outcome!OutcomeNext]_(Outcome!outcomeVars)
<1> SUFFICES ASSUME AppInv, [Next]_vars PROVE [Outcome!OutcomeNext]_(Outcome!outcomeVars)
  OBVIOUS
<1> USE Sets DEF Seems
<1>k. Kinds /\ TypeOK /\ Logged
  BY DEF AppInv, Shape
<1>n. \A u \in Actors : tx[u].pc # "idle" => status # "none"
  BY IdleIs DEF AppInv, Logged
<1>c. ~overlapped => Agree /\ \A u \in Actors : Current(u)
  BY DEF AppInv, Careful
<1>v. Outcome!outcomeVars = <<Seems(status), clubs, overlapped>>
  BY DEF Outcome!outcomeVars
\* Nothing shows.
<1>s. ASSUME UNCHANGED <<status, clubs, overlapped>> PROVE UNCHANGED Outcome!outcomeVars
  BY <1>s DEF Outcome!outcomeVars
\* A request begins, beside another or not.
<1>b. ASSUME NEW u \in Actors, MayBegin(u), UNCHANGED row PROVE [Outcome!OutcomeNext]_(Outcome!outcomeVars)
  BY <1>b, <1>k DEF MayBegin, row, Outcome!outcomeVars, Outcome!OutcomeNext, Outcome!Contest, TypeOK
\* A commit that overlapped another request.
<1>o. ASSUME overlapped, overlapped', status \notin {"none", "deleted"},
             status' \in StepStatus \cup {"deleted"},
             clubs' = clubs \/ (clubs' = clubs + 1 /\ status' = "approved")
      PROVE  Outcome!Contested
  BY <1>o, <1>k DEF Outcome!Contested, TypeOK, StepStatus, Outcomes
<1>m. Outcome!Contested => Outcome!OutcomeNext
  BY DEF Outcome!OutcomeNext
<1>1. CASE Submit
  BY <1>1, <1>k, ChainType DEF Submit, Outcome!OutcomeNext, Outcome!Send, Outcome!Move, TypeOK
<1>2. ASSUME NEW u \in Users, NEW d \in Outcomes, Decide(u, d)
      PROVE  [Outcome!OutcomeNext]_(Outcome!outcomeVars)
  BY <1>2, <1>b DEF Decide, DecisionRequest
<1>3. ASSUME NEW u \in Users, NEW v \in Votes, Vote(u, v)
      PROVE  [Outcome!OutcomeNext]_(Outcome!outcomeVars)
  BY <1>3, <1>b DEF Vote, VoteRequest
<1>4. ASSUME NEW u \in Users, NEW d \in Reviews, BeginReview(u, d)
      PROVE  [Outcome!OutcomeNext]_(Outcome!outcomeVars)
  BY <1>4, <1>b DEF BeginReview
<1>5. ASSUME NEW u \in Users, ReadForReview(u) \/ Tally(u) \/ CommitVote(u)
      PROVE  [Outcome!OutcomeNext]_(Outcome!outcomeVars)
  BY <1>5, <1>s DEF ReadForReview, Tally, CommitVote, row
<1>6. ASSUME NEW u \in Users, Finalize(u) PROVE [Outcome!OutcomeNext]_(Outcome!outcomeVars)
  <2>1. CASE UNCHANGED row
    BY <1>6, <1>s, <2>1 DEF Finalize, row
  <2>2. CASE ~UNCHANGED row
    <3>1. /\ status' = deriveApplicationStatus([tx[u].seen EXCEPT ![tx[u].row] = tx[u].decision])
          /\ clubs' = IF MakesClub(status', tx[u].decision) THEN clubs + 1 ELSE clubs
          /\ status \notin {"none", "deleted"} /\ overlapped' = overlapped
          /\ tx[u].op \in Outcomes \cup Votes
      BY <1>6, <1>k, <1>n, <2>2 DEF Finalize, Kinds, OfStaff, Idle
    <3>2. status' \in StepStatus
      BY <3>1 DEF deriveApplicationStatus, StepStatus, Outcomes
    <3>3. clubs' = IF status' = "approved" THEN clubs + 1 ELSE clubs
      BY <3>1 DEF MakesClub
    <3>4. CASE overlapped
      BY <1>o, <1>m, <3>1, <3>2, <3>3, <3>4
    <3>5. CASE ~overlapped
      <4>1. status = "pending"
        BY <1>c, <3>1, <3>5 DEF Current
      <4>2. clubs' = clubs \/ (clubs \in Nat /\ status' = "approved")
        BY <1>k, <3>3, ChainType DEF TypeOK
      <4>3. CASE status' = "approved"
        BY <3>1, <3>3, <4>1, <4>3 DEF Outcome!OutcomeNext, Outcome!Approve, Outcome!Move
      <4>4. CASE status' = "rejected"
        BY <1>k, <3>1, <3>3, <4>1, <4>4, ChainType
           DEF Outcome!OutcomeNext, Outcome!Reject, Outcome!Move, TypeOK
      <4>5. CASE status' \in {"pending", "revision_requested"}
        BY <3>1, <3>3, <4>1, <4>5 DEF Outcome!outcomeVars
      <4> QED BY <3>2, <4>3, <4>4, <4>5 DEF StepStatus, Outcomes
    <3> QED BY <1>k, <3>4, <3>5 DEF TypeOK
  <2> QED BY <2>1, <2>2
<1>7. ASSUME NEW u \in Users, CommitReview(u) PROVE [Outcome!OutcomeNext]_(Outcome!outcomeVars)
  <2>1. CASE UNCHANGED status
    BY <1>7, <1>s, <2>1 DEF CommitReview
  <2>2. CASE ~UNCHANGED status
    <3>1. /\ status' = "pending" /\ status \notin {"none", "deleted"} /\ UNCHANGED <<clubs, overlapped>>
          /\ tx[u].op \in Reviews
      BY <1>7, <1>n, <2>2 DEF CommitReview, Reviews
    <3>2. CASE overlapped
      BY <1>o, <1>m, <3>1, <3>2 DEF StepStatus
    <3>3. CASE ~overlapped
      <4>1. status = "rejected"
        BY <1>c, <3>1, <3>3 DEF Current
      <4> QED
        BY <1>k, <3>1, <4>1, ChainType DEF Outcome!OutcomeNext, Outcome!Reopen, Outcome!Move, TypeOK
    <3> QED BY <1>k, <3>2, <3>3 DEF TypeOK
  <2> QED BY <2>1, <2>2
<1>8. ASSUME NEW op \in Wishes, ApplicantReads(op) PROVE [Outcome!OutcomeNext]_(Outcome!outcomeVars)
  BY <1>8, <1>b DEF ApplicantReads
<1>9. CASE Resubmit
  <2>1. /\ status' = "pending" /\ status \notin {"none", "deleted"} /\ UNCHANGED <<clubs, overlapped>>
        /\ tx[Applicant].op = "resubmit"
    BY <1>9, <1>k, <1>n DEF Resubmit, Logged
  <2>2. CASE overlapped
    BY <1>o, <1>m, <2>1, <2>2 DEF StepStatus
  <2>3. CASE ~overlapped
    <3>1. status = "revision_requested"
      BY <1>c, <2>1, <2>3 DEF Current
    <3> QED BY <2>1, <3>1 DEF Outcome!outcomeVars
  <2> QED BY <1>k, <2>2, <2>3 DEF TypeOK
<1>10. CASE Withdraw
  <2>1. /\ status' = "deleted" /\ status # "none" /\ UNCHANGED <<clubs, overlapped>>
        /\ tx[Applicant].op = "withdraw"
    BY <1>10, <1>n DEF Withdraw
  <2>2. CASE status = "deleted"
    BY <1>s, <2>1, <2>2
  <2>3. CASE overlapped /\ status # "deleted"
    BY <1>o, <1>m, <2>1, <2>3
  <2>4. CASE ~overlapped
    <3>1. status = "pending"
      BY <1>c, <2>1, <2>4 DEF Current
    <3> QED
      BY <1>k, <2>1, <3>1, ChainType DEF Outcome!OutcomeNext, Outcome!TakeBack, Outcome!Move, TypeOK
  <2> QED BY <1>k, <2>2, <2>3, <2>4 DEF TypeOK
<1>11. CASE Appeal \/ (\E m \in (SUBSET Users) \ {{}} : SetMembers(m)) \/ UNCHANGED vars
  BY <1>11, <1>s DEF Appeal, SetMembers, vars, row
<1> QED
  BY <1>1, <1>2, <1>3, <1>4, <1>5, <1>6, <1>7, <1>8, <1>9, <1>10, <1>11 DEF Next, Votes, Reviews, Wishes

(* What the applicant sees of an application, of its appeal and of its club *)
(* changes only as ApplicationOutcome promises.                            *)
THEOREM ImplementsOutcome == Spec => KeepsOutcome
<1>1. Init => Outcome!OutcomeInit
  BY DEF Init, Outcome!OutcomeInit
<1>2. AppInv /\ [Next]_vars => [Outcome!OutcomeNext]_(Outcome!outcomeVars)
  BY OutcomeStep
<1> QED
  BY <1>1, <1>2, Inductive, PTL DEF Spec, KeepsOutcome, Outcome!OutcomeSpec
=============================================================================
