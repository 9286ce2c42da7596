-------------------------- MODULE ApprovalCommittees --------------------------
(***************************************************************************)
(* One approval committee of a university while one application waits for  *)
(* its vote: requests that create and update the committee, votes, and     *)
(* what the members and the staff are shown of it.                         *)
(*                                                                         *)
(* ClubApplication takes the committee as a set that changes at once.      *)
(* Here it is the two tables it is kept in, and who is a member, how many  *)
(* there are and who voted are separate statements, each of which sees     *)
(* what is committed when it runs.                                         *)
(***************************************************************************)
EXTENDS Integers, FiniteSets, Names

CONSTANTS Colleagues,      \* users of the university
          Clerks,          \* requests of the staff that may overlap
          Rolls,           \* the lists of members that requests name
          Kept,            \* a field that the request leaves out
          CommitteeBudgets  \* bounds: updates ever asked for, and readers (votes and
                            \* readings of the tally) under way at once

ASSUME CommitteeAssumption ==
  /\ IsFiniteSet(Colleagues) /\ Rolls \subseteq (SUBSET Colleagues) \ {{}}
  /\ CommitteeBudgets \subseteq [updates : Nat, readers : Nat]

VARIABLES committee,  \* approval_committees and approval_committee_members
          clerk,      \* each update under way
          stage,      \* the current step of the application
          ballot,     \* club_application_committee_votes of the committee's step
          voter,      \* each vote under way
          tallied,    \* a reading of the tally
          wanted,     \* history: the list of the last committed request that had one
          committeeLeft

committeeVars == <<committee, clerk, stage, ballot, voter, tallied, wanted, committeeLeft>>

NoChange == [pc |-> "idle", rename |-> FALSE, active |-> Kept, list |-> Kept, saw |-> {}]
NoVoting == [pc |-> "idle", vote |-> "none", for |-> 0, against |-> 0, size |-> 0, moved |-> FALSE]
NoTally == [pc |-> "idle", size |-> 0, voted |-> {}, listed |-> {}, moved |-> FALSE]

CommitteeInit ==
  /\ committee = [there |-> FALSE, active |-> FALSE, members |-> {}]
  /\ clerk = [r \in Clerks |-> NoChange]
  /\ stage = "role" /\ ballot = [u \in Colleagues |-> "none"]
  /\ voter = [u \in Colleagues |-> NoVoting] /\ tallied = NoTally
  /\ wanted = {} /\ committeeLeft \in CommitteeBudgets

\* What is read in several statements is marked when a change is committed in between.
Moved(readers) == [u \in Colleagues |-> IF readers[u].pc = "idle" THEN readers[u]
                                    ELSE [readers[u] EXCEPT !.moved = TRUE]]
TallyMoved == IF tallied.pc \in {"idle", "shown"} THEN tallied ELSE [tallied EXCEPT !.moved = TRUE]

----------------------------------------------------------------------------
(***************************************************************************)
(* approval-committees.service.ts and its repository.                      *)
(***************************************************************************)
\* create: the committee and its members in one transaction.
CreateCommittee(list, active) ==
  /\ ~committee.there
  /\ committee' = [there |-> TRUE, active |-> active, members |-> list] /\ wanted' = list
  /\ UNCHANGED <<clerk, stage, ballot, voter, tallied, committeeLeft>>

\* update, as far as the transaction: the committee is there, the users are the tenant's.
AskChange(r, rename, active, list) ==
  /\ clerk[r] = NoChange /\ committee.there /\ committeeLeft.updates > 0
  /\ clerk' = [clerk EXCEPT ![r] = [pc |-> "asked", rename |-> rename, active |-> active,
                                    list |-> list, saw |-> {}]]
  /\ committeeLeft' = [committeeLeft EXCEPT !.updates = @ - 1]
  /\ UNCHANGED <<committee, stage, ballot, voter, tallied, wanted>>

\* Without a name and a state, set() is given nothing, and throws.
SetsNothing(patch) == ~patch.rename /\ patch.active = Kept
\* Mutant: the update does not wait for the one before it.
Mutant_NoWait == TRUE
RowIsFree == \A q \in Clerks : clerk[q].pc \notin {"locked", "deleted"}

\* The UPDATE of the committee holds its row until the transaction ends.
LockRow(r) ==
  /\ clerk[r].pc = "asked"
  /\ \/ SetsNothing(clerk[r]) /\ clerk' = [clerk EXCEPT ![r] = NoChange]
     \/ ~SetsNothing(clerk[r]) /\ RowIsFree /\ clerk' = [clerk EXCEPT ![r].pc = "locked"]
  /\ UNCHANGED <<committee, stage, ballot, voter, tallied, wanted, committeeLeft>>

DeleteMembers(r) ==
  /\ clerk[r].pc = "locked"
  /\ clerk' = [clerk EXCEPT ![r].pc = "deleted",
                            ![r].saw = IF clerk[r].list = Kept THEN {} ELSE committee.members]
  /\ UNCHANGED <<committee, stage, ballot, voter, tallied, wanted, committeeLeft>>

\* The INSERT of the list and the commit; a row already there rolls back.
CommitChange(r) ==
  LET patch == clerk[r]
      left == committee.members \ patch.saw
      list == IF patch.list = Kept THEN {} ELSE patch.list
  IN
  /\ patch.pc = "deleted"
  /\ clerk' = [clerk EXCEPT ![r] = NoChange]
  /\ IF left \cap list # {} THEN UNCHANGED <<committee, voter, tallied, wanted>>
     ELSE /\ committee' = [committee EXCEPT !.active = IF patch.active = Kept THEN @ ELSE patch.active,
                                            !.members = left \cup list]
          /\ wanted' = IF patch.list = Kept THEN wanted ELSE list
          /\ voter' = Moved(voter) /\ tallied' = TallyMoved
  /\ UNCHANGED <<stage, ballot, committeeLeft>>

----------------------------------------------------------------------------
(***************************************************************************)
(* castVote, statement by statement.  What the route looks at before it    *)
(* (StepAccess) only refuses.                                              *)
(***************************************************************************)
\* The step before the committee's is approved.
RoleStepApproved ==
  /\ stage = "role" /\ committee.there /\ stage' = "committee"
  /\ UNCHANGED <<committee, clerk, ballot, voter, tallied, wanted, committeeLeft>>

Reading == {w \in Colleagues : voter[w] # NoVoting}
MayRead == Cardinality(Reading) + (IF tallied = NoTally THEN 0 ELSE 1) < committeeLeft.readers

AskVote(u, v) ==
  /\ voter[u] = NoVoting /\ stage = "committee" /\ MayRead
  /\ voter' = [voter EXCEPT ![u] = [NoVoting EXCEPT !.pc = "asked", !.vote = v]]
  /\ UNCHANGED <<committee, clerk, stage, ballot, tallied, wanted, committeeLeft>>

Goto(u, pc) == voter' = [voter EXCEPT ![u] = IF pc = "idle" THEN NoVoting ELSE [@ EXCEPT !.pc = pc]]

\* isActiveMember: the committee, then the row of the member.
SeeActive(u) ==
  /\ voter[u].pc = "asked" /\ Goto(u, IF committee.active THEN "active" ELSE "idle")
  /\ UNCHANGED <<committee, clerk, stage, ballot, tallied, wanted, committeeLeft>>
\* Mutant: the committee is enough.
Mutant_AnyVoter(u) == TRUE
HasRow(u) == u \in committee.members
SeeMember(u) ==
  /\ voter[u].pc = "active" /\ Goto(u, IF HasRow(u) THEN "member" ELSE "idle")
  /\ UNCHANGED <<committee, clerk, stage, ballot, tallied, wanted, committeeLeft>>

\* The own vote is upserted; the votes are read.
ReadVotes(u) ==
  LET seen == [ballot EXCEPT ![u] = voter[u].vote]
      count(v) == Cardinality({w \in Colleagues : seen[w] = v})
  IN
  /\ voter[u].pc = "member"
  /\ voter' = [voter EXCEPT ![u] = [@ EXCEPT !.pc = "voted", !.for = count("approve"),
                                             !.against = count("reject")]]
  /\ UNCHANGED <<committee, clerk, stage, ballot, tallied, wanted, committeeLeft>>

\* countActiveMembers: nobody, when the committee is not active; or its rows.
CountActive(u) ==
  /\ voter[u].pc = "voted" /\ Goto(u, IF committee.active THEN "counting" ELSE "counted")
  /\ UNCHANGED <<committee, clerk, stage, ballot, tallied, wanted, committeeLeft>>
CountRows(u) ==
  /\ voter[u].pc = "counting"
  /\ voter' = [voter EXCEPT ![u] = [@ EXCEPT !.pc = "counted", !.size = Cardinality(committee.members)]]
  /\ UNCHANGED <<committee, clerk, stage, ballot, tallied, wanted, committeeLeft>>

\* Mutant: half of an even committee is enough.
Mutant_Half(n) == IF n = 0 THEN 1 ELSE (n + 1) \div 2
Threshold(n) == IF n = 0 THEN 1 ELSE n \div 2 + 1
StepDecision(t) ==
  IF t.for >= Threshold(t.size) THEN "approved"
  ELSE IF t.against >= Threshold(t.size) THEN "rejected" ELSE "none"

CommitBallot(u) ==
  /\ voter[u].pc = "counted"
  /\ ballot' = [ballot EXCEPT ![u] = voter[u].vote]
  /\ stage' = IF StepDecision(voter[u]) = "none" THEN stage ELSE "decided"
  /\ Goto(u, "idle") /\ tallied' = TallyMoved
  /\ UNCHANGED <<committee, clerk, wanted, committeeLeft>>

----------------------------------------------------------------------------
(***************************************************************************)
(* What is shown.                                                          *)
(***************************************************************************)
isActiveMember(u) == committee.there /\ committee.active /\ u \in committee.members
\* resolveStepAccess: who, not being staff, is let in to the application.
StepAccess == {u \in Colleagues : stage = "committee" /\ isActiveMember(u)}
\* Mutant: the member's list asks the committee nothing.
Mutant_ListAll ==
  {u \in Colleagues : u \in committee.members /\ stage = "committee" /\ ballot[u] = "none"}
\* listPendingApplicationsAwaitingUserVote, for those who find it on their list.
Awaiting ==
  {u \in Colleagues : /\ u \in committee.members /\ committee.active
                  /\ stage = "committee" /\ ballot[u] = "none"}

\* getCommitteeTally, statement by statement.
TallyStep(from, to) ==
  /\ tallied.pc = from /\ tallied' = to
  /\ UNCHANGED <<committee, clerk, stage, ballot, voter, wanted, committeeLeft>>
ReadTally ==
  \/ committee.there /\ MayRead /\ TallyStep("idle", [NoTally EXCEPT !.pc = "found"])
  \/ TallyStep("found", [tallied EXCEPT !.pc = IF committee.active THEN "rows" ELSE "votes"])
  \/ TallyStep("rows", [tallied EXCEPT !.pc = "votes", !.size = Cardinality(committee.members)])
  \/ TallyStep("votes", [tallied EXCEPT !.pc = "list",
                                         !.voted = {u \in Colleagues : ballot[u] # "none"}])
  \/ TallyStep("list", [tallied EXCEPT !.pc = "shown", !.listed = committee.members])
  \/ TallyStep("shown", NoTally)

NotVotedMembers(t) == t.listed \ t.voted
\* Mutant: one too many.
Mutant_OneMore(t) == IF t.size > Cardinality(t.voted) THEN t.size - Cardinality(t.voted) + 1 ELSE 0
NotVotedCount(t) == IF t.size > Cardinality(t.voted) THEN t.size - Cardinality(t.voted) ELSE 0

CommitteeNext ==
  \/ \E list \in Rolls, active \in BOOLEAN : CreateCommittee(list, active)
  \/ \E r \in AnyOne({q \in Clerks : clerk[q] = NoChange}), list \in Rolls \cup {Kept} :
       \/ \E active \in BOOLEAN : AskChange(r, FALSE, active, list)
       \/ \E rename \in BOOLEAN : AskChange(r, rename, Kept, list)
  \/ \E r \in Clerks : LockRow(r) \/ DeleteMembers(r) \/ CommitChange(r)
  \/ RoleStepApproved
  \/ \E u \in Colleagues, v \in {"approve", "reject"} : AskVote(u, v)
  \/ \E u \in Colleagues : SeeActive(u) \/ SeeMember(u) \/ ReadVotes(u) \/ CountActive(u)
                       \/ CountRows(u) \/ CommitBallot(u)
  \/ ReadTally

CommitteeSpec == CommitteeInit /\ [][CommitteeNext]_committeeVars

----------------------------------------------------------------------------
\* However updates overlap, the members are the list last asked for, whole.
MembersAsAsked == committee.members = wanted
\* Who votes is an active member, unless the committee changed meanwhile.
VotersBelong ==
  \A u \in Colleagues : voter[u].pc \in {"member", "voted", "counting", "counted"} /\ ~voter[u].moved =>
    isActiveMember(u)
\* A decision has more than half of the committee behind it, unless it changed
\* meanwhile: taken out of service, it counts nobody, and one vote decides.
MajorityBehind ==
  \A u \in Colleagues : voter[u].pc = "counted" /\ ~voter[u].moved =>
    LET n == Cardinality(committee.members) IN
    /\ StepDecision(voter[u]) = "approved" => 2 * voter[u].for > n
    /\ StepDecision(voter[u]) = "rejected" => 2 * voter[u].against > n
\* A member's list holds the application exactly while it is theirs to vote on.
ListAgrees == Awaiting = {u \in StepAccess : ballot[u] = "none"}
\* Of a committee in service that did not change meanwhile, the number that has
\* not voted is that of the members named, less the votes of who left since.
TallyAddsUp ==
  tallied.pc = "shown" /\ ~tallied.moved /\ tallied.size > 0 =>
    /\ NotVotedCount(tallied) <= Cardinality(NotVotedMembers(tallied))
    /\ tallied.voted \subseteq tallied.listed =>
         NotVotedCount(tallied) = Cardinality(NotVotedMembers(tallied))

(* The committee is the list last asked for, its decisions are those of a  *)
(* majority of it, and what members and staff are shown of it agrees with  *)
(* whose vote is awaited (approval-committees.repository.ts,               *)
(* club-application-committee.service.ts, committee-application-access).   *)
CommitteeSound == MembersAsAsked /\ VotersBelong /\ MajorityBehind /\ ListAgrees /\ TallyAddsUp
=============================================================================
