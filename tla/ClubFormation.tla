---------------------------- MODULE ClubFormation ----------------------------
(***************************************************************************)
(* How a student gets as far as an application for a club: where the       *)
(* tenant asks for support, a proposal collects it until a deadline, and   *)
(* the support that reaches the threshold submits the application.         *)
(*                                                                         *)
(* Every operation reads the proposal in one statement and writes it by id *)
(* in a later one: READ COMMITTED lets two of them count from the same     *)
(* number.  What holds of the counts and of the one open request of a      *)
(* student is therefore said of operations that did not meet.  A rejected  *)
(* application may be appealed once, and an upheld appeal opens it again.  *)
(***************************************************************************)
EXTENDS Integers, FiniteSets

CONSTANTS Supporters, Proposer,
          Proposals,       \* bound: the proposals the student ever makes
          Thresholds,      \* values of club.formation.support_threshold; 0 is off
          MaxApplications, MaxForming  \* bounds: applications, operations

ASSUME FormationAssumption ==
  /\ Proposer \notin Supporters /\ Thresholds \subseteq Nat /\ MaxApplications \in Nat
  /\ MaxForming \in Nat
  /\ IsFiniteSet(Supporters) /\ IsFiniteSet(Proposals) /\ Proposals # {}

VARIABLES proposal,   \* club_formation_proposals with its supports
          threshold,  \* the tenant's setting
          applied,    \* applications the student has made
          openApps,   \* those not decided since they were made
          appealable, \* those rejected, with no appeal reviewed yet
          reopened,   \* those an upheld appeal opened again
          forming,    \* the operation each person has under way
          begunOps,   \* how many operations have begun
          formingMet, \* an operation met another, or a deadline
          undoMet     \* one of them took a support back

applications == <<applied, openApps, appealable, reopened>>
formationVars == <<proposal, threshold, applications, forming, begunOps, formingMet, undoMet>>
formingHistory == <<begunOps, formingMet, undoMet>>

Proposal == [status : {"none", "collecting_support", "submitted", "withdrawn", "expired"},
             count : Nat, supports : SUBSET Supporters, due : BOOLEAN, need : Nat]
NoProposal == [status |-> "none", count |-> 0, supports |-> {}, due |-> FALSE, need |-> 0]
NoOp == [op |-> "none", on |-> CHOOSE p \in Proposals : TRUE, seen |-> 0, need |-> 0]
Persons == Supporters \cup {Proposer}

FormationInit ==
  /\ proposal = [p \in Proposals |-> NoProposal]
  /\ threshold \in Thresholds
  /\ applied = 0 /\ openApps = 0 /\ appealable = 0 /\ reopened = 0
  /\ forming = [u \in Persons |-> NoOp] /\ formingMet = FALSE
  /\ undoMet = FALSE /\ begunOps = 0

\* Mutant: a proposal past its deadline still collects.
Mutant_IgnoresDeadline(p) == proposal[p].status = "collecting_support"
\* collecting_support and expiresAt > now
Collecting(p) == proposal[p].status = "collecting_support" /\ ~proposal[p].due

FormationBegins(u, op, p) ==
  /\ forming[u] = NoOp
  /\ forming' = [forming EXCEPT ![u] =
       [op |-> op, on |-> p, seen |-> proposal[p].count, need |-> threshold]]
  /\ begunOps < MaxForming /\ begunOps' = begunOps + 1
  /\ LET met == {v \in Persons : forming[v] # NoOp} IN
       /\ formingMet' = (formingMet \/ met # {})
       /\ undoMet' = (undoMet \/ (met # {} /\ "unsupport" \in {op} \cup {forming[v].op : v \in met}))
  /\ UNCHANGED <<proposal, threshold, applications>>

FormationEnds(u) ==
  /\ forming' = [forming EXCEPT ![u] = NoOp]
  /\ UNCHANGED <<threshold, appealable, reopened, formingHistory>>

\* createApplication: no open application, no proposal that collects.
AskToForm ==
  /\ openApps = 0 /\ reopened = 0 /\ \A p \in Proposals : ~Collecting(p)
  /\ FormationBegins(Proposer, "create", NoOp.on)
\* A proposal, or the application at once where no support is asked for.
CreateForm ==
  /\ forming[Proposer].op = "create"
  /\ \/ /\ threshold = 0 /\ applied < MaxApplications
        /\ applied' = applied + 1 /\ openApps' = openApps + 1 /\ UNCHANGED proposal
     \/ /\ threshold > 0
        /\ \E p \in Proposals :
             /\ proposal[p].status = "none"
             /\ proposal' = [proposal EXCEPT ![p].status = "collecting_support"]
        /\ UNCHANGED <<applied, openApps>>
  /\ FormationEnds(Proposer)

\* supportFormationProposal, up to the test for an earlier support.
ReadSupport(u, p) ==
  /\ threshold > 0 /\ Collecting(p) /\ u \notin proposal[p].supports
  /\ FormationBegins(u, "support", p)

\* Mutant: the supporter is counted twice.
Mutant_TwiceCounted(n, need) == n + 1 >= need
ThresholdReached(n, need) == n >= need

\* The support's row, the count, and at the threshold the application.
AddSupport(u) ==
  LET p == forming[u].on
      n == forming[u].seen + 1
      reached == ThresholdReached(n, forming[u].need)
  IN
  /\ forming[u].op = "support" /\ (reached => applied < MaxApplications)
  /\ IF u \in proposal[p].supports
     THEN UNCHANGED <<proposal, applied, openApps>>   \* the unique index: rolled back
     ELSE /\ proposal' = [proposal EXCEPT ![p].supports = @ \cup {u}, ![p].count = n,
               ![p].status = IF reached THEN "submitted" ELSE @,
               ![p].need = IF reached THEN forming[u].need ELSE @]
          /\ applied' = IF reached THEN applied + 1 ELSE applied
          /\ openApps' = IF reached THEN openApps + 1 ELSE openApps
  /\ FormationEnds(u)

\* removeFormationSupport
ReadUnsupport(u, p) ==
  /\ Collecting(p) /\ u \in proposal[p].supports
  /\ FormationBegins(u, "unsupport", p)
RemoveSupport(u) ==
  LET p == forming[u].on IN
  /\ forming[u].op = "unsupport"
  /\ proposal' = [proposal EXCEPT ![p].supports = @ \ {u},
       ![p].count = IF forming[u].seen = 0 THEN 0 ELSE forming[u].seen - 1]
  /\ FormationEnds(u) /\ UNCHANGED <<applied, openApps>>

\* withdrawFormationProposal: read, then written by id.
ReadWithdrawal(p) ==
  /\ proposal[p].status = "collecting_support" /\ FormationBegins(Proposer, "withdraw", p)
WriteWithdrawal ==
  /\ forming[Proposer].op = "withdraw"
  /\ proposal' = [proposal EXCEPT ![forming[Proposer].on].status = "withdrawn"]
  /\ FormationEnds(Proposer) /\ UNCHANGED <<applied, openApps>>

\* The deadline passes; a listing marks what is past it as expired.
DeadlinePasses(p) ==
  /\ proposal[p].status = "collecting_support" /\ ~proposal[p].due
  /\ proposal' = [proposal EXCEPT ![p].due = TRUE]
  /\ formingMet' = (formingMet \/ \E u \in Persons : forming[u] # NoOp)
  /\ UNCHANGED <<threshold, applications, forming, begunOps, undoMet>>
ListProposals ==
  /\ proposal' = [p \in Proposals |->
       IF proposal[p].status = "collecting_support" /\ proposal[p].due
       THEN [proposal[p] EXCEPT !.status = "expired"] ELSE proposal[p]]
  /\ UNCHANGED <<threshold, applications, forming, formingHistory>>

\* The tenant's setting.
SetThreshold(n) ==
  /\ threshold' = n /\ UNCHANGED <<proposal, applications, forming, formingHistory>>

\* An application is approved, or rejected and open to an appeal.
ApplicationDecided ==
  /\ openApps > 0 /\ openApps' = openApps - 1
  /\ appealable' \in {appealable, appealable + 1}
  /\ UNCHANGED <<proposal, threshold, applied, reopened, forming, formingHistory>>
\* reviewAppeal: an upheld appeal sets the application back to pending and
\* looks at no other request of the student.  One application has one appeal.
AppealUpheld ==
  /\ appealable > 0 /\ appealable' = appealable - 1 /\ reopened' = reopened + 1
  /\ UNCHANGED <<proposal, threshold, applied, openApps, forming, formingHistory>>
ReopenedDecided ==
  /\ reopened > 0 /\ reopened' = reopened - 1
  /\ UNCHANGED <<proposal, threshold, applied, openApps, appealable, forming, formingHistory>>

FormationNext ==
  \/ AskToForm \/ CreateForm \/ WriteWithdrawal \/ ListProposals
  \/ ApplicationDecided \/ AppealUpheld \/ ReopenedDecided
  \/ \E p \in Proposals :
       \/ ReadWithdrawal(p) \/ DeadlinePasses(p)
       \/ \E u \in Supporters : ReadSupport(u, p) \/ ReadUnsupport(u, p)
  \/ \E u \in Supporters : AddSupport(u) \/ RemoveSupport(u)
  \/ \E n \in Thresholds : SetThreshold(n)

FormationSpec == FormationInit /\ [][FormationNext]_formationVars

----------------------------------------------------------------------------
FormationTypeOK ==
  /\ proposal \in [Proposals -> Proposal] /\ threshold \in Thresholds
  /\ applied \in 0..MaxApplications /\ openApps \in 0..applied
  /\ appealable \in Nat /\ reopened \in Nat /\ openApps + appealable + reopened <= applied
  /\ forming \in [Persons -> [op : {"none", "create", "support", "unsupport", "withdraw"},
                              on : Proposals, seen : Nat, need : Nat]]
  /\ formingMet \in BOOLEAN /\ undoMet \in BOOLEAN /\ begunOps \in 0..MaxForming

\* The count is the number of supporters.
CountIsSupport == \A p \in Proposals : proposal[p].count = Cardinality(proposal[p].supports)
\* A student has one open request, a proposal that collects or an application,
\* beside the applications that upheld appeals opened again.
OneOpenRequest == openApps + Cardinality({p \in Proposals : Collecting(p)}) <= 1
\* What was submitted had the support the tenant asked for at the time.
SubmittedHadSupport ==
  \A p \in Proposals : proposal[p].status = "submitted" =>
    Cardinality(proposal[p].supports) >= proposal[p].need
\* Nothing is submitted after its deadline.
NothingLate == \A p \in Proposals : proposal[p].status = "submitted" => ~proposal[p].due

(* Every variable keeps its type; no application is open, or open again,   *)
(* beyond those that were made.  While no two operations met, a proposal's *)
(* count is its supporters, nothing is submitted past its deadline, and a  *)
(* student has one open request, beside what an upheld appeal opened       *)
(* again: reviewAppeal looks at no other request, so the rule that the     *)
(* comment at clubs.service.ts:66-69 gives holds of new requests only.     *)
(* Unless a support was taken back beside another operation, nothing is    *)
(* submitted without the support that was asked for: supports that meet    *)
(* are undercounted, never overcounted (clubs.service.ts:66-75,            *)
(* clubs.repository.ts:528-596, club-application-review.repository.ts:     *)
(* 150-206).                                                               *)
FormationSound ==
  /\ FormationTypeOK
  /\ ~formingMet => CountIsSupport /\ OneOpenRequest /\ NothingLate
  /\ ~undoMet => SubmittedHadSupport
=============================================================================
