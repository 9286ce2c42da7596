---------------------------- MODULE ClubAdvisors ----------------------------
(***************************************************************************)
(* How one person becomes an advisor of one club and stops being one:      *)
(* invitations that expire, are answered or cancelled, the advisor's       *)
(* withdrawal, and removal by the administration.                          *)
(*                                                                         *)
(* Declining, cancelling and expiring test the status in the UPDATE        *)
(* itself; acceptance reads it in its transaction and then writes by id.   *)
(***************************************************************************)
EXTENDS Integers, FiniteSets

CONSTANTS Invites,          \* bound: the invitations ever made, 1..n
          AdvisorRequests,  \* requests that may overlap
          MaxAdvising       \* bound: requests ever begun

ASSUME AdvisorsAssumption == Invites \subseteq Nat /\ MaxAdvising \in Nat

VARIABLES invite,    \* club_advisor_invitations
          advisor,   \* club_advisors: "none", "active", "left"
          advReq,
          refused,   \* history: invitations declined, cancelled or expired
          advised,   \* history: requests begun
          advMet, tookBack, \* history: requests overlapped; a write fell in an acceptance
          spent             \* history: acceptances that a leaving has ended

advisorsVars == <<invite, advisor, advReq, refused, advised, advMet, tookBack, spent>>

Closed == {"declined", "cancelled", "expired"}
NoInvite == [status |-> "none", due |-> FALSE]
NoAdvReq == [op |-> "none", pc |-> "idle", on |-> 0]

AdvisorsInit ==
  /\ invite = [i \in Invites |-> NoInvite] /\ advisor = "none"
  /\ advReq = [r \in AdvisorRequests |-> NoAdvReq]
  /\ refused = {} /\ advised = 0 /\ advMet = FALSE /\ tookBack = FALSE /\ spent = {}

Pending(i) == invite[i].status = "pending"

\* expireStalePending, the first statement of every request about invitations.
ExpireStalePending ==
  [i \in Invites |-> IF Pending(i) /\ invite[i].due THEN [invite[i] EXCEPT !.status = "expired"]
                                                    ELSE invite[i]]

\* A write that falls between another request's look at the status and its
\* writes by id.
Interrupts ==
  tookBack' = (tookBack \/ (/\ <<invite, advisor>>' # <<invite, advisor>>
                            /\ \E q \in AdvisorRequests : {advReq[q].pc, advReq'[q].pc} = {"commit"}))

AdvisorsEnter(r, op, i) ==
  /\ advReq[r] = NoAdvReq /\ advised < MaxAdvising /\ advised' = advised + 1
  /\ advReq' = [advReq EXCEPT ![r] = [op |-> op, pc |-> "read", on |-> i]]
  /\ advMet' = (advMet \/ \E q \in AdvisorRequests : advReq[q] # NoAdvReq)
  /\ IF op \in {"withdraw", "remove"} THEN UNCHANGED <<invite, refused>>
     ELSE /\ invite' = ExpireStalePending
          /\ refused' = refused \cup {j \in Invites : invite'[j].status = "expired"}
  /\ UNCHANGED <<advisor, spent>> /\ Interrupts

AdvDone(r) == advReq' = [advReq EXCEPT ![r] = NoAdvReq]
AdvGoto(r, pc) == advReq' = [advReq EXCEPT ![r].pc = pc]

\* The reads that decide whether the request goes on.  An invitation found
\* pending and past its day is marked expired, where it still is pending.
AdvRead(r) ==
  LET i == advReq[r].on
      stale == Pending(i) /\ invite[i].due
  IN
  /\ advReq[r].pc = "read"
  /\ \/ /\ advReq[r].op = "invite"
        /\ IF advisor # "active" /\ \A j \in Invites : ~Pending(j) THEN AdvGoto(r, "write") ELSE AdvDone(r)
        /\ UNCHANGED <<invite, refused>>
     \/ /\ advReq[r].op \in {"accept", "decline", "cancel"}
        /\ IF Pending(i) /\ ~stale THEN AdvGoto(r, "write") ELSE AdvDone(r)
        /\ invite' = IF stale THEN [invite EXCEPT ![i].status = "expired"] ELSE invite
        /\ refused' = IF stale THEN refused \cup {i} ELSE refused
     \/ /\ advReq[r].op = "withdraw"
        /\ IF advisor = "active" THEN AdvGoto(r, "write") ELSE AdvDone(r)
        /\ UNCHANGED <<invite, refused>>
     \/ /\ advReq[r].op = "remove"
        /\ IF advisor # "none" THEN AdvGoto(r, "write") ELSE AdvDone(r)
        /\ UNCHANGED <<invite, refused>>
  /\ UNCHANGED <<advisor, advised, advMet, spent>> /\ Interrupts

\* createInvitation: the partial unique index refuses a second pending one.
WriteInvite(r) ==
  /\ advReq[r].op = "invite" /\ advReq[r].pc = "write"
  /\ \/ (\E j \in Invites : Pending(j)) /\ UNCHANGED invite
     \/ /\ \A j \in Invites : ~Pending(j)
        /\ \E i \in Invites : /\ invite[i] = NoInvite /\ \A j \in Invites : j < i => invite[j] # NoInvite
                              /\ invite' = [invite EXCEPT ![i].status = "pending"]
  /\ AdvDone(r) /\ UNCHANGED <<advisor, refused, advised, advMet, tookBack, spent>>

\* The deadline of an invitation passes.
InviteFallsDue(i) ==
  /\ Pending(i) /\ ~invite[i].due /\ invite' = [invite EXCEPT ![i].due = TRUE]
  /\ UNCHANGED <<advisor, advReq, refused, advised, advMet, tookBack, spent>>

\* declineInvitation, cancelInvitation: WHERE status = 'pending'.
WriteRefusal(r) ==
  LET i == advReq[r].on IN
  /\ advReq[r].op \in {"decline", "cancel"} /\ advReq[r].pc = "write"
  /\ IF Pending(i)
     THEN /\ invite' = [invite EXCEPT ![i].status =
                          IF advReq[r].op = "decline" THEN "declined" ELSE "cancelled"]
          /\ refused' = refused \cup {i}
     ELSE UNCHANGED <<invite, refused>>
  /\ AdvDone(r) /\ UNCHANGED <<advisor, advised, advMet, spent>> /\ Interrupts

\* Mutant: the transaction does not look at the status again.
Mutant_NoSecondLook(i) == TRUE
StillPending(i) == Pending(i)

\* acceptInvitationInTx: the status once more, then the two writes by key.
BeginAccept(r) ==
  /\ advReq[r].op = "accept" /\ advReq[r].pc = "write"
  /\ IF StillPending(advReq[r].on) THEN AdvGoto(r, "commit") ELSE AdvDone(r)
  /\ UNCHANGED <<invite, advisor, refused, advised, advMet, tookBack, spent>>
CommitAccept(r) ==
  LET i == advReq[r].on IN
  /\ advReq[r].pc = "commit"
  /\ invite' = [invite EXCEPT ![i].status = "accepted"] /\ advisor' = "active"
  /\ AdvDone(r) /\ UNCHANGED <<refused, advised, advMet, spent>> /\ Interrupts

\* Mutant: withdrawing twice brings the advisor back.
Mutant_Toggle == IF advisor = "active" THEN "left" ELSE "active"
\* withdrawAdvisor: WHERE left_at IS NULL.
Withdrawn == IF advisor = "active" THEN "left" ELSE advisor
WriteLeaving(r) ==
  /\ advReq[r].op \in {"withdraw", "remove"} /\ advReq[r].pc = "write"
  /\ advisor' = IF advReq[r].op = "remove" THEN "none" ELSE Withdrawn
  /\ spent' = spent \cup {i \in Invites : invite[i].status = "accepted"}
  /\ AdvDone(r) /\ UNCHANGED <<invite, refused, advised, advMet>> /\ Interrupts

AdvisorsNext ==
  \/ \E i \in Invites : InviteFallsDue(i)
  \/ \E r \in AdvisorRequests :
       \/ \E op \in {"invite", "withdraw", "remove"} : AdvisorsEnter(r, op, 0)
       \/ \E op \in {"accept", "decline", "cancel"}, i \in Invites :
            invite[i] # NoInvite /\ AdvisorsEnter(r, op, i)
       \/ AdvRead(r) \/ WriteInvite(r) \/ WriteRefusal(r)
       \/ BeginAccept(r) \/ CommitAccept(r) \/ WriteLeaving(r)

AdvisorsSpec == AdvisorsInit /\ [][AdvisorsNext]_advisorsVars

----------------------------------------------------------------------------
AdvisorsTypeOK ==
  /\ invite \in [Invites -> [status : {"none", "pending", "accepted"} \cup Closed, due : BOOLEAN]]
  /\ advisor \in {"none", "active", "left"} /\ refused \subseteq Invites /\ advised \in 0..MaxAdvising
  /\ advReq \in [AdvisorRequests ->
       [op : {"none", "invite", "accept", "decline", "cancel", "withdraw", "remove"},
        pc : {"idle", "read", "write", "commit"}, on : Invites \cup {0}]]
  /\ {advMet, tookBack} \subseteq BOOLEAN /\ spent \subseteq Invites

\* Nobody advises without having accepted since they last left.
AdvisesByConsent == advisor = "active" => \E i \in Invites \ spent : invite[i].status = "accepted"
\* An invitation refused stays refused.
RefusedStays == \A i \in refused : invite[i].status \in Closed
\* Who advises has no invitation open, and none is open past its day once
\* anybody has looked.
NothingOpen == advisor = "active" => \A i \in Invites : ~Pending(i)

(* Every variable keeps its type; who has left advises again only by a new *)
(* acceptance, and an invitation that was declined, cancelled or has       *)
(* expired stays so, unless another write fell between the two halves of   *)
(* an acceptance (club-advisors.repository.ts:83-118 writes by id what it  *)
(* read before); and while no two requests met, who advises has no open    *)
(* invitation.                                                             *)
AdvisorsSound ==
  /\ AdvisorsTypeOK
  /\ ~tookBack => RefusedStays /\ AdvisesByConsent
  /\ ~advMet => NothingOpen
=============================================================================
