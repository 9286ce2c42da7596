----------------------------- MODULE MCClubLife -----------------------------
(***************************************************************************)
(* The modules about what clubs do, for TLC: activities, how a club is     *)
(* proposed, and how it is governed.  They share no state, so a behaviour  *)
(* works on one of them, the part chosen at the start, and the others      *)
(* rest: every reachable state of each is visited, and the run pays for    *)
(* their sum instead of their product.                                     *)
(***************************************************************************)
EXTENDS ClubApplication, ActivityRsvp, ActivityCheckIn, ActivityHosts, ClubFormation,
        ClubBoards, ClubAdvisors, AcademicTerms, TLC

CONSTANTS u1, u2, u3, s1, s2, d1, d2, here, there, home, guestClub, r1, r2,
          student, p1, p2, m1, m2, t1, t2, c1, k1, k2, k3

VARIABLE part

\* Three answers beside one request of staff, or one beside two.
SomeRsvps == {[answers |-> 3, staff |-> 1], [answers |-> 1, staff |-> 2]}
\* Staff decide the first step of a chain, the committee of all three the second.
Mixed == <<"role_sequential", "committee_majority">>
MixedDecides == <<{k1, k2, k3}, {}>>
\* Whoever is staff, on the committee and reviewing is all three.
StaffSymmetry == Permutations(Users)
SomeSchools == (home :> here) @@ (guestClub :> there)

Parts == {"application", "formation", "rsvp", "checkIn", "hosts", "boards", "advisors", "terms"}
lifeVars == <<part, vars, rsvpVars, checkInVars, hostsVars, formationVars, boardsVars, advisorsVars,
              termsVars>>

\* A part that rests has one initial state.
LifeInit ==
  /\ part \in Parts
  /\ Init /\ RsvpInit /\ CheckInInit /\ HostsInit /\ FormationInit /\ BoardsInit /\ AdvisorsInit
  /\ TermsInit
  /\ part # "rsvp" =>
       /\ activity = [status |-> "draft", visibility |-> "university", capacity |-> 1]
       /\ rsvpsLeft = [answers |-> 3, staff |-> 1]
  /\ part # "formation" => threshold = 0
  /\ part # "boards" => approved = 0

LifeNext ==
  \/ part = "rsvp" /\ RsvpNext
     /\ UNCHANGED <<part, checkInVars, hostsVars, formationVars, boardsVars, advisorsVars,
                    termsVars, vars>>
  \/ part = "checkIn" /\ CheckInNext
     /\ UNCHANGED <<part, rsvpVars, hostsVars, formationVars, boardsVars, advisorsVars, termsVars,
                    vars>>
  \/ part = "hosts" /\ HostsNext
     /\ UNCHANGED <<part, rsvpVars, checkInVars, formationVars, boardsVars, advisorsVars, termsVars,
                    vars>>
  \/ part = "formation" /\ FormationNext
     /\ UNCHANGED <<part, rsvpVars, checkInVars, hostsVars, boardsVars, advisorsVars, termsVars,
                    vars>>
  \/ part = "boards" /\ BoardsNext
     /\ UNCHANGED <<part, rsvpVars, checkInVars, hostsVars, formationVars, advisorsVars, termsVars,
                    vars>>
  \/ part = "advisors" /\ AdvisorsNext
     /\ UNCHANGED <<part, rsvpVars, checkInVars, hostsVars, formationVars, boardsVars, termsVars,
                    vars>>
  \/ part = "terms" /\ TermsNext
     /\ UNCHANGED <<part, rsvpVars, checkInVars, hostsVars, formationVars, boardsVars, advisorsVars,
                    vars>>
  \/ part = "application" /\ Next
     /\ UNCHANGED <<part, rsvpVars, checkInVars, hostsVars, formationVars, boardsVars, advisorsVars,
                    termsVars>>

LifeSpec == LifeInit /\ [][LifeNext]_lifeVars

(* What each part promises, asked where it works: an application and its   *)
(* club; the answers, the check-in and the hosts of an activity; a         *)
(* proposal; and a club's government, its boards, its advisors and the     *)
(* academic terms that its members' history is told in.                    *)
ApplicationSound == part = "application" => ChainSound
AnswersSound == part = "rsvp" => RsvpSound
AttendanceSound == part = "checkIn" => CheckInSound
CoHostsSound == part = "hosts" => HostsSound
ProposalSound == part = "formation" => FormationSound
GovernanceSound ==
  /\ part = "boards" => BoardsSound
  /\ part = "advisors" => AdvisorsSound
  /\ part = "terms" => TermsSound
=============================================================================
