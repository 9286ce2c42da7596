------------------------- MODULE ApplicationOutcome -------------------------
(***************************************************************************)
(* What a club application promises whoever does not look into its chain:  *)
(* it is sent, stays open, and is approved, rejected or withdrawn in one   *)
(* step; the step that approves it makes its club and no other step makes  *)
(* one; a rejection stands unless an appeal reopens it, an approval and a  *)
(* withdrawal stand.  Once two requests have been under way together it is *)
(* contested: of the outcome only a withdrawal is then sure to stand, but  *)
(* still no club goes away and none comes without an approval.             *)
(***************************************************************************)
EXTENDS Integers

VARIABLES outcome,   \* "none", "open", "approved", "rejected" or "deleted"
          clubs,     \* clubs made of it
          contested

outcomeVars == <<outcome, clubs, contested>>

OutcomeInit == outcome = "none" /\ clubs = 0 /\ contested = FALSE

Move(from, to, made) ==
  /\ outcome = from /\ outcome' = to
  /\ clubs' = clubs + made
  /\ UNCHANGED contested

Send == Move("none", "open", 0)
Approve == Move("open", "approved", 1)
Reject == Move("open", "rejected", 0)
Reopen == Move("rejected", "open", 0)
TakeBack == Move("open", "deleted", 0)

Contest == contested' = TRUE /\ UNCHANGED <<outcome, clubs>>
Contested ==
  /\ contested /\ contested'
  /\ outcome \notin {"none", "deleted"} /\ outcome' \in {"open", "approved", "rejected", "deleted"}
  /\ \/ clubs' = clubs
     \/ clubs' = clubs + 1 /\ outcome' = "approved"

OutcomeNext == Send \/ Approve \/ Reject \/ Reopen \/ TakeBack \/ Contest \/ Contested

OutcomeSpec == OutcomeInit /\ [][OutcomeNext]_outcomeVars
=============================================================================
