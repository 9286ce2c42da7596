------------------------- MODULE MCScheduledPublish -------------------------
(***************************************************************************)
(* Instances of ScheduledPublish for TLC.                                  *)
(***************************************************************************)
EXTENDS ScheduledPublish, TLC

CONSTANTS ann, evt, w, s, r

MCPosts == {ann, evt}
MCKind == ann :> "announcement" @@ evt :> "activity"
\* One post of either kind with a fault and a moved schedule, or both at once.
OneOrTwo == {[created |-> 1, time |-> 3, faults |-> 1], [created |-> 2, time |-> 2, faults |-> 0]}
OneActivity == {evt}
ActivityKind == evt :> "activity"
OneByTwo == {[created |-> 1, time |-> 2, faults |-> 0]}
=============================================================================
