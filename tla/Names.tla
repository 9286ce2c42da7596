-------------------------------- MODULE Names --------------------------------
(***************************************************************************)
(* Requests are told apart by names that mean nothing.  One that begins    *)
(* takes any name that is free, and any is as good as another: giving it   *)
(* one of them leaves out no behaviour but for the names.                  *)
(***************************************************************************)
AnyOne(free) == IF free = {} THEN {} ELSE {CHOOSE name \in free : TRUE}
=============================================================================
