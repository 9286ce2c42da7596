-------------------------- MODULE MCClubMembership --------------------------
(***************************************************************************)
(* Instances of ClubMembership for TLC.                                    *)
(***************************************************************************)
EXTENDS ClubMembership, TLC

CONSTANTS a, b, c, r1, r2

\* Boards a meeting may elect: a president and an officer, or officers alone.
SomeBoards == {[pres |-> b, deputies |-> {a}], [pres |-> a, deputies |-> {}],
               [pres |-> None, deputies |-> {b, c}]}
\* Three people one request at a time, with a removal or a crash; or two
\* people two at a time.
Alone == [people |-> {a, b, c}, atOnce |-> 1, elects |-> TRUE, removals |-> 0, crashes |-> 1]
Pair == [Alone EXCEPT !.people = {a, b}, !.atOnce = 2, !.elects = FALSE, !.crashes = 0]
AloneOrTogether == {Alone, [Alone EXCEPT !.removals = 1, !.crashes = 0], Pair}
Together == {[Alone EXCEPT !.atOnce = 2, !.elects = FALSE, !.crashes = 0]}
Slots == Permutations(Requests)
=============================================================================
