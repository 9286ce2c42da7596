--------------------------- MODULE ClubMembership ---------------------------
(***************************************************************************)
(* The membership of one club: joining and leaving, decisions on join      *)
(* requests, removals, roles, the handing over of the presidency and the   *)
(* election of a board at a general meeting.                               *)
(*                                                                         *)
(* A request passes the role middleware, reads the membership it is about, *)
(* writes the row by (club, user) without looking again, and appends to    *)
(* the membership history.  These are separate statements, so requests     *)
(* interleave between them and a crash may fall there.  Leaving does not   *)
(* delete the row: it stamps leftAt, and joining again revives the row.    *)
(***************************************************************************)
EXTENDS Integers, FiniteSets

CONSTANTS Users, Founder, None,
          Requests,      \* requests that may be in flight at once
          Boards,        \* boards a general meeting may elect: [pres, deputies]
          Plans          \* bounds, one of which a behaviour keeps to: who takes part, how
                         \* many requests at once, whether boards are elected, how many
                         \* removals by the university's administration, how many crashes

ASSUME MembershipType ==
  /\ Founder \in Users /\ None \notin Users
  /\ Boards \subseteq [pres : Users \cup {None}, deputies : SUBSET Users]
  /\ Plans \subseteq [people : SUBSET Users, atOnce : Nat, elects : BOOLEAN,
                     removals : Nat, crashes : Nat]

VARIABLES row,      \* club_members; status "none" is an absent row
          open,     \* joinPolicy = "open"
          last,     \* what club_membership_events says last of each user
          req,      \* the requests
          plan, removals, crashes,
          overlapped  \* two requests have ever been under way at once

vars == <<row, open, last, req, plan, removals, crashes, overlapped>>
counted == <<plan, removals, crashes>>

Roles == {"member", "officer", "president"}
Rows == [status : {"none", "pending", "approved", "rejected"}, role : Roles, left : BOOLEAN]
NoRow == [status |-> "none", role |-> "member", left |-> FALSE]
Ops == {"join", "leave", "decide", "remove", "role", "transfer", "elect", "policy"}
Board == [pres : Users \cup {None}, deputies : SUBSET Users]
Idle == [op |-> "none", pc |-> "idle", by |-> None, on |-> None, arg |-> "none",
         deputies |-> {}, seen |-> None, log |-> {}]

\* The club as finalizeApproval leaves it: the applicant is its president.
Init ==
  /\ row = [u \in Users |-> IF u = Founder
              THEN [status |-> "approved", role |-> "president", left |-> FALSE] ELSE NoRow]
  /\ open \in BOOLEAN
  /\ last = [u \in Users |-> IF u = Founder THEN "president" ELSE "none"]
  /\ req = [r \in Requests |-> Idle]
  /\ plan \in Plans /\ removals = 0 /\ crashes = 0 /\ overlapped = FALSE

\* findMembership: the row of somebody who has not left.
Active(u) == row[u].status # "none" /\ ~row[u].left
Member(m) == m.status = "approved" /\ ~m.left
Presidents == {u \in Users : Member(row[u]) /\ row[u].role = "president"}
\* loadApprovedMembership: what the middleware asks of the caller.
MayAs(u, roles) == row[u].status = "approved" /\ row[u].role \in roles

\* An UPDATE by key: it changes nothing where there is no row.
Set(u, new) == row' = [row EXCEPT ![u] = IF @.status = "none" THEN @ ELSE new]

Enter(r, op, by, on, arg, deputies) ==
  /\ req[r] = Idle /\ {by, on} \subseteq plan.people \cup {None}
  /\ Cardinality({s \in Requests : req[s] # Idle}) < plan.atOnce
  /\ overlapped' = (overlapped \/ \E s \in Requests : req[s] # Idle)
  /\ req' = [req EXCEPT ![r] = [Idle EXCEPT !.op = op, !.pc = "check", !.by = by, !.on = on,
                                            !.arg = arg, !.deputies = deputies]]
  /\ UNCHANGED <<row, open, last, counted>>

Goto(r, pc) == req' = [req EXCEPT ![r].pc = pc]
End(r) == req' = [req EXCEPT ![r] = Idle]
\* The history events of a write are inserted after it, then the request goes on.
Log(r, events, pc) == req' = [req EXCEPT ![r].log = events, ![r].pc = pc]

----------------------------------------------------------------------------
(* The endpoints, up to the middleware. *)

Join(r, u) == Enter(r, "join", u, u, "none", {})
Leave(r, u) == Enter(r, "leave", u, u, "none", {})
Decide(r, o, u, d) == MayAs(o, {"officer", "president"}) /\ Enter(r, "decide", o, u, d, {})
Remove(r, o, u) == MayAs(o, {"officer", "president"}) /\ Enter(r, "remove", o, u, "none", {})
SetRole(r, p, u, new) == MayAs(p, {"president"}) /\ Enter(r, "role", p, u, new, {})
Transfer(r, p, u) == MayAs(p, {"president"}) /\ p # u /\ Enter(r, "transfer", p, u, "none", {})
Elect(r, o, b) == plan.elects /\ MayAs(o, {"officer", "president"})
                  /\ Enter(r, "elect", o, b.pres, "none", b.deputies)
SetPolicy(r, p) == MayAs(p, {"president"}) /\ Enter(r, "policy", p, p, "none", {})

\* Mutant: the president may leave like anyone else.
Mutant_PresidentLeaves(u) == Active(u)
\* leaveClub and removeMember: not the president.
MayLeave(u) == Active(u) /\ row[u].role # "president"

\* What each service asks of the membership it is about, and of its role.
Passes(r) ==
  LET u == req[r].on IN
  CASE req[r].op = "join" -> ~Active(u)
    [] req[r].op \in {"leave", "remove"} -> MayLeave(u)
    [] req[r].op = "decide" -> Active(u) /\ row[u].status = "pending"
    [] req[r].op = "role" -> Active(u) /\ row[u].status = "approved" /\ row[u].role # "president"
    [] req[r].op = "transfer" -> Active(u) /\ row[u].status = "approved"
    [] req[r].op = "elect" -> \A v \in ({u} \ {None}) \cup req[r].deputies : Member(row[v])
    [] OTHER -> TRUE

\* The read; joining also learns the policy, an election goes on to the roles.
Check(r) ==
  /\ req[r].pc = "check"
  /\ \/ ~Passes(r) /\ End(r)
     \/ /\ Passes(r)
        /\ req' = [req EXCEPT
             ![r].pc = IF req[r].op # "elect" THEN "write"
                         ELSE IF req[r].on = None THEN "deputies" ELSE "elected",
             ![r].arg = IF req[r].op # "join" THEN @ ELSE IF open THEN "approved" ELSE "pending"]
  /\ UNCHANGED <<row, open, last, counted, overlapped>>

\* Mutants: the conflict clause of the insert forgets the status, or the role.
Mutant_ReviveStatus(u, status) ==
  row' = [row EXCEPT ![u] = [status |-> IF @.status = "approved" THEN @.status ELSE status,
                             role |-> "member", left |-> FALSE]]
Mutant_ReviveRole(u, status) ==
  row' = [row EXCEPT ![u] = [status |-> status, role |-> @.role, left |-> FALSE]]
\* addMembership: insert, or revive the row of somebody who left.
Insert(u, status) == row' = [row EXCEPT ![u] = [status |-> status, role |-> "member", left |-> FALSE]]

WriteJoin(r) ==
  LET u == req[r].on IN
  /\ req[r].op = "join" /\ Insert(u, req[r].arg)
  /\ IF req[r].arg = "approved" THEN Log(r, {<<u, "member">>}, "record") ELSE End(r)
  /\ UNCHANGED open

\* removeMembership, for leaveClub and removeMember.
WriteLeft(r) ==
  LET u == req[r].on IN
  /\ req[r].op \in {"leave", "remove"} /\ Set(u, [row[u] EXCEPT !.left = TRUE])
  /\ Log(r, {<<u, "out">>}, "record") /\ UNCHANGED open

WriteDecision(r) ==
  LET u == req[r].on IN
  /\ req[r].op = "decide" /\ Set(u, [row[u] EXCEPT !.status = req[r].arg])
  /\ Log(r, {<<u, IF req[r].arg = "approved" THEN "member" ELSE "out">>}, "record")
  /\ UNCHANGED open

WriteRole(r) ==
  LET u == req[r].on IN
  /\ req[r].op = "role" /\ Set(u, [row[u] EXCEPT !.role = req[r].arg])
  /\ Log(r, {<<u, req[r].arg>>}, "record") /\ UNCHANGED open

\* One transaction: the caller becomes an officer, the target president.
WriteTransfer(r) ==
  LET p == req[r].by  u == req[r].on IN
  /\ req[r].op = "transfer"
  /\ row' = [v \in Users |-> IF row[v].status = "none" \/ v \notin {p, u} THEN row[v]
               ELSE [row[v] EXCEPT !.role = IF v = u THEN "president" ELSE "officer"]]
  /\ Log(r, {<<p, "officer">>, <<u, "president">>}, "record") /\ UNCHANGED open

\* updateOwnClub with a new joinPolicy.
WritePolicy(r) == req[r].op = "policy" /\ open' = ~open /\ End(r) /\ UNCHANGED row

Write(r) ==
  /\ req[r].pc = "write"
  /\ \/ WriteJoin(r) \/ WriteLeft(r) \/ WriteDecision(r) \/ WriteRole(r)
     \/ WriteTransfer(r) \/ WritePolicy(r)
  /\ UNCHANGED <<last, counted, overlapped>>

\* Mutants: the events of a request are lost, or recorded for its caller with no known type.
Mutant_NoHistory(r) == last
Mutant_GuestEvent(r) == [last EXCEPT ![req[r].by] = "guest"]
\* membershipHistoryService.record*, then the rest of the request.
Logged(r) == [u \in Users |-> IF \E e \in req[r].log : e[1] = u
                                THEN (CHOOSE e \in req[r].log : e[1] = u)[2] ELSE last[u]]
Record(r) ==
  /\ req[r].pc = "record" /\ last' = Logged(r) /\ End(r)
  /\ UNCHANGED <<row, open, counted, overlapped>>

----------------------------------------------------------------------------
(* syncRolesFromBoardElection: statements of their own, no transaction. *)

FindPresident(r) ==
  /\ req[r].pc = "elected"
  /\ \E p \in IF Presidents = {} THEN {None} ELSE Presidents :
       req' = [req EXCEPT ![r].seen = p, ![r].pc = "demote"]
  /\ UNCHANGED <<row, open, last, counted, overlapped>>

\* The president found before is demoted, unless re-elected.
Demote(r) ==
  LET p == req[r].seen IN
  /\ req[r].pc = "demote"
  /\ IF p \in {None, req[r].on}
       THEN Goto(r, "promote") /\ UNCHANGED row
       ELSE Set(p, [row[p] EXCEPT !.role = "officer"]) /\ Log(r, {<<p, "officer">>}, "promote")
  /\ UNCHANGED <<open, last, counted, overlapped>>

\* The history of the step before, and whether the elected is still a member.
FindElected(r) ==
  LET u == req[r].on IN
  /\ req[r].pc = "promote" /\ last' = Logged(r)
  /\ req' = [req EXCEPT ![r].log = {},
               ![r].pc = IF Member(row[u]) /\ row[u].role # "president" THEN "president" ELSE "deputies"]
  /\ UNCHANGED <<row, open, counted, overlapped>>

Promote(r) ==
  LET u == req[r].on IN
  /\ req[r].pc = "president" /\ Set(u, [row[u] EXCEPT !.role = "president"])
  /\ Log(r, {<<u, "president">>}, "deputies")
  /\ UNCHANGED <<open, last, counted, overlapped>>

\* The other titles of the board make officers of members, one after the other.
FindDeputy(r) ==
  /\ req[r].pc = "deputies" /\ last' = Logged(r)
  /\ \/ req[r].deputies = {} /\ End(r)
     \/ \E v \in req[r].deputies :
          req' = [req EXCEPT ![r].log = {}, ![r].deputies = @ \ {v}, ![r].seen = v,
                    ![r].pc = IF Member(row[v]) /\ row[v].role = "member" THEN "deputy" ELSE "deputies"]
  /\ UNCHANGED <<row, open, counted, overlapped>>

MakeOfficer(r) ==
  LET v == req[r].seen IN
  /\ req[r].pc = "deputy" /\ Set(v, [row[v] EXCEPT !.role = "officer"])
  /\ Log(r, {<<v, "officer">>}, "deputies")
  /\ UNCHANGED <<open, last, counted, overlapped>>

----------------------------------------------------------------------------
\* The university's administration deletes the row, whatever its role.
removeClubMember(u) ==
  /\ row[u].status # "none" /\ removals < plan.removals
  /\ removals' = removals + 1 /\ row' = [row EXCEPT ![u] = NoRow]
  /\ UNCHANGED <<open, last, req, plan, crashes, overlapped>>

\* The process stops: its requests end where they are.
Crash ==
  /\ crashes < plan.crashes /\ crashes' = crashes + 1
  /\ \E r \in Requests : req[r] # Idle
  /\ req' = [r \in Requests |-> Idle]
  /\ UNCHANGED <<row, open, last, plan, removals, overlapped>>

Step(r) ==
  \/ \E u \in Users : Join(r, u) \/ Leave(r, u) \/ SetPolicy(r, u)
  \/ \E o, u \in Users :
       \/ \E d \in {"approved", "rejected"} : Decide(r, o, u, d)
       \/ Remove(r, o, u)
       \/ \E new \in {"member", "officer"} : SetRole(r, o, u, new)
       \/ Transfer(r, o, u)
  \/ \E o \in Users, b \in Boards : Elect(r, o, b)
  \/ Check(r) \/ Write(r) \/ Record(r)
  \/ FindPresident(r) \/ Demote(r) \/ FindElected(r) \/ Promote(r) \/ FindDeputy(r) \/ MakeOfficer(r)

Next == (\E r \in Requests : Step(r)) \/ (\E u \in Users : removeClubMember(u)) \/ Crash
Spec == Init /\ [][Next]_vars

----------------------------------------------------------------------------
TypeOK ==
  /\ row \in [Users -> Rows] /\ open \in BOOLEAN
  /\ last \in [Users -> {"none", "out"} \cup Roles]
  /\ req \in [Requests -> [op : Ops \cup {"none"}, by : Users \cup {None}, on : Users \cup {None},
                pc : {"idle", "check", "write", "record", "elected", "demote", "promote", "president",
                      "deputies", "deputy"},
                arg : {"none", "approved", "rejected", "pending"} \cup Roles,
                deputies : SUBSET Users, seen : Users \cup {None},
                log : SUBSET (Users \X ({"out"} \cup Roles))]]
  /\ plan \in Plans /\ removals \in 0..plan.removals /\ crashes \in 0..plan.crashes
  /\ overlapped \in BOOLEAN

Quiet == \A r \in Requests : req[r] = Idle

\* Requests came one after the other, none was cut short, and the university's
\* administration removed nobody.
Orderly == ~overlapped /\ crashes = 0 /\ removals = 0

\* docs/integration/clubs.md: a club has exactly one president.
ClubHasPresident == Quiet => Cardinality(Presidents) = 1

\* So it is as long as requests come in order: nothing a member, an officer, the
\* president or a general meeting does leaves the club with two or with none.
OnePresident == Orderly => ClubHasPresident

\* The last history event of everybody says whether they are a member and in what role.
HistoryTells ==
  Orderly /\ Quiet =>
    \A u \in Users : IF Member(row[u]) THEN last[u] = row[u].role ELSE last[u] \in {"none", "out"}

(* Every variable keeps its type; in order, a club has one president and   *)
(* its history tells every present member's state.                         *)
MembershipSound == TypeOK /\ OnePresident /\ HistoryTells

\* Nobody becomes a member but by a decision on their request, or by a request that found the
\* club open: a row that is revived does not bring its old approval back.
AdmissionDecided ==
  [][\A u \in Users : (~Member(row[u]) /\ Member(row'[u])) =>
       \E r \in Requests : /\ req[r].pc = "write" /\ req[r].on = u
                           /\ req[r].op \in {"join", "decide"} /\ req[r].arg = "approved"]_vars

\* As long as requests come one at a time, crashes and removals or not, whoever comes back
\* comes back as a plain member: the role of an earlier time stays behind.
ReturnsAsMember ==
  [][\A u \in Users :
       (~overlapped /\ ~Member(row[u]) /\ Member(row'[u])) => row'[u].role = "member"]_vars

=============================================================================
