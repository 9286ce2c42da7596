----------------------------- MODULE ClubBoards -----------------------------
(***************************************************************************)
(* The boards of one club: general meetings elect a management and an      *)
(* audit board, and a handover record makes the board of a meeting the     *)
(* one in office.  What an election does to the members' roles is modelled *)
(* in ClubMembership.                                                      *)
(*                                                                         *)
(* Both operations run a READ COMMITTED transaction: an UPDATE closes the  *)
(* board rows it sees in office, then the new ones are written.  Rows that *)
(* another transaction commits after the UPDATE has looked stay open.      *)
(***************************************************************************)
EXTENDS Integers, FiniteSets

CONSTANTS Meetings,       \* bound: the meetings the club ever holds
          BoardRequests,  \* requests that may overlap
          MaxApproved,    \* bound: the club's approved members
          QuorumPercent,  \* club.general_meeting.quorum_percent
          Vacant, Unrecorded

ASSUME BoardsAssumption ==
  /\ IsFiniteSet(Meetings) /\ Vacant \notin Meetings
  /\ MaxApproved \in Nat /\ QuorumPercent \in 0..100

VARIABLES seats,     \* club_board_memberships: the board types a meeting elected
          inOffice,  \* those with endedAt NULL
          record,    \* club_handover_records: the outgoing board, or Unrecorded
          approved,  \* the number of approved members
          boardReq,
          succession, left, \* history: who should sit, and who sat before each record
          boardsMet         \* history: two requests have overlapped

boardsVars == <<seats, inOffice, record, approved, boardReq, succession, left, boardsMet>>

BoardTypes == {"management", "audit"}
Rows == Meetings \X BoardTypes
NoBoardReq == [op |-> "none", pc |-> "idle", on |-> Vacant, types |-> {}, out |-> {}, closes |-> {}]

BoardsInit ==
  /\ seats = {} /\ inOffice = {}
  /\ record = [m \in Meetings |-> Unrecorded]
  /\ approved \in 0..MaxApproved
  /\ boardReq = [r \in BoardRequests |-> NoBoardReq]
  /\ succession = [t \in BoardTypes |-> Vacant]
  /\ left = [m \in Meetings |-> Unrecorded] /\ boardsMet = FALSE

BoardsEnter(r, req) ==
  /\ boardReq[r] = NoBoardReq /\ boardReq' = [boardReq EXCEPT ![r] = req]
  /\ boardsMet' = (boardsMet \/ \E q \in BoardRequests : boardReq[q] # NoBoardReq)

\* Members come and go.
MembersChange(n) ==
  /\ approved' = n
  /\ UNCHANGED <<seats, inOffice, record, boardReq, succession, left, boardsMet>>

\* ceil(members * percent / 100)
QuorumRequired(n) == (n * QuorumPercent + 99) \div 100

\* create: those present and those elected are approved members, and they
\* are a quorum.  A meeting may elect no board.
HoldMeeting(r, m, types, present) ==
  /\ \A t \in BoardTypes : <<m, t>> \notin seats
  /\ \A q \in BoardRequests : boardReq[q].on # m
  /\ present <= approved /\ present >= QuorumRequired(approved)
  /\ types # {} => approved > 0
  /\ BoardsEnter(r, [NoBoardReq EXCEPT !.op = "elect", !.pc = "close", !.on = m, !.types = types])
  /\ UNCHANGED <<seats, inOffice, record, approved, succession, left>>

\* Mutant: an election replaces the management whatever it elected.
Mutant_ReplacesAll(types) == BoardTypes
BoardTypesToReplace(types) == types

\* handover.create, up to the transaction: a meeting with a board that no
\* record names yet, and the board in office as it is now.
ReadHandover(r, m) ==
  /\ \E t \in BoardTypes : <<m, t>> \in seats
  /\ record[m] = Unrecorded
  /\ BoardsEnter(r, [NoBoardReq EXCEPT !.op = "handover", !.pc = "close", !.on = m, !.out = inOffice,
                       !.types = {t \in BoardTypes : <<m, t>> \in seats}])
  /\ UNCHANGED <<seats, inOffice, record, approved, succession, left>>

\* The UPDATE of a transaction sees the rows committed by then.
CloseBoards(r) ==
  LET q == boardReq[r] IN
  /\ q.pc = "close"
  /\ boardReq' = [boardReq EXCEPT ![r].pc = "commit",
       ![r].closes = {row \in inOffice : q.op = "handover" \/ row[2] \in BoardTypesToReplace(q.types)}]
  /\ UNCHANGED <<seats, inOffice, record, approved, succession, left, boardsMet>>

CommitElection(r) ==
  LET q == boardReq[r]
      new == {<<q.on, t>> : t \in q.types}
  IN
  /\ q.op = "elect" /\ q.pc = "commit"
  /\ seats' = seats \cup new
  /\ inOffice' = (inOffice \ q.closes) \cup new
  /\ succession' = [t \in BoardTypes |-> IF t \in q.types THEN q.on ELSE succession[t]]
  /\ boardReq' = [boardReq EXCEPT ![r] = NoBoardReq]
  /\ UNCHANGED <<record, approved, left, boardsMet>>

\* Mutant: the board of the meeting is not reopened.
Mutant_StaysClosed(r) == {}
\* endedAt NULL on the rows of the meeting, those closed long ago included.
Reopened(r) == {row \in seats : row[1] = boardReq[r].on}

\* executeHandover: the unique index on the meeting rolls a second one back.
CommitHandover(r) ==
  LET q == boardReq[r] IN
  /\ q.op = "handover" /\ q.pc = "commit"
  /\ IF record[q.on] = Unrecorded
     THEN /\ inOffice' = (inOffice \ q.closes) \cup Reopened(r)
          /\ record' = [record EXCEPT ![q.on] = q.out]
          /\ left' = [left EXCEPT ![q.on] = inOffice]
          /\ succession' = [t \in BoardTypes |-> IF t \in q.types THEN q.on ELSE Vacant]
     ELSE UNCHANGED <<inOffice, record, left, succession>>
  /\ boardReq' = [boardReq EXCEPT ![r] = NoBoardReq]
  /\ UNCHANGED <<seats, approved, boardsMet>>

BoardsNext ==
  \/ \E n \in 0..MaxApproved : MembersChange(n)
  \/ \E r \in BoardRequests :
       \/ \E m \in Meetings :
            \/ \E types \in SUBSET BoardTypes, k \in 0..MaxApproved : HoldMeeting(r, m, types, k)
            \/ ReadHandover(r, m)
       \/ CloseBoards(r) \/ CommitElection(r) \/ CommitHandover(r)

BoardsSpec == BoardsInit /\ [][BoardsNext]_boardsVars

----------------------------------------------------------------------------
BoardsTypeOK ==
  /\ seats \subseteq Rows /\ inOffice \subseteq seats
  /\ record \in [Meetings -> (SUBSET Rows) \cup {Unrecorded}]
  /\ left \in [Meetings -> (SUBSET Rows) \cup {Unrecorded}]
  /\ approved \in 0..MaxApproved /\ boardsMet \in BOOLEAN
  /\ succession \in [BoardTypes -> Meetings \cup {Vacant}]
  /\ boardReq \in [BoardRequests -> [op : {"none", "elect", "handover"}, pc : {"idle", "close", "commit"},
       on : Meetings \cup {Vacant}, types : SUBSET BoardTypes, out : SUBSET Rows, closes : SUBSET Rows]]

\* In office is the board last elected or handed over to, one of each type.
BoardIsTheLast ==
  inOffice = {<<succession[t], t>> : t \in {x \in BoardTypes : succession[x] # Vacant}}
\* A record names the board that went.
RecordNamesOutgoing == \A m \in Meetings : record[m] = left[m]
\* However requests meet, a record is of a meeting that elected a board.
SeatsAreElected == \A m \in Meetings : record[m] # Unrecorded => \E t \in BoardTypes : <<m, t>> \in seats

(* Every variable keeps its type; a handover is of a meeting that elected  *)
(* a board; and while no two requests have met, the board in office is the *)
(* one last elected or handed over to, one of each type, and every record  *)
(* names the board that went (general-meetings.repository.ts:103-116,      *)
(* handover.repository.ts:107-117).                                        *)
BoardsSound ==
  BoardsTypeOK /\ SeatsAreElected /\ (~boardsMet => BoardIsTheLast /\ RecordNamesOutgoing)
=============================================================================
