--------------------------- MODULE AcademicTerms ---------------------------
(***************************************************************************)
(* The academic terms of one university, and the membership events that    *)
(* name the term they fell in.                                             *)
(*                                                                         *)
(* The service validates a range it merged with the row it read before;    *)
(* what the rows are in the end is up to the constraints of the database:  *)
(* no two ranges overlap, and a term somebody refers to is not deleted.    *)
(* An event is written in three statements after the change it tells of:   *)
(* the change, the look for the term of now, the insert.                   *)
(***************************************************************************)
EXTENDS Integers, FiniteSets

CONSTANTS Terms, TermRequests, Changes,  \* Changes: membership changes, a bound
          Days,                          \* bound: the calendar 0..n
          NoTerm

\* No row is neither a term nor the dates of one.
ASSUME TermsAssumption ==
  Days \in Nat /\ NoTerm \notin Terms \cup [from : 0..Days, to : 0..Days, open : BOOLEAN]

VARIABLES term,     \* academic_terms: [from, to, open], or NoTerm
          today,
          termReq,
          event,    \* club_membership_events: of each change, its term or NoTerm
          lost,     \* history: changes whose event the database refused
          termsLeft \* bound: requests about terms

termsVars == <<term, today, termReq, event, lost, termsLeft>>

Calendar == 0..Days
Ranges == [from : Calendar, to : Calendar, open : BOOLEAN]
NoTermReq == [op |-> "none", on |-> NoTerm, new |-> NoTerm]
Stages == {"none", "changed", "resolved", "told", "refused"}

TermsInit ==
  /\ term = [t \in Terms |-> NoTerm] /\ today = 0
  /\ termReq = [r \in TermRequests |-> NoTermReq]
  /\ event = [c \in Changes |-> [stage |-> "none", term |-> NoTerm]]
  /\ lost = {} /\ termsLeft = 3

Written(t) == term[t] # NoTerm
\* Mutant: a range may begin where another ends.
Mutant_OpenEnds(a, b) == a.from < b.to /\ b.from < a.to
\* tstzrange(starts_at, ends_at, '[]') && ...
Overlaps(a, b) == a.from <= b.to /\ b.from <= a.to
\* assertValidRange
ValidRange(a) == a.from < a.to
\* academic_terms_no_overlap; a range is built of its lower and upper bound.
MayStore(t, a) == a.from <= a.to /\ \A s \in Terms \ {t} : Written(s) => ~Overlaps(a, term[s])

\* create
CreateTerm(t, a) ==
  /\ ~Written(t) /\ ValidRange(a) /\ MayStore(t, a) /\ termsLeft > 0
  /\ term' = [term EXCEPT ![t] = a] /\ termsLeft' = termsLeft - 1
  /\ UNCHANGED <<today, termReq, event, lost>>

\* update: the row, and the range it would make with the patch.
ReadTerm(r, t, patch) ==
  /\ termReq[r] = NoTermReq /\ Written(t) /\ termsLeft > 0
  /\ ValidRange([f \in DOMAIN term[t] |-> IF f \in DOMAIN patch THEN patch[f] ELSE term[t][f]])
  /\ termReq' = [termReq EXCEPT ![r] = [op |-> "update", on |-> t, new |-> patch]]
  /\ termsLeft' = termsLeft - 1 /\ UNCHANGED <<term, today, event, lost>>
\* The patched columns, by id.
WriteTerm(r) ==
  LET t == termReq[r].on
      new == [f \in DOMAIN term[t] |->
                IF f \in DOMAIN termReq[r].new THEN termReq[r].new[f] ELSE term[t][f]]
  IN
  /\ termReq[r].op = "update"
  /\ term' = IF Written(t) THEN IF MayStore(t, new) THEN [term EXCEPT ![t] = new] ELSE term ELSE term
  /\ termReq' = [termReq EXCEPT ![r] = NoTermReq]
  /\ UNCHANGED <<today, event, lost, termsLeft>>

\* Mutant: events do not hold a term.
Mutant_NoReference(t) == FALSE
\* Events that refer to the term: RESTRICT.
Referred(t) == \E c \in Changes : event[c].stage = "told" /\ event[c].term = t

\* delete: the count of events, then the DELETE.
ReadTermEvents(r, t) ==
  /\ termReq[r] = NoTermReq /\ Written(t) /\ ~Referred(t) /\ termsLeft > 0
  /\ termReq' = [termReq EXCEPT ![r] = [op |-> "delete", on |-> t, new |-> NoTerm]]
  /\ termsLeft' = termsLeft - 1 /\ UNCHANGED <<term, today, event, lost>>
DeleteTerm(r) ==
  /\ termReq[r].op = "delete"
  /\ term' = IF Referred(termReq[r].on) THEN term ELSE [term EXCEPT ![termReq[r].on] = NoTerm]
  /\ termReq' = [termReq EXCEPT ![r] = NoTermReq]
  /\ UNCHANGED <<today, event, lost, termsLeft>>

DayPasses ==
  /\ today < Days /\ today' = today + 1
  /\ UNCHANGED <<term, termReq, event, lost, termsLeft>>

\* findActiveAt: an open term around today; findFirst of them.
ActiveTerms == {t \in Terms : IF Written(t) THEN term[t].open /\ today \in term[t].from..term[t].to
                                            ELSE FALSE}

\* A membership changes; the event follows.
MemberChanges(c) ==
  /\ event[c].stage = "none" /\ event' = [event EXCEPT ![c].stage = "changed"]
  /\ UNCHANGED <<term, today, termReq, lost, termsLeft>>
ResolveTerm(c) ==
  /\ event[c].stage = "changed"
  /\ \E t \in IF ActiveTerms = {} THEN {NoTerm} ELSE ActiveTerms :
       event' = [event EXCEPT ![c] = [stage |-> "resolved", term |-> t]]
  /\ UNCHANGED <<term, today, termReq, lost, termsLeft>>
\* The insert: its term must still be there.
InsertEvent(c) ==
  LET t == event[c].term IN
  /\ event[c].stage = "resolved"
  /\ IF t = NoTerm \/ (t # NoTerm /\ Written(t))
     THEN event' = [event EXCEPT ![c].stage = "told"] /\ UNCHANGED lost
     ELSE event' = [event EXCEPT ![c].stage = "refused"] /\ lost' = lost \cup {c}
  /\ UNCHANGED <<term, today, termReq, termsLeft>>

TermsNext ==
  \/ DayPasses
  \/ \E t \in Terms, a \in Ranges : CreateTerm(t, a)
  \/ \E r \in TermRequests :
       \/ \E t \in Terms, d \in Calendar :
            ReadTerm(r, t, [from |-> d]) \/ ReadTerm(r, t, [to |-> d])
       \/ \E t \in Terms, b \in BOOLEAN : ReadTerm(r, t, [open |-> b])
       \/ \E t \in Terms : ReadTermEvents(r, t)
       \/ WriteTerm(r) \/ DeleteTerm(r)
  \/ \E c \in Changes : MemberChanges(c) \/ ResolveTerm(c) \/ InsertEvent(c)

TermsSpec == TermsInit /\ [][TermsNext]_termsVars

----------------------------------------------------------------------------
TermsTypeOK ==
  /\ term \in [Terms -> Ranges \cup {NoTerm}] /\ today \in Calendar
  /\ event \in [Changes -> [stage : Stages, term : Terms \cup {NoTerm}]]
  /\ lost \subseteq Changes /\ termsLeft \in 0..3
  /\ \A r \in TermRequests : termReq[r].op \in {"none", "update", "delete"}

\* Never are two terms active, on whatever day.
OneActiveTerm == Cardinality(ActiveTerms) <= 1
\* An event's term is there for as long as the event is.
EventsKeepTheirTerm ==
  \A c \in Changes : event[c].stage = "told" /\ event[c].term # NoTerm => Written(event[c].term)
\* An update alone never turns a range around.
RangesAreForward == \A t \in Terms : Written(t) => term[t].from <= term[t].to

(* Every variable keeps its type; on no day are two terms active, however  *)
(* updates of their two ends interleave; no range is turned around; and    *)
(* the term an event names is never deleted under it: a deletion that      *)
(* falls between the look for the term and the insert costs the event      *)
(* (membership-history.service.ts:13-18), never the reference.             *)
TermsSound == TermsTypeOK /\ OneActiveTerm /\ RangesAreForward /\ EventsKeepTheirTerm
=============================================================================
