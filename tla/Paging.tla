------------------------------- MODULE Paging -------------------------------
(***************************************************************************)
(* The lists that are read page by page.  A page ends in a cursor made of  *)
(* its last row, and the next page holds what sorts after the cursor.      *)
(* Four orders are in use: by a time alone; by time and id, compared with  *)
(* the cursor's row where it still stands in the table; by time, kind and  *)
(* id over several tables (the feed); and by a time that has no fraction   *)
(* of a millisecond and id.                                                *)
(*                                                                         *)
(* The database keeps microseconds, a cursor and the server's dates keep   *)
(* milliseconds.  Every list is told here from the newest down.            *)
(***************************************************************************)
EXTENDS Naturals, FiniteSets

CONSTANTS Rows,        \* ids, a set of numbers: their order is the order of ids
          Ticks,       \* instants the database tells apart in one millisecond
          MaxInstant,  \* bound: instants a row may carry
          Kinds,       \* tables of the feed, numbered as FEED_KIND_ORDER
          Limits,      \* sizes of a page
          NoRow        \* the first page has no cursor

ASSUME PagingAssumption ==
  /\ Rows \subseteq Nat /\ IsFiniteSet(Rows) /\ NoRow \notin Rows
  /\ Ticks \in Nat \ {0} /\ MaxInstant \in Nat /\ Kinds \subseteq Nat /\ Limits \subseteq Nat \ {0}

VARIABLES listing,     \* which list is read, and how long its pages are
          entry,         \* instant and kind of every row
          visible,     \* rows the list's conditions let through
          stored,      \* rows that are in their table
          cursor,      \* the row a page ended in, or NoRow
          walk,        \* "start", "more" or "end"
          handed,      \* how often each row was handed out
          stable,      \* history: visible from the first page on
          edges,       \* history: milliseconds in which a page ended
          cursorGone     \* history: the row of the cursor was deleted

pagingVars == <<listing, entry, visible, stored, cursor, walk, handed, stable, edges, cursorGone>>

Milli(t) == t \div Ticks

----------------------------------------------------------------------------
(* The lists: the order of their rows, and whether a page that is full or  *)
(* a row beyond it makes a cursor.                                         *)
NotificationList == [order |-> "time", next |-> "full"]
AuditTrail == [order |-> "time", next |-> "full"]
ModerationHistory == [order |-> "time", next |-> "full"]
MembershipHistory == [order |-> "time", next |-> "full"]
AdminAnnouncements == [order |-> "time", next |-> "beyond"]
AdminGallery == [order |-> "time", next |-> "beyond"]
AdminActivities == [order |-> "time", next |-> "beyond"]
AuditDecisions == [order |-> "timeId", next |-> "full"]
TenantList == [order |-> "timeId", next |-> "beyond"]
StudentFeed == [order |-> "merged", next |-> "beyond"]
DiscoverList == [order |-> "whole", next |-> "beyond"]

Listings == {NotificationList, AuditTrail, ModerationHistory, MembershipHistory, AdminAnnouncements,
             AdminGallery, AdminActivities, AuditDecisions, TenantList, StudentFeed, DiscoverList}

PagingInit ==
  /\ \E l \in Listings, n \in Limits : listing = [order |-> l.order, next |-> l.next, limit |-> n]
  /\ entry \in [Rows -> [at : 0..MaxInstant, kind : Kinds]]
  /\ listing.order # "merged" => \A r \in Rows : entry[r].kind = CHOOSE k \in Kinds : TRUE
  /\ listing.order = "whole" => \A r \in Rows : entry[r].at % Ticks = 0
  /\ visible \in SUBSET Rows /\ stored = visible
  /\ cursor = NoRow /\ walk = "start"
  /\ handed = [r \in Rows |-> 0]
  /\ stable = {} /\ edges = {} /\ cursorGone = FALSE

----------------------------------------------------------------------------
(* Orders: x comes before y.                                               *)

ByTime(x, y) == entry[x].at > entry[y].at
\* Mutant: equal times are not told apart.
Mutant_NoTieBreak(x, y) == entry[x].at > entry[y].at
ByTimeId(x, y) == entry[x].at > entry[y].at \/ (entry[x].at = entry[y].at /\ x > y)
\* The tuple of feedTupleBefore, as the database compares it.
ByTuple(x, y) ==
  \/ entry[x].at > entry[y].at
  \/ entry[x].at = entry[y].at
     /\ (entry[x].kind > entry[y].kind \/ (entry[x].kind = entry[y].kind /\ x > y))
\* compareFeedKeys, over dates of the server.
ByFeedKey(x, y) ==
  LET mx == Milli(entry[x].at)
      my == Milli(entry[y].at)
  IN mx > my \/ (mx = my /\ (entry[x].kind > entry[y].kind \/ (entry[x].kind = entry[y].kind /\ x > y)))

\* keysetAfter: instants that come from a client have no fraction.
ByWholeTime(x, y) ==
  \/ Milli(entry[x].at) > Milli(entry[y].at)
  \/ Milli(entry[x].at) = Milli(entry[y].at) /\ x > y

\* The first n of a set in an order; a tie may fall either way.
Tops(S, n, Before(_, _)) ==
  {T \in SUBSET S : /\ Cardinality(T) = (IF Cardinality(S) < n THEN Cardinality(S) ELSE n)
                    /\ \A x \in T, y \in S \ T : ~Before(y, x)}
Lasts(T, Before(_, _)) == {x \in T : \A y \in T : ~Before(x, y)}

----------------------------------------------------------------------------
(* What a cursor leaves.                                                   *)

\* Mutant: the millisecond of the cursor is read again.
Mutant_NotBefore(x) == Milli(entry[x].at) <= Milli(entry[cursor].at)
\* column < cursor, the cursor an ISO string of whole milliseconds.
EarlierThan(x) == entry[x].at < Ticks * Milli(entry[cursor].at)

\* A tuple is less than none: the cursor's row has to be there.
Left ==
  {x \in visible :
     \/ cursor = NoRow
     \/ listing.order = "time" /\ EarlierThan(x)
     \/ listing.order = "timeId" /\ cursor \in stored /\ ByTimeId(cursor, x)
     \/ listing.order = "merged" /\ cursor \in stored /\ ByTuple(cursor, x)
     \/ listing.order = "whole" /\ ByWholeTime(cursor, x)}

\* Each table of the feed gives one row more than the page and the merge
\* needs (fetchLimit, limit + 1).
FeedCandidates ==
  UNION {CHOOSE T \in Tops({x \in Left : entry[x].kind = k}, listing.limit + 1, ByTimeId) : TRUE
           : k \in Kinds}

\* Pages that may be answered, with the row that ends each.
PagesOf(S, Before(_, _)) ==
  UNION {{<<T, x>> : x \in Lasts(T, Before)} : T \in Tops(S, listing.limit, Before)}
Pages ==
  CASE listing.order = "time" -> PagesOf(Left, ByTime)
    [] listing.order = "timeId" -> PagesOf(Left, ByTimeId)
    [] listing.order = "merged" -> PagesOf(FeedCandidates, ByFeedKey)
    [] listing.order = "whole" -> PagesOf(Left, ByWholeTime)

HasNext(page) ==
  IF listing.next = "full" THEN Cardinality(page) = listing.limit ELSE Cardinality(Left) > listing.limit

----------------------------------------------------------------------------
HandOut(page, lasts) ==
  /\ handed' = [r \in Rows |-> IF r \in page THEN handed[r] + 1 ELSE handed[r]]
  /\ stable' = IF walk = "start" THEN visible ELSE stable
  /\ IF HasNext(page)
     THEN /\ cursor' \in lasts /\ walk' = "more"
          /\ edges' = edges \cup {Milli(entry[cursor'].at)}
     ELSE walk' = "end" /\ UNCHANGED <<cursor, edges>>
  /\ UNCHANGED <<listing, entry, visible, stored, cursorGone>>

ReadPage ==
  /\ walk # "end"
  /\ IF Left = {} THEN HandOut({}, {}) ELSE \E p \in Pages : HandOut(p[1], {p[2]})

\* A row is written, or comes to meet the conditions.
Appear(r) ==
  /\ walk = "more" /\ r \notin visible
  /\ visible' = visible \cup {r} /\ stored' = stored \cup {r}
  /\ UNCHANGED <<listing, entry, cursor, walk, handed, stable, edges, cursorGone>>

\* A row leaves: cancelled or soft-deleted it stays in its table; an
\* announcement is deleted.  The audit log keeps every row.
Vanish(r, erased) ==
  /\ walk = "more" /\ r \in visible
  /\ erased => listing.order # "timeId"
  /\ visible' = visible \ {r}
  /\ stored' = IF erased THEN stored \ {r} ELSE stored
  /\ stable' = stable \ {r}
  /\ cursorGone' = (cursorGone \/ (erased /\ r = cursor))
  /\ UNCHANGED <<listing, entry, cursor, walk, handed, edges>>

PagingNext ==
  \/ ReadPage
  \/ \E r \in Rows : Appear(r) \/ \E erased \in BOOLEAN : Vanish(r, erased)

PagingSpec == PagingInit /\ [][PagingNext]_pagingVars

----------------------------------------------------------------------------
PagingTypeOK ==
  /\ listing \in [order : {"time", "timeId", "merged", "whole"}, next : {"full", "beyond"}, limit : Limits]
  /\ entry \in [Rows -> [at : 0..MaxInstant, kind : Kinds]]
  /\ visible \subseteq Rows /\ stored \subseteq Rows /\ visible \subseteq stored
  /\ cursor \in Rows \cup {NoRow} /\ walk \in {"start", "more", "end"}
  /\ handed \in [Rows -> Nat] /\ stable \subseteq visible /\ cursorGone \in BOOLEAN
AtEdge(r) == Milli(entry[r].at) \in edges
NoneTwice == \A r \in Rows : handed[r] <= 1 \/ (listing.order = "merged" /\ AtEdge(r))
NoneMissed ==
  walk = "end" =>
    \A r \in stable : \/ handed[r] >= 1
                      \/ listing.order \in {"time", "merged"} /\ AtEdge(r)
                      \/ listing.order = "merged" /\ cursorGone

(* Every variable keeps its type.  Whatever is written or removed between  *)
(* two pages, no row is handed out twice and a row that was there all      *)
(* along is handed out, up to what the cursors lose: a list ordered by     *)
(* time alone skips rows of the millisecond in which a page ended          *)
(* (notifications.service.ts:157, notifications.repository.ts:57); the     *)
(* feed, which sorts milliseconds and compares microseconds, may skip or   *)
(* repeat those (dashboard.service.ts:34), and it ends early when the      *)
(* announcement its cursor names was deleted (dashboard.repository.ts:25). *)
PagingSound == PagingTypeOK /\ NoneTwice /\ NoneMissed
=============================================================================
