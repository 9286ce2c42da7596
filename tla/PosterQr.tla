------------------------------ MODULE PosterQr ------------------------------
(***************************************************************************)
(* One poster's QR code: the row that says where it leads, the cached      *)
(* answer of the public resolver, the scans that resolve it and the        *)
(* requests of a club or the university that create, edit and cancel it.   *)
(* The row is read before the cache is asked, and a miss builds the answer *)
(* from that row.  Server processes share the cache.                       *)
(***************************************************************************)
EXTENDS Naturals, FiniteSets, Names

CONSTANTS PosterClubs, PosterActs,  \* what a code can lead to
          PosterHosts,              \* the pairs <<club, activity>> of a club that hosts it
          Scans,                    \* requests of visitors
          Updates, Cancels,         \* requests of staff that change the code, and that end it
          University,               \* the author of an edit that is of no club
          NoTarget, Same,           \* null, and a field that the patch does not have
          MaxVersion                \* bound: writes of the row

ASSUME PosterQrAssumption ==
  PosterHosts \subseteq PosterClubs \X PosterActs /\ MaxVersion \in Nat /\ IsFiniteSet(Scans)

Edits == Updates \cup Cancels

VARIABLES qr,           \* [status, type, club, act, window, count, version]
          openTargets,  \* approved clubs and public activities
          resolved,     \* the cached answer: [to, version], to = NoTarget when there is none
          scan,         \* each visitor: [pc, row, to, version, marked, live]
          edit,         \* each request: [pc, patch, version]
          emitted,      \* history: the last version whose change was announced to the cache
          lateFill      \* history: the entry was stored by a load that no announcement met

posterVars == <<qr, openTargets, resolved, scan, edit, emitted, lateFill>>

NoChanges == [type |-> Same, club |-> Same, act |-> Same, window |-> Same]
NoAnswer == [to |-> NoTarget, version |-> 0]
NoCodeRow == [status |-> "none", type |-> "club", club |-> NoTarget, act |-> NoTarget,
              window |-> "open", count |-> 0, version |-> 0]
NoScan == [pc |-> "idle", row |-> NoCodeRow, to |-> NoTarget, version |-> 0,
           marked |-> FALSE, live |-> FALSE]
Targets == PosterClubs \cup PosterActs

PosterInit ==
  /\ qr = NoCodeRow /\ openTargets = Targets /\ resolved = NoAnswer
  /\ scan = [s \in Scans |-> NoScan]
  /\ edit = [e \in Edits |-> [pc |-> "idle", patch |-> NoChanges, version |-> 0]]
  /\ emitted = 0 /\ lateFill = FALSE

----------------------------------------------------------------------------
\* The world: time passes over the window, a club is suspended, an activity ends.
WindowMoves ==
  /\ qr.status # "none"
  /\ \/ qr.window = "before" /\ qr' = [qr EXCEPT !.window = "open"]
     \/ qr.window = "open" /\ qr' = [qr EXCEPT !.window = "over"]
  /\ UNCHANGED <<openTargets, resolved, scan, edit, emitted, lateFill>>

TargetCloses(t) ==
  /\ t \in openTargets
  /\ openTargets' = openTargets \ {t}
  /\ UNCHANGED <<qr, resolved, scan, edit, emitted, lateFill>>

\* The entry lives sixty seconds.
EntryExpires ==
  /\ resolved # NoAnswer
  /\ resolved' = NoAnswer /\ lateFill' = FALSE
  /\ UNCHANGED <<qr, openTargets, scan, edit, emitted>>

----------------------------------------------------------------------------
(***************************************************************************)
(* The resolver.                                                           *)
(***************************************************************************)
computeAvailability(row) ==
  IF row.status = "cancelled" THEN "cancelled"
  ELSE CASE row.window = "before" -> "not_yet_active"
         [] row.window = "over" -> "expired"
         [] OTHER -> "active"

buildActiveTarget(row) ==
  LET target == IF row.type = "club" THEN row.club ELSE row.act
  IN IF target \in openTargets THEN target ELSE NoTarget

\* Mutant: the cache is asked first, and a hit answers whatever the row says.
Mutant_CacheFirst(s) ==
  /\ scan[s].pc = "idle" /\ qr.status # "none"
  /\ scan' = [scan EXCEPT ![s] =
       [@ EXCEPT !.row = [qr EXCEPT !.count = 0], !.live = computeAvailability(qr) = "active",
                 !.pc = IF resolved # NoAnswer THEN "row"
                        ELSE IF computeAvailability(qr) = "active" THEN "row" ELSE "inactive"]]
  /\ UNCHANGED <<qr, openTargets, resolved, edit, emitted, lateFill>>
\* findByCode, and the answer of a code that is not active.
ReadRow(s) ==
  /\ scan[s].pc = "idle" /\ qr.status # "none"
  /\ scan' = [scan EXCEPT ![s] =
       [@ EXCEPT !.row = [qr EXCEPT !.count = 0], !.live = computeAvailability(qr) = "active",
                 !.pc = IF computeAvailability(qr) = "active" THEN "row" ELSE "inactive"]]
  /\ UNCHANGED <<qr, openTargets, resolved, edit, emitted, lateFill>>

\* The entry answers, or the load begins.
AskCache(s) ==
  /\ scan[s].pc = "row"
  /\ scan' = [scan EXCEPT ![s] =
       IF resolved # NoAnswer
       THEN [@ EXCEPT !.pc = "found", !.to = resolved.to, !.version = resolved.version]
       ELSE [@ EXCEPT !.pc = "loading"]]
  /\ UNCHANGED <<qr, openTargets, resolved, edit, emitted, lateFill>>

\* The loader reads the target that the row it was given names.
LoadTarget(s) ==
  /\ scan[s].pc = "loading"
  /\ scan' = [scan EXCEPT ![s] =
       LET target == buildActiveTarget(scan[s].row)
       IN [@ EXCEPT !.pc = IF target = NoTarget THEN "missing" ELSE "loaded",
                    !.to = target, !.version = scan[s].row.version]]
  /\ UNCHANGED <<qr, openTargets, resolved, edit, emitted, lateFill>>

\* A call of the same process waits for the load and has its answer.
JoinLoad(s, t) ==
  /\ scan[s].pc = "row" /\ scan[t].pc = "loaded"
  /\ scan' = [scan EXCEPT ![s] = [@ EXCEPT !.pc = "found", !.to = scan[t].to,
                                           !.version = scan[t].version]]
  /\ UNCHANGED <<qr, openTargets, resolved, edit, emitted, lateFill>>

\* Mutant: a load is stored though the entry was dropped while it ran.
Mutant_FillAnyway(s) == TRUE
MayFill(s) == ~scan[s].marked
\* The store may also refuse the answer.
Fill(s) ==
  /\ scan[s].pc = "loaded"
  /\ scan' = [scan EXCEPT ![s].pc = "found"]
  /\ \/ /\ MayFill(s)
        /\ resolved' = [to |-> scan[s].to, version |-> scan[s].version]
        /\ lateFill' = (scan[s].version < emitted /\ ~scan[s].marked)
     \/ UNCHANGED <<resolved, lateFill>>
  /\ UNCHANGED <<qr, openTargets, edit, emitted>>

AfterScan(s, pc) == [NoScan EXCEPT !.pc = pc, !.live = scan[s].live]
\* recordScanSafe: a scan that cannot be recorded is answered all the same.
RecordScan(s) ==
  /\ scan[s].pc = "found"
  /\ \/ qr' = [qr EXCEPT !.count = @ + 1] /\ scan' = [scan EXCEPT ![s] = AfterScan(s, "counted")]
     \/ qr' = qr /\ scan' = [scan EXCEPT ![s] = AfterScan(s, "uncounted")]
  /\ UNCHANGED <<openTargets, resolved, edit, emitted, lateFill>>

----------------------------------------------------------------------------
(***************************************************************************)
(* The requests that change the code.                                      *)
(***************************************************************************)
\* assertClubTargetInTenant, assertActivityTargetInTenant, for the fields given.
TargetsOpen(patch) == \A t \in {patch.club, patch.act} \ {Same, NoTarget} : t \in openTargets
Hosts(club, act) == <<club, act>> \in PosterHosts
Given(field) == field \notin {Same, NoTarget}

assertTargetPayload(patch) ==
  /\ patch.type = "club" => Given(patch.club)
  /\ patch.type = "activity" => Given(patch.act)

\* createForClub, createForUniversity: the target that the payload's type names.
Create(by, type, target) ==
  /\ qr.status = "none"
  /\ target \in openTargets \cap (IF type = "club" THEN PosterClubs ELSE PosterActs)
  /\ by # University => IF type = "club" THEN target = by ELSE Hosts(by, target)
  /\ qr' = [NoCodeRow EXCEPT !.status = "active", !.type = type, !.version = 1,
                             ![IF type = "club" THEN "club" ELSE "act"] = target]
  /\ UNCHANGED <<openTargets, resolved, scan, edit, emitted, lateFill>>

OrElse(field, old) == IF Given(field) THEN field ELSE old
\* updateForClub's own checks: the patch may lead to this club, or to what it hosts.
ClubMayUpdate(club, patch) ==
  /\ patch.type = "club" \/ Given(patch.club) => OrElse(patch.club, qr.club) = club
  /\ patch.type = "activity" \/ Given(patch.act) => Hosts(club, OrElse(patch.act, qr.act))

CheckUpdate(e, by, patch) ==
  /\ edit[e].pc = "idle" /\ qr.status # "none"
  /\ patch # NoChanges
  /\ assertTargetPayload(patch)
  /\ IF by = University THEN TargetsOpen(patch) ELSE ClubMayUpdate(by, patch)
  /\ edit' = [edit EXCEPT ![e] = [@ EXCEPT !.pc = "updating", !.patch = patch]]
  /\ UNCHANGED <<qr, openTargets, resolved, scan, emitted, lateFill>>

CheckCancel(e, by) ==
  /\ edit[e].pc = "idle" /\ qr.status # "none"
  /\ by # University => qr.club = by \/ Hosts(by, qr.act)
  /\ edit' = [edit EXCEPT ![e] = [@ EXCEPT !.pc = "cancelling"]]
  /\ UNCHANGED <<qr, openTargets, resolved, scan, emitted, lateFill>>

Merge(field, old) == IF field = Same THEN old ELSE field
\* The columns a patch writes: with a type it clears the other target.
Patched(patch) ==
  [qr EXCEPT
     !.version = @ + 1,
     !.window = Merge(patch.window, @),
     !.type = Merge(patch.type, @),
     !.club = IF patch.type = "activity" THEN NoTarget ELSE Merge(patch.club, @),
     !.act = IF patch.type = "club" THEN NoTarget ELSE Merge(patch.act, @)]

\* The write is by id alone: nothing of what was checked is asked again.
WriteUpdate(e) ==
  /\ edit[e].pc = "updating" /\ qr.version < MaxVersion
  /\ qr' = Patched(edit[e].patch)
  /\ edit' = [edit EXCEPT ![e] = [pc |-> "written", patch |-> NoChanges, version |-> qr'.version]]
  /\ UNCHANGED <<openTargets, resolved, scan, emitted, lateFill>>

WriteCancel(e) ==
  /\ edit[e].pc = "cancelling" /\ qr.version < MaxVersion
  /\ qr' = [qr EXCEPT !.status = "cancelled", !.version = @ + 1]
  /\ edit' = [edit EXCEPT ![e] = [pc |-> "written", patch |-> NoChanges, version |-> qr'.version]]
  /\ UNCHANGED <<openTargets, resolved, scan, emitted, lateFill>>

\* Mutant: the entry of an edited code is left to expire.
Mutant_NoDrop(e) == FALSE
Drops(e) == edit[e].pc = "written"
\* codeChanged: the entry goes, and the loads of this process are marked.
Emit(e) ==
  /\ edit[e].pc = "written"
  /\ edit' = [edit EXCEPT ![e] = [pc |-> "done", patch |-> NoChanges, version |-> 0]]
  /\ IF Drops(e) THEN resolved' = NoAnswer /\ lateFill' = FALSE
                 ELSE UNCHANGED <<resolved, lateFill>>
  /\ emitted' = IF edit[e].version > emitted THEN edit[e].version ELSE emitted
  /\ \E near \in SUBSET {s \in Scans : scan[s].pc \in {"loading", "loaded"}} :
       scan' = [s \in Scans |-> [scan[s] EXCEPT !.marked = @ \/ s \in near]]
  /\ UNCHANGED <<qr, openTargets>>

\* The store is out of reach, or the process dies after its write.
EmitFails(e) ==
  /\ edit[e].pc = "written"
  /\ edit' = [edit EXCEPT ![e].pc = "failed"]
  /\ UNCHANGED <<qr, openTargets, resolved, scan, emitted, lateFill>>

\* Bound: a patch takes the club away, names an activity, closes the window, or has a
\* type with what belongs to it.
PosterPatches ==
  {[NoChanges EXCEPT !.club = NoTarget], [NoChanges EXCEPT !.window = "over"]}
  \cup {[NoChanges EXCEPT !.act = a] : a \in PosterActs}
  \cup {[NoChanges EXCEPT !.type = "club", !.club = c] : c \in PosterClubs}
  \cup {[NoChanges EXCEPT !.type = "activity", !.act = a] : a \in PosterActs}

PosterNext ==
  \/ WindowMoves \/ EntryExpires
  \/ \E t \in Targets : TargetCloses(t)
  \/ \E s \in AnyOne({v \in Scans : scan[v].pc = "idle"}) : ReadRow(s)
  \/ \E s \in Scans : AskCache(s) \/ LoadTarget(s) \/ Fill(s) \/ RecordScan(s)
  \/ \E s, t \in Scans : JoinLoad(s, t)
  \/ \E by \in PosterClubs \cup {University} :
       \/ \E target \in Targets, type \in {"club", "activity"} : Create(by, type, target)
       \/ \E e \in Updates, patch \in PosterPatches : CheckUpdate(e, by, patch)
       \/ \E e \in Cancels : CheckCancel(e, by)
  \/ \E e \in Edits : WriteUpdate(e) \/ WriteCancel(e) \/ Emit(e) \/ EmitFails(e)

PosterSpec == PosterInit /\ [][PosterNext]_posterVars

----------------------------------------------------------------------------
ScanAnswered(s) == scan[s].pc \in {"found", "counted", "uncounted"}
\* An edit whose change the cache may not have heard of.
Owes(version) == \E e \in Edits : edit[e].pc \in {"written", "failed"} /\ edit[e].version > version

(* An answer older than the row stands in the cache only while an edit     *)
(* has still to announce a later one, or cannot, or because a load that    *)
(* no announcement met stored what it had read before it.                  *)
EntryIsFresh == resolved # NoAnswer /\ resolved.version < qr.version /\ ~lateFill
                  => Owes(resolved.version)

(* Who scans a code that is cancelled or outside its window is never sent  *)
(* to its target, whatever the cache still holds; and exactly the recorded *)
(* answers are counted, one each.                                          *)
ClosedCodesAreSilent == \A s \in Scans : ScanAnswered(s) => scan[s].live
ScansAreCounted == qr.count = Cardinality({s \in Scans : scan[s].pc = "counted"})

PosterSound == EntryIsFresh /\ ClosedCodesAreSilent /\ ScansAreCounted
=============================================================================
