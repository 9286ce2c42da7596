---------------------------- MODULE ReviewChecklist ----------------------------
(***************************************************************************)
(* The checklist that reviewers keep on one club application: its items    *)
(* are the tenant's catalogue, its ticks a table of their own, and an      *)
(* approval may have to wait for the required ones.                        *)
(*                                                                         *)
(* A tick is the look at the application's status, the look at the         *)
(* settings, the upsert of the row and the insert of an event, with no     *)
(* transaction around them; an approval looks at settings and ticks before *)
(* the transaction that decides.  The chain is ClubApplication's: here one *)
(* approval is enough, a reviewer's or a committee's.                      *)
(***************************************************************************)
EXTENDS Integers, FiniteSets, Names

CONSTANTS Keys,            \* keys that requests name
          Items,           \* the items
          Required,        \* those an approval may have to wait for
          Markers,         \* ticking requests that may overlap
          ChecklistBudgets \* bounds: ticks ever asked for, changes of the switch

ASSUME ChecklistAssumption ==
  /\ Required \subseteq Items /\ Items \subseteq Keys
  /\ ChecklistBudgets \subseteq [marks : Nat, edits : Nat]

VARIABLES filed,     \* status of the application; "withdrawn" when its rows are deleted
          enforced,  \* club.application.require_checklist_for_approval
          item,      \* club_application_checklist_items
          told,      \* the last checklist_updated event of each item
          marker, approver,
          verdict,   \* history: what stood when the approval was given
          astray,    \* history: items whose writes and events were mixed or cut short
          lateMarks, \* history: a tick had passed its look at the status before the approval
          checklistLeft

checklistVars == <<filed, enforced, item, told, marker, approver, verdict, astray, lateMarks,
                   checklistLeft>>
requests == <<marker, approver, verdict, astray, lateMarks>>

NoMark == [pc |-> "idle", key |-> "none", to |-> "none"]
NoApproval == [pc |-> "idle", required |-> {}, moved |-> FALSE]
NoVerdict == [required |-> {}, item |-> [k \in Keys |-> "none"], moved |-> FALSE]

ChecklistInit ==
  /\ filed = "pending" /\ item = [k \in Keys |-> "none"] /\ told = item
  /\ enforced = FALSE
  /\ marker = [r \in Markers |-> NoMark] /\ approver = NoApproval /\ verdict = NoVerdict
  /\ astray = {} /\ lateMarks = FALSE /\ checklistLeft \in ChecklistBudgets

\* What an approval has read may have changed before it decides.
ApproverMoved == approver' = IF approver.pc = "idle" THEN approver ELSE [approver EXCEPT !.moved = TRUE]
AtWork(r) == marker[r].pc \in {"known", "written"}

----------------------------------------------------------------------------
(***************************************************************************)
(* updateChecklistItem.                                                    *)
(***************************************************************************)
\* Mutant: a decided application's list may still be ticked.
Mutant_AlwaysEditable == filed # "withdrawn"
Editable == filed \in {"pending", "revision_requested"}

AskMark(r, k, to) ==
  /\ marker[r] = NoMark /\ checklistLeft.marks > 0 /\ Editable
  /\ marker' = [marker EXCEPT ![r] = [pc |-> "editable", key |-> k, to |-> to]]
  /\ checklistLeft' = [checklistLeft EXCEPT !.marks = @ - 1]
  /\ UNCHANGED <<filed, enforced, item, told, approver, verdict, astray, lateMarks>>

FindItem(r) ==
  /\ marker[r].pc = "editable"
  /\ marker' = [marker EXCEPT ![r] = IF marker[r].key \in Items
                                     THEN [@ EXCEPT !.pc = "known"] ELSE NoMark]
  /\ UNCHANGED <<filed, enforced, item, told, approver, verdict, astray, lateMarks,
                 checklistLeft>>

\* Another request is between its row and its event of the same item.
Crossed(r) == \E q \in Markers \ {r} : marker[q].pc = "written" /\ marker[q].key = marker[r].key

\* The upsert; a withdrawn application has no row to hang it on.
UpsertItem(r) ==
  LET k == marker[r].key IN
  /\ marker[r].pc = "known"
  /\ IF filed = "withdrawn"
     THEN marker' = [marker EXCEPT ![r] = NoMark] /\ UNCHANGED <<item, astray, approver>>
     ELSE /\ item' = [item EXCEPT ![k] = marker[r].to]
          /\ marker' = [marker EXCEPT ![r].pc = "written"]
          /\ astray' = IF Crossed(r) THEN astray \cup {k} ELSE astray
          /\ ApproverMoved
  /\ UNCHANGED <<filed, enforced, told, verdict, lateMarks,
                 checklistLeft>>

\* Mutant: the event is left out.
Mutant_TellsNothing(r) == told[marker[r].key]
EventOf(r) == marker[r].to
InsertEvent(r) ==
  LET k == marker[r].key IN
  /\ marker[r].pc = "written"
  /\ marker' = [marker EXCEPT ![r] = NoMark]
  /\ told' = IF filed = "withdrawn" THEN told ELSE [told EXCEPT ![k] = EventOf(r)]
  /\ astray' = IF Crossed(r) THEN astray \cup {k}
               ELSE IF EventOf(r) = item[k] THEN astray \ {k} ELSE astray
  /\ UNCHANGED <<filed, enforced, item, approver, verdict, lateMarks,
                 checklistLeft>>

\* The process dies between the two.
MarkFails(r) ==
  /\ marker[r].pc = "written"
  /\ marker' = [marker EXCEPT ![r] = NoMark] /\ astray' = astray \cup {marker[r].key}
  /\ UNCHANGED <<filed, enforced, item, told, approver, verdict, lateMarks,
                 checklistLeft>>

----------------------------------------------------------------------------
(***************************************************************************)
(* assertChecklistAllowsApproval, and the decision after it.               *)
(***************************************************************************)
BeginApproval ==
  /\ approver = NoApproval
  /\ approver' = [pc |-> "settings", moved |-> FALSE,
                  required |-> IF enforced THEN Required ELSE {}]
  /\ UNCHANGED <<filed, enforced, item, told, marker, verdict, astray, lateMarks,
                 checklistLeft>>

\* Mutant: only the rows that are there are looked at.
Mutant_StoredOnly(required) == {k \in required : item[k] = "off"}
\* buildMergedChecklist: an item without a row is not ticked.
Missing(required) == {k \in required : item[k] # "on"}

CheckItems ==
  /\ approver.pc = "settings"
  /\ approver' = IF Missing(approver.required) # {} THEN NoApproval
                  ELSE [approver EXCEPT !.pc = "allowed"]
  /\ UNCHANGED <<filed, enforced, item, told, marker, verdict, astray, lateMarks,
                 checklistLeft>>

MarkLetThrough == \E r \in Markers : marker[r].pc \in {"editable", "known"}
Approve ==
  /\ approver.pc = "allowed"
  /\ approver' = NoApproval
  /\ IF filed # "pending" THEN UNCHANGED <<filed, verdict, lateMarks>>
     ELSE /\ filed' = "approved"
          /\ verdict' = [required |-> approver.required, item |-> item, moved |-> approver.moved]
          /\ lateMarks' = MarkLetThrough
  /\ UNCHANGED <<enforced, item, told, marker, astray, checklistLeft>>

\* A last step that is a committee's: castVote asks nothing of the checklist.
CommitteeApproves ==
  /\ filed = "pending" /\ filed' = "approved"
  /\ verdict' = [NoVerdict EXCEPT !.item = item] /\ lateMarks' = MarkLetThrough
  /\ UNCHANGED <<enforced, item, told, marker, approver, astray, checklistLeft>>

----------------------------------------------------------------------------
\* The rest of an application's life: revision and back, rejection and an
\* appeal upheld.  None of it touches the checklist.
StatusChanges ==
  /\ \/ filed = "pending" /\ filed' \in {"revision_requested", "rejected"}
     \/ filed \in {"revision_requested", "rejected"} /\ filed' = "pending"
  /\ UNCHANGED <<enforced, item, told, requests, checklistLeft>>

\* deleteApplication: rows and events go with it.
Withdrawn ==
  /\ filed = "pending" /\ filed' = "withdrawn"
  /\ item' = [k \in Keys |-> "none"] /\ told' = [k \in Keys |-> "none"]
  /\ UNCHANGED <<enforced, requests, checklistLeft>>

\* The tenant's switch.  The items are a setting too, but the settings' schema
\* takes no list of objects: they stay the default.
PatchEnforced ==
  /\ checklistLeft.edits > 0 /\ checklistLeft' = [checklistLeft EXCEPT !.edits = @ - 1]
  /\ enforced' = ~enforced /\ ApproverMoved
  /\ UNCHANGED <<filed, item, told, marker, verdict, astray, lateMarks>>

ChecklistNext ==
  \/ \E r \in AnyOne({q \in Markers : marker[q] = NoMark}), k \in Keys, to \in {"on", "off"} :
       AskMark(r, k, to)
  \/ \E r \in Markers : FindItem(r) \/ UpsertItem(r) \/ InsertEvent(r) \/ MarkFails(r)
  \/ BeginApproval \/ CheckItems \/ Approve \/ CommitteeApproves
  \/ StatusChanges \/ Withdrawn
  \/ PatchEnforced

ChecklistSpec == ChecklistInit /\ [][ChecklistNext]_checklistVars

----------------------------------------------------------------------------
\* Approved by a reviewer means ticked, for what the tenant required, unless a
\* tick or the switch changed between the look and the decision.
ApprovedMeansTicked == verdict.moved \/ \A k \in verdict.required : verdict.item[k] = "on"
\* What was ticked when the application was approved stays so, unless a tick
\* had been let through before.
FrozenOnceApproved == filed = "approved" /\ ~lateMarks => item = verdict.item
\* An item stands as its last event tells, once its requests are answered,
\* unless they crossed or one was cut short.
EventsTell ==
  \A k \in Keys \ astray : (\A r \in Markers : marker[r].key = k => ~AtWork(r)) => told[k] = item[k]

(* A checklist decides what it is kept for: an approval that had to wait   *)
(* for it found it complete, it does not change under an approved          *)
(* application, and the history tells how it stands                        *)
(* (club-application-review.service.ts:123-184).                           *)
ChecklistSound == ApprovedMeansTicked /\ FrozenOnceApproved /\ EventsTell
=============================================================================
