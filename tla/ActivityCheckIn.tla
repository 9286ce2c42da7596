--------------------------- MODULE ActivityCheckIn ---------------------------
(***************************************************************************)
(* Who was there: the rotating QR code staff's screens show, the check-in  *)
(* a participant makes by scanning it, and the marks staff sets and takes  *)
(* back by hand.                                                           *)
(*                                                                         *)
(* The code is a Redis key that a screen reads and, where it is missing or *)
(* about to expire, overwrites.  A scan reads the participant's row,       *)
(* validates the code and then marks the row by key: three steps that a    *)
(* withdrawal or staff's undoing may fall between.                         *)
(***************************************************************************)
EXTENDS Integers, FiniteSets

CONSTANTS Guests, Displays, NoCode,
          TokenTTL,      \* TOKEN_TTL_SEC, in ticks
          RotateBuffer,  \* ROTATE_BUFFER_MS, in ticks
          OpensAt, ClosesAt,   \* the check-in window
          LastTick, LastCode,  \* bounds: the clock and the codes made
          MaxScans             \* bound: scans and hand-made marks in all

ASSUME CheckInAssumption ==
  /\ TokenTTL \in Nat /\ RotateBuffer \in 0..TokenTTL
  /\ OpensAt \in Nat /\ ClosesAt \in Nat
  /\ LastTick \in Nat /\ LastCode \in Nat /\ MaxScans \in Nat
  /\ NoCode \notin Nat

VARIABLES now,
          qrKey,     \* the Redis key: [code, expires], or NoCode
          made,      \* when each code was made
          display,   \* the screens: what they do and what they show
          guest,     \* activity_attendees: absent, answered, present
          scan,      \* the scan of each user
          marking,   \* staff's mark by hand: [pc, on, to]
          told,      \* users whose last answer was "checked in"
          scans,
          oldPassed  \* history: a code past its life was let through

checkInVars == <<now, qrKey, made, display, guest, scan, marking, told, scans, oldPassed>>

Codes == 1..LastCode
Stored == [code : Codes, expires : Nat]
NoScan == [pc |-> "idle", code |-> NoCode, present |-> FALSE, crossed |-> FALSE]
NoMark == [pc |-> "idle", on |-> NoCode, to |-> FALSE]

CheckInInit ==
  /\ now = 0 /\ qrKey = NoCode /\ made = [c \in {} |-> 0]
  /\ display = [d \in Displays |-> [pc |-> "idle", shown |-> NoCode, beaten |-> FALSE, late |-> FALSE]]
  /\ guest = [u \in Guests |-> "absent"]
  /\ scan = [u \in Guests |-> NoScan]
  /\ marking = NoMark /\ told = {} /\ scans = 0 /\ oldPassed = FALSE

\* assertCheckInWindow
WindowOpen == now \in OpensAt..ClosesAt

\* Time passes; Redis drops the key when its TTL runs out.
CheckInTick ==
  /\ now < LastTick /\ now' = now + 1
  /\ qrKey' = IF qrKey # NoCode /\ qrKey.expires <= now + 1 THEN NoCode ELSE qrKey
  /\ UNCHANGED <<made, display, guest, scan, marking, told, scans, oldPassed>>

----------------------------------------------------------------------------
(* Screens: getOrRotate. *)

\* Mutant: a code is replaced whenever a screen asks.
Mutant_AlwaysRotate(k) == FALSE
\* A code with enough time left is shown again.
StillGood(k) == k # NoCode /\ k.expires - now > RotateBuffer

ReadCode(d) ==
  /\ display[d].pc = "idle" /\ WindowOpen
  /\ display' = [display EXCEPT ![d] =
       IF StillGood(qrKey) THEN [@ EXCEPT !.shown = qrKey, !.beaten = FALSE]
                           ELSE [@ EXCEPT !.pc = "rotate", !.late = FALSE]]
  /\ UNCHANGED <<now, qrKey, made, guest, scan, marking, told, scans, oldPassed>>

\* SETEX of a new code, whatever the key holds by now.  A screen that is
\* late, because another rotated since it read, beats what others show.
RotateCode(d) ==
  LET c == Cardinality(DOMAIN made) + 1
      new == [code |-> c, expires |-> now + TokenTTL]
  IN
  /\ display[d].pc = "rotate" /\ c \in Codes
  /\ made' = [x \in DOMAIN made \cup {c} |-> IF x = c THEN now ELSE made[x]]
  /\ qrKey' = new
  /\ display' = [e \in Displays |->
       IF e = d THEN [pc |-> "idle", shown |-> new, beaten |-> FALSE, late |-> FALSE]
       ELSE [display[e] EXCEPT !.late = TRUE, !.beaten = @ \/ display[d].late]]
  /\ UNCHANGED <<now, guest, scan, marking, told, scans, oldPassed>>

----------------------------------------------------------------------------
(* Participants. *)

\* rsvp, and cancelRsvp, which deletes the row with its mark.
Answer(u) ==
  /\ guest[u] = "absent" /\ guest' = [guest EXCEPT ![u] = "answered"]
  /\ UNCHANGED <<now, qrKey, made, display, scan, marking, told, scans, oldPassed>>

CrossScan(u) == scan' = [scan EXCEPT ![u].crossed = TRUE]

WithdrawRsvp(u) ==
  /\ guest[u] # "absent" /\ guest' = [guest EXCEPT ![u] = "absent"]
  /\ told' = told \ {u} /\ CrossScan(u)
  /\ UNCHANGED <<now, qrKey, made, display, marking, scans, oldPassed>>

\* selfCheckIn: the window and the row, with a code some screen has shown.
BeginScan(u, c) ==
  /\ scan[u].pc = "idle" /\ scans < MaxScans /\ scans' = scans + 1
  /\ WindowOpen /\ guest[u] # "absent" /\ c \in DOMAIN made
  /\ scan' = [scan EXCEPT ![u] = [pc |-> "validate", code |-> c,
                                  present |-> guest[u] = "present", crossed |-> FALSE]]
  /\ UNCHANGED <<now, qrKey, made, display, guest, marking, told, oldPassed>>

\* Mutant: any code will do while one is shown.
Mutant_AnyCode(c) == qrKey # NoCode
\* validate: the stored code, unexpired.
ValidCode(c) == qrKey # NoCode /\ qrKey.code = c /\ qrKey.expires > now

\* Mutant: the test of the mark already there is inverted.
Mutant_SkipsAbsent(u) == ~scan[u].present
AlreadyMarked(u) == scan[u].present

Validate(u) ==
  /\ scan[u].pc = "validate"
  /\ oldPassed' = (oldPassed \/ (ValidCode(scan[u].code) /\ now >= made[scan[u].code] + TokenTTL))
  /\ \/ /\ ~ValidCode(scan[u].code)
        /\ scan' = [scan EXCEPT ![u] = NoScan] /\ UNCHANGED told
     \/ /\ ValidCode(scan[u].code) /\ AlreadyMarked(u)
        /\ scan' = [scan EXCEPT ![u] = NoScan]
        /\ told' = IF scan[u].crossed THEN told ELSE told \cup {u}
     \/ /\ ValidCode(scan[u].code) /\ ~AlreadyMarked(u)
        /\ scan' = [scan EXCEPT ![u].pc = "mark"] /\ UNCHANGED told
  /\ UNCHANGED <<now, qrKey, made, display, guest, marking, scans>>

\* Mutant: taking a mark back writes a value of its own.
Mutant_UndoneIsNew(u, present) == guest' = [guest EXCEPT ![u] = IF present THEN "present" ELSE "undone"]
\* setCheckIn: an UPDATE by key, which marks nothing where the row is gone.
MarkRow(u, present) ==
  guest' = [guest EXCEPT ![u] =
    IF @ = "absent" THEN @ ELSE IF present THEN "present" ELSE "answered"]

MarkScanned(u) ==
  /\ scan[u].pc = "mark" /\ MarkRow(u, TRUE)
  /\ told' = IF scan[u].crossed THEN told ELSE told \cup {u}
  /\ scan' = [scan EXCEPT ![u] = NoScan]
  /\ UNCHANGED <<now, qrKey, made, display, marking, scans, oldPassed>>

----------------------------------------------------------------------------
(* Staff's mark by hand: the row is looked for, then updated. *)

BeginMark(u, to) ==
  /\ marking = NoMark /\ scans < MaxScans /\ scans' = scans + 1
  /\ guest[u] # "absent"
  /\ marking' = [pc |-> "write", on |-> u, to |-> to]
  /\ UNCHANGED <<now, qrKey, made, display, guest, scan, told, oldPassed>>

WriteMark ==
  /\ marking # NoMark /\ MarkRow(marking.on, marking.to)
  /\ IF marking.to THEN UNCHANGED <<told, scan>>
     ELSE told' = told \ {marking.on} /\ CrossScan(marking.on)
  /\ marking' = NoMark
  /\ UNCHANGED <<now, qrKey, made, display, scans, oldPassed>>

CheckInNext ==
  \/ CheckInTick \/ WriteMark
  \/ \E d \in Displays : ReadCode(d) \/ RotateCode(d)
  \/ \E u \in Guests :
       \/ Answer(u) \/ WithdrawRsvp(u) \/ Validate(u) \/ MarkScanned(u)
       \/ \E c \in Codes : BeginScan(u, c)
       \/ \E to \in BOOLEAN : BeginMark(u, to)

CheckInSpec == CheckInInit /\ [][CheckInNext]_checkInVars

----------------------------------------------------------------------------
CheckInTypeOK ==
  /\ now \in 0..LastTick /\ qrKey \in Stored \cup {NoCode}
  /\ DOMAIN made \subseteq Codes /\ \A c \in DOMAIN made : made[c] \in 0..LastTick
  /\ display \in [Displays -> [pc : {"idle", "rotate"}, shown : Stored \cup {NoCode},
                               beaten : BOOLEAN, late : BOOLEAN]]
  /\ guest \in [Guests -> {"absent", "answered", "present"}]
  /\ scan \in [Guests -> [pc : {"idle", "validate", "mark"}, code : Codes \cup {NoCode},
                          present : BOOLEAN, crossed : BOOLEAN]]
  /\ marking \in [pc : {"idle", "write"}, on : Guests \cup {NoCode}, to : BOOLEAN]
  /\ told \subseteq Guests /\ oldPassed \in BOOLEAN /\ scans \in 0..MaxScans

(* A code on a screen works until RotateBuffer before it expires, unless   *)
(* a screen that had read the key before another rotated it overwrote it   *)
(* (check-in-qr.cache.ts:20-34 reads and writes in two commands).          *)
ShownCodeWorks ==
  \A d \in Displays :
    display[d].shown # NoCode /\ ~display[d].beaten
      /\ display[d].shown.expires - now > RotateBuffer => qrKey = display[d].shown

(* Whoever gets past the code presented one made less than its lifetime    *)
(* ago: a photograph of an old screen is worth nothing.                    *)
OldCodesAreDead == ~oldPassed

(* Whom selfCheckIn told so is on the list as present, until staff takes   *)
(* the mark back or the user withdraws.                                    *)
ToldIsPresent == \A u \in told : guest[u] = "present"

(* What holds of codes and marks: every variable keeps its type; a code on *)
(* a screen works as long as it shows; an old one opens nothing; and whom  *)
(* the code let in is present.                                             *)
CheckInSound == CheckInTypeOK /\ ShownCodeWorks /\ OldCodesAreDead /\ ToldIsPresent
=============================================================================
