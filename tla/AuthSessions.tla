---------------------------- MODULE AuthSessions ----------------------------
(***************************************************************************)
(* One account: its row, the JWTs made for it, the one-time links mailed   *)
(* to it, its entry in the authority cache and its WebSockets, under the   *)
(* handlers of src/src/features/auth, features/moderation, features/users  *)
(* and the middleware every request of the account passes.                 *)
(*                                                                         *)
(* A session is ended by changing the row and then dropping the authority  *)
(* cache: a JWT is never looked up, only its tokenVersion is compared with *)
(* the cached one.  The cache is the one of module Cache in one process;   *)
(* Redis answers its one connection in order, so a command is one step     *)
(* here and its failures are left to that module.  Passwords are not kept: *)
(* each new one comes with the next tokenVersion (anonymising replaces the *)
(* hash without one, and login refuses the account anyway).                *)
(***************************************************************************)
EXTENDS Naturals, FiniteSets, TLC

CONSTANTS Ops,          \* handlers that can be under way at once
          VerifyLinks,  \* e-mail verification links
          ResetLinks,   \* password reset links
          Budgets,      \* bounds, one of which a behaviour keeps: sockets with
                        \* their tickets, faults, links of a kind about at
                        \* once, changes of the password
          None          \* no cache entry, no load, no link

Links == VerifyLinks \cup ResetLinks

ASSUME LinksApart == VerifyLinks \cap ResetLinks = {}
ASSUME NoneIsNone == None \notin Ops \cup Links
ASSUME BoundsAreNaturals ==
  Budgets \subseteq [sockets : Nat, faults : Nat, links : Nat, passwords : Nat]

VARIABLES user,       \* the row: status, deletedAt set, tokenVersion
          links,      \* one-time links
          tokens,     \* tokenVersions of the JWTs made at login
          entry,      \* rbac:permissions:<userId> in Redis
          loader,     \* the request whose load is in flight
          mark,       \* the key was invalidated while it was loading
          op,         \* the handlers under way
          tickets,    \* WebSocket tickets in Redis
          opening,    \* sockets whose ticket is consumed, not yet registered
          sockets,    \* registered sockets
          faults,     \* handlers that failed, and crashes
          budget,     \* the bounds of this behaviour
          known,      \* history: the row when the cache was last dropped
          uses,       \* history: passwords set with a link
          overlapped, \* history: two links of a kind were issued at once
          cut         \* history: suspended at a quiet moment, since then so

web == <<tickets, opening, sockets, budget>>
cacheVars == <<entry, loader, mark>>
history == <<known, uses, overlapped, cut>>
vars == <<user, links, tokens, entry, loader, mark, op, tickets, opening, sockets,
          faults, budget, known, uses, overlapped, cut>>

Statuses == {"pending", "active", "suspended"}
Snapshots == [status : Statuses, version : Nat]
Known == [version : Nat, out : BOOLEAN, gone : BOOLEAN, verified : BOOLEAN]

\* The rest of a handler, by where it is.
PC == {"idle", "loading", "loaded", "joined", "resolved", "admitted", "changing",
       "loggingIn", "issuing", "cleared", "banning", "unbanning", "resetting",
       "anonymizing", "verifying", "activating", "completing", "revoking", "dropping"}

Handlers == [pc : PC, seen : Snapshots, claim : Nat,
             link : Links \cup {None}, joined : BOOLEAN, since : Known]

Nobody == [version |-> 0, out |-> FALSE, gone |-> FALSE, verified |-> FALSE]
Idle == [pc |-> "idle", seen |-> [status |-> "pending", version |-> 0], claim |-> 0,
         link |-> None, joined |-> FALSE, since |-> Nobody]

TypeOK ==
  /\ user \in [status : Statuses, deleted : BOOLEAN, version : Nat]
  /\ links \in [Links -> {"live", "used", "expired"}]
  /\ tokens \subseteq Nat
  /\ entry \in Snapshots \cup {None}
  /\ loader \in Ops \cup {None}
  /\ loader # None => op[loader].pc \in {"loading", "loaded"}
  /\ mark \in BOOLEAN
  /\ op \in [Ops -> Handlers]
  /\ tickets + opening + sockets <= budget.sockets
  /\ budget \in Budgets
  /\ faults \in 0 .. budget.faults
  /\ known \in Known
  /\ uses \in [ResetLinks -> Nat]
  /\ overlapped \in BOOLEAN
  /\ cut \in BOOLEAN

\* An account that registered has its first link; one made by staff is active.
Init ==
  /\ \/ /\ user = [status |-> "pending", deleted |-> FALSE, version |-> 0]
        /\ \E l \in VerifyLinks : links = [x \in Links |-> IF x = l THEN "live" ELSE "used"]
     \/ /\ user = [status |-> "active", deleted |-> FALSE, version |-> 0]
        /\ links = [x \in Links |-> "used"]
  /\ tokens = {}
  /\ entry = None /\ loader = None /\ mark = FALSE
  /\ op = [o \in Ops |-> Idle]
  /\ tickets = 0 /\ opening = 0 /\ sockets = 0
  /\ faults = 0 /\ budget \in Budgets
  /\ known = Nobody
  /\ uses = [l \in ResetLinks |-> 0]
  /\ overlapped = FALSE /\ cut = FALSE

-----------------------------------------------------------------------------
At(o, pc) == op[o].pc = pc
Goto(o, pc) == op' = [op EXCEPT ![o].pc = pc]
Finish(o) == op' = [op EXCEPT ![o] = Idle]
\* What follows needs nothing of what the handler read.
Proceed(o, pc) == op' = [op EXCEPT ![o] = [Idle EXCEPT !.pc = pc]]
Start(o, pc) == At(o, "idle") /\ Goto(o, pc)

Mutant_Snapshot == [status |-> user.status, version |-> user.version]
\* What the cache keeps of the row: an anonymised account counts as suspended.
Snapshot == [status |-> IF user.deleted THEN "suspended" ELSE user.status,
             version |-> user.version]

Mutant_Forget(o) == UNCHANGED <<entry, mark>>
\* Cache.delete of the account's key: a load under way must not be written.
DropAuthority(o) == entry' = None /\ mark' = (mark \/ loader # None)

\* Whoever suspends or forgets the account is told so from the drop on.
Told == known' = [version |-> user.version,
                  out |-> user.status = "suspended",
                  gone |-> user.deleted,
                  verified |-> user.status # "pending"]

\* The status active is written: who was told of a suspension need not heed it.
Lift(o) ==
  /\ user' = [user EXCEPT !.status = "active"]
  /\ op' = [x \in Ops |-> IF x = o THEN [Idle EXCEPT !.pc = "dropping"]
                          ELSE [op[x] EXCEPT !.since.out = FALSE]]
  /\ known' = [known EXCEPT !.out = FALSE]
  /\ cut' = FALSE

-----------------------------------------------------------------------------
(***************************************************************************)
(* A request of the account: authMiddleware has read the JWT's claims, the *)
(* policy middleware resolves the authority and enforces it.               *)
(***************************************************************************)
Request(o, v) ==
  /\ At(o, "idle")
  /\ LET r == [Idle EXCEPT !.claim = v, !.since = known] IN
     \/ /\ entry # None
        /\ op' = [op EXCEPT ![o] = [r EXCEPT !.pc = "resolved", !.seen = entry]]
        /\ UNCHANGED loader
     \/ /\ entry = None /\ loader # None
        /\ op' = [op EXCEPT ![o] = [r EXCEPT !.pc = "joined", !.joined = TRUE]]
        /\ UNCHANGED loader
     \/ /\ entry = None /\ loader = None
        /\ op' = [op EXCEPT ![o] = [r EXCEPT !.pc = "loading"]]
        /\ loader' = o
  /\ UNCHANGED <<user, links, tokens, entry, mark, web, faults, history>>

\* The loader's query.
LoadRow(o) ==
  /\ At(o, "loading")
  /\ op' = [op EXCEPT ![o].pc = "loaded", ![o].seen = Snapshot]
  /\ UNCHANGED <<user, links, tokens, cacheVars, web, faults, history>>

Mutant_CacheAnyway(o) == entry' = op[o].seen
\* The loaded value is cached unless the key was invalidated meanwhile.
CacheLoaded(o) == entry' = IF mark THEN entry ELSE op[o].seen

\* The load's promise settles: it is answered to the request and the joined.
Settle(o) ==
  /\ At(o, "loaded")
  /\ CacheLoaded(o)
  /\ loader' = None /\ mark' = FALSE
  /\ op' = [x \in Ops |-> IF x = o \/ op[x].pc = "joined"
                          THEN [op[x] EXCEPT !.pc = "resolved", !.seen = op[o].seen]
                          ELSE op[x]]
  /\ UNCHANGED <<user, links, tokens, web, faults, history>>

\* enforceAuthzPolicy: the account's status, then the session's epoch.
Enforced(r) == r.seen.status # "suspended" /\ r.claim = r.seen.version

Admit(o)  == /\ At(o, "resolved") /\ Enforced(op[o])
             /\ Proceed(o, "admitted")
             /\ UNCHANGED <<user, links, tokens, cacheVars, web, faults, history>>
Refuse(o) == /\ At(o, "resolved") /\ ~Enforced(op[o])
             /\ Finish(o)
             /\ UNCHANGED <<user, links, tokens, cacheVars, web, faults, history>>

\* The route ran and answered.
Answer(o) ==
  /\ At(o, "admitted")
  /\ Finish(o)
  /\ UNCHANGED <<user, links, tokens, cacheVars, web, faults, history>>

\* POST /ws-ticket of an admitted request.
IssueWsTicket(o) ==
  /\ At(o, "admitted")
  /\ tickets + opening + sockets < budget.sockets
  /\ tickets' = tickets + 1
  /\ Finish(o)
  /\ UNCHANGED <<user, links, tokens, cacheVars, opening, sockets, faults, budget, history>>

\* PATCH /users/me/password: the row is read, the current password verified
\* against it, the new one hashed and written by id.
ChangePassword(o) ==
  /\ At(o, "admitted")
  /\ Goto(o, "changing")
  /\ UNCHANGED <<user, links, tokens, cacheVars, web, faults, history>>

-----------------------------------------------------------------------------
(***************************************************************************)
(* WebSockets: GETDEL of the ticket, then addConnection.                   *)
(***************************************************************************)
ConsumeWsTicket ==
  /\ tickets > 0
  /\ tickets' = tickets - 1 /\ opening' = opening + 1
  /\ UNCHANGED <<user, links, tokens, cacheVars, op, sockets, faults, budget, history>>

Mutant_AddConnection ==
  /\ opening > 0
  /\ sockets' = sockets + 1
  /\ UNCHANGED <<user, links, tokens, cacheVars, op, tickets, opening, faults, budget, history>>
AddConnection ==
  /\ opening > 0
  /\ opening' = opening - 1 /\ sockets' = sockets + 1
  /\ UNCHANGED <<user, links, tokens, cacheVars, op, tickets, faults, budget, history>>

\* The client closes, or missed its pings.
RemoveConnection ==
  /\ sockets > 0
  /\ sockets' = sockets - 1
  /\ UNCHANGED <<user, links, tokens, cacheVars, op, tickets, opening, faults, budget, history>>

\* A ticket lives 60 seconds, an entry 300.
TicketExpires ==
  /\ tickets > 0
  /\ tickets' = tickets - 1
  /\ UNCHANGED <<user, links, tokens, cacheVars, op, opening, sockets, faults, budget, history>>

EntryExpires ==
  /\ entry # None
  /\ entry' = None
  /\ UNCHANGED <<user, links, tokens, loader, mark, op, web, faults, history>>

-----------------------------------------------------------------------------
(***************************************************************************)
(* Login: the row is read and the password verified against it; the JWT    *)
(* carries the tokenVersion of that row.                                   *)
(***************************************************************************)
LoginRead(o) ==
  /\ At(o, "idle")
  /\ ~user.deleted /\ user.status # "suspended"
  /\ op' = [op EXCEPT ![o].pc = "loggingIn", ![o].claim = user.version]
  /\ UNCHANGED <<user, links, tokens, cacheVars, web, faults, history>>

Login(o) ==
  /\ At(o, "loggingIn")
  /\ tokens' = tokens \cup {op[o].claim}
  /\ Finish(o)
  /\ UNCHANGED <<user, links, cacheVars, web, faults, history>>

-----------------------------------------------------------------------------
(***************************************************************************)
(* One-time links: forgotPassword and resendVerification read the row,     *)
(* invalidate the links of the kind and insert a new one; resetPassword    *)
(* and verifyEmail read the link and consume it.                           *)
(***************************************************************************)
Issues(o, kind) == op[o].pc \in {"issuing", "cleared"} /\ op[o].link \in kind

\* Links that can be followed or are in a handler's hands.
About(kind) == {l \in kind : links[l] # "used" \/ \E x \in Ops : op[x].link = l}

\* forgotPassword serves an active account, resendVerification a pending one.
\* A link not about stands for the new one.
AskForLink(o, kind) ==
  /\ At(o, "idle")
  /\ \/ kind = ResetLinks /\ ~user.deleted /\ user.status = "active"
     \/ kind = VerifyLinks /\ user.status = "pending"
  /\ \E l \in kind :
       /\ l \notin About(kind)
       /\ Cardinality(About(kind)) < budget.links
       /\ op' = [op EXCEPT ![o].pc = "issuing", ![o].link = l]
  /\ overlapped' = (overlapped \/ \E x \in Ops : Issues(x, kind))
  /\ UNCHANGED <<user, links, tokens, cacheVars, web, faults, known, uses, cut>>

KindOf(l) == IF l \in ResetLinks THEN ResetLinks ELSE VerifyLinks

Mutant_Invalidated(kind) == links
\* invalidateUserPasswordResets, invalidateUserEmailVerifications.
Invalidated(kind) ==
  [l \in Links |-> IF l \in kind THEN "used" ELSE links[l]]

InvalidateLinks(o) ==
  /\ At(o, "issuing")
  /\ links' = Invalidated(KindOf(op[o].link))
  /\ Goto(o, "cleared")
  /\ UNCHANGED <<user, tokens, cacheVars, web, faults, history>>

CreateLink(o) ==
  /\ At(o, "cleared")
  /\ links' = [links EXCEPT ![op[o].link] = "live"]
  /\ uses' = [l \in ResetLinks |-> IF l = op[o].link THEN 0 ELSE uses[l]]
  /\ Finish(o)
  /\ UNCHANGED <<user, tokens, cacheVars, web, faults, known, overlapped, cut>>

LinkExpires(l) ==
  /\ links[l] = "live"
  /\ links' = [links EXCEPT ![l] = "expired"]
  /\ UNCHANGED <<user, tokens, cacheVars, op, web, faults, history>>

\* The link is looked up by its hash: there, not used, not expired.
Follow(o, l) ==
  /\ At(o, "idle")
  /\ links[l] = "live"
  /\ op' = [op EXCEPT ![o].pc = IF l \in ResetLinks THEN "completing" ELSE "verifying",
                      ![o].link = l]
  /\ UNCHANGED <<user, links, tokens, cacheVars, web, faults, history>>

Mutant_Unused(l) == l \in Links
\* The row is updated only while usedAt is null; expiry is not asked again.
Unused(l) == links[l] # "used"

\* The bound on passwords does not hide a second use of one link.
InBounds(l) == user.version < budget.passwords \/ uses[l] > 0

\* completePasswordReset, one transaction: consume the link, set the password.
CompleteReset(o) ==
  LET l == op[o].link IN
  /\ At(o, "completing") /\ Unused(l) /\ InBounds(l)
  /\ links' = [links EXCEPT ![l] = "used"]
  /\ user' = [user EXCEPT !.version = @ + 1]
  /\ uses' = [uses EXCEPT ![l] = @ + 1]
  /\ Proceed(o, "revoking")
  /\ UNCHANGED <<tokens, cacheVars, web, faults, known, overlapped, cut>>

ResetRefused(o) ==
  /\ At(o, "completing") /\ ~Unused(op[o].link)
  /\ Finish(o)
  /\ UNCHANGED <<user, links, tokens, cacheVars, web, faults, history>>

\* verifyEmail: markEmailVerificationUsed, then activateUser, both by id.
MarkVerificationUsed(o) ==
  /\ At(o, "verifying")
  /\ links' = [links EXCEPT ![op[o].link] = "used"]
  /\ Goto(o, "activating")
  /\ UNCHANGED <<user, tokens, cacheVars, web, faults, history>>

ActivateUser(o) ==
  /\ At(o, "activating")
  /\ Lift(o)
  /\ UNCHANGED <<links, tokens, cacheVars, web, faults, uses, overlapped>>

-----------------------------------------------------------------------------
(***************************************************************************)
(* Moderation: the row is read and guarded, then written by id, logged,    *)
(* and the sessions are revoked or the cached authority dropped.           *)
(***************************************************************************)
Moderate(o) ==
  /\ \/ user.status # "suspended" /\ Start(o, "banning")
     \/ user.status = "suspended" /\ Start(o, "unbanning")
     \/ Start(o, "resetting")
     \/ ~user.deleted /\ Start(o, "anonymizing")
  /\ UNCHANGED <<user, links, tokens, cacheVars, web, faults, history>>

Ban(o) ==
  /\ At(o, "banning")
  /\ user' = [user EXCEPT !.status = "suspended"]
  /\ Proceed(o, "revoking")
  /\ UNCHANGED <<links, tokens, cacheVars, web, faults, history>>

Unban(o) ==
  /\ At(o, "unbanning")
  /\ Lift(o)
  /\ UNCHANGED <<links, tokens, cacheVars, web, faults, uses, overlapped>>

Anonymize(o) ==
  /\ At(o, "anonymizing")
  /\ user' = [user EXCEPT !.status = "suspended", !.deleted = TRUE]
  /\ Goto(o, "dropping")
  /\ UNCHANGED <<links, tokens, cacheVars, web, faults, history>>

\* updatePasswordHash and moderation's setPassword.
SetPassword(o) ==
  /\ op[o].pc \in {"changing", "resetting"}
  /\ user.version < budget.passwords
  /\ user' = [user EXCEPT !.version = @ + 1]
  /\ Proceed(o, "revoking")
  /\ UNCHANGED <<links, tokens, cacheVars, web, faults, history>>

Mutant_CloseConnections == UNCHANGED sockets
CloseConnections == sockets' = 0

\* revokeUserSessions.
RevokeUserSessions(o) ==
  /\ At(o, "revoking")
  /\ DropAuthority(o)
  /\ CloseConnections
  /\ Told
  /\ cut' = (cut \/ /\ user.status = "suspended"
                    /\ tickets = 0 /\ opening = 0
                    /\ \A x \in Ops \ {o} : At(x, "idle"))
  /\ Finish(o)
  /\ UNCHANGED <<user, links, tokens, loader, tickets, opening, faults, budget, uses, overlapped>>

\* invalidateUserPermissions alone: no socket is closed.
InvalidateUserPermissions(o) ==
  /\ At(o, "dropping")
  /\ DropAuthority(o)
  /\ Told
  /\ Finish(o)
  /\ UNCHANGED <<user, links, tokens, loader, web, faults, uses, overlapped, cut>>

-----------------------------------------------------------------------------
\* A handler throws between its writes: the log insert fails, say.
Fail(o) ==
  /\ faults < budget.faults
  /\ op[o].pc \in {"issuing", "cleared", "activating", "revoking", "dropping"}
  /\ faults' = faults + 1
  /\ Finish(o)
  /\ UNCHANGED <<user, links, tokens, cacheVars, web, history>>

\* The process dies with its handlers and sockets; PostgreSQL and Redis stay.
Crash ==
  /\ faults < budget.faults
  /\ faults' = faults + 1
  /\ op' = [o \in Ops |-> Idle]
  /\ loader' = None /\ mark' = FALSE
  /\ opening' = 0 /\ sockets' = 0
  /\ UNCHANGED <<user, links, tokens, entry, tickets, budget, history>>

Next ==
  \/ \E o \in Ops :
       \/ \E v \in tokens : Request(o, v)
       \/ LoadRow(o) \/ Settle(o) \/ Admit(o) \/ Refuse(o) \/ Answer(o)
       \/ IssueWsTicket(o) \/ ChangePassword(o) \/ LoginRead(o) \/ Login(o)
       \/ \E kind \in {VerifyLinks, ResetLinks} : AskForLink(o, kind)
       \/ InvalidateLinks(o) \/ CreateLink(o)
       \/ \E l \in Links : Follow(o, l)
       \/ CompleteReset(o) \/ ResetRefused(o) \/ MarkVerificationUsed(o) \/ ActivateUser(o)
       \/ Moderate(o) \/ Ban(o) \/ Unban(o) \/ Anonymize(o) \/ SetPassword(o)
       \/ RevokeUserSessions(o) \/ InvalidateUserPermissions(o) \/ Fail(o)
  \/ \E l \in Links : LinkExpires(l)
  \/ ConsumeWsTicket \/ AddConnection \/ RemoveConnection \/ TicketExpires
  \/ EntryExpires \/ Crash

Spec == Init /\ [][Next]_vars

-----------------------------------------------------------------------------
\* Requests the policy lets through and that did not share an older load.
LetThrough == {o \in Ops : At(o, "resolved") /\ Enforced(op[o]) /\ ~op[o].joined}

(***************************************************************************)
(* A session of an older password is refused from the moment its           *)
(* revocation was done: whoever logged in, however late, with a password   *)
(* that was replaced, and whatever loads of the authority were under way   *)
(* (features/auth resetPassword, features/users changePassword, moderation *)
(* resetPassword; shared/rbac/session-revocation.ts).                      *)
(***************************************************************************)
RevokedStaysOut == \A o \in LetThrough : op[o].claim >= op[o].since.version

(***************************************************************************)
(* "The suspension is effective at once" (docs/integration/moderation.md): *)
(* a request that began after the drop of the cache is refused until       *)
(* somebody writes another status, a request that began after the          *)
(* account was anonymised always, even when it is unbanned or an old       *)
(* verification link is followed.                                          *)
(***************************************************************************)
SuspendedStaysOut == \A o \in LetThrough : ~op[o].since.out

AnonymizedStaysOut == \A o \in LetThrough : ~op[o].since.gone

(***************************************************************************)
(* The limits of an unverified account end with its verification           *)
(* (verified-user.middleware.ts: "ANINDA kalkar"): no later request still   *)
(* sees it pending.                                                        *)
(***************************************************************************)
VerifiedAtOnce ==
  \A o \in LetThrough : op[o].since.verified => op[o].seen.status # "pending"

(***************************************************************************)
(* A reset link sets one password (completePasswordReset), however many    *)
(* requests follow it at once.                                             *)
(***************************************************************************)
ResetOnce == \A l \in ResetLinks : uses[l] <= 1

(***************************************************************************)
(* "At one time only ONE valid link is about" (auth.service.ts,            *)
(* issueVerificationEmail), of each kind; two requests for a link that     *)
(* overlap may leave two.                                                  *)
(***************************************************************************)
OneLiveLink ==
  ~overlapped => \A kind \in {VerifyLinks, ResetLinks} :
                   Cardinality({l \in kind : links[l] = "live"}) <= 1

(***************************************************************************)
(* Every variable keeps its type; a reset link sets one password, and a    *)
(* request for a link leaves one of its kind alive.                        *)
(***************************************************************************)
LinksSound == TypeOK /\ ResetOnce /\ OneLiveLink

(***************************************************************************)
(* An account suspended when no ticket of it was about and no request      *)
(* under way has no socket, and gets none, until another status is         *)
(* written (revokeUserSessions and the ticket's admission together).       *)
(***************************************************************************)
SuspendedHearsNothing == cut => tickets + opening + sockets = 0

-----------------------------------------------------------------------------
(***************************************************************************)
(* Bounds and symmetry for TLC: a socket, a fault, or two links of a kind; *)
(* handlers and links are interchangeable.                                 *)
(***************************************************************************)
OneThing == {[sockets |-> 1, faults |-> 0, links |-> 1, passwords |-> 1],
             [sockets |-> 0, faults |-> 1, links |-> 1, passwords |-> 1],
             [sockets |-> 0, faults |-> 0, links |-> 2, passwords |-> 1]}

SessionSymmetry ==
  Permutations(Ops) \cup Permutations(VerifyLinks) \cup Permutations(ResetLinks)
=============================================================================
