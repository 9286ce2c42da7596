------------------------------ MODULE Accounts ------------------------------
(***************************************************************************)
(* How one e-mail address becomes an account: by registering in the tenant *)
(* that owns its domain, by accepting an invitation to administer that     *)
(* tenant, or by being made a platform account.  The index of users is     *)
(* unique per tenant, so an address may have one account in the tenant and *)
(* one on the platform.                                                    *)
(*                                                                         *)
(* An invitation is written in one transaction and mailed after it         *)
(* commits; its token exists in that mail only.                            *)
(***************************************************************************)
EXTENDS Naturals, FiniteSets, Names

CONSTANTS Invitations, AccountRequests,
          MaxAccountReqs,   \* bound: requests ever begun
          MailAttempts,     \* of the mail queue
          NoInvitation

ASSUME AccountsAssumption == MaxAccountReqs \in Nat /\ MailAttempts \in Nat \ {0}

VARIABLES account,        \* of the tenant: "none", "registered" or "invited"
          platform,       \* the address has a platform account
          invitation,     \* "none", "pending", "accepted" or "cancelled"
          expired,        \* invitations past expiresAt
          mail,           \* "unsent", "queued", "sent" or "dead"
          tries,          \* attempts made at the mail of each invitation
          accReq, begunAccounts,
          metInvite,      \* history: two requests to invite overlapped
          metAccount,     \* history: two requests to make an account overlapped
          unmailed,       \* history: committed, but the mail was never queued
          withdrawn       \* history: invitations whose cancellation was answered

accountsVars == <<account, platform, invitation, expired, mail, tries, accReq, begunAccounts,
                  metInvite, metAccount, unmailed, withdrawn>>

NoAccReq == [op |-> "none", pc |-> "idle", inv |-> NoInvitation]

AccountsInit ==
  /\ account = "none" /\ platform = FALSE
  /\ invitation = [i \in Invitations |-> "none"] /\ expired = {}
  /\ mail = [i \in Invitations |-> "unsent"] /\ tries = [i \in Invitations |-> 0]
  /\ accReq = [r \in AccountRequests |-> NoAccReq] /\ begunAccounts = 0
  /\ metInvite = FALSE /\ metAccount = FALSE /\ unmailed = {} /\ withdrawn = {}

\* findUserByEmailInTx: the address has an account anywhere.
Taken == account # "none" \/ platform
Pending(i) == invitation[i] = "pending" /\ i \notin expired

----------------------------------------------------------------------------
(* Beginning: the reads that come before the transaction or statement that *)
(* writes.                                                                 *)

Makers == {"register", "accept", "provision"}
BeginAccReq(r, op, i, ok) ==
  /\ accReq[r] = NoAccReq /\ begunAccounts < MaxAccountReqs /\ ok
  /\ accReq' = [accReq EXCEPT ![r] = [op |-> op, pc |-> "write", inv |-> i]]
  /\ begunAccounts' = begunAccounts + 1
  /\ LET others == {accReq[q].op : q \in AccountRequests \ {r}} IN
     /\ metInvite' = (metInvite \/ (op = "invite" /\ "invite" \in others))
     /\ metAccount' = (metAccount \/ (op \in Makers /\ others \cap Makers # {}))
  /\ UNCHANGED <<tries, account, platform, invitation, expired, mail, unmailed, withdrawn>>

\* registerSelfService looks in the tenant only.
RegisterAccount(r) == BeginAccReq(r, "register", NoInvitation, account = "none")
\* provisionPlatformAccountInTx
ProvisionPlatform(r) == BeginAccReq(r, "provision", NoInvitation, ~Taken)

\* Mutant: a pending invitation is no obstacle.
Mutant_InvitesTwice == ~Taken
\* createTenantAdminInvitationInTx: nobody has the address, nor a pending
\* invitation to it.
MayInvite == ~Taken /\ \A i \in Invitations : ~Pending(i)
Invite(r, i) ==
  BeginAccReq(r, "invite", i, /\ MayInvite /\ invitation[i] = "none"
                              /\ \A q \in AccountRequests : accReq[q].inv # i)
\* cancelTenantAdminInvitation
CancelInvitation(r, i) == BeginAccReq(r, "cancel", i, Pending(i))
\* acceptTenantAdminInvitation, by whoever got the mail: assertInvitationAcceptable
AcceptInvitation(r, i) == BeginAccReq(r, "accept", i, mail[i] = "sent" /\ Pending(i))

----------------------------------------------------------------------------
(* Writing. *)

Finish(r) == accReq' = [accReq EXCEPT ![r] = NoAccReq]

\* email_per_university_idx, platform_user_email_idx: a second row is refused.
InsertAccount(r) ==
  LET op == accReq[r].op IN
  /\ op \in {"register", "provision"} /\ accReq[r].pc = "write"
  /\ account' = IF op = "register" /\ account = "none" THEN "registered" ELSE account
  /\ platform' = (platform \/ op = "provision")
  /\ Finish(r)
  /\ UNCHANGED <<tries, invitation, expired, mail, begunAccounts, metInvite, metAccount, unmailed,
                 withdrawn>>

\* Mutant: what was registered for after the commit runs whatever became of it.
Mutant_MailsAnyway(committed) == TRUE
\* afterCommits run once the transaction resolved.
MayMail(committed) == committed

\* The transaction of an invitation commits, or rolls back with whatever
\* else it held (onboardTenant).
CommitInvite(r, commits) ==
  LET i == accReq[r].inv IN
  /\ accReq[r].op = "invite" /\ accReq[r].pc = "write"
  /\ invitation' = IF commits THEN [invitation EXCEPT ![i] = "pending"] ELSE invitation
  /\ IF MayMail(commits) THEN accReq' = [accReq EXCEPT ![r].pc = "mail"] ELSE Finish(r)
  /\ UNCHANGED <<tries, account, platform, expired, mail, begunAccounts, metInvite, metAccount,
                 unmailed, withdrawn>>

\* queueTenantAdminInvitationEmail; the queue refuses it, or the process
\* stops before, and nothing tries again.
QueueInvite(r, lost) ==
  LET i == accReq[r].inv IN
  /\ accReq[r].pc = "mail"
  /\ mail' = IF lost THEN mail ELSE [mail EXCEPT ![i] = "queued"]
  /\ unmailed' = IF lost THEN unmailed \cup {i} ELSE unmailed
  /\ Finish(r)
  /\ UNCHANGED <<tries, account, platform, invitation, expired, begunAccounts, metInvite,
                 metAccount, withdrawn>>

\* emailWorker
SendMail(i, fails) ==
  /\ mail[i] = "queued"
  /\ tries' = [tries EXCEPT ![i] = @ + 1]
  /\ mail' = [mail EXCEPT ![i] = IF ~fails THEN "sent" ELSE IF tries'[i] = MailAttempts THEN "dead" ELSE @]
  /\ UNCHANGED <<account, platform, invitation, expired, accReq, begunAccounts, metInvite,
                 metAccount, unmailed, withdrawn>>

\* Mutant: the update is by id alone.
Mutant_ById(i) == TRUE
\* markAcceptedInTx, markCancelled: neither accepted nor cancelled so far.
StillOpen(i) == invitation[i] = "pending"

MarkCancelled(r) ==
  LET i == accReq[r].inv IN
  /\ accReq[r].op = "cancel"
  /\ invitation' = IF StillOpen(i) THEN [invitation EXCEPT ![i] = "cancelled"] ELSE invitation
  /\ withdrawn' = IF StillOpen(i) THEN withdrawn \cup {i} ELSE withdrawn
  /\ Finish(r)
  /\ UNCHANGED <<tries, account, platform, expired, mail, begunAccounts, metInvite, metAccount,
                 unmailed>>

\* The transaction looks for the address first...
LookForAddress(r) ==
  /\ accReq[r].op = "accept" /\ accReq[r].pc = "write"
  /\ IF Taken THEN Finish(r) ELSE accReq' = [accReq EXCEPT ![r].pc = "mark"]
  /\ UNCHANGED <<tries, account, platform, invitation, expired, mail, begunAccounts, metInvite,
                 metAccount, unmailed, withdrawn>>
\* ...and commits the mark with the account, or neither when the index
\* refuses the account.
MarkAccepted(r) ==
  LET i == accReq[r].inv
      done == StillOpen(i) /\ account = "none" IN
  /\ accReq[r].pc = "mark"
  /\ invitation' = IF done THEN [invitation EXCEPT ![i] = "accepted"] ELSE invitation
  /\ account' = IF done THEN "invited" ELSE account
  /\ Finish(r)
  /\ UNCHANGED <<tries, platform, expired, mail, begunAccounts, metInvite, metAccount, unmailed,
                 withdrawn>>

Expire(i) ==
  /\ Pending(i) /\ expired' = expired \cup {i}
  /\ UNCHANGED <<tries, account, platform, invitation, mail, accReq, begunAccounts, metInvite,
                 metAccount, unmailed, withdrawn>>

AccountsNext ==
  \/ \E i \in Invitations : Expire(i) \/ \E fails \in BOOLEAN : SendMail(i, fails)
  \/ \E r \in AnyOne({q \in AccountRequests : accReq[q] = NoAccReq}) :
       \/ RegisterAccount(r) \/ ProvisionPlatform(r)
       \/ \E i \in Invitations : Invite(r, i) \/ CancelInvitation(r, i) \/ AcceptInvitation(r, i)
  \/ \E r \in AccountRequests :
       \/ InsertAccount(r) \/ MarkCancelled(r) \/ LookForAddress(r) \/ MarkAccepted(r)
       \/ \E b \in BOOLEAN : CommitInvite(r, b) \/ QueueInvite(r, b)

AccountsSpec == AccountsInit /\ [][AccountsNext]_accountsVars

----------------------------------------------------------------------------
AccountsTypeOK ==
  /\ account \in {"none", "registered", "invited"} /\ platform \in BOOLEAN
  /\ invitation \in [Invitations -> {"none", "pending", "accepted", "cancelled"}]
  /\ mail \in [Invitations -> {"unsent", "queued", "sent", "dead"}]
  /\ tries \in [Invitations -> 0..MailAttempts]
  /\ \A r \in AccountRequests : accReq[r].pc \in {"idle", "write", "mark", "mail"}
  /\ begunAccounts \in 0..MaxAccountReqs /\ {metInvite, metAccount} \subseteq BOOLEAN
  /\ expired \cup unmailed \cup withdrawn \subseteq Invitations
\* One accepted invitation and the account it made, or neither.
AcceptedOnce ==
  Cardinality({i \in Invitations : invitation[i] = "accepted"}) = IF account = "invited" THEN 1 ELSE 0
StaysWithdrawn == \A i \in withdrawn : invitation[i] # "accepted"
OnePending == metInvite \/ Cardinality({i \in Invitations : Pending(i)}) <= 1
\* An invited account is the only one of its address; a registered one may
\* stand beside a platform account.
OnlyAccount == account = "invited" /\ platform => metAccount
\* Only what is committed is mailed, and it is, but where the mail was lost.
MailFollowsCommit == \A i \in Invitations :
  /\ mail[i] # "unsent" => invitation[i] # "none"
  /\ invitation[i] # "none" /\ mail[i] = "unsent" /\ i \notin unmailed =>
       \E r \in AccountRequests : accReq[r].inv = i /\ accReq[r].pc = "mail"

(* Every variable keeps its type; an invitation is accepted exactly when   *)
(* its account was made, once, and never after its cancellation was        *)
(* answered (tenant-admin-invitations.repository.ts:83); two are pending   *)
(* only if two requests to invite met (auth.service.ts:610); an invited    *)
(* account has its address to itself unless two requests to make one met   *)
(* (auth.service.ts:556, :705); and a mail goes out for every committed    *)
(* invitation and for no other, unless the process stops between           *)
(* (auth.service.ts:659).                                                  *)
AccountsSound ==
  AccountsTypeOK /\ AcceptedOnce /\ StaysWithdrawn /\ OnePending /\ OnlyAccount /\ MailFollowsCommit
=============================================================================
