------------------------------ MODULE Tenants ------------------------------
(***************************************************************************)
(* One tenant: its status, the cached status every request of its users is *)
(* judged by, its e-mail domains, its deletion, and the two ways in which  *)
(* users come: registrations that find the tenant through a domain, and    *)
(* invitations, which name the tenant and outlive its deletion.            *)
(*                                                                         *)
(* Every operation reads, then writes in a later statement that repeats    *)
(* little of what it read; the status is written to the cache last, by     *)
(* whoever changed it.                                                     *)
(***************************************************************************)
EXTENDS Naturals, FiniteSets, Names

CONSTANTS Domains,          \* domains of this tenant
          TenantRequests,   \* requests that may overlap
          MaxTenantReqs,    \* bound: requests ever begun
          NoStatus          \* nothing cached

ASSUME TenantsAssumption ==
  Domains # {} /\ IsFiniteSet(TenantRequests) /\ MaxTenantReqs \in Nat

Statuses == {"trial", "active", "past_due", "suspended"}

VARIABLES tenant,        \* [status, deleted]
          domains,       \* university_domains of the tenant
          residents,     \* users rows of the tenant
          invited,       \* invitations neither accepted nor cancelled; one that has
                         \* expired is one that nobody accepts any more
          statusCache, statusLoad,  \* rbac:tenant-status, and what a load read
          tenantReq,
          begunTenantReqs,
          metRemoval,    \* history: a removal overlapped another request
          metChange,     \* history: two changes of status overlapped
          jumped,        \* history: back to trial, or past due without being active
          laggingStatus, \* the cached status is old until its TTL
          judgedOld      \* history: an invitation into the deleted tenant was accepted
                         \* on a cached status that was old

tenantVars == <<tenant, domains, residents, invited, statusCache, statusLoad, tenantReq,
                begunTenantReqs, metRemoval, metChange, jumped, laggingStatus, judgedOld>>

NoTenantReq == [op |-> "none", pc |-> "idle", arg |-> NoStatus]

TenantsInit ==
  /\ tenant \in {[status |-> s, deleted |-> FALSE] : s \in {"trial", "active"}}
  /\ domains = Domains /\ residents = 0 /\ invited \in {0, 1}
  /\ statusCache = NoStatus /\ statusLoad = NoStatus
  /\ tenantReq = [r \in TenantRequests |-> NoTenantReq] /\ begunTenantReqs = 0
  /\ metRemoval = FALSE /\ metChange = FALSE /\ jumped = FALSE /\ laggingStatus = FALSE
  /\ judgedOld = FALSE

----------------------------------------------------------------------------
(* The cached status. *)

\* findTenantStatusSnapshot
Snapshot == [status |-> IF tenant.deleted THEN NoStatus ELSE tenant.status, deleted |-> tenant.deleted]
\* tenantBlocksAccess; a status of NoStatus stands for null.
Blocks(snapshot) == snapshot.deleted \/ snapshot.status = "suspended"
Seen == IF statusCache = NoStatus THEN Snapshot ELSE statusCache

\* enforceTenantStatus of any request of a user; the load may be slow.
LoadStatus ==
  /\ statusCache = NoStatus /\ statusLoad = NoStatus /\ statusLoad' = Snapshot
  /\ UNCHANGED <<tenant, domains, residents, invited, statusCache, tenantReq, begunTenantReqs,
                 metRemoval, metChange, jumped, laggingStatus, judgedOld>>
CacheStatus ==
  /\ statusLoad # NoStatus
  /\ statusCache' = statusLoad /\ statusLoad' = NoStatus
  /\ laggingStatus' = (statusLoad # Snapshot)
  /\ UNCHANGED <<tenant, domains, residents, invited, tenantReq, begunTenantReqs, metRemoval,
                 metChange, jumped, judgedOld>>
\* TTL_SECONDS
StatusExpires ==
  /\ statusCache # NoStatus /\ statusCache' = NoStatus /\ laggingStatus' = FALSE
  /\ UNCHANGED <<tenant, domains, residents, invited, statusLoad, tenantReq, begunTenantReqs,
                 metRemoval, metChange, jumped, judgedOld>>

----------------------------------------------------------------------------
(* The first half of a request: what it reads and what it refuses. *)

\* Mutant: any other status will do.
Mutant_AnyMove(from, to) == from # to
\* isAllowedStatusTransition
AllowedMove(from, to) ==
  \/ from = "trial"     /\ to \in {"active", "suspended"}
  \/ from = "active"    /\ to \in {"past_due", "suspended"}
  \/ from = "past_due"  /\ to \in {"active", "suspended"}
  \/ from = "suspended" /\ to = "active"

\* Mutant: a tenant with users may go.
Mutant_DeletesAny(op) == TRUE
\* deleteUniversity, deleteDomain: what forbids the removal.
MayGo(op) == IF op = "delete" THEN residents = 0 ELSE Cardinality(domains) > 1

\* Mutant: the tenant's status is not asked.
Mutant_AcceptsAnyway == invited > 0
\* assertInvitationAcceptable, assertTenantAcceptsNewUsers; neither the tenant's
\* row nor its domains are looked at.
MayAccept == invited > 0 /\ ~Blocks(Seen)

\* The operations of the platform do not find a deleted tenant.
Found == ~tenant.deleted
Removals == {"delete", "dropDomain"}
BeginTenantReq(r, op, arg, ok) ==
  /\ tenantReq[r] = NoTenantReq /\ begunTenantReqs < MaxTenantReqs /\ ok
  /\ tenantReq' = [tenantReq EXCEPT ![r] = [op |-> op, pc |-> "write", arg |-> arg]]
  /\ begunTenantReqs' = begunTenantReqs + 1
  /\ LET others == {tenantReq[q].op : q \in TenantRequests \ {r}} \ {"none"} IN
     /\ metRemoval' = (metRemoval \/ others \cap Removals # {} \/ (op \in Removals /\ others # {}))
     /\ metChange'  = (metChange \/ (op = "status" /\ "status" \in others))
  /\ judgedOld' = (judgedOld \/ (op = "accept" /\ tenant.deleted /\ laggingStatus))
  /\ UNCHANGED <<tenant, domains, residents, invited, statusCache, statusLoad, jumped, laggingStatus>>

ChangeStatus(r, to) == BeginTenantReq(r, "status", to, Found /\ AllowedMove(tenant.status, to))
DeleteTenant(r)     == BeginTenantReq(r, "delete", NoStatus, Found /\ MayGo("delete"))
DropDomain(r, d)    == BeginTenantReq(r, "dropDomain", d, Found /\ d \in domains /\ MayGo("dropDomain"))
AddDomain(r, d)     == BeginTenantReq(r, "addDomain", d, Found /\ d \notin domains)
\* registerSelfService: a domain of a tenant that is not seen as blocked.
Register(r)         == BeginTenantReq(r, "register", NoStatus, domains # {} /\ ~Blocks(Seen))
\* inviteTenantAdmin: an address in one of the tenant's domains.
InviteAdmin(r)      == BeginTenantReq(r, "invite", NoStatus, Found /\ domains # {})
CancelInvite(r)     == BeginTenantReq(r, "cancel", NoStatus, Found /\ invited > 0)
AcceptInvite(r)     == BeginTenantReq(r, "accept", NoStatus, MayAccept)

----------------------------------------------------------------------------
(* The second half: the write. *)

\* Mutant: the cache is left to its TTL.
Mutant_CacheLater(to) == statusCache
\* setTenantStatusCache
WrittenThrough(to) == [status |-> to, deleted |-> FALSE]

\* updateTenantLifecycleInTx; a deleted tenant is not found.
WriteStatus(r) ==
  LET to == tenantReq[r].arg IN
  /\ tenantReq[r].op = "status" /\ tenantReq[r].pc = "write"
  /\ IF tenant.deleted
     THEN tenantReq' = [tenantReq EXCEPT ![r] = NoTenantReq] /\ UNCHANGED <<tenant, jumped>>
     ELSE /\ tenantReq' = [tenantReq EXCEPT ![r].pc = "cache"]
          /\ tenant' = [tenant EXCEPT !.status = to]
          /\ jumped' = (jumped \/ to = "trial" \/ (to = "past_due" /\ tenant.status \notin {"active", to}))
  /\ UNCHANGED <<domains, residents, invited, statusCache, statusLoad, begunTenantReqs, metRemoval,
                 metChange, laggingStatus, judgedOld>>
\* A failing store answers the request with an error, with the status written;
\* the same request again is refused as no change.
SetStatusCache(r, fails) ==
  /\ tenantReq[r].pc = "cache"
  /\ IF fails
     THEN laggingStatus' = (laggingStatus \/ statusCache # NoStatus) /\ UNCHANGED statusCache
     ELSE /\ statusCache' = WrittenThrough(tenantReq[r].arg)
          /\ laggingStatus' = (tenant # [status |-> tenantReq[r].arg, deleted |-> FALSE])
  /\ tenantReq' = [tenantReq EXCEPT ![r] = NoTenantReq]
  /\ UNCHANGED <<tenant, domains, residents, invited, statusLoad, begunTenantReqs, metRemoval,
                 metChange, jumped, judgedOld>>

DomainsAfter(q) == CASE q.op = "delete"     -> {}
                     [] q.op = "dropDomain" -> domains \ {q.arg}
                     [] q.op = "addDomain"  -> domains \cup {q.arg}
                     [] OTHER               -> domains

\* One statement or transaction each; the rows of users and domains refer to
\* the tenant's row, which a deletion keeps.
WriteOther(r) ==
  LET q == tenantReq[r] IN
  /\ q.op \in {"delete", "dropDomain", "addDomain", "register"}
  /\ tenant' = IF q.op = "delete" THEN [tenant EXCEPT !.deleted = TRUE] ELSE tenant
  /\ domains' = DomainsAfter(q)
  /\ residents' = IF q.op = "register" THEN residents + 1 ELSE residents
  /\ laggingStatus' = (laggingStatus \/ (q.op = "delete" /\ statusCache # NoStatus))
  /\ tenantReq' = [tenantReq EXCEPT ![r] = NoTenantReq]
  /\ UNCHANGED <<invited, statusCache, statusLoad, begunTenantReqs, metRemoval, metChange, jumped,
                 judgedOld>>

\* markCancelled and markAcceptedInTx ask again that the invitation is open,
\* and the address must be free; who accepts is a user in the same transaction.
WriteInvitation(r, succeeds) ==
  LET op == tenantReq[r].op IN
  /\ op \in {"invite", "cancel", "accept"} /\ (succeeds => op = "invite" \/ invited > 0)
  /\ invited' = IF ~succeeds THEN invited ELSE IF op = "invite" THEN invited + 1 ELSE invited - 1
  /\ residents' = IF succeeds /\ op = "accept" THEN residents + 1 ELSE residents
  /\ tenantReq' = [tenantReq EXCEPT ![r] = NoTenantReq]
  /\ UNCHANGED <<tenant, domains, statusCache, statusLoad, begunTenantReqs, metRemoval, metChange,
                 jumped, laggingStatus, judgedOld>>

TenantsNext ==
  \/ LoadStatus \/ CacheStatus \/ StatusExpires
  \/ \E r \in AnyOne({q \in TenantRequests : tenantReq[q] = NoTenantReq}) :
       \/ \E to \in Statuses : ChangeStatus(r, to)
       \/ \E d \in Domains : DropDomain(r, d) \/ AddDomain(r, d)
       \/ DeleteTenant(r) \/ Register(r)
       \/ InviteAdmin(r) \/ CancelInvite(r) \/ AcceptInvite(r)
  \/ \E r \in TenantRequests :
       \/ WriteStatus(r) \/ WriteOther(r)
       \/ \E fails \in BOOLEAN : SetStatusCache(r, fails) \/ WriteInvitation(r, ~fails)

TenantsSpec == TenantsInit /\ [][TenantsNext]_tenantVars

----------------------------------------------------------------------------
TenantsTypeOK ==
  /\ tenant \in [status : Statuses, deleted : BOOLEAN] /\ domains \subseteq Domains
  /\ residents \in 0..MaxTenantReqs /\ invited \in 0..(MaxTenantReqs + 1)
  /\ begunTenantReqs \in 0..MaxTenantReqs
  /\ {statusCache, statusLoad} \subseteq
       [status : Statuses \cup {NoStatus}, deleted : BOOLEAN] \cup {NoStatus}
  /\ \A r \in TenantRequests : tenantReq[r].pc \in {"idle", "write", "cache"}
  /\ {metRemoval, metChange, jumped, laggingStatus, judgedOld} \subseteq BOOLEAN

\* A deleted tenant keeps no domain and nobody lives in it but who accepted an
\* invitation on a cached status older than the deletion; and a tenant that is
\* not deleted keeps a domain, unless a removal met another request.
NothingLeftBehind ==
  ~metRemoval => IF tenant.deleted THEN domains = {} /\ (residents = 0 \/ judgedOld) ELSE domains # {}
\* A tenant is never on trial again, and it falls past due from active only
\* (a suspended one comes back as active), unless two changes met.
MovesAllowed == ~metChange => ~jumped
\* Between requests the cached status is the tenant's.
StatusFollows ==
  (\A r \in TenantRequests : tenantReq[r] = NoTenantReq) /\ ~laggingStatus =>
    statusCache \in {NoStatus, Snapshot}

(* Every variable keeps its type; a deletion or the removal of the last    *)
(* domain leaves nothing behind unless it meets another request between    *)
(* its look and its write (university.service.ts:179, :247), but an        *)
(* invitation stays open and can be accepted until the cached status is    *)
(* read anew (auth.service.ts:697); the status moves as                    *)
(* isAllowedStatusTransition says unless two changes meet                  *)
(* (tenants.service.ts:69); and the cached status follows it, but for a    *)
(* load that read before the change, a change that wrote the cache after   *)
(* a later one, a failing store (tenants.service.ts:85), and a deletion,   *)
(* which leaves the cache to its TTL.                                      *)
TenantsSound == TenantsTypeOK /\ NothingLeftBehind /\ MovesAllowed /\ StatusFollows
=============================================================================
