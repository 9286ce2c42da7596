----------------------------- MODULE Authority -----------------------------
(***************************************************************************)
(* Who may do what: the roles users hold, the permissions and the rank of  *)
(* a role, the requests that change them, and the cached authority that    *)
(* every other request is judged by.                                       *)
(*                                                                         *)
(* A request is judged on the caller's cached authority and on what it     *)
(* reads of the target and the role; it writes in a later statement and    *)
(* drops the cached authority of those affected last.  The core roles keep *)
(* their rows, and one further role is the tenant's own.  Whoever holds a  *)
(* role with the super admin's NAME is judged a super admin, whichever row *)
(* bears it, and the tenant's role may be given that name.                 *)
(***************************************************************************)
EXTENDS Integers, FiniteSets, FiniteSetsExt, Names

CONSTANTS Roots, Deans, Pupils,     \* super admins, the tenant's admins, its other users
          SuperAdmin, UniAdmin, Student, Custom,
          RankOf,                   \* the rank of each core role
          CustomRanks,              \* ranks the tenant's own role may be given
          OwnPerm,                  \* an ordinary permission of admins
          ManagePerm, GrantPerm,    \* role.manage, permission.manage
          RoleRequests,             \* requests that may overlap
          MaxRoleRequests,          \* bound: requests ever begun
          CachedUsers,              \* bound: whose authority the cache ever holds
          Uncached

Core == {SuperAdmin, UniAdmin, Student}
People == Roots \cup Deans \cup Pupils
Perms == {OwnPerm, ManagePerm, GrantPerm}
PlatformPerms == {ManagePerm, GrantPerm}

ASSUME AuthorityAssumption ==
  /\ RankOf \in [Core -> Nat] /\ CustomRanks \subseteq Nat
  /\ RankOf[Student] < RankOf[UniAdmin] /\ RankOf[UniAdmin] < RankOf[SuperAdmin]
  /\ Custom \notin Core /\ OwnPerm \notin PlatformPerms /\ ManagePerm # GrantPerm
  /\ IsFiniteSet(People) /\ CachedUsers \subseteq People
  /\ Roots # {} /\ Deans # {} /\ Roots \cap Deans = {}
  /\ MaxRoleRequests \in Nat

VARIABLES holds,    \* user_roles
          override, \* user_permissions on OwnPerm: "granted", "denied" or "none"
          custom,   \* the tenant's own role: [there, name, rank, perms]
          authz,    \* rbac:permissions of each user, or Uncached
          loading,  \* a load of it: what it read, or Uncached
          roleReq,
          begunReqs, superActed, removalsMet,  \* history
          outdated  \* users whose cached authority nobody drops before its TTL

authorityVars ==
  <<holds, override, custom, authz, loading, roleReq, begunReqs, superActed, removalsMet, outdated>>

\* The names the tenant's role may bear: one of its own, or the super admin's.
RoleNames == {Custom, SuperAdmin}
NoRole == [there |-> FALSE, name |-> Custom, rank |-> 0, perms |-> {}]
NoRoleReq == [op |-> "none", pc |-> "idle", on |-> Uncached, role |-> Uncached, arg |-> Uncached,
              drop |-> {}]
Ops == {"none", "assign", "remove", "override", "create", "rename", "rank", "attach", "detach",
        "delete"}

NameOf(role) == IF role = Custom THEN custom.name ELSE role
Rank(role) == IF role = Custom THEN custom.rank ELSE RankOf[role]
PermsOf(role) == CASE role = SuperAdmin -> Perms [] role = UniAdmin -> Perms \ {GrantPerm}
                   [] role = Custom -> custom.perms [] OTHER -> {}
\* getEffectiveRolesAndPermissions, and isSuperAdmin: the name of a role.
Effective(u) == [super |-> \E role \in holds[u] : NameOf(role) = SuperAdmin,
                 rank  |-> Max({0} \cup {Rank(role) : role \in holds[u]}),
                 perms |-> ((UNION {PermsOf(role) : role \in holds[u]})
                              \cup {p \in {OwnPerm} : override[u] = "granted"})
                             \ {p \in {OwnPerm} : override[u] = "denied"}]
Holders(role) == {u \in People : role \in holds[u]}

AuthorityInit ==
  /\ holds = [u \in People |-> IF u \in Roots THEN {SuperAdmin}
                               ELSE IF u \in Deans THEN {UniAdmin} ELSE {Student}]
  /\ override = [u \in People |-> "none"] /\ custom = NoRole
  /\ authz = [u \in People |-> Uncached] /\ loading = [u \in People |-> Uncached]
  /\ roleReq = [r \in RoleRequests |-> NoRoleReq]
  /\ begunReqs = 0 /\ superActed = FALSE /\ removalsMet = FALSE /\ outdated = {}

----------------------------------------------------------------------------
(* The cached authority. *)

Resolved(u) == IF authz[u] = Uncached THEN Effective(u) ELSE authz[u]

\* A load by another process: its drop of the key does not reach this one.
LoadAuthz(u) ==
  /\ u \in CachedUsers /\ authz[u] = Uncached /\ loading[u] = Uncached
  /\ loading' = [loading EXCEPT ![u] = Effective(u)]
  /\ UNCHANGED <<holds, override, custom, authz, roleReq, begunReqs, superActed, removalsMet, outdated>>
CacheAuthz(u) ==
  /\ loading[u] # Uncached
  /\ authz' = [authz EXCEPT ![u] = loading[u]] /\ loading' = [loading EXCEPT ![u] = Uncached]
  /\ outdated' = IF loading[u] = Effective(u) THEN outdated ELSE outdated \cup {u}
  /\ UNCHANGED <<holds, override, custom, roleReq, begunReqs, superActed, removalsMet>>
\* TTL_SECONDS
AuthzExpires(u) ==
  /\ authz[u] # Uncached /\ authz' = [authz EXCEPT ![u] = Uncached]
  /\ outdated' = outdated \ {u}
  /\ UNCHANGED <<holds, override, custom, loading, roleReq, begunReqs, superActed, removalsMet>>

----------------------------------------------------------------------------
(* What a request asks before it writes.  a is the caller's authority. *)

\* Mutant: an equal rank will do.
Mutant_EqualRank(a, rank) == rank <= a.rank
\* assertActorOutranksRole, assertActorOutranksUser
Outranks(a, rank) == rank < a.rank
\* assertRoleAssignable; the tenant's own role is for its own users.
MayTouchRole(a, role) == a.super \/ (role # SuperAdmin /\ Outranks(a, Rank(role)))
MayTouchUser(a, u) == a.super \/ (u \notin Roots /\ Outranks(a, Resolved(u).rank))

\* Mutant: the last one may go.
Mutant_LastMayGo(u, role) == TRUE
\* assertNotLastAdminOfScope: of the platform, or of the user's tenant.
OthersRemain(u, role) ==
  /\ role = SuperAdmin /\ role \in holds[u] => Cardinality(Holders(role)) > 1
  /\ role = UniAdmin /\ role \in holds[u] /\ u \notin Roots =>
       Cardinality(Holders(role) \ Roots) > 1

MayAssign(a, me, u, role) ==
  /\ role = Custom => custom.there /\ u \notin Roots
  /\ MayTouchRole(a, role) /\ (me # u => MayTouchUser(a, u)) /\ role \notin holds[u]
MayRemove(a, me, u, role) ==
  /\ role = Custom => custom.there
  /\ me # u /\ MayTouchRole(a, role) /\ MayTouchUser(a, u) /\ OthersRemain(u, role)
\* What shapes the role: assertRoleManageable, the ceiling of a rank,
\* assertPermissionAttachable.  CORE_ROLE_NAMES keeps the name, the rank and the
\* row of a role that has such a name; a new name is not looked at.
MayShape(a, op, arg) ==
  /\ custom.there = (op # "create")
  /\ a.super \/ (op # "create" => Outranks(a, custom.rank))
  /\ op \in {"rename", "rank", "delete"} => custom.name = Custom
  /\ op = "create" => a.super \/ Outranks(a, arg.rank)
  /\ op = "rank" => a.super \/ Outranks(a, arg)
  /\ op = "attach" => /\ arg \notin custom.perms
                      /\ a.super \/ (arg \notin PlatformPerms /\ arg \in a.perms)

\* guard(role.manage)
Managers == {u \in People : ManagePerm \in Resolved(u).perms}
\* guard(permission.manage)
Granters == {u \in People : GrantPerm \in Resolved(u).perms}
FreeRequests == AnyOne({r \in RoleRequests : roleReq[r] = NoRoleReq /\ begunReqs < MaxRoleRequests})
\* A request of one of them passes the checks above, on one reading.
BeginRoleReq(r, me, req, ok) ==
  /\ ok
  /\ roleReq' = [roleReq EXCEPT ![r] = req]
  /\ begunReqs' = begunReqs + 1
  /\ superActed' = (superActed \/ (Resolved(me).super /\ req.op \notin {"remove", "detach", "delete"}))
  /\ removalsMet' = (removalsMet \/ (req.op = "remove"
                                      /\ \E q \in RoleRequests : roleReq[q].op = "remove"))
  /\ authz' = IF me \in CachedUsers THEN [authz EXCEPT ![me] = Resolved(me)] ELSE authz
  /\ UNCHANGED <<holds, override, custom, loading, outdated>>

AssignRole(r, me, u, role) ==
  BeginRoleReq(r, me, [NoRoleReq EXCEPT !.op = "assign", !.pc = "write", !.on = u, !.role = role,
                                         !.drop = {u}],
               MayAssign(Resolved(me), me, u, role))
RemoveRole(r, me, u, role) ==
  BeginRoleReq(r, me, [NoRoleReq EXCEPT !.op = "remove", !.pc = "write", !.on = u, !.role = role,
                                         !.drop = {u}],
               MayRemove(Resolved(me), me, u, role))
\* setUserPermission, removeUserPermission
OverridePerm(r, me, u, as) ==
  BeginRoleReq(r, me, [NoRoleReq EXCEPT !.op = "override", !.pc = "write", !.on = u, !.arg = as,
                                         !.drop = {u}],
               as = "none" => override[u] # "none")
ShapeRole(r, me, op, arg) ==
  BeginRoleReq(r, me, [NoRoleReq EXCEPT !.op = op, !.arg = arg,
                                         !.pc = IF op = "delete" THEN "affected" ELSE "write"],
               MayShape(Resolved(me), op, arg))

\* The holders whose authority a deletion will drop, read before it deletes.
FindAffected(r) ==
  /\ roleReq[r].pc = "affected"
  /\ roleReq' = [roleReq EXCEPT ![r].pc = "write", ![r].drop = Holders(Custom)]
  /\ UNCHANGED <<holds, override, custom, authz, loading, begunReqs, superActed, removalsMet, outdated>>

\* The role as the write leaves it.
Shaped(op, arg) ==
  CASE op = "create" -> [there |-> TRUE, name |-> arg.name, rank |-> arg.rank, perms |-> {}]
    [] op = "rename" -> [custom EXCEPT !.name = arg]
    [] op = "rank"   -> [custom EXCEPT !.rank = arg]
    [] op = "attach" -> [custom EXCEPT !.perms = @ \cup {arg}]
    [] op = "detach" -> [custom EXCEPT !.perms = @ \ {arg}]
    [] OTHER         -> NoRole

\* Mutant: a permission is attached and nobody is told.
Mutant_NobodyTold(op) == {}
\* findUserIdsByRole, after the write.
ToldOfRole(op) == IF op \in {"attach", "detach"} THEN Holders(Custom) ELSE {}

\* One statement.  It finds nothing, or a foreign key refuses it, where the
\* tenant's role is gone; a second row of the same name or key is refused.
WriteRoleReq(r) ==
  LET q == roleReq[r]
      gone == (q.role = Custom \/ q.op \in {"rename", "rank", "attach", "detach"}) /\ ~custom.there
      twice == (q.op = "assign" /\ q.role \in holds[q.on]) \/ (q.op = "create" /\ custom.there)
  IN
  /\ q.pc = "write"
  /\ IF gone \/ twice
     THEN UNCHANGED <<holds, override, custom, outdated>>
     ELSE /\ holds' = [u \in People |->
               CASE q.op = "assign" /\ u = q.on -> holds[u] \cup {q.role}
                 [] q.op = "remove" /\ u = q.on -> holds[u] \ {q.role}
                 [] q.op = "delete"             -> holds[u] \ {Custom}
                 [] OTHER                       -> holds[u]]
          /\ override' = IF q.op = "override" THEN [override EXCEPT ![q.on] = q.arg] ELSE override
          /\ custom' = IF q.op \in {"assign", "remove", "override"} THEN custom ELSE Shaped(q.op, q.arg)
          /\ outdated' = outdated \cup
               (CASE q.op \in {"rename", "rank"} -> {u \in Holders(Custom) : authz[u] # Uncached}
                  [] q.op = "delete"             -> Holders(Custom) \ q.drop
                  [] OTHER                       -> {})
  /\ roleReq' = [roleReq EXCEPT ![r].pc = "drop", ![r].drop = @ \cup ToldOfRole(q.op)]
  /\ UNCHANGED <<authz, loading, begunReqs, superActed, removalsMet>>

\* invalidateUserPermissions, invalidateUsersPermissions
DropAuthorities(r) ==
  /\ roleReq[r].pc = "drop"
  /\ authz' = [u \in People |-> IF u \in roleReq[r].drop THEN Uncached ELSE authz[u]]
  /\ outdated' = outdated \ roleReq[r].drop
  /\ roleReq' = [roleReq EXCEPT ![r] = NoRoleReq]
  /\ UNCHANGED <<holds, override, custom, loading, begunReqs, superActed, removalsMet>>

AuthorityNext ==
  \/ \E u \in People : LoadAuthz(u) \/ CacheAuthz(u) \/ AuthzExpires(u)
  \/ \E r \in RoleRequests : FindAffected(r) \/ WriteRoleReq(r) \/ DropAuthorities(r)
  \/ \E r \in FreeRequests, me \in Managers :
       \/ \E u \in People, role \in Core \cup {Custom} :
            AssignRole(r, me, u, role) \/ RemoveRole(r, me, u, role)
       \/ \E n \in CustomRanks : \/ ShapeRole(r, me, "rank", n)
                                \/ \E name \in RoleNames :
                                     ShapeRole(r, me, "create", [name |-> name, rank |-> n])
       \/ ShapeRole(r, me, "rename", SuperAdmin)
       \/ \E op \in {"attach", "detach"}, p \in Perms : ShapeRole(r, me, op, p)
       \/ ShapeRole(r, me, "delete", Uncached)
  \/ \E r \in FreeRequests, me \in Granters, u \in CachedUsers, as \in {"granted", "denied", "none"} :
       OverridePerm(r, me, u, as)

AuthoritySpec == AuthorityInit /\ [][AuthorityNext]_authorityVars

----------------------------------------------------------------------------
Snapshots == [super : BOOLEAN, rank : Nat, perms : SUBSET Perms]
AuthorityTypeOK ==
  /\ holds \in [People -> SUBSET (Core \cup {Custom})]
  /\ override \in [People -> {"granted", "denied", "none"}]
  /\ custom \in [there : BOOLEAN, name : RoleNames, rank : Nat, perms : SUBSET Perms]
  /\ \A u \in People : {authz[u], loading[u]} \subseteq Snapshots \cup {Uncached}
  /\ \A r \in RoleRequests : roleReq[r].op \in Ops /\ roleReq[r].drop \subseteq People
  /\ begunReqs \in 0..MaxRoleRequests /\ {superActed, removalsMet} \subseteq BOOLEAN
  /\ outdated \subseteq People

\* What a tenant's admins do among themselves makes no admin, hands out nothing
\* of the platform's, and makes nobody a super admin but through the name of the
\* tenant's own role: that name the checks do not keep from them.
NoOneRises ==
  ~superActed => \A u \in People \ Roots :
    /\ SuperAdmin \notin holds[u] /\ GrantPerm \notin Effective(u).perms
    /\ Effective(u).super => Custom \in holds[u] /\ custom.name = SuperAdmin
    /\ u \notin Deans => Effective(u).rank < RankOf[UniAdmin] /\ ManagePerm \notin Effective(u).perms
\* The platform and the tenant keep an admin, unless two removals met.
AdminRemains ==
  ~removalsMet => Holders(SuperAdmin) # {} /\ Holders(UniAdmin) \ Roots # {}
\* When no request is under way, the cached authority is what the rows say.
AuthorityFollows ==
  (\A r \in RoleRequests : roleReq[r] = NoRoleReq) =>
    \A u \in People \ outdated : authz[u] \in {Uncached, Effective(u)}

(* Every variable keeps its type.  While nobody who is judged a super      *)
(* admin has given anything, no user of the tenant comes by the super      *)
(* admin's role, an admin's rank or a permission of the platform; one is   *)
(* judged a super admin all the same only by holding the tenant's role     *)
(* under that name, for authority goes by the name (auth.routes.ts:59) and *)
(* createRole and updateRole let it be given (auth.service.ts:963-1008).   *)
(* An admin remains unless two removals meet between the count and the     *)
(* delete (auth.service.ts:198-223).  The cached authority follows the     *)
(* rows, but for three cases in which it is old until its TTL: a changed   *)
(* rank or name (updateRole drops nobody), a role assigned while it is     *)
(* being deleted, a load by another process.                               *)
AuthoritySound == AuthorityTypeOK /\ NoOneRises /\ AdminRemains /\ AuthorityFollows
=============================================================================
