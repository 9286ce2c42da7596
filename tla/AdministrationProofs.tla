------------------------ MODULE AdministrationProofs ------------------------
(***************************************************************************)
(* How a university is run, proved for every value of the constants: who   *)
(* may do what, whose vote counts and what an approval waits for; and the  *)
(* tenant's status and domains, its faculties and departments, its         *)
(* settings and its accounts.  Each part has its inductive invariant and   *)
(* its theorem; the last section shows that a behaviour of                 *)
(* MCAdministration is a behaviour of each part, whichever it works on.    *)
(***************************************************************************)
EXTENDS MCAdministration, FiniteSetTheorems, TLAPS

\* A request that begins takes a name that is free.
LEMMA AnyOneIsFree == \A free : AnyOne(free) \subseteq free
BY DEF AnyOne

\* Of more than one, one remains.
LEMMA MoreThanOne ==
  ASSUME NEW S, NEW x, Cardinality(S) > 1
  PROVE  S \ {x} # {}
<1>1. Cardinality({}) = 0 /\ Cardinality({x}) = 1
  BY FS_EmptySet, FS_Singleton
<1>2. S # {} /\ S # {x}
  BY <1>1
<1>. QED
  BY <1>2

-----------------------------------------------------------------------------
(***************************************************************************)
(* Who may do what.  While nobody judged a super admin gave anything,      *)
(* everybody holds roles of their own kind only, the tenant's role is      *)
(* below its admins', whatever its name, and so is whatever was cached,    *)
(* loaded or asked for; a removal under way leaves another holder of the   *)
(* role; and a cached authority that is old will be dropped by a request   *)
(* under way, or is known to be old.                                       *)
(***************************************************************************)
Roles == Core \cup {Custom}
Namings == [name : RoleNames, rank : CustomRanks]
Args == CustomRanks \cup Perms \cup RoleNames \cup Namings \cup {"granted", "denied", "none", Uncached}
CustomRows == [there : BOOLEAN, name : RoleNames, rank : Nat, perms : SUBSET Perms]
RoleReqKinds ==
  [op : Ops, pc : {"idle", "affected", "write", "drop"}, on : People \cup {Uncached},
   role : Roles \cup {Uncached}, arg : Args, drop : SUBSET People]
WellAsked(q) ==
  /\ q.op = "none" => q = NoRoleReq
  /\ q.pc = "affected" => q.op = "delete"
  /\ q.op \in {"assign", "remove", "override"} => q.on \in People /\ q.on \in q.drop
  /\ q.op \in {"assign", "remove"} => q.role \in Roles
  /\ q.op = "override" => q.arg \in {"granted", "denied", "none"}
  /\ q.op = "create" => q.arg \in Namings
  /\ q.op = "rename" => q.arg \in RoleNames
  /\ q.op = "rank" => q.arg \in CustomRanks
  /\ q.op \in {"attach", "detach"} => q.arg \in Perms
AuthorityTypes ==
  /\ holds \in [People -> SUBSET Roles]
  /\ override \in [People -> {"granted", "denied", "none"}]
  /\ custom \in CustomRows
  /\ authz \in [People -> Snapshots \cup {Uncached}] /\ loading \in [People -> Snapshots \cup {Uncached}]
  /\ roleReq \in [RoleRequests -> RoleReqKinds] /\ \A r \in RoleRequests : WellAsked(roleReq[r])
  /\ begunReqs \in 0..MaxRoleRequests /\ superActed \in BOOLEAN /\ removalsMet \in BOOLEAN
  /\ outdated \subseteq People

NobodysRole == ~custom.there => \A u \in People : Custom \notin holds[u]

\* The roles of one's own kind.
Allowed(u) == IF u \in Roots THEN {SuperAdmin}
              ELSE IF u \in Deans THEN {UniAdmin, Student, Custom} ELSE {Student, Custom}
TameRole == custom.rank < RankOf[UniAdmin] /\ custom.perms \cap PlatformPerms = {}
TameSnapshot(u, s) ==
  /\ u \in Roots /\ s.perms \cap PlatformPerms # {} => s.super
  /\ u \notin Roots => s.rank <= RankOf[UniAdmin] /\ GrantPerm \notin s.perms
  /\ u \notin Roots \cup Deans => s.rank < RankOf[UniAdmin] /\ ManagePerm \notin s.perms
TameReq(q) ==
  /\ q.op = "assign" => q.role \in Allowed(q.on)
  /\ q.op # "override"
  /\ q.op = "create" => q.arg.rank < RankOf[UniAdmin]
  /\ q.op = "rank" => q.arg < RankOf[UniAdmin]
  /\ q.op = "attach" => q.arg \notin PlatformPerms
Tame ==
  ~superActed =>
    /\ \A u \in People : holds[u] \subseteq Allowed(u) /\ override[u] = "none"
    /\ TameRole
    /\ \A u \in People : /\ authz[u] # Uncached => TameSnapshot(u, authz[u])
                         /\ loading[u] # Uncached => TameSnapshot(u, loading[u])
    /\ \A r \in RoleRequests : TameReq(roleReq[r])

\* Whose roles count: a super admin is nobody's tenant admin.
Admins == {SuperAdmin, UniAdmin}
Scope == [role \in Admins |-> IF role = UniAdmin THEN People \ Roots ELSE People]
LeavesOne(q) == q.op = "remove" /\ q.pc = "write" =>
  \A role \in Admins : q.role = role => \E u \in Scope[role] : u # q.on /\ role \in holds[u]
OneLeft ==
  ~removalsMet =>
    /\ \A role \in Admins : \E u \in Scope[role] : role \in holds[u]
    /\ \A r, q \in RoleRequests : roleReq[r].op = "remove" /\ roleReq[q].op = "remove" => r = q
    /\ \A r \in RoleRequests : LeavesOne(roleReq[r])

Dropping(u) == \E r \in RoleRequests : roleReq[r].pc = "drop" /\ u \in roleReq[r].drop
Followed == \A u \in People \ outdated : authz[u] = Uncached \/ authz[u] = Effective(u) \/ Dropping(u)

AuthorityInv == AuthorityTypes /\ NobodysRole /\ Tame /\ OneLeft /\ Followed

LEMMA RanksAre ==
  /\ RankOf[SuperAdmin] \in Nat /\ RankOf[UniAdmin] \in Nat /\ RankOf[Student] \in Nat
  /\ 0 < RankOf[UniAdmin]
  /\ SuperAdmin # UniAdmin /\ SuperAdmin # Student /\ UniAdmin # Student
  /\ Custom \notin {SuperAdmin, UniAdmin, Student}
BY AuthorityAssumption DEF Core

\* A few numbers have a greatest.
Greatest(s, m) == m \in s /\ \A n \in s : n <= m
LEMMA GreatestOfMore ==
  ASSUME NEW s \in SUBSET Nat, NEW m, Greatest(s, m), NEW x \in Nat, NEW t \in SUBSET {x}
  PROVE  s \cup t \in SUBSET Nat /\ \E n \in Nat : Greatest(s \cup t, n)
<1>1. m \in Nat
  BY DEF Greatest
<1>2. CASE t = {}
  BY <1>1, <1>2 DEF Greatest
<1>3. CASE t = {x}
  <2>1. CASE x <= m
    <3>1. Greatest(s \cup t, m)
      BY <1>3, <2>1 DEF Greatest
    <3>. QED
      BY <1>1, <1>3, <3>1
  <2>2. CASE m < x
    <3>1. \A n \in s : n <= x
      BY <1>1, <2>2 DEF Greatest
    <3>2. Greatest(s \cup t, x)
      BY <1>3, <3>1 DEF Greatest
    <3>. QED
      BY <1>3, <3>2
  <2>. QED
    BY <1>1, <2>1, <2>2
<1>. QED
  BY <1>2, <1>3

LEMMA MaxIsGreatest ==
  ASSUME NEW s \in SUBSET Nat, NEW m \in Nat, Greatest(s, m)
  PROVE  Greatest(s, Max(s))
BY DEF Greatest, Max

\* The rank somebody is cached with is the greatest of their roles'.
LEMMA RankIsGreatest ==
  ASSUME AuthorityTypes, NEW u \in People
  PROVE  /\ Effective(u).rank \in Nat
         /\ Effective(u).rank = 0 \/ \E role \in holds[u] : Effective(u).rank = Rank(role)
<1>. DEFINE of(role) == {Rank(x) : x \in holds[u] \cap {role}}
            ranks == {0} \cup {Rank(role) : role \in holds[u]}
<1>0. holds[u] \subseteq Roles /\ custom.rank \in Nat
  BY DEF AuthorityTypes, CustomRows
<1>1. \A role \in Roles : Rank(role) \in Nat
  BY <1>0, RanksAre DEF Roles, Core, Rank
<1>2. \A role \in Roles : of(role) \in SUBSET {Rank(role)}
  OBVIOUS
<1>3. Roles = {SuperAdmin, UniAdmin, Student, Custom}
  BY DEF Roles, Core
<1>4. ranks = ((({0} \cup of(SuperAdmin)) \cup of(UniAdmin)) \cup of(Student)) \cup of(Custom)
  BY <1>0, <1>3
<1>. HIDE DEF of
<1>5. {0} \in SUBSET Nat /\ Greatest({0}, 0)
  BY DEF Greatest
<1>6. {0} \cup of(SuperAdmin) \in SUBSET Nat /\ \E n \in Nat : Greatest({0} \cup of(SuperAdmin), n)
  BY <1>1, <1>2, <1>3, <1>5, GreatestOfMore
<1>7. ({0} \cup of(SuperAdmin)) \cup of(UniAdmin) \in SUBSET Nat
      /\ \E n \in Nat : Greatest(({0} \cup of(SuperAdmin)) \cup of(UniAdmin), n)
  BY <1>1, <1>2, <1>3, <1>6, GreatestOfMore
<1>8. (({0} \cup of(SuperAdmin)) \cup of(UniAdmin)) \cup of(Student) \in SUBSET Nat
      /\ \E n \in Nat : Greatest((({0} \cup of(SuperAdmin)) \cup of(UniAdmin)) \cup of(Student), n)
  BY <1>1, <1>2, <1>3, <1>7, GreatestOfMore
<1>9. ranks \in SUBSET Nat /\ \E n \in Nat : Greatest(ranks, n)
  BY <1>1, <1>2, <1>3, <1>4, <1>8, GreatestOfMore
<1>10. Greatest(ranks, Max(ranks))
  <2>. HIDE DEF ranks
  <2>. QED
    BY <1>9, MaxIsGreatest
<1>11. Effective(u).rank = Max(ranks)
  BY DEF Effective
<1>12. Max(ranks) \in ranks
  BY <1>10 DEF Greatest
<1>13. Effective(u).rank \in ranks
  BY <1>11, <1>12
<1>14. CASE Effective(u).rank = 0
  BY <1>14
<1>15. CASE \E role \in holds[u] : Effective(u).rank = Rank(role)
  BY <1>0, <1>1, <1>15
<1>. QED
  BY <1>13, <1>14, <1>15

LEMMA EffectiveIs ==
  ASSUME AuthorityTypes, NEW u \in People
  PROVE  /\ Effective(u) \in Snapshots
         /\ Effective(u).super =
              (SuperAdmin \in holds[u] \/ (Custom \in holds[u] /\ custom.name = SuperAdmin))
         /\ Resolved(u) \in Snapshots
<1>1. Effective(u).rank \in Nat
  BY RankIsGreatest
<1>. DEFINE perms == ((UNION {PermsOf(role) : role \in holds[u]})
                        \cup {p \in {OwnPerm} : override[u] = "granted"})
                       \ {p \in {OwnPerm} : override[u] = "denied"}
<1>2. perms \subseteq Perms
  <2>1. \A role \in holds[u] : PermsOf(role) \subseteq Perms
    BY RanksAre DEF AuthorityTypes, CustomRows, Roles, Core, PermsOf
  <2>2. OwnPerm \in Perms
    BY DEF Perms
  <2>. QED
    BY <2>1, <2>2
<1>. HIDE DEF perms
<1>. DEFINE is == \E role \in holds[u] : NameOf(role) = SuperAdmin
            top == Max({0} \cup {Rank(role) : role \in holds[u]})
<1>3. is \in BOOLEAN
  OBVIOUS
<1>4. is = (SuperAdmin \in holds[u] \/ (Custom \in holds[u] /\ custom.name = SuperAdmin))
  BY RanksAre DEF NameOf
<1>5. Effective(u) = [super |-> is, rank |-> top, perms |-> perms]
  BY DEF Effective, perms
<1>. HIDE DEF is, top
<1>6. Effective(u) \in Snapshots
  <2>1. top \in Nat
    BY <1>1, <1>5
  <2>. QED
    BY <2>1, <1>2, <1>3, <1>5 DEF Snapshots
<1>7. Effective(u).super = is
  BY <1>5
<1>. QED
  BY <1>4, <1>6, <1>7 DEF Resolved, AuthorityTypes

\* Whoever is read is as tame as the rows are.
LEMMA TameEffective ==
  ASSUME AuthorityTypes, NEW u \in People, holds[u] \subseteq Allowed(u), override[u] = "none", TameRole
  PROVE  TameSnapshot(u, Effective(u))
<1>1. custom.rank \in Nat
  BY DEF AuthorityTypes, CustomRows
<1>2. \A role \in holds[u] : role # SuperAdmin => Rank(role) <= RankOf[UniAdmin]
  BY <1>1, RanksAre, AuthorityAssumption DEF AuthorityTypes, Roles, Core, Rank, TameRole
<1>3. \A p \in Effective(u).perms : \E role \in holds[u] : p \in PermsOf(role)
  BY DEF Effective
<1>4. \A role \in {Student, Custom} : PermsOf(role) \cap PlatformPerms = {}
  BY RanksAre DEF PermsOf, TameRole
<1>5. ASSUME u \in Roots, Effective(u).perms \cap PlatformPerms # {} PROVE Effective(u).super
  <2>1. SuperAdmin \in holds[u]
    BY <1>3, <1>5 DEF Allowed
  <2>. QED
    BY <2>1, EffectiveIs
<1>6. ASSUME u \notin Roots PROVE Effective(u).rank <= RankOf[UniAdmin] /\ GrantPerm \notin Effective(u).perms
  <2>1. holds[u] \subseteq {UniAdmin, Student, Custom}
    BY <1>6 DEF Allowed
  <2>2. Effective(u).rank <= RankOf[UniAdmin]
    <3>1. \A role \in holds[u] : Rank(role) <= RankOf[UniAdmin]
      BY <1>2, <2>1, RanksAre
    <3>2. CASE Effective(u).rank = 0
      BY <3>2, RanksAre
    <3>. QED
      BY <3>1, <3>2, RankIsGreatest
  <2>3. GrantPerm \notin PermsOf(UniAdmin)
    BY RanksAre DEF PermsOf
  <2>4. GrantPerm \in PlatformPerms
    BY DEF PlatformPerms
  <2>. QED
    BY <1>3, <1>4, <2>1, <2>2, <2>3, <2>4
<1>7. ASSUME u \notin Roots \cup Deans
      PROVE  Effective(u).rank < RankOf[UniAdmin] /\ ManagePerm \notin Effective(u).perms
  <2>1. holds[u] \subseteq {Student, Custom}
    BY <1>7 DEF Allowed
  <2>2. \A role \in holds[u] : Rank(role) < RankOf[UniAdmin]
    BY <2>1, RanksAre, AuthorityAssumption DEF Rank, TameRole
  <2>3. ManagePerm \in PlatformPerms
    BY DEF PlatformPerms
  <2>. QED
    BY <1>3, <1>4, <2>1, <2>2, <2>3, RankIsGreatest, RanksAre
<1>. QED
  BY <1>5, <1>6, <1>7 DEF TameSnapshot

LEMMA NoRoleReqIs ==
  /\ NoRoleReq \in RoleReqKinds /\ WellAsked(NoRoleReq) /\ TameReq(NoRoleReq) /\ LeavesOne(NoRoleReq)
  /\ NoRoleReq.op = "none" /\ NoRoleReq.pc = "idle"
BY DEF NoRoleReq, RoleReqKinds, Ops, Args, WellAsked, TameReq, LeavesOne

LEMMA AuthorityInvInit == AuthorityInit => AuthorityInv
<1>. SUFFICES ASSUME AuthorityInit PROVE AuthorityInv
  OBVIOUS
<1>1. \A u \in People :
        /\ u \in Roots => holds[u] = {SuperAdmin}
        /\ u \in Deans => holds[u] = {UniAdmin}
        /\ u \notin Roots \cup Deans => holds[u] = {Student}
  BY AuthorityAssumption DEF AuthorityInit
<1>2. custom = [there |-> FALSE, name |-> Custom, rank |-> 0, perms |-> {}]
  BY DEF AuthorityInit, NoRole
<1>3. AuthorityTypes
  <2>1. holds \in [People -> SUBSET Roles]
    <3>1. {SuperAdmin} \in SUBSET Roles /\ {UniAdmin} \in SUBSET Roles /\ {Student} \in SUBSET Roles
      BY DEF Roles, Core
    <3>. QED
      BY <3>1 DEF AuthorityInit
  <2>2. custom \in CustomRows
    BY <1>2 DEF CustomRows, RoleNames
  <2>3. begunReqs \in 0..MaxRoleRequests
    BY AuthorityAssumption DEF AuthorityInit
  <2>. QED
    BY <2>1, <2>2, <2>3, NoRoleReqIs DEF AuthorityInit, AuthorityTypes
<1>4. NobodysRole
  BY <1>1, RanksAre DEF NobodysRole
<1>5. Tame
  <2>1. \A u \in People : holds[u] \subseteq Allowed(u)
    BY <1>1 DEF Allowed
  <2>2. TameRole
    BY <1>2, RanksAre DEF TameRole
  <2>. QED
    BY <2>1, <2>2, NoRoleReqIs DEF AuthorityInit, Tame
<1>6. OneLeft
  <2>1. \E u \in Scope[SuperAdmin] : SuperAdmin \in holds[u]
    BY <1>1, AuthorityAssumption, RanksAre DEF People, Admins, Scope
  <2>2. \E u \in Scope[UniAdmin] : UniAdmin \in holds[u]
    BY <1>1, AuthorityAssumption DEF People, Admins, Scope
  <2>. QED
    BY <2>1, <2>2, NoRoleReqIs DEF AuthorityInit, OneLeft, Admins
<1>7. Followed
  BY DEF AuthorityInit, Followed
<1>. QED
  BY <1>3, <1>4, <1>5, <1>6, <1>7 DEF AuthorityInv

\* Whom no row that changed is about keeps their authority.
LEMMA SameEffective ==
  ASSUME AuthorityTypes, NEW u \in People, holds'[u] = holds[u], override'[u] = override[u],
         custom' = custom \/ Custom \notin holds[u]
  PROVE  Effective(u)' = Effective(u)
<1>1. \A role \in holds[u] :
        Rank(role)' = Rank(role) /\ PermsOf(role)' = PermsOf(role) /\ NameOf(role)' = NameOf(role)
  <2>. SUFFICES ASSUME NEW role \in holds[u]
                PROVE  /\ Rank(role)' = Rank(role) /\ PermsOf(role)' = PermsOf(role)
                       /\ NameOf(role)' = NameOf(role)
    OBVIOUS
  <2>1. CASE role = Custom
    BY <2>1 DEF Rank, PermsOf, NameOf
  <2>2. CASE role # Custom
    BY <2>2 DEF Rank, PermsOf, NameOf
  <2>. QED
    BY <2>1, <2>2
<1>2. /\ {Rank(role) : role \in holds[u]}' = {Rank(role) : role \in holds[u]}
      /\ {PermsOf(role) : role \in holds[u]}' = {PermsOf(role) : role \in holds[u]}
      /\ (\E role \in holds[u] : NameOf(role) = SuperAdmin)'
           = (\E role \in holds[u] : NameOf(role) = SuperAdmin)
  BY <1>1
<1>. QED
  BY <1>2 DEF Effective

\* A request that begins has asked for what its caller may give.
LEMMA RoleReqBegins ==
  ASSUME AuthorityInv, NEW r \in RoleRequests, NEW me \in People, NEW req \in RoleReqKinds,
         NEW ok \in BOOLEAN, BeginRoleReq(r, me, req, ok), roleReq[r] = NoRoleReq,
         begunReqs < MaxRoleRequests,
         req.op # "none", req.pc \in {"write", "affected"}, WellAsked(req),
         ~superActed /\ (Resolved(me).super => req.op \in {"remove", "detach", "delete"}) => TameReq(req),
         LeavesOne(req) \/ removalsMet
  PROVE  AuthorityInv'
<1>. USE DEF AuthorityInv
<1>0. AuthorityTypes
  OBVIOUS
<1>1. /\ roleReq' = [roleReq EXCEPT ![r] = req] /\ begunReqs' = begunReqs + 1
      /\ superActed' = (superActed \/ (Resolved(me).super /\ req.op \notin {"remove", "detach", "delete"}))
      /\ removalsMet' = (removalsMet \/ (req.op = "remove"
                                          /\ \E q \in RoleRequests : roleReq[q].op = "remove"))
      /\ authz' = (IF me \in CachedUsers THEN [authz EXCEPT ![me] = Resolved(me)] ELSE authz)
      /\ UNCHANGED <<holds, override, custom, loading, outdated>>
  BY DEF BeginRoleReq
<1>2. roleReq'[r] = req /\ \A z \in RoleRequests \ {r} : roleReq'[z] = roleReq[z]
  BY <1>1 DEF AuthorityTypes
<1>3. \A u \in People : authz'[u] = authz[u] \/ (authz[u] = Uncached /\ authz'[u] = Effective(u))
  BY <1>1, <1>0 DEF AuthorityTypes, Resolved
<1>4. AuthorityTypes'
  <2>1. authz' \in [People -> Snapshots \cup {Uncached}]
    BY <1>1, <1>0, EffectiveIs DEF AuthorityTypes
  <2>2. roleReq' \in [RoleRequests -> RoleReqKinds] /\ \A z \in RoleRequests : WellAsked(roleReq'[z])
    BY <1>1, <1>2 DEF AuthorityTypes
  <2>3. begunReqs' \in 0..MaxRoleRequests
    BY <1>1, <1>0, AuthorityAssumption DEF AuthorityTypes
  <2>4. superActed' \in BOOLEAN /\ removalsMet' \in BOOLEAN
    BY <1>1
  <2>. QED
    BY <2>1, <2>2, <2>3, <2>4, <1>1 DEF AuthorityTypes
<1>5. \A u \in People : Effective(u)' = Effective(u)
  BY <1>1, SameEffective
<1>6. NobodysRole'
  BY <1>1 DEF NobodysRole
<1>7. Tame'
  <2>. SUFFICES ASSUME ~superActed' PROVE Tame'
    BY DEF Tame
  <2>1. ~superActed /\ TameReq(req)
    BY <1>1
  <2>2. \A u \in People : authz'[u] # Uncached => TameSnapshot(u, authz'[u])
    BY <2>1, <1>3, TameEffective DEF Tame
  <2>3. \A z \in RoleRequests : TameReq(roleReq'[z])
    BY <2>1, <1>2 DEF Tame
  <2>. QED
    BY <2>1, <2>2, <2>3, <1>1 DEF Tame, TameRole
<1>8. OneLeft'
  <2>. SUFFICES ASSUME ~removalsMet' PROVE OneLeft'
    BY DEF OneLeft
  <2>1. ~removalsMet /\ LeavesOne(req)
        /\ (req.op = "remove" => \A q \in RoleRequests : roleReq[q].op # "remove")
    BY <1>1
  <2>2. \A z \in RoleRequests : LeavesOne(roleReq'[z])
    BY <2>1, <1>2 DEF OneLeft
  <2>3. \A y, z \in RoleRequests : roleReq'[y].op = "remove" /\ roleReq'[z].op = "remove" => y = z
    BY <2>1, <1>2 DEF OneLeft
  <2>. QED
    BY <2>1, <2>2, <2>3, <1>1 DEF OneLeft, LeavesOne
<1>9. Followed'
  <2>1. \A u : Dropping(u) => Dropping(u)'
    BY <1>2, NoRoleReqIs DEF Dropping
  <2>. QED
    BY <2>1, <1>1, <1>3, <1>5 DEF Followed
<1>. QED
  BY <1>4, <1>6, <1>7, <1>8, <1>9

\* A request goes on with what it asked for.
LEMMA RoleReqMoves ==
  ASSUME AuthorityTypes, NEW r \in RoleRequests, NEW p \in {"write", "drop"}, NEW d \in SUBSET People,
         roleReq' = [roleReq EXCEPT ![r].pc = p, ![r].drop = d],
         roleReq[r].op # "none", roleReq[r].op = "delete" \/ roleReq[r].drop \subseteq d
  PROVE  /\ roleReq' \in [RoleRequests -> RoleReqKinds]
         /\ \A z \in RoleRequests : WellAsked(roleReq'[z])
         /\ \A z \in RoleRequests : TameReq(roleReq[z]) => TameReq(roleReq'[z])
         /\ roleReq'[r].pc = p /\ roleReq'[r].drop = d /\ roleReq'[r].op = roleReq[r].op
         /\ \A z \in RoleRequests \ {r} : roleReq'[z] = roleReq[z]
<1>. DEFINE new == [roleReq[r] EXCEPT !.pc = p, !.drop = d]
<1>1. roleReq[r] \in RoleReqKinds /\ WellAsked(roleReq[r])
  BY DEF AuthorityTypes
<1>2. /\ new \in RoleReqKinds /\ new.pc = p /\ new.drop = d /\ new.op = roleReq[r].op
      /\ new.on = roleReq[r].on /\ new.role = roleReq[r].role /\ new.arg = roleReq[r].arg
  BY <1>1 DEF RoleReqKinds
<1>3. roleReq' = [roleReq EXCEPT ![r] = new]
  BY DEF AuthorityTypes
<1>. HIDE DEF new
<1>4. WellAsked(new)
  BY <1>1, <1>2 DEF WellAsked
<1>5. TameReq(roleReq[r]) => TameReq(new)
  BY <1>2 DEF TameReq
<1>6. roleReq'[r] = new /\ \A z \in RoleRequests \ {r} : roleReq'[z] = roleReq[z]
  BY <1>3 DEF AuthorityTypes
<1>7. roleReq' \in [RoleRequests -> RoleReqKinds]
  BY <1>2, <1>3 DEF AuthorityTypes
<1>. QED
  BY <1>2, <1>4, <1>5, <1>6, <1>7 DEF AuthorityTypes

\* A request has written: whom it is about, it will drop.
LEMMA RoleReqWrites ==
  ASSUME AuthorityInv, NEW r \in RoleRequests, NEW d \in SUBSET People,
         roleReq[r].pc = "write", roleReq[r].op # "none", roleReq[r].drop \subseteq d,
         roleReq' = [roleReq EXCEPT ![r].pc = "drop", ![r].drop = d],
         UNCHANGED <<authz, loading, begunReqs, superActed, removalsMet>>,
         holds' \in [People -> SUBSET Roles],
         override' \in [People -> {"granted", "denied", "none"}],
         custom' \in CustomRows,
         outdated \subseteq outdated', outdated' \subseteq People,
         ~custom'.there => \A u \in People : Custom \notin holds'[u],
         ~superActed =>
           (\A u \in People : holds'[u] \subseteq Allowed(u) /\ override'[u] = "none") /\ TameRole',
         \/ \A u \in People, role \in Admins : role \in holds[u] => role \in holds'[u]
         \/ roleReq[r].op = "remove"
            /\ (~removalsMet => \A role \in Admins : \E u \in Scope[role] : role \in holds'[u]),
         \A u \in People \ outdated' : u \in d \/ authz[u] = Uncached \/ Effective(u)' = Effective(u)
  PROVE  AuthorityInv'
<1>. USE DEF AuthorityInv
<1>1. /\ roleReq' \in [RoleRequests -> RoleReqKinds] /\ \A z \in RoleRequests : WellAsked(roleReq'[z])
      /\ \A z \in RoleRequests : TameReq(roleReq[z]) => TameReq(roleReq'[z])
      /\ roleReq'[r].pc = "drop" /\ roleReq'[r].drop = d /\ roleReq'[r].op = roleReq[r].op
      /\ \A z \in RoleRequests \ {r} : roleReq'[z] = roleReq[z]
  BY RoleReqMoves
<1>2. AuthorityTypes'
  BY <1>1 DEF AuthorityTypes
<1>3. NobodysRole'
  BY DEF NobodysRole
<1>4. Tame'
  BY <1>1 DEF Tame
<1>5. OneLeft'
  <2>. SUFFICES ASSUME ~removalsMet PROVE OneLeft'
    BY DEF OneLeft
  <2>1. \A y, z \in RoleRequests : roleReq'[y].op = "remove" /\ roleReq'[z].op = "remove" => y = z
    BY <1>1 DEF OneLeft
  <2>0. \A role \in Admins : Scope[role] \subseteq People
    BY DEF Scope
  <2>2. \A role \in Admins : \E u \in Scope[role] : role \in holds'[u]
    BY <2>0 DEF OneLeft
  <2>3. LeavesOne(roleReq[r])'
    BY <1>1 DEF LeavesOne
  <2>4. ASSUME NEW z \in RoleRequests \ {r} PROVE LeavesOne(roleReq[z])'
    <3>1. CASE roleReq[r].op = "remove"
      <4>1. roleReq'[z].op # "remove"
        BY <3>1, <1>1 DEF OneLeft
      <4>. QED
        BY <4>1 DEF LeavesOne
    <3>2. CASE \A u \in People, role \in Admins : role \in holds[u] => role \in holds'[u]
      BY <2>0, <3>2, <1>1 DEF OneLeft, LeavesOne
    <3>. QED
      BY <3>1, <3>2
  <2>. QED
    BY <2>1, <2>2, <2>3, <2>4 DEF OneLeft, LeavesOne
<1>6. Followed'
  <2>1. \A u : Dropping(u) => Dropping(u)'
    BY <1>1 DEF Dropping
  <2>2. \A u \in d : Dropping(u)'
    BY <1>1 DEF Dropping
  <2>. QED
    BY <2>1, <2>2 DEF Followed
<1>. QED
  BY <1>2, <1>3, <1>4, <1>5, <1>6

\* One statement of a request that may write.
LEMMA RoleReqWritesSoundly ==
  ASSUME AuthorityInv, NEW r \in RoleRequests, WriteRoleReq(r)
  PROVE  AuthorityInv'
<1>. USE DEF AuthorityInv
<1>0. AuthorityTypes /\ roleReq[r] \in RoleReqKinds /\ WellAsked(roleReq[r])
  BY DEF AuthorityTypes
<1>. DEFINE q == roleReq[r]
            gone == (q.role = Custom \/ q.op \in {"rename", "rank", "attach", "detach"}) /\ ~custom.there
            twice == (q.op = "assign" /\ q.role \in holds[q.on]) \/ (q.op = "create" /\ custom.there)
            d == q.drop \cup ToldOfRole(q.op)
<1>1. /\ q.pc = "write" /\ roleReq' = [roleReq EXCEPT ![r].pc = "drop", ![r].drop = d]
      /\ UNCHANGED <<authz, loading, begunReqs, superActed, removalsMet>>
  BY <1>0 DEF WriteRoleReq, AuthorityTypes
<1>2. q.op \in Ops \ {"none"}
  BY <1>0, <1>1, NoRoleReqIs DEF RoleReqKinds, WellAsked
<1>3. d \in SUBSET People /\ q.drop \subseteq d
  BY <1>0 DEF RoleReqKinds, ToldOfRole, Holders
<1>4. CASE gone \/ twice
  <2>1. UNCHANGED <<holds, override, custom, outdated>>
    BY <1>4 DEF WriteRoleReq
  <2>2. \A u \in People : Effective(u)' = Effective(u)
    BY <2>1, <1>0, SameEffective
  <2>3. \A u \in People : holds[u] \subseteq Roles
    BY <1>0 DEF AuthorityTypes
  <2>4. ~superActed =>
          (\A u \in People : holds'[u] \subseteq Allowed(u) /\ override'[u] = "none") /\ TameRole'
    BY <2>1 DEF Tame, TameRole
  <2>5. ASSUME NEW u \in People \ outdated', u \notin d, authz[u] # Uncached, Effective(u)' # Effective(u)
        PROVE  FALSE
    BY <2>2, <2>5
  <2>6. outdated \subseteq outdated' /\ outdated' \subseteq People
        /\ (~custom'.there => \A u \in People : Custom \notin holds'[u])
        /\ (\A u \in People, role \in Admins : role \in holds[u] => role \in holds'[u])
        /\ holds' \in [People -> SUBSET Roles]
        /\ override' \in [People -> {"granted", "denied", "none"}]
        /\ custom' \in CustomRows
    BY <2>1, <1>0 DEF AuthorityTypes, NobodysRole
  <2>. HIDE DEF d
  <2>. QED
    BY <1>1, <1>2, <1>3, <2>4, <2>5, <2>6, RoleReqWrites
<1>5. CASE ~gone /\ ~twice
  <2>1. /\ holds' = [u \in People |->
             CASE q.op = "assign" /\ u = q.on -> holds[u] \cup {q.role}
               [] q.op = "remove" /\ u = q.on -> holds[u] \ {q.role}
               [] q.op = "delete"             -> holds[u] \ {Custom}
               [] OTHER                       -> holds[u]]
        /\ override' = (IF q.op = "override" THEN [override EXCEPT ![q.on] = q.arg] ELSE override)
        /\ custom' = (IF q.op \in {"assign", "remove", "override"} THEN custom ELSE Shaped(q.op, q.arg))
        /\ outdated' = outdated \cup
             (CASE q.op \in {"rename", "rank"} -> {u \in Holders(Custom) : authz[u] # Uncached}
                [] q.op = "delete"             -> Holders(Custom) \ q.drop
                [] OTHER                       -> {})
    BY <1>5 DEF WriteRoleReq
  <2>2. outdated \subseteq outdated' /\ outdated' \subseteq People
    BY <2>1, <1>0 DEF AuthorityTypes, Holders
  <2>3. CASE q.op = "assign"
    <3>1. /\ q.on \in People /\ q.on \in d /\ q.role \in Roles
          /\ (q.role = Custom => custom.there)
      BY <2>3, <1>0, <1>3, <1>5 DEF WellAsked
    <3>2. UNCHANGED <<override, custom>> /\ holds' = [holds EXCEPT ![q.on] = holds[q.on] \cup {q.role}]
      BY <2>1, <2>3, <3>1, <1>0 DEF AuthorityTypes
    <3>3. /\ holds' \in [People -> SUBSET Roles] /\ holds'[q.on] = holds[q.on] \cup {q.role}
          /\ \A u \in People : u # q.on => holds'[u] = holds[u]
      BY <3>1, <3>2, <1>0 DEF AuthorityTypes
    <3>4. ~custom'.there => \A u \in People : Custom \notin holds'[u]
      BY <3>1, <3>2, <3>3 DEF NobodysRole
    <3>5. ~superActed =>
            (\A u \in People : holds'[u] \subseteq Allowed(u) /\ override'[u] = "none") /\ TameRole'
      BY <2>3, <3>1, <3>2, <3>3 DEF Tame, TameRole, TameReq
    <3>6. \A u \in People, role \in Admins : role \in holds[u] => role \in holds'[u]
      BY <3>3
    <3>7. \A u \in People \ outdated' : u \in d \/ authz[u] = Uncached \/ Effective(u)' = Effective(u)
      BY <3>1, <3>2, <3>3, <1>0, SameEffective
    <3>8. /\ holds' \in [People -> SUBSET Roles] /\ override' \in [People -> {"granted", "denied", "none"}]
          /\ custom' \in CustomRows
      BY <3>2, <3>3, <1>0 DEF AuthorityTypes
    <3>. HIDE DEF d
    <3>. QED
      BY <1>1, <1>2, <1>3, <2>2, <3>2, <3>3, <3>4, <3>5, <3>6, <3>7, <3>8, RoleReqWrites
  <2>4. CASE q.op = "remove"
    <3>1. q.on \in People /\ q.on \in d /\ q.role \in Roles
      BY <2>4, <1>0, <1>3 DEF WellAsked
    <3>2. UNCHANGED <<override, custom>> /\ holds' = [holds EXCEPT ![q.on] = holds[q.on] \ {q.role}]
      BY <2>1, <2>4, <3>1, <1>0 DEF AuthorityTypes
    <3>3. /\ holds' \in [People -> SUBSET Roles] /\ holds'[q.on] = holds[q.on] \ {q.role}
          /\ \A u \in People : u # q.on => holds'[u] = holds[u]
      BY <3>1, <3>2, <1>0 DEF AuthorityTypes
    <3>4. ~custom'.there => \A u \in People : Custom \notin holds'[u]
      BY <3>2, <3>3 DEF NobodysRole
    <3>5. ~superActed =>
            (\A u \in People : holds'[u] \subseteq Allowed(u) /\ override'[u] = "none") /\ TameRole'
      BY <3>2, <3>3 DEF Tame, TameRole
    <3>6. ~removalsMet => \A role \in Admins : \E u \in Scope[role] : role \in holds'[u]
      <4>. SUFFICES ASSUME ~removalsMet, NEW role \in Admins
                    PROVE  \E u \in Scope[role] : role \in holds'[u]
        OBVIOUS
      <4>0. Scope[role] \subseteq People
        BY DEF Scope
      <4>1. CASE role = q.role
        <5>1. \E u \in Scope[role] : u # q.on /\ role \in holds[u]
          BY <4>1, <2>4, <1>1 DEF OneLeft, LeavesOne
        <5>. QED
          BY <5>1, <4>0, <3>3
      <4>2. CASE role # q.role
        <5>1. \E u \in Scope[role] : role \in holds[u]
          BY DEF OneLeft
        <5>. QED
          BY <5>1, <4>0, <4>2, <3>3
      <4>. QED
        BY <4>1, <4>2
    <3>7. \A u \in People \ outdated' : u \in d \/ authz[u] = Uncached \/ Effective(u)' = Effective(u)
      BY <3>1, <3>2, <3>3, <1>0, SameEffective
    <3>8. /\ holds' \in [People -> SUBSET Roles] /\ override' \in [People -> {"granted", "denied", "none"}]
          /\ custom' \in CustomRows
      BY <3>2, <3>3, <1>0 DEF AuthorityTypes
    <3>. HIDE DEF d
    <3>. QED
      BY <1>1, <1>2, <1>3, <2>2, <2>4, <3>2, <3>3, <3>4, <3>5, <3>6, <3>7, <3>8, RoleReqWrites
  <2>5. CASE q.op = "override"
    <3>1. q.on \in People /\ q.on \in d /\ q.arg \in {"granted", "denied", "none"}
      BY <2>5, <1>0, <1>3 DEF WellAsked
    <3>2. UNCHANGED custom /\ override' = [override EXCEPT ![q.on] = q.arg] /\ holds' = holds
      BY <2>1, <2>5, <1>0 DEF AuthorityTypes
    <3>3. /\ override' \in [People -> {"granted", "denied", "none"}]
          /\ \A u \in People : u # q.on => override'[u] = override[u]
      BY <3>1, <3>2, <1>0 DEF AuthorityTypes
    <3>4. ~custom'.there => \A u \in People : Custom \notin holds'[u]
      BY <3>2 DEF NobodysRole
    <3>5. superActed
      BY <2>5 DEF Tame, TameReq
    <3>6. \A u \in People, role \in Admins : role \in holds[u] => role \in holds'[u]
      BY <3>2
    <3>7. \A u \in People \ outdated' : u \in d \/ authz[u] = Uncached \/ Effective(u)' = Effective(u)
      BY <3>1, <3>2, <3>3, <1>0, SameEffective
    <3>8. /\ holds' \in [People -> SUBSET Roles] /\ override' \in [People -> {"granted", "denied", "none"}]
          /\ custom' \in CustomRows
      BY <3>2, <3>3, <1>0 DEF AuthorityTypes
    <3>. HIDE DEF d
    <3>. QED
      BY <1>1, <1>2, <1>3, <2>2, <3>2, <3>3, <3>4, <3>5, <3>6, <3>7, <3>8, RoleReqWrites
  <2>6. CASE q.op \in {"create", "rename", "rank", "attach", "detach"}
    <3>1. /\ override' = override /\ holds' = holds /\ custom' = Shaped(q.op, q.arg)
          /\ (q.op = "create" => ~custom.there) /\ (q.op # "create" => custom.there)
      BY <2>1, <2>6, <1>0, <1>5 DEF AuthorityTypes
    <3>2. /\ q.op = "create" => q.arg.name \in RoleNames /\ q.arg.rank \in Nat
          /\ q.op = "rename" => q.arg \in RoleNames
          /\ q.op = "rank" => q.arg \in Nat
          /\ q.op \in {"attach", "detach"} => q.arg \in Perms
      BY <1>0, AuthorityAssumption DEF WellAsked, Namings
    <3>3. /\ custom' \in CustomRows
          /\ custom'.there
          /\ custom'.rank = CASE q.op = "create" -> q.arg.rank [] q.op = "rank" -> q.arg
                              [] OTHER -> custom.rank
          /\ custom'.perms = CASE q.op = "create" -> {} [] q.op = "attach" -> custom.perms \cup {q.arg}
                               [] q.op = "detach" -> custom.perms \ {q.arg} [] OTHER -> custom.perms
      <4>0. custom \in CustomRows
        BY <1>0 DEF AuthorityTypes
      <4>1. CASE q.op = "create"
        BY <4>1, <3>1, <3>2 DEF Shaped, CustomRows
      <4>2. CASE q.op = "rank"
        BY <4>0, <4>2, <3>1, <3>2 DEF Shaped, CustomRows
      <4>3. CASE q.op = "attach"
        BY <4>0, <4>3, <3>1, <3>2 DEF Shaped, CustomRows
      <4>4. CASE q.op = "detach"
        BY <4>0, <4>4, <3>1, <3>2 DEF Shaped, CustomRows
      <4>5. CASE q.op = "rename"
        BY <4>0, <4>5, <3>1, <3>2 DEF Shaped, CustomRows
      <4>. QED
        BY <2>6, <4>1, <4>2, <4>3, <4>4, <4>5
    <3>4. ~superActed =>
            (\A u \in People : holds'[u] \subseteq Allowed(u) /\ override'[u] = "none") /\ TameRole'
      <4>. SUFFICES ASSUME ~superActed PROVE TameRole'
        BY <3>1 DEF Tame
      <4>1. TameReq(q) /\ TameRole
        BY DEF Tame
      <4>2. custom'.rank < RankOf[UniAdmin]
        BY <4>1, <3>3 DEF TameReq, TameRole
      <4>3. custom'.perms \cap PlatformPerms = {}
        BY <4>1, <3>3, <2>6 DEF TameReq, TameRole
      <4>. QED
        BY <4>2, <4>3 DEF TameRole
    <3>5. ASSUME NEW u \in People \ outdated', u \notin d, authz[u] # Uncached
          PROVE  Effective(u)' = Effective(u)
      <4>1. Custom \notin holds[u]
        <5>1. CASE q.op = "create"
          BY <5>1, <3>1 DEF NobodysRole
        <5>2. CASE q.op \in {"rename", "rank"}
          BY <5>2, <3>5, <2>1 DEF Holders
        <5>3. CASE q.op \in {"attach", "detach"}
          BY <5>3, <3>5 DEF ToldOfRole, Holders
        <5>. QED
          BY <2>6, <5>1, <5>2, <5>3
      <4>. QED
        BY <4>1, <3>1, <1>0, SameEffective
    <3>8. /\ holds' \in [People -> SUBSET Roles] /\ override' \in [People -> {"granted", "denied", "none"}]
          /\ custom' \in CustomRows
      BY <3>1, <3>3, <1>0 DEF AuthorityTypes
    <3>. HIDE DEF d
    <3>. QED
      BY <1>1, <1>2, <1>3, <2>2, <3>1, <3>3, <3>4, <3>5, <3>8, RoleReqWrites
  <2>7. CASE q.op = "delete"
    <3>1. override' = override /\ custom' = NoRole /\ holds' = [u \in People |-> holds[u] \ {Custom}]
          /\ outdated' = outdated \cup (Holders(Custom) \ q.drop)
      BY <2>1, <2>7 DEF Shaped
    <3>2. custom' \in CustomRows
          /\ custom'.rank = 0 /\ custom'.perms = {}
      BY <3>1 DEF NoRole, CustomRows, RoleNames
    <3>3. holds' \in [People -> SUBSET Roles] /\ \A u \in People : holds'[u] = holds[u] \ {Custom}
      BY <3>1, <1>0 DEF AuthorityTypes
    <3>4. ~superActed =>
            (\A u \in People : holds'[u] \subseteq Allowed(u) /\ override'[u] = "none") /\ TameRole'
      <4>. SUFFICES ASSUME ~superActed
                    PROVE  (\A u \in People : holds'[u] \subseteq Allowed(u) /\ override'[u] = "none")
                           /\ TameRole'
        OBVIOUS
      <4>1. \A u \in People : holds'[u] \subseteq Allowed(u) /\ override'[u] = "none"
        BY <3>1, <3>3 DEF Tame
      <4>2. TameRole'
        BY <3>2, RanksAre DEF TameRole
      <4>. QED
        BY <4>1, <4>2
    <3>5. \A u \in People, role \in Admins : role \in holds[u] => role \in holds'[u]
      BY <3>3, RanksAre DEF Admins
    <3>6. ASSUME NEW u \in People \ outdated', u \notin d PROVE Effective(u)' = Effective(u)
      <4>1. Custom \notin holds[u]
        BY <3>1, <3>6, <1>3 DEF Holders
      <4>2. holds'[u] = holds[u]
        BY <4>1, <3>3
      <4>. QED
        BY <4>1, <4>2, <3>1, <1>0, SameEffective
    <3>8. /\ holds' \in [People -> SUBSET Roles] /\ override' \in [People -> {"granted", "denied", "none"}]
          /\ custom' \in CustomRows
      BY <3>1, <3>2, <3>3, <1>0 DEF AuthorityTypes
    <3>. HIDE DEF d
    <3>. QED
      BY <1>1, <1>2, <1>3, <2>2, <3>1, <3>2, <3>3, <3>4, <3>5, <3>6, <3>8, RoleReqWrites
  <2>. QED
    BY <1>2, <2>3, <2>4, <2>5, <2>6, <2>7 DEF Ops
<1>. QED
  BY <1>4, <1>5

\* A manager who is no super admin stands at most at the tenant's admins' rank.
LEMMA ManagersAreTame ==
  ASSUME AuthorityInv, NEW me \in Managers
  PROVE  /\ me \in People /\ Resolved(me) \in Snapshots
         /\ ~superActed /\ ~Resolved(me).super =>
              Resolved(me).rank <= RankOf[UniAdmin] /\ me \in Deans /\ me \notin Roots
<1>1. me \in People /\ ManagePerm \in Resolved(me).perms /\ ManagePerm \in PlatformPerms
  BY DEF Managers, PlatformPerms
<1>2. Resolved(me) \in Snapshots
  BY <1>1, EffectiveIs DEF AuthorityInv
<1>3. ~superActed => TameSnapshot(me, Effective(me))
  BY <1>1, TameEffective DEF AuthorityInv, Tame
<1>4. ~superActed => TameSnapshot(me, Resolved(me))
  BY <1>1, <1>3 DEF AuthorityInv, Tame, Resolved
<1>. QED
  BY <1>1, <1>2, <1>4, AuthorityAssumption DEF TameSnapshot

\* Who may grant permissions stands in for the platform.
LEMMA GrantersAreSuper ==
  ASSUME AuthorityInv, NEW me \in Granters
  PROVE  /\ me \in People /\ Resolved(me) \in Snapshots
         /\ ~superActed => Resolved(me).super
<1>1. me \in People /\ GrantPerm \in Resolved(me).perms /\ GrantPerm \in PlatformPerms
  BY DEF Granters, PlatformPerms
<1>2. Resolved(me) \in Snapshots
  BY <1>1, EffectiveIs DEF AuthorityInv
<1>3. ~superActed => TameSnapshot(me, Effective(me))
  BY <1>1, TameEffective DEF AuthorityInv, Tame
<1>4. ~superActed => TameSnapshot(me, Resolved(me))
  BY <1>1, <1>3 DEF AuthorityInv, Tame, Resolved
<1>. QED
  BY <1>1, <1>2, <1>4 DEF TameSnapshot

\* Which role may be given to whom by them.
LEMMA GivenIsAllowed ==
  ASSUME AuthorityInv, NEW me \in Managers, NEW u \in People, NEW role \in Roles, ~superActed,
         ~Resolved(me).super, MayTouchRole(Resolved(me), role), me # u => MayTouchUser(Resolved(me), u)
  PROVE  role \in Allowed(u)
<1>1. Resolved(me).rank <= RankOf[UniAdmin] /\ me \notin Roots /\ Resolved(me).rank \in Nat
  BY ManagersAreTame DEF Snapshots
<1>2. u \notin Roots
  BY <1>1 DEF MayTouchUser
<1>3. role # SuperAdmin /\ Rank(role) < Resolved(me).rank
  BY DEF MayTouchRole, Outranks
<1>4. Rank(UniAdmin) = RankOf[UniAdmin]
  BY RanksAre DEF Rank
<1>5. role # UniAdmin
  <2>1. ~(RankOf[UniAdmin] < Resolved(me).rank)
    BY <1>1, RanksAre
  <2>. QED
    BY <2>1, <1>3, <1>4
<1>. QED
  BY <1>2, <1>3, <1>5 DEF Roles, Core, Allowed

LEMMA FreeIsFree ==
  \A r \in FreeRequests : r \in RoleRequests /\ roleReq[r] = NoRoleReq /\ begunReqs < MaxRoleRequests
BY AnyOneIsFree DEF FreeRequests

LEMMA RolesAreAsked ==
  ASSUME AuthorityInv, NEW r \in FreeRequests, NEW me \in Managers, NEW u \in People, NEW role \in Roles,
         AssignRole(r, me, u, role) \/ RemoveRole(r, me, u, role)
  PROVE  AuthorityInv'
<1>1. /\ r \in RoleRequests /\ roleReq[r] = NoRoleReq /\ begunReqs < MaxRoleRequests /\ me \in People
  BY FreeIsFree, ManagersAreTame
<1>2. CASE AssignRole(r, me, u, role)
  <2>. DEFINE req == [NoRoleReq EXCEPT !.op = "assign", !.pc = "write", !.on = u, !.role = role, !.drop = {u}]
              ok == MayAssign(Resolved(me), me, u, role)
  <2>1. BeginRoleReq(r, me, req, ok)
    BY <1>2 DEF AssignRole
  <2>2. req \in RoleReqKinds /\ req.op = "assign" /\ req.pc = "write" /\ req.on = u /\ req.role = role
        /\ req.drop = {u}
    BY DEF NoRoleReq, RoleReqKinds, Ops, Args
  <2>3. ok = TRUE
    BY <2>1 DEF BeginRoleReq, MayAssign
  <2>4. MayTouchRole(Resolved(me), role) /\ (me # u => MayTouchUser(Resolved(me), u))
    BY <2>3 DEF MayAssign
  <2>. HIDE DEF req, ok
  <2>5. WellAsked(req) /\ LeavesOne(req)
    BY <2>2 DEF WellAsked, LeavesOne
  <2>6. ~superActed /\ (Resolved(me).super => req.op \in {"remove", "detach", "delete"}) => TameReq(req)
    BY <2>2, <2>4, GivenIsAllowed DEF TameReq
  <2>. QED
    BY <1>1, <2>1, <2>2, <2>3, <2>5, <2>6, RoleReqBegins
<1>3. CASE RemoveRole(r, me, u, role)
  <2>. DEFINE req == [NoRoleReq EXCEPT !.op = "remove", !.pc = "write", !.on = u, !.role = role, !.drop = {u}]
              ok == MayRemove(Resolved(me), me, u, role)
  <2>1. BeginRoleReq(r, me, req, ok)
    BY <1>3 DEF RemoveRole
  <2>2. req \in RoleReqKinds /\ req.op = "remove" /\ req.pc = "write" /\ req.on = u /\ req.role = role
        /\ req.drop = {u}
    BY DEF NoRoleReq, RoleReqKinds, Ops, Args
  <2>3. ok = TRUE
    BY <2>1 DEF BeginRoleReq, MayRemove
  <2>4. OthersRemain(u, role)
    BY <2>3 DEF MayRemove
  <2>. HIDE DEF req, ok
  <2>5. WellAsked(req) /\ TameReq(req)
    BY <2>2 DEF WellAsked, TameReq
  <2>6. removalsMet \/ LeavesOne(req)
    <3>. SUFFICES ASSUME ~removalsMet, role \in Admins
                  PROVE  \E w \in Scope[role] : w # u /\ role \in holds[w]
      BY <2>2 DEF LeavesOne
    <3>1. CASE role \in holds[u] /\ u \in Scope[role]
      <4>. DEFINE some == Holders(role) \cap Scope[role]
      <4>1. Cardinality(some) > 1
        <5>1. CASE role = SuperAdmin
          <6>1. Cardinality(Holders(role)) > 1 /\ some = Holders(role)
            BY <2>4, <3>1, <5>1, RanksAre DEF OthersRemain, Scope, Holders
          <6>. QED
            BY <6>1
        <5>2. CASE role = UniAdmin
          <6>1. Cardinality(Holders(role) \ Roots) > 1 /\ some = Holders(role) \ Roots
            BY <2>4, <3>1, <5>2 DEF OthersRemain, Scope, Holders
          <6>. QED
            BY <6>1
        <5>. QED
          BY <5>1, <5>2 DEF Admins
      <4>2. some \ {u} # {}
        <5>. HIDE DEF some
        <5>. QED
          BY <4>1, MoreThanOne
      <4>. QED
        BY <4>2 DEF Holders
    <3>2. CASE role \notin holds[u] \/ u \notin Scope[role]
      BY <3>2 DEF AuthorityInv, OneLeft
    <3>. QED
      BY <3>1, <3>2
  <2>. QED
    BY <1>1, <2>1, <2>2, <2>3, <2>5, <2>6, RoleReqBegins
<1>. QED
  BY <1>2, <1>3

LEMMA OverridesAreAsked ==
  ASSUME AuthorityInv, NEW r \in FreeRequests, NEW me \in Granters, NEW u \in CachedUsers,
         NEW how \in {"granted", "denied", "none"}, OverridePerm(r, me, u, how)
  PROVE  AuthorityInv'
<1>1. /\ r \in RoleRequests /\ roleReq[r] = NoRoleReq /\ begunReqs < MaxRoleRequests /\ me \in People
      /\ u \in People
  BY FreeIsFree, GrantersAreSuper, AuthorityAssumption
<1>. DEFINE req == [NoRoleReq EXCEPT !.op = "override", !.pc = "write", !.on = u, !.arg = how, !.drop = {u}]
            ok == how = "none" => override[u] # "none"
<1>2. BeginRoleReq(r, me, req, ok)
  BY DEF OverridePerm
<1>3. req \in RoleReqKinds /\ req.op = "override" /\ req.pc = "write" /\ req.on = u /\ req.arg = how
      /\ req.drop = {u}
  BY <1>1 DEF NoRoleReq, RoleReqKinds, Ops, Args
<1>4. ok \in BOOLEAN
  OBVIOUS
<1>5. ~superActed => Resolved(me).super
  BY GrantersAreSuper
<1>. HIDE DEF req, ok
<1>6. WellAsked(req) /\ LeavesOne(req)
  BY <1>1, <1>3 DEF WellAsked, LeavesOne
<1>7. ~superActed /\ (Resolved(me).super => req.op \in {"remove", "detach", "delete"}) => TameReq(req)
  BY <1>3, <1>5
<1>. QED
  BY <1>1, <1>2, <1>3, <1>4, <1>6, <1>7, RoleReqBegins

LEMMA ShapesAreAsked ==
  ASSUME AuthorityInv, NEW r \in FreeRequests, NEW me \in Managers,
         NEW op \in {"create", "rename", "rank", "attach", "detach", "delete"}, NEW arg \in Args,
         op = "create" => arg \in Namings,
         op = "rename" => arg \in RoleNames,
         op = "rank" => arg \in CustomRanks,
         op \in {"attach", "detach"} => arg \in Perms,
         ShapeRole(r, me, op, arg)
  PROVE  AuthorityInv'
<1>1. /\ r \in RoleRequests /\ roleReq[r] = NoRoleReq /\ begunReqs < MaxRoleRequests /\ me \in People
  BY FreeIsFree, ManagersAreTame
<1>. DEFINE req == [NoRoleReq EXCEPT !.op = op, !.arg = arg,
                                     !.pc = IF op = "delete" THEN "affected" ELSE "write"]
            ok == MayShape(Resolved(me), op, arg)
<1>2. BeginRoleReq(r, me, req, ok)
  BY DEF ShapeRole
<1>3. req \in RoleReqKinds /\ req.op = op /\ req.arg = arg
      /\ req.pc = IF op = "delete" THEN "affected" ELSE "write"
  BY DEF NoRoleReq, RoleReqKinds, Ops, Args
<1>4. ok = TRUE
  BY <1>2 DEF BeginRoleReq, MayShape
<1>5. /\ op = "create" => Resolved(me).super \/ Outranks(Resolved(me), arg.rank)
      /\ op = "rank" => Resolved(me).super \/ Outranks(Resolved(me), arg)
      /\ op = "attach" => Resolved(me).super \/ arg \notin PlatformPerms
  BY <1>4 DEF MayShape
<1>. HIDE DEF req, ok
<1>6. WellAsked(req) /\ LeavesOne(req)
  BY <1>3 DEF WellAsked, LeavesOne
<1>7. ~superActed /\ (Resolved(me).super => req.op \in {"remove", "detach", "delete"}) => TameReq(req)
  <2>. SUFFICES ASSUME ~superActed, Resolved(me).super => op \in {"remove", "detach", "delete"}
                PROVE  TameReq(req)
    BY <1>3
  <2>1. ASSUME NEW n \in Nat, Outranks(Resolved(me), n), ~Resolved(me).super PROVE n < RankOf[UniAdmin]
    <3>1. n < Resolved(me).rank
      BY <2>1 DEF Outranks
    <3>2. Resolved(me).rank <= RankOf[UniAdmin] /\ Resolved(me).rank \in Nat
      BY <2>1, ManagersAreTame DEF Snapshots
    <3>. QED
      BY <3>1, <3>2, RanksAre
  <2>2. op = "create" => arg.rank < RankOf[UniAdmin]
    BY <2>1, <1>5, AuthorityAssumption DEF Namings
  <2>3. op = "rank" => arg < RankOf[UniAdmin]
    BY <2>1, <1>5, AuthorityAssumption
  <2>4. op = "attach" => arg \notin PlatformPerms
    BY <1>5
  <2>. QED
    BY <2>2, <2>3, <2>4, <1>3 DEF TameReq
<1>. QED
  BY <1>1, <1>2, <1>3, <1>4, <1>6, <1>7, RoleReqBegins

LEMMA AuthorityInvStep == AuthorityInv /\ [AuthorityNext]_authorityVars => AuthorityInv'
<1>. SUFFICES ASSUME AuthorityInv, [AuthorityNext]_authorityVars PROVE AuthorityInv'
  OBVIOUS
<1>. USE DEF AuthorityInv
<1>0. AuthorityTypes
  OBVIOUS
\* Steps that leave the rows and the requests alone.
<1>1. ASSUME UNCHANGED <<holds, override, custom, roleReq, begunReqs, superActed, removalsMet>>,
             authz' \in [People -> Snapshots \cup {Uncached}],
             loading' \in [People -> Snapshots \cup {Uncached}], outdated' \subseteq People,
             \A u \in People : authz'[u] \in {authz[u], loading[u], Uncached},
             \A u \in People : loading'[u] \in {loading[u], Effective(u), Uncached},
             \A u \in People \ outdated' :
               \/ authz'[u] = Uncached \/ authz'[u] = Effective(u)
               \/ authz'[u] = authz[u] /\ u \notin outdated
      PROVE  AuthorityInv'
  <2>1. AuthorityTypes' /\ NobodysRole' /\ OneLeft'
    BY <1>1, <1>0 DEF AuthorityTypes, NobodysRole, OneLeft, LeavesOne
  <2>2. Tame'
    <3>. SUFFICES ASSUME ~superActed PROVE Tame'
      BY <1>1 DEF Tame
    <3>1. ASSUME NEW u \in People
          PROVE  /\ authz'[u] # Uncached => TameSnapshot(u, authz'[u])
                 /\ loading'[u] # Uncached => TameSnapshot(u, loading'[u])
      <4>1. TameSnapshot(u, Effective(u))
        BY <1>0, TameEffective DEF Tame
      <4>2. /\ authz'[u] \in {authz[u], loading[u], Uncached}
            /\ loading'[u] \in {loading[u], Effective(u), Uncached}
        BY <1>1
      <4>. QED
        BY <4>1, <4>2 DEF Tame
    <3>. QED
      BY <3>1, <1>1 DEF Tame, TameRole
  <2>3. \A u \in People : Effective(u)' = Effective(u)
    BY <1>1, <1>0, SameEffective
  <2>4. Followed'
    BY <1>1, <2>3 DEF Followed, Dropping
  <2>. QED
    BY <2>1, <2>2, <2>4
<1>2. ASSUME UNCHANGED authorityVars PROVE AuthorityInv'
  BY <1>1, <1>2, <1>0 DEF authorityVars, AuthorityTypes, Followed, Dropping, NobodysRole, Tame, TameRole,
                          OneLeft, LeavesOne, Effective, NameOf, Rank, PermsOf
<1>3. ASSUME NEW u \in People, LoadAuthz(u) \/ CacheAuthz(u) \/ AuthzExpires(u) PROVE AuthorityInv'
  <2>1. UNCHANGED <<holds, override, custom, roleReq, begunReqs, superActed, removalsMet>>
    BY <1>3 DEF LoadAuthz, CacheAuthz, AuthzExpires
  <2>2. CASE LoadAuthz(u)
    <3>1. loading' = [loading EXCEPT ![u] = Effective(u)] /\ UNCHANGED <<authz, outdated>>
      BY <2>2 DEF LoadAuthz
    <3>2. loading' \in [People -> Snapshots \cup {Uncached}]
      BY <3>1, <1>0, EffectiveIs DEF AuthorityTypes
    <3>3. \A w \in People : loading'[w] \in {loading[w], Effective(w), Uncached}
      BY <3>1, <1>0 DEF AuthorityTypes
    <3>. QED
      BY <3>1, <3>2, <3>3, <2>1, <1>0, <1>1 DEF AuthorityTypes
  <2>3. CASE CacheAuthz(u)
    <3>1. /\ authz' = [authz EXCEPT ![u] = loading[u]] /\ loading' = [loading EXCEPT ![u] = Uncached]
          /\ outdated' = IF loading[u] = Effective(u) THEN outdated ELSE outdated \cup {u}
      BY <2>3 DEF CacheAuthz
    <3>2. /\ authz' \in [People -> Snapshots \cup {Uncached}]
          /\ loading' \in [People -> Snapshots \cup {Uncached}] /\ outdated' \subseteq People
      BY <3>1, <1>0 DEF AuthorityTypes
    <3>3. /\ authz'[u] = loading[u] /\ loading'[u] = Uncached
          /\ \A w \in People \ {u} : authz'[w] = authz[w] /\ loading'[w] = loading[w]
      BY <3>1, <1>0 DEF AuthorityTypes
    <3>. QED
      BY <3>1, <3>2, <3>3, <2>1, <1>1
  <2>4. CASE AuthzExpires(u)
    <3>1. /\ authz' = [authz EXCEPT ![u] = Uncached] /\ outdated' = outdated \ {u}
          /\ UNCHANGED loading
      BY <2>4 DEF AuthzExpires
    <3>2. authz' \in [People -> Snapshots \cup {Uncached}] /\ outdated' \subseteq People
      BY <3>1, <1>0 DEF AuthorityTypes
    <3>3. authz'[u] = Uncached /\ \A w \in People \ {u} : authz'[w] = authz[w]
      BY <3>1, <1>0 DEF AuthorityTypes
    <3>. QED
      BY <3>1, <3>2, <3>3, <2>1, <1>0, <1>1 DEF AuthorityTypes
  <2>. QED
    BY <1>3, <2>2, <2>3, <2>4
<1>4. ASSUME NEW r \in RoleRequests, FindAffected(r) PROVE AuthorityInv'
  <2>1. /\ roleReq[r].pc = "affected"
        /\ roleReq' = [roleReq EXCEPT ![r].pc = "write", ![r].drop = Holders(Custom)]
        /\ UNCHANGED <<holds, override, custom, authz, loading, begunReqs, superActed, removalsMet, outdated>>
    BY <1>4 DEF FindAffected
  <2>2. roleReq[r].op = "delete" /\ Holders(Custom) \in SUBSET People
    BY <2>1, <1>0 DEF AuthorityTypes, WellAsked, Holders
  <2>3. /\ roleReq' \in [RoleRequests -> RoleReqKinds] /\ \A z \in RoleRequests : WellAsked(roleReq'[z])
        /\ \A z \in RoleRequests : TameReq(roleReq[z]) => TameReq(roleReq'[z])
        /\ roleReq'[r].pc = "write" /\ roleReq'[r].op = roleReq[r].op
        /\ \A z \in RoleRequests \ {r} : roleReq'[z] = roleReq[z]
    BY <2>1, <2>2, <1>0, RoleReqMoves
  <2>4. AuthorityTypes' /\ NobodysRole' /\ Tame'
    BY <2>1, <2>3, <1>0 DEF AuthorityTypes, NobodysRole, Tame, TameRole
  <2>5. OneLeft'
    BY <2>1, <2>2, <2>3 DEF OneLeft, LeavesOne
  <2>6. \A u \in People : Effective(u)' = Effective(u)
    BY <2>1, <1>0, SameEffective
  <2>7. Followed'
    BY <2>1, <2>3, <2>6 DEF Followed, Dropping
  <2>. QED
    BY <2>4, <2>5, <2>7
<1>5. ASSUME NEW r \in RoleRequests, DropAuthorities(r) PROVE AuthorityInv'
  <2>. DEFINE d == roleReq[r].drop
  <2>1. /\ authz' = [u \in People |-> IF u \in d THEN Uncached ELSE authz[u]]
        /\ outdated' = outdated \ d /\ roleReq' = [roleReq EXCEPT ![r] = NoRoleReq]
        /\ UNCHANGED <<holds, override, custom, loading, begunReqs, superActed, removalsMet>>
    BY <1>5 DEF DropAuthorities
  <2>2. roleReq'[r] = NoRoleReq /\ \A z \in RoleRequests \ {r} : roleReq'[z] = roleReq[z]
    BY <2>1, <1>0 DEF AuthorityTypes
  <2>3. \A u \in People : authz'[u] = IF u \in d THEN Uncached ELSE authz[u]
    BY <2>1
  <2>4. AuthorityTypes'
    <3>1. roleReq' \in [RoleRequests -> RoleReqKinds] /\ \A z \in RoleRequests : WellAsked(roleReq'[z])
      BY <2>1, <2>2, <1>0, NoRoleReqIs DEF AuthorityTypes
    <3>2. authz' \in [People -> Snapshots \cup {Uncached}]
      BY <2>1, <1>0 DEF AuthorityTypes
    <3>. QED
      BY <3>1, <3>2, <2>1, <1>0 DEF AuthorityTypes
  <2>5. NobodysRole'
    BY <2>1 DEF NobodysRole
  <2>6. Tame'
    BY <2>1, <2>2, <2>3, NoRoleReqIs DEF Tame, TameRole
  <2>7. OneLeft'
    <3>1. \A z \in RoleRequests : LeavesOne(roleReq[z]) => LeavesOne(roleReq[z])'
      BY <2>1, <2>2, NoRoleReqIs DEF LeavesOne
    <3>. QED
      BY <3>1, <2>1, <2>2, NoRoleReqIs DEF OneLeft
  <2>8. \A u \in People : Effective(u)' = Effective(u)
    BY <2>1, <1>0, SameEffective
  <2>9. Followed'
    <3>. SUFFICES ASSUME NEW u \in People \ outdated', authz'[u] # Uncached, authz'[u] # Effective(u)
                  PROVE  Dropping(u)'
      BY <2>8 DEF Followed
    <3>1. u \notin d /\ u \in People \ outdated /\ authz[u] # Uncached /\ authz[u] # Effective(u)
      BY <2>1, <2>3
    <3>2. Dropping(u)
      BY <3>1 DEF Followed
    <3>. QED
      BY <3>1, <3>2, <2>2 DEF Dropping
  <2>. QED
    BY <2>4, <2>5, <2>6, <2>7, <2>9
<1>6. ASSUME NEW r \in FreeRequests, NEW me \in Managers,
             \/ \E n \in CustomRanks : \/ ShapeRole(r, me, "rank", n)
                                      \/ \E name \in RoleNames :
                                           ShapeRole(r, me, "create", [name |-> name, rank |-> n])
             \/ ShapeRole(r, me, "rename", SuperAdmin)
             \/ \E op \in {"attach", "detach"}, p \in Perms : ShapeRole(r, me, op, p)
             \/ ShapeRole(r, me, "delete", Uncached)
      PROVE  AuthorityInv'
  <2>1. CASE \E n \in CustomRanks, name \in RoleNames :
               ShapeRole(r, me, "create", [name |-> name, rank |-> n])
    <3>1. PICK n \in CustomRanks, name \in RoleNames :
            ShapeRole(r, me, "create", [name |-> name, rank |-> n])
      BY <2>1
    <3>. DEFINE arg == [name |-> name, rank |-> n]
    <3>2. arg \in Namings /\ ShapeRole(r, me, "create", arg)
      BY <3>1 DEF Namings
    <3>. HIDE DEF arg
    <3>. QED
      BY <3>2, ShapesAreAsked DEF Args
  <2>2. CASE \E n \in CustomRanks : ShapeRole(r, me, "rank", n)
    BY <2>2, ShapesAreAsked DEF Args
  <2>3. CASE ShapeRole(r, me, "rename", SuperAdmin)
    BY <2>3, ShapesAreAsked DEF Args, RoleNames
  <2>4. CASE \E op \in {"attach", "detach"}, p \in Perms : ShapeRole(r, me, op, p)
    BY <2>4, ShapesAreAsked DEF Args
  <2>5. CASE ShapeRole(r, me, "delete", Uncached)
    BY <2>5, ShapesAreAsked DEF Args
  <2>. QED
    BY <1>6, <2>1, <2>2, <2>3, <2>4, <2>5
<1>7. ASSUME NEW r \in FreeRequests, NEW me \in Managers,
             \E u \in People, role \in Core \cup {Custom} :
               AssignRole(r, me, u, role) \/ RemoveRole(r, me, u, role)
      PROVE  AuthorityInv'
  BY <1>7, RolesAreAsked DEF Roles
<1>8. ASSUME NEW r \in FreeRequests, NEW me \in Granters, NEW u \in CachedUsers,
             NEW how \in {"granted", "denied", "none"}, OverridePerm(r, me, u, how)
      PROVE  AuthorityInv'
  BY <1>8, OverridesAreAsked
<1>. QED
  BY <1>2, <1>3, <1>4, <1>5, <1>6, <1>7, <1>8, RoleReqWritesSoundly DEF AuthorityNext

LEMMA AuthorityInvIsSound == AuthorityInv => AuthoritySound
<1>. SUFFICES ASSUME AuthorityInv PROVE AuthoritySound
  OBVIOUS
<1>. USE DEF AuthorityInv
<1>1. AuthorityTypeOK
  BY DEF AuthorityTypes, Roles, RoleReqKinds, CustomRows, AuthorityTypeOK
<1>2. NoOneRises
  <2>. SUFFICES ASSUME ~superActed, NEW u \in People \ Roots
                PROVE  /\ SuperAdmin \notin holds[u] /\ GrantPerm \notin Effective(u).perms
                       /\ Effective(u).super => Custom \in holds[u] /\ custom.name = SuperAdmin
                       /\ u \notin Deans => Effective(u).rank < RankOf[UniAdmin]
                                            /\ ManagePerm \notin Effective(u).perms
    BY DEF NoOneRises
  <2>1. TameSnapshot(u, Effective(u)) /\ SuperAdmin \notin holds[u]
    BY TameEffective, RanksAre DEF Tame, Allowed
  <2>2. Effective(u).super => Custom \in holds[u] /\ custom.name = SuperAdmin
    BY <2>1, EffectiveIs
  <2>. QED
    BY <2>1, <2>2 DEF TameSnapshot
<1>3. AdminRemains
  BY RanksAre DEF OneLeft, AdminRemains, Holders, Admins, Scope
<1>4. AuthorityFollows
  BY NoRoleReqIs DEF Followed, Dropping, AuthorityFollows
<1>. QED
  BY <1>1, <1>2, <1>3, <1>4 DEF AuthoritySound

(* Whatever requests and loads overlap: while nobody judged a super admin  *)
(* gives anything, nobody rises to an admin's rank, gains a permission of  *)
(* the platform or is judged a super admin but by the name of the tenant's *)
(* own role; an admin remains unless two removals meet; and the cached     *)
(* authority follows the rows, but for the cases in which it is known to   *)
(* be old until its TTL.                                                   *)
THEOREM AuthorityIsSound == AuthoritySpec => []AuthoritySound
<1>1. AuthoritySpec => []AuthorityInv
  BY AuthorityInvInit, AuthorityInvStep, PTL DEF AuthoritySpec
<1>. QED
  BY <1>1, AuthorityInvIsSound, PTL

-----------------------------------------------------------------------------
(***************************************************************************)
(* The committee.  One update holds its row and saw all the members there  *)
(* are; a vote not marked as overtaken stands where the tables still put   *)
(* it, and counted the members there are; so did a reading of the tally.   *)
(***************************************************************************)
ChangeKinds ==
  {NoChange} \cup [pc : {"asked", "locked", "deleted"}, rename : BOOLEAN, active : BOOLEAN \cup {Kept},
                   list : Rolls \cup {Kept}, saw : SUBSET Colleagues]
VotePcs == {"idle", "asked", "active", "member", "voted", "counting", "counted"}
VotingKinds ==
  [pc : VotePcs, vote : {"none", "approve", "reject"}, for : Nat, against : Nat, size : Nat, moved : BOOLEAN]
TallyKinds ==
  [pc : {"idle", "found", "rows", "votes", "list", "shown"}, size : Nat, voted : SUBSET Colleagues,
   listed : SUBSET Colleagues, moved : BOOLEAN]
CommitteeTypes ==
  /\ committee \in [there : BOOLEAN, active : BOOLEAN, members : SUBSET Colleagues]
  /\ clerk \in [Clerks -> ChangeKinds]
  /\ stage \in {"role", "committee", "decided"}
  /\ ballot \in [Colleagues -> {"none", "approve", "reject"}]
  /\ voter \in [Colleagues -> VotingKinds] /\ tallied \in TallyKinds

NothingBefore ==
  ~committee.there =>
    /\ stage = "role" /\ tallied.pc = "idle"
    /\ \A r \in Clerks : clerk[r].pc = "idle"
    /\ \A u \in Colleagues : voter[u].pc = "idle"
Holds(r) == clerk[r].pc \in {"locked", "deleted"}
OneHolds ==
  /\ \A r, q \in Clerks : Holds(r) /\ Holds(q) => r = q
  /\ \A r \in Clerks : clerk[r].pc = "deleted" =>
       clerk[r].saw = IF clerk[r].list = Kept THEN {} ELSE committee.members
Vouched(u, v) ==
  ~v.moved =>
    /\ v.pc = "active" => committee.active
    /\ v.pc \in {"member", "voted", "counting", "counted"} => isActiveMember(u)
    /\ v.pc = "counted" => v.size = Cardinality(committee.members)
VotersVouched == \A u \in Colleagues : Vouched(u, voter[u])
TallyVouched ==
  /\ tallied.pc \in {"found", "rows"} => tallied.size = 0
  /\ ~tallied.moved /\ tallied.size > 0 =>
       /\ tallied.pc \in {"votes", "list"} => tallied.size = Cardinality(committee.members)
       /\ tallied.pc = "shown" => tallied.size = Cardinality(tallied.listed)

CommitteeInv ==
  CommitteeTypes /\ NothingBefore /\ OneHolds /\ MembersAsAsked /\ VotersVouched /\ TallyVouched

LEMMA ColleaguesAreFinite ==
  \A some \in SUBSET Colleagues : IsFiniteSet(some) /\ Cardinality(some) \in Nat
BY CommitteeAssumption, FS_Subset, FS_CardinalityType

LEMMA NoChangeIs == NoChange \in ChangeKinds /\ NoChange.pc = "idle"
BY DEF NoChange, ChangeKinds
LEMMA ChangeIs ==
  \A c \in ChangeKinds :
    /\ c.pc \in {"idle", "asked", "locked", "deleted"}
    /\ c.pc # "idle" => /\ c.active \in BOOLEAN \cup {Kept} /\ c.list \in Rolls \cup {Kept}
                        /\ c.saw \in SUBSET Colleagues /\ c.rename \in BOOLEAN
                        /\ c = [pc |-> c.pc, rename |-> c.rename, active |-> c.active, list |-> c.list,
                                saw |-> c.saw]
BY DEF NoChange, ChangeKinds
LEMMA NoVotingIs == NoVoting \in VotingKinds /\ NoVoting.pc = "idle"
BY DEF NoVoting, VotingKinds, VotePcs
LEMMA NoTallyIs == NoTally \in TallyKinds /\ NoTally.pc = "idle" /\ NoTally.size = 0
BY DEF NoTally, TallyKinds

LEMMA CommitteeInvInit == CommitteeInit => CommitteeInv
<1>. SUFFICES ASSUME CommitteeInit PROVE CommitteeInv
  OBVIOUS
<1>1. committee.there = FALSE /\ committee.members = {}
      /\ committee \in [there : BOOLEAN, active : BOOLEAN, members : SUBSET Colleagues]
  BY DEF CommitteeInit
<1>2. CommitteeTypes
  BY <1>1, NoChangeIs, NoVotingIs, NoTallyIs DEF CommitteeInit, CommitteeTypes
<1>3. NothingBefore /\ MembersAsAsked
  BY <1>1, NoChangeIs, NoVotingIs, NoTallyIs DEF CommitteeInit, NothingBefore, MembersAsAsked
<1>4. OneHolds /\ TallyVouched
  BY NoChangeIs, NoTallyIs DEF CommitteeInit, OneHolds, Holds, TallyVouched
<1>5. VotersVouched
  BY NoVotingIs DEF CommitteeInit, VotersVouched, Vouched
<1>. QED
  BY <1>2, <1>3, <1>4, <1>5 DEF CommitteeInv

\* A clerk goes on while the committee stands still.
LEMMA ClerkGoes ==
  ASSUME CommitteeInv, NEW r \in Clerks, NEW new \in ChangeKinds,
         clerk' = [clerk EXCEPT ![r] = new], committee.there,
         UNCHANGED <<committee, stage, ballot, voter, tallied, wanted>>,
         new.pc \in {"locked", "deleted"} => Holds(r) \/ RowIsFree,
         new.pc = "deleted" => new.saw = IF new.list = Kept THEN {} ELSE committee.members
  PROVE  CommitteeInv'
<1>. USE DEF CommitteeInv
<1>1. clerk'[r] = new /\ \A z \in Clerks \ {r} : clerk'[z] = clerk[z]
  BY DEF CommitteeTypes
<1>2. CommitteeTypes'
  BY DEF CommitteeTypes
<1>3. OneHolds'
  <2>1. ASSUME NEW y \in Clerks, NEW z \in Clerks, Holds(y)', Holds(z)' PROVE y = z
    BY <2>1, <1>1 DEF OneHolds, Holds, RowIsFree
  <2>2. ASSUME NEW z \in Clerks, clerk'[z].pc = "deleted"
        PROVE  clerk'[z].saw = IF clerk'[z].list = Kept THEN {} ELSE committee.members
    BY <2>2, <1>1 DEF OneHolds
  <2>. QED
    BY <2>1, <2>2 DEF OneHolds
<1>. QED
  BY <1>2, <1>3
     DEF NothingBefore, MembersAsAsked, VotersVouched, Vouched, isActiveMember, TallyVouched

\* A vote goes on; nothing it relies on changes.
LEMMA VoterGoes ==
  ASSUME CommitteeInv, NEW u \in Colleagues, NEW new \in VotingKinds,
         voter' = [voter EXCEPT ![u] = new], committee.there, Vouched(u, new),
         UNCHANGED <<committee, clerk, wanted>>,
         stage' \in {"role", "committee", "decided"},
         ballot' \in [Colleagues -> {"none", "approve", "reject"}],
         tallied' \in TallyKinds, tallied'.pc = tallied.pc, tallied'.size = tallied.size,
         tallied'.listed = tallied.listed, tallied'.moved = FALSE => tallied' = tallied
  PROVE  CommitteeInv'
<1>. USE DEF CommitteeInv
<1>1. voter'[u] = new /\ \A z \in Colleagues \ {u} : voter'[z] = voter[z]
  BY DEF CommitteeTypes
<1>2. CommitteeTypes'
  BY DEF CommitteeTypes
<1>3. NothingBefore' /\ MembersAsAsked' /\ OneHolds'
  BY DEF NothingBefore, MembersAsAsked, OneHolds, Holds
<1>4. VotersVouched'
  BY <1>1 DEF VotersVouched, Vouched, isActiveMember
<1>5. TallyVouched'
  BY <1>2 DEF TallyVouched, CommitteeTypes, TallyKinds
<1>. QED
  BY <1>2, <1>3, <1>4, <1>5

\* What a change of the committee does to those that read it.
LEMMA ReadersAreMoved ==
  ASSUME CommitteeTypes
  PROVE  /\ Moved(voter) \in [Colleagues -> VotingKinds]
         /\ \A u \in Colleagues : /\ Moved(voter)[u].pc = voter[u].pc
                                  /\ voter[u].pc # "idle" => Moved(voter)[u].moved
         /\ TallyMoved \in TallyKinds /\ TallyMoved.pc = tallied.pc /\ TallyMoved.size = tallied.size
         /\ TallyMoved.listed = tallied.listed
         /\ TallyMoved.moved = FALSE => TallyMoved = tallied
         /\ tallied.pc \notin {"idle", "shown"} => TallyMoved.moved
<1>1. ASSUME NEW u \in Colleagues
      PROVE  /\ Moved(voter)[u] \in VotingKinds /\ Moved(voter)[u].pc = voter[u].pc
             /\ voter[u].pc # "idle" => Moved(voter)[u].moved
  <2>1. voter[u] \in VotingKinds
    BY DEF CommitteeTypes
  <2>2. CASE voter[u].pc = "idle"
    BY <2>1, <2>2 DEF Moved
  <2>3. CASE voter[u].pc # "idle"
    <3>1. Moved(voter)[u] = [voter[u] EXCEPT !.moved = TRUE]
      BY <2>3 DEF Moved
    <3>. QED
      BY <2>1, <3>1 DEF VotingKinds
  <2>. QED
    BY <2>2, <2>3
<1>2. tallied \in TallyKinds
  BY DEF CommitteeTypes
<1>3. /\ TallyMoved \in TallyKinds /\ TallyMoved.pc = tallied.pc /\ TallyMoved.size = tallied.size
      /\ TallyMoved.listed = tallied.listed
      /\ TallyMoved.moved = FALSE => TallyMoved = tallied
      /\ tallied.pc \notin {"idle", "shown"} => TallyMoved.moved
  <2>1. CASE tallied.pc \in {"idle", "shown"}
    BY <1>2, <2>1 DEF TallyMoved
  <2>2. CASE tallied.pc \notin {"idle", "shown"}
    <3>1. TallyMoved = [tallied EXCEPT !.moved = TRUE]
      BY <2>2 DEF TallyMoved
    <3>. QED
      BY <1>2, <3>1 DEF TallyKinds
  <2>. QED
    BY <2>1, <2>2
<1>. QED
  BY <1>1, <1>3 DEF Moved

LEMMA VotingTo ==
  ASSUME NEW v \in VotingKinds, NEW p \in VotePcs
  PROVE  /\ [v EXCEPT !.pc = p] \in VotingKinds /\ [v EXCEPT !.pc = p].pc = p
         /\ [v EXCEPT !.pc = p].moved = v.moved /\ [v EXCEPT !.pc = p].size = v.size
BY DEF VotingKinds
\* An update goes on, having read what it read.
LEMMA ChangeTo ==
  ASSUME NEW c \in ChangeKinds, c.pc # "idle"
  PROVE  /\ [c EXCEPT !.pc = "locked"] \in ChangeKinds /\ [c EXCEPT !.pc = "locked"].pc = "locked"
         /\ \A some \in SUBSET Colleagues :
              LET d == [c EXCEPT !.pc = "deleted", !.saw = some] IN
              d \in ChangeKinds /\ d.pc = "deleted" /\ d.saw = some /\ d.list = c.list
<1>1. c \in [pc : {"asked", "locked", "deleted"}, rename : BOOLEAN, active : BOOLEAN \cup {Kept},
             list : Rolls \cup {Kept}, saw : SUBSET Colleagues]
  BY DEF ChangeKinds, NoChange
<1>. QED
  BY <1>1 DEF ChangeKinds

LEMMA CommitteeInvStep == CommitteeInv /\ [CommitteeNext]_committeeVars => CommitteeInv'
<1>. SUFFICES ASSUME CommitteeInv, [CommitteeNext]_committeeVars PROVE CommitteeInv'
  OBVIOUS
<1>. USE DEF CommitteeInv
<1>0. CommitteeTypes
  OBVIOUS
<1>1. ASSUME UNCHANGED committeeVars PROVE CommitteeInv'
  BY <1>1 DEF committeeVars, CommitteeTypes, NothingBefore, OneHolds, Holds, MembersAsAsked, VotersVouched,
              Vouched, isActiveMember, TallyVouched
<1>2. ASSUME NEW list \in Rolls, NEW active \in BOOLEAN, CreateCommittee(list, active)
      PROVE  CommitteeInv'
  <2>1. /\ ~committee.there /\ committee' = [there |-> TRUE, active |-> active, members |-> list]
        /\ wanted' = list /\ UNCHANGED <<clerk, stage, ballot, voter, tallied>>
    BY <1>2 DEF CreateCommittee
  <2>2. list \in SUBSET Colleagues
    BY CommitteeAssumption
  <2>3. committee'.there = TRUE /\ committee'.members = list
        /\ committee' \in [there : BOOLEAN, active : BOOLEAN, members : SUBSET Colleagues]
    BY <2>1, <2>2
  <2>4. CommitteeTypes' /\ NothingBefore' /\ MembersAsAsked'
    BY <2>1, <2>3 DEF CommitteeTypes, NothingBefore, MembersAsAsked
  <2>5. OneHolds' /\ TallyVouched'
    BY <2>1 DEF NothingBefore, OneHolds, Holds, TallyVouched
  <2>6. VotersVouched'
    BY <2>1 DEF NothingBefore, VotersVouched, Vouched
  <2>. QED
    BY <2>4, <2>5, <2>6
<1>3. ASSUME NEW r \in Clerks, NEW rename \in BOOLEAN, NEW active \in BOOLEAN \cup {Kept},
             NEW list \in Rolls \cup {Kept}, AskChange(r, rename, active, list)
      PROVE  CommitteeInv'
  <2>. DEFINE new == [pc |-> "asked", rename |-> rename, active |-> active, list |-> list, saw |-> {}]
  <2>1. new \in ChangeKinds /\ new.pc = "asked"
    BY DEF ChangeKinds
  <2>. HIDE DEF new
  <2>2. /\ clerk' = [clerk EXCEPT ![r] = new] /\ committee.there
        /\ UNCHANGED <<committee, stage, ballot, voter, tallied, wanted>>
    BY <1>3 DEF AskChange, new
  <2>. QED
    BY <2>1, <2>2, ClerkGoes
<1>4. ASSUME NEW r \in Clerks, LockRow(r) \/ DeleteMembers(r) PROVE CommitteeInv'
  <2>1. /\ clerk[r] \in ChangeKinds /\ clerk[r].pc # "idle"
        /\ UNCHANGED <<committee, stage, ballot, voter, tallied, wanted>>
    BY <1>4, <1>0 DEF LockRow, DeleteMembers, CommitteeTypes
  <2>2. committee.there
    BY <2>1 DEF NothingBefore
  <2>4. CASE LockRow(r) /\ SetsNothing(clerk[r])
    <3>1. clerk' = [clerk EXCEPT ![r] = NoChange]
      BY <2>4 DEF LockRow
    <3>. QED
      BY <3>1, <2>1, <2>2, NoChangeIs, ClerkGoes
  <2>5. CASE LockRow(r) /\ ~SetsNothing(clerk[r])
    <3>1. clerk' = [clerk EXCEPT ![r].pc = "locked"] /\ RowIsFree
      BY <2>5 DEF LockRow
    <3>2. clerk' = [clerk EXCEPT ![r] = [clerk[r] EXCEPT !.pc = "locked"]]
      BY <3>1, <1>0 DEF CommitteeTypes
    <3>. QED
      BY <3>1, <3>2, <2>1, <2>2, ChangeTo, ClerkGoes
  <2>6. CASE DeleteMembers(r)
    <3>. DEFINE sees == IF clerk[r].list = Kept THEN {} ELSE committee.members
    <3>1. clerk' = [clerk EXCEPT ![r].pc = "deleted", ![r].saw = sees] /\ clerk[r].pc = "locked"
      BY <2>6 DEF DeleteMembers
    <3>2. sees \in SUBSET Colleagues
      BY <1>0 DEF CommitteeTypes
    <3>. HIDE DEF sees
    <3>. DEFINE new == [clerk[r] EXCEPT !.pc = "deleted", !.saw = sees]
    <3>3. new \in ChangeKinds /\ new.pc = "deleted" /\ new.saw = sees /\ new.list = clerk[r].list
      BY <2>1, <3>2, ChangeTo
    <3>4. clerk' = [clerk EXCEPT ![r] = new]
      BY <3>1, <1>0 DEF CommitteeTypes
    <3>5. new.saw = IF new.list = Kept THEN {} ELSE committee.members
      BY <3>3 DEF sees
    <3>. HIDE DEF new
    <3>6. Holds(r)
      BY <3>1 DEF Holds
    <3>. QED
      BY <3>3, <3>4, <3>5, <3>6, <2>1, <2>2, ClerkGoes
  <2>. QED
    BY <1>4, <2>4, <2>5, <2>6 DEF LockRow
<1>5. ASSUME NEW r \in Clerks, CommitChange(r) PROVE CommitteeInv'
  <2>. DEFINE patch == clerk[r]
              left == committee.members \ patch.saw
              list == IF patch.list = Kept THEN {} ELSE patch.list
  <2>1. patch.pc = "deleted" /\ clerk' = [clerk EXCEPT ![r] = NoChange] /\ UNCHANGED <<stage, ballot>>
    BY <1>5 DEF CommitChange
  <2>2. committee.there
    BY <2>1 DEF NothingBefore
  <2>3. CASE left \cap list # {}
    <3>1. UNCHANGED <<committee, voter, tallied, wanted>>
      BY <2>3, <1>5 DEF CommitChange
    <3>. QED
      BY <3>1, <2>1, <2>2, NoChangeIs, ClerkGoes
  <2>4. CASE left \cap list = {}
    <3>1. /\ committee' = [committee EXCEPT !.active = IF patch.active = Kept THEN committee.active
                                                        ELSE patch.active,
                                            !.members = left \cup list]
          /\ wanted' = (IF patch.list = Kept THEN wanted ELSE list)
          /\ voter' = Moved(voter) /\ tallied' = TallyMoved
      BY <2>4, <1>5 DEF CommitChange
    <3>2. patch.active \in BOOLEAN \cup {Kept} /\ patch.list \in Rolls \cup {Kept}
      BY <2>1, <1>0, ChangeIs DEF CommitteeTypes
    <3>3. list \in SUBSET Colleagues
      BY <3>2, CommitteeAssumption
    <3>4. committee'.members = left \cup list /\ committee'.there = committee.there
          /\ committee' \in [there : BOOLEAN, active : BOOLEAN, members : SUBSET Colleagues]
      BY <3>1, <3>2, <3>3, <1>0 DEF CommitteeTypes
    <3>5. patch.saw = IF patch.list = Kept THEN {} ELSE committee.members
      BY <2>1 DEF OneHolds
    <3>6. left \cup list = IF patch.list = Kept THEN committee.members ELSE list
      BY <3>5
    <3>7. MembersAsAsked'
      BY <3>1, <3>4, <3>6 DEF MembersAsAsked
    <3>8. clerk'[r] = NoChange /\ \A z \in Clerks \ {r} : clerk'[z] = clerk[z]
      BY <2>1, <1>0 DEF CommitteeTypes
    <3>9. CommitteeTypes'
      <4>1. clerk' \in [Clerks -> ChangeKinds]
        BY <2>1, <1>0, NoChangeIs DEF CommitteeTypes
      <4>. QED
        BY <4>1, <2>1, <3>1, <3>4, <1>0, ReadersAreMoved DEF CommitteeTypes
    <3>10. NothingBefore'
      BY <3>4, <2>2 DEF NothingBefore
    <3>11. OneHolds'
      <4>1. \A z \in Clerks : ~Holds(z)'
        BY <2>1, <3>8, NoChangeIs DEF OneHolds, Holds
      <4>. QED
        BY <4>1 DEF OneHolds, Holds
    <3>12. VotersVouched'
      BY <3>1, <1>0, ReadersAreMoved DEF VotersVouched, Vouched
    <3>13. TallyVouched'
      <4>1. tallied' \in TallyKinds /\ tallied'.pc = tallied.pc /\ tallied'.size = tallied.size
            /\ tallied'.listed = tallied.listed /\ (tallied'.moved = FALSE => tallied' = tallied)
            /\ (tallied.pc \notin {"idle", "shown"} => tallied'.moved)
        BY <3>1, <1>0, ReadersAreMoved
      <4>2. tallied'.moved \in BOOLEAN
        BY <4>1 DEF TallyKinds
      <4>. QED
        BY <4>1, <4>2 DEF TallyVouched
    <3>. QED
      BY <3>7, <3>9, <3>10, <3>11, <3>12, <3>13
  <2>. QED
    BY <2>3, <2>4
<1>6. ASSUME RoleStepApproved PROVE CommitteeInv'
  BY <1>6, <1>0
     DEF RoleStepApproved, CommitteeTypes, NothingBefore, OneHolds, Holds, MembersAsAsked, VotersVouched,
         Vouched, isActiveMember, TallyVouched
\* The votes.
<1>7. ASSUME NEW u \in Colleagues, NEW v \in {"approve", "reject"}, AskVote(u, v) PROVE CommitteeInv'
  <2>1. PICK new : new = [NoVoting EXCEPT !.pc = "asked", !.vote = v]
    OBVIOUS
  <2>2. new \in VotingKinds /\ new.pc = "asked"
    BY <2>1 DEF NoVoting, VotingKinds, VotePcs
  <2>3. stage = "committee" /\ voter' = [voter EXCEPT ![u] = new]
        /\ UNCHANGED <<committee, clerk, stage, ballot, tallied, wanted>>
    BY <1>7, <2>1 DEF AskVote
  <2>4. committee.there
    BY <2>3 DEF NothingBefore
  <2>5. Vouched(u, new)
    BY <2>2 DEF Vouched
  <2>. QED
    BY <2>2, <2>3, <2>4, <2>5, <1>0, VoterGoes DEF CommitteeTypes
<1>8. ASSUME NEW u \in Colleagues, SeeActive(u) \/ SeeMember(u) \/ CountActive(u) PROVE CommitteeInv'
  <2>1. voter[u] \in VotingKinds /\ voter[u].pc # "idle"
        /\ UNCHANGED <<committee, clerk, stage, ballot, tallied, wanted>>
    BY <1>8, <1>0 DEF SeeActive, SeeMember, CountActive, CommitteeTypes
  <2>2. committee.there
    BY <2>1 DEF NothingBefore
  <2>3. Vouched(u, voter[u])
    BY DEF VotersVouched
  <2>4. PICK new \in VotingKinds : voter' = [voter EXCEPT ![u] = new] /\ Vouched(u, new)
    <3>1. CASE voter' = [voter EXCEPT ![u] = NoVoting]
      BY <3>1, NoVotingIs DEF Vouched
    <3>2. ASSUME NEW p \in VotePcs \ {"idle"}, Goto(u, p), Vouched(u, [voter[u] EXCEPT !.pc = p])
          PROVE  \E new \in VotingKinds : voter' = [voter EXCEPT ![u] = new] /\ Vouched(u, new)
      <4>1. voter' = [voter EXCEPT ![u] = [voter[u] EXCEPT !.pc = p]]
        BY <3>2, <1>0 DEF Goto, CommitteeTypes
      <4>. QED
        BY <4>1, <3>2, <2>1, VotingTo
    <3>3. CASE Goto(u, "idle")
      BY <3>1, <3>3, <1>0 DEF Goto, CommitteeTypes
    <3>4. CASE SeeActive(u)
      <4>1. committee.active => Vouched(u, [voter[u] EXCEPT !.pc = "active"])
        BY <2>1, VotingTo DEF Vouched, VotePcs
      <4>2. committee.active => Goto(u, "active")
        BY <3>4 DEF SeeActive
      <4>3. ~committee.active => Goto(u, "idle")
        BY <3>4 DEF SeeActive
      <4>. QED
        BY <4>1, <4>2, <4>3, <3>2, <3>3 DEF VotePcs
    <3>5. CASE SeeMember(u)
      <4>1. voter[u].pc = "active"
        BY <3>5 DEF SeeMember
      <4>2. HasRow(u) => Vouched(u, [voter[u] EXCEPT !.pc = "member"])
        BY <4>1, <2>1, <2>2, <2>3, VotingTo DEF Vouched, VotePcs, HasRow, isActiveMember
      <4>3. HasRow(u) => Goto(u, "member")
        BY <3>5 DEF SeeMember
      <4>4. ~HasRow(u) => Goto(u, "idle")
        BY <3>5 DEF SeeMember
      <4>. QED
        BY <4>2, <4>3, <4>4, <3>2, <3>3 DEF VotePcs
    <3>6. CASE CountActive(u)
      <4>1. voter[u].pc = "voted"
        BY <3>6 DEF CountActive
      <4>2. committee.active => Vouched(u, [voter[u] EXCEPT !.pc = "counting"])
        BY <4>1, <2>1, <2>3, VotingTo DEF Vouched, VotePcs
      <4>3. ~committee.active => Vouched(u, [voter[u] EXCEPT !.pc = "counted"])
        BY <4>1, <2>1, <2>3, VotingTo DEF Vouched, VotePcs, isActiveMember
      <4>4. committee.active => Goto(u, "counting")
        BY <3>6 DEF CountActive
      <4>5. ~committee.active => Goto(u, "counted")
        BY <3>6 DEF CountActive
      <4>. QED
        BY <4>2, <4>3, <4>4, <4>5, <3>2 DEF VotePcs
    <3>. QED
      BY <1>8, <3>4, <3>5, <3>6
  <2>. QED
    BY <2>1, <2>2, <2>4, <1>0, VoterGoes DEF CommitteeTypes
<1>9. ASSUME NEW u \in Colleagues, ReadVotes(u) \/ CountRows(u) PROVE CommitteeInv'
  <2>1. voter[u] \in VotingKinds /\ voter[u].pc # "idle"
        /\ UNCHANGED <<committee, clerk, stage, ballot, tallied, wanted>>
    BY <1>9, <1>0 DEF ReadVotes, CountRows, CommitteeTypes
  <2>2. committee.there
    BY <2>1 DEF NothingBefore
  <2>3. Vouched(u, voter[u])
    BY DEF VotersVouched
  <2>4. PICK new \in VotingKinds : voter' = [voter EXCEPT ![u] = new] /\ Vouched(u, new)
    <3>1. CASE ReadVotes(u)
      <4>. DEFINE seen == [ballot EXCEPT ![u] = voter[u].vote]
                  count(v) == Cardinality({w \in Colleagues : seen[w] = v})
      <4>1. count("approve") \in Nat /\ count("reject") \in Nat
        BY ColleaguesAreFinite
      <4>2. PICK new : new = [voter[u] EXCEPT !.pc = "voted", !.for = count("approve"),
                                             !.against = count("reject")]
        OBVIOUS
      <4>3. voter' = [voter EXCEPT ![u] = new] /\ voter[u].pc = "member"
        BY <3>1, <4>2 DEF ReadVotes
      <4>. HIDE DEF count
      <4>4. new \in VotingKinds /\ new.pc = "voted" /\ new.moved = voter[u].moved
        BY <4>1, <4>2, <2>1 DEF VotingKinds, VotePcs
      <4>. QED
        BY <4>3, <4>4, <2>3 DEF Vouched
    <3>2. CASE CountRows(u)
      <4>1. committee.members \in SUBSET Colleagues
        BY <1>0 DEF CommitteeTypes
      <4>2. Cardinality(committee.members) \in Nat
        BY <4>1, ColleaguesAreFinite
      <4>3. PICK new : new = [voter[u] EXCEPT !.pc = "counted", !.size = Cardinality(committee.members)]
        OBVIOUS
      <4>4. voter' = [voter EXCEPT ![u] = new] /\ voter[u].pc = "counting"
        BY <3>2, <4>3 DEF CountRows
      <4>5. new \in VotingKinds /\ new.pc = "counted" /\ new.moved = voter[u].moved
            /\ new.size = Cardinality(committee.members)
        BY <4>2, <4>3, <2>1 DEF VotingKinds, VotePcs
      <4>. QED
        BY <4>4, <4>5, <2>3 DEF Vouched
    <3>. QED
      BY <1>9, <3>1, <3>2
  <2>. QED
    BY <2>1, <2>2, <2>4, <1>0, VoterGoes DEF CommitteeTypes
<1>10. ASSUME NEW u \in Colleagues, CommitBallot(u) PROVE CommitteeInv'
  <2>1. voter[u] \in VotingKinds /\ voter[u].pc # "idle" /\ UNCHANGED <<committee, clerk, wanted>>
    BY <1>10, <1>0 DEF CommitBallot, CommitteeTypes
  <2>2. committee.there
    BY <2>1 DEF NothingBefore
  <2>3. voter' = [voter EXCEPT ![u] = NoVoting] /\ Vouched(u, NoVoting) /\ tallied' = TallyMoved
    BY <1>10, NoVotingIs DEF CommitBallot, Goto, Vouched
  <2>4. ballot' \in [Colleagues -> {"none", "approve", "reject"}] /\ stage' \in {"role", "committee", "decided"}
    BY <1>10, <2>1, <1>0 DEF CommitBallot, CommitteeTypes, VotingKinds
  <2>. QED
    BY <2>1, <2>2, <2>3, <2>4, <1>0, NoVotingIs, ReadersAreMoved, VoterGoes
\* A reading of the tally.
<1>11. ASSUME ReadTally PROVE CommitteeInv'
  <2>1. UNCHANGED <<committee, clerk, stage, ballot, voter, wanted>>
    BY <1>11 DEF ReadTally, TallyStep
  <2>2. committee.there
    BY <1>11 DEF ReadTally, TallyStep, NothingBefore
  <2>3. tallied \in TallyKinds /\ committee.members \in SUBSET Colleagues
    BY <1>0 DEF CommitteeTypes
  <2>4. Cardinality(committee.members) \in Nat
    BY <2>3, ColleaguesAreFinite
  <2>5. tallied' \in TallyKinds /\ TallyVouched'
    <3>1. CASE TallyStep("idle", [NoTally EXCEPT !.pc = "found"])
      <4>1. tallied' = [NoTally EXCEPT !.pc = "found"]
        BY <3>1 DEF TallyStep
      <4>2. tallied' \in TallyKinds /\ tallied'.size = 0
        BY <4>1 DEF NoTally, TallyKinds
      <4>. QED
        BY <4>2 DEF TallyVouched
    <3>2. CASE TallyStep("found", [tallied EXCEPT !.pc = IF committee.active THEN "rows" ELSE "votes"])
      <4>1. tallied.pc = "found" /\ \E p \in {"rows", "votes"} : tallied' = [tallied EXCEPT !.pc = p]
        BY <3>2 DEF TallyStep
      <4>2. tallied' \in TallyKinds /\ tallied'.size = tallied.size /\ tallied.size = 0
        BY <4>1, <2>3 DEF TallyKinds, TallyVouched
      <4>. QED
        BY <4>2 DEF TallyVouched
    <3>3. CASE TallyStep("rows", [tallied EXCEPT !.pc = "votes", !.size = Cardinality(committee.members)])
      <4>1. tallied' = [tallied EXCEPT !.pc = "votes", !.size = Cardinality(committee.members)]
        BY <3>3 DEF TallyStep
      <4>2. tallied' \in TallyKinds /\ tallied'.pc = "votes" /\ tallied'.size = Cardinality(committee.members)
        BY <4>1, <2>3, <2>4 DEF TallyKinds
      <4>. QED
        BY <4>2, <2>1 DEF TallyVouched
    <3>4. CASE TallyStep("votes", [tallied EXCEPT !.pc = "list",
                                                  !.voted = {u \in Colleagues : ballot[u] # "none"}])
      <4>1. tallied' = [tallied EXCEPT !.pc = "list", !.voted = {u \in Colleagues : ballot[u] # "none"}]
            /\ tallied.pc = "votes"
        BY <3>4 DEF TallyStep
      <4>2. {u \in Colleagues : ballot[u] # "none"} \in SUBSET Colleagues
        OBVIOUS
      <4>3. tallied' \in TallyKinds /\ tallied'.pc = "list" /\ tallied'.size = tallied.size
            /\ tallied'.moved = tallied.moved
        BY <4>1, <4>2, <2>3 DEF TallyKinds
      <4>. QED
        BY <4>1, <4>3, <2>1 DEF TallyVouched
    <3>5. CASE TallyStep("list", [tallied EXCEPT !.pc = "shown", !.listed = committee.members])
      <4>1. tallied' = [tallied EXCEPT !.pc = "shown", !.listed = committee.members] /\ tallied.pc = "list"
        BY <3>5 DEF TallyStep
      <4>2. tallied' \in TallyKinds /\ tallied'.pc = "shown" /\ tallied'.size = tallied.size
            /\ tallied'.moved = tallied.moved /\ tallied'.listed = committee.members
        BY <4>1, <2>3 DEF TallyKinds
      <4>. QED
        BY <4>1, <4>2, <2>1 DEF TallyVouched
    <3>6. CASE TallyStep("shown", NoTally)
      BY <3>6, NoTallyIs DEF TallyStep, TallyVouched
    <3>. QED
      BY <1>11, <3>1, <3>2, <3>3, <3>4, <3>5, <3>6 DEF ReadTally
  <2>. QED
    BY <2>1, <2>2, <2>5
       DEF CommitteeTypes, NothingBefore, OneHolds, Holds, MembersAsAsked, VotersVouched, Vouched,
           isActiveMember
<1>. QED
  <2>1. ASSUME NEW r \in AnyOne({q \in Clerks : clerk[q] = NoChange}), NEW list \in Rolls \cup {Kept},
               \/ \E active \in BOOLEAN : AskChange(r, FALSE, active, list)
               \/ \E rename \in BOOLEAN : AskChange(r, rename, Kept, list)
        PROVE  CommitteeInv'
    BY <2>1, <1>3, AnyOneIsFree
  <2>. QED
    BY <1>1, <1>2, <2>1, <1>4, <1>5, <1>6, <1>7, <1>8, <1>9, <1>10, <1>11 DEF CommitteeNext

\* The number that has not voted is that of the members named.
LEMMA TallyCounts ==
  ASSUME TallyVouched, tallied \in TallyKinds
  PROVE  TallyAddsUp
<1>. SUFFICES ASSUME tallied.pc = "shown", ~tallied.moved, tallied.size > 0
              PROVE  /\ NotVotedCount(tallied) <= Cardinality(NotVotedMembers(tallied))
                     /\ tallied.voted \subseteq tallied.listed =>
                          NotVotedCount(tallied) = Cardinality(NotVotedMembers(tallied))
  BY DEF TallyAddsUp
<1>. DEFINE listed == tallied.listed   voted == tallied.voted   both == listed \cap voted
<1>1. tallied.size = Cardinality(listed)
  BY DEF TallyVouched
<1>2. listed \in SUBSET Colleagues /\ voted \in SUBSET Colleagues
  BY DEF TallyKinds
<1>3. /\ IsFiniteSet(listed) /\ Cardinality(listed) \in Nat
      /\ IsFiniteSet(voted) /\ Cardinality(voted) \in Nat
      /\ Cardinality(both) \in Nat /\ Cardinality(listed \ voted) \in Nat
  BY <1>2, ColleaguesAreFinite
<1>4. Cardinality(listed \ voted) = Cardinality(listed) - Cardinality(both)
  BY <1>3, FS_Difference
<1>5. Cardinality(both) <= Cardinality(voted)
  BY <1>3, FS_Subset
<1>6. voted \subseteq listed => both = voted
  OBVIOUS
<1>7. NotVotedMembers(tallied) = listed \ voted
      /\ NotVotedCount(tallied) = IF Cardinality(listed) > Cardinality(voted)
                                  THEN Cardinality(listed) - Cardinality(voted) ELSE 0
  BY <1>1 DEF NotVotedMembers, NotVotedCount
<1>8. voted \subseteq listed => Cardinality(both) = Cardinality(voted)
  BY <1>6
<1>. HIDE DEF listed, voted, both
<1>9. (IF Cardinality(listed) > Cardinality(voted) THEN Cardinality(listed) - Cardinality(voted) ELSE 0)
        <= Cardinality(listed \ voted)
  BY <1>3, <1>4, <1>5
<1>10. Cardinality(both) = Cardinality(voted) =>
         (IF Cardinality(listed) > Cardinality(voted) THEN Cardinality(listed) - Cardinality(voted) ELSE 0)
           = Cardinality(listed \ voted)
  BY <1>3, <1>4
<1>. QED
  BY <1>7, <1>8, <1>9, <1>10 DEF listed, voted

LEMMA CommitteeInvIsSound == CommitteeInv => CommitteeSound
<1>. SUFFICES ASSUME CommitteeInv PROVE CommitteeSound
  OBVIOUS
<1>. USE DEF CommitteeInv
<1>1. VotersBelong
  BY DEF VotersVouched, Vouched, VotersBelong
<1>2. MajorityBehind
  <2>. SUFFICES ASSUME NEW u \in Colleagues, voter[u].pc = "counted", ~voter[u].moved
                PROVE  /\ StepDecision(voter[u]) = "approved" =>
                            2 * voter[u].for > Cardinality(committee.members)
                       /\ StepDecision(voter[u]) = "rejected" =>
                            2 * voter[u].against > Cardinality(committee.members)
    BY DEF MajorityBehind
  <2>1. voter[u].for \in Nat /\ voter[u].against \in Nat /\ voter[u].size \in Nat
    BY DEF CommitteeTypes, VotingKinds
  <2>2. voter[u].size = Cardinality(committee.members)
    BY DEF VotersVouched, Vouched
  <2>3. \A n \in Nat, a \in Nat : a >= Threshold(n) => 2 * a > n
    BY DEF Threshold
  <2>4. /\ StepDecision(voter[u]) = "approved" => voter[u].for >= Threshold(voter[u].size)
        /\ StepDecision(voter[u]) = "rejected" => voter[u].against >= Threshold(voter[u].size)
    BY DEF StepDecision
  <2>. QED
    BY <2>1, <2>2, <2>3, <2>4
<1>3. ListAgrees
  BY DEF ListAgrees, Awaiting, StepAccess, isActiveMember, NothingBefore
<1>4. TallyAddsUp
  BY TallyCounts DEF CommitteeTypes
<1>. QED
  BY <1>1, <1>2, <1>3, <1>4 DEF CommitteeSound

(* However updates, votes and readings overlap: the members are the list   *)
(* last asked for, whole; who votes is one of them and a decision has more *)
(* than half of them behind it, unless the committee changed meanwhile;    *)
(* and lists and tallies agree with whose vote is awaited.                 *)
THEOREM CommitteeIsSound == CommitteeSpec => []CommitteeSound
<1>1. CommitteeSpec => []CommitteeInv
  BY CommitteeInvInit, CommitteeInvStep, PTL DEF CommitteeSpec
<1>. QED
  BY <1>1, CommitteeInvIsSound, PTL

-----------------------------------------------------------------------------
(***************************************************************************)
(* The checklist.  An approval let through saw every required item ticked, *)
(* and is marked when one changes; an approved application has no tick     *)
(* before its upsert; and of an item not astray at most one request has    *)
(* written the row and not yet the event, which is then what the row says. *)
(***************************************************************************)
Ticks == {"none", "on", "off"}
MarkKinds == {NoMark} \cup [pc : {"editable", "known", "written"}, key : Keys, to : {"on", "off"}]
ApprovalKinds == [pc : {"idle", "settings", "allowed"}, required : SUBSET Keys, moved : BOOLEAN]
ChecklistTypes ==
  /\ filed \in {"pending", "revision_requested", "rejected", "approved", "withdrawn"}
  /\ item \in [Keys -> Ticks] /\ told \in [Keys -> Ticks]
  /\ marker \in [Markers -> MarkKinds] /\ approver \in ApprovalKinds
  /\ verdict.required \subseteq Keys /\ verdict.moved \in BOOLEAN
  /\ lateMarks \in BOOLEAN

AllowedSawTicks ==
  approver.pc = "allowed" /\ ~approver.moved /\ filed # "withdrawn" =>
    \A k \in approver.required : item[k] = "on"
FrozenAlready ==
  filed = "approved" /\ ~lateMarks =>
    item = verdict.item /\ \A r \in Markers : marker[r].pc \notin {"editable", "known"}
GoneWithIt == filed = "withdrawn" => \A k \in Keys : item[k] = "none" /\ told[k] = "none"
WrittenOn(k) == {r \in Markers : marker[r].pc = "written" /\ marker[r].key = k}
WriterTells == \A k \in Keys \ astray :
  /\ \A r, q \in WrittenOn(k) : r = q
  /\ \A r \in WrittenOn(k) : filed # "withdrawn" => item[k] = marker[r].to
  /\ WrittenOn(k) = {} => told[k] = item[k]

ChecklistInv ==
  /\ ChecklistTypes /\ AllowedSawTicks /\ ApprovedMeansTicked /\ FrozenAlready /\ GoneWithIt
  /\ WriterTells

LEMMA NoMarkIs == NoMark \in MarkKinds /\ NoMark.pc = "idle"
BY DEF NoMark, MarkKinds
LEMMA MarkIs ==
  \A m \in MarkKinds : m.pc # "idle" =>
    m.key \in Keys /\ m.to \in {"on", "off"} /\ m = [pc |-> m.pc, key |-> m.key, to |-> m.to]
BY DEF NoMark, MarkKinds
LEMMA NoApprovalIs == NoApproval \in ApprovalKinds /\ NoApproval.pc = "idle"
BY DEF NoApproval, ApprovalKinds
LEMMA ChecklistInvInit == ChecklistInit => ChecklistInv
<1>. SUFFICES ASSUME ChecklistInit PROVE ChecklistInv
  OBVIOUS
<1>1. ChecklistTypes
  <2>1. verdict.required = {} /\ verdict.moved = FALSE
    BY DEF ChecklistInit, NoVerdict
  <2>. QED
    BY <2>1, NoMarkIs, NoApprovalIs DEF ChecklistInit, ChecklistTypes, Ticks
<1>2. AllowedSawTicks /\ ApprovedMeansTicked /\ FrozenAlready /\ GoneWithIt
  BY NoApprovalIs
     DEF ChecklistInit, NoVerdict, AllowedSawTicks, ApprovedMeansTicked, FrozenAlready, GoneWithIt
<1>3. WriterTells
  BY NoMarkIs DEF ChecklistInit, WriterTells, WrittenOn
<1>. QED
  BY <1>1, <1>2, <1>3 DEF ChecklistInv

\* A tick, or the switch, marks an approval that is under way.
LEMMA ApproverIsMoved ==
  ASSUME approver \in ApprovalKinds, ApproverMoved
  PROVE  /\ approver' \in ApprovalKinds
         /\ approver'.pc = "allowed" => approver'.moved
<1>1. CASE approver.pc = "idle"
  BY <1>1 DEF ApproverMoved
<1>2. CASE approver.pc # "idle"
  BY <1>2 DEF ApproverMoved, ApprovalKinds
<1>. QED
  BY <1>1, <1>2

LEMMA ChecklistInvStep == ChecklistInv /\ [ChecklistNext]_checklistVars => ChecklistInv'
<1>. SUFFICES ASSUME ChecklistInv, [ChecklistNext]_checklistVars PROVE ChecklistInv'
  OBVIOUS
<1>. USE DEF ChecklistInv
<1>0. ChecklistTypes
  OBVIOUS
<1>1. ASSUME UNCHANGED checklistVars PROVE ChecklistInv'
  BY <1>1 DEF checklistVars, ChecklistTypes, AllowedSawTicks, ApprovedMeansTicked, FrozenAlready,
              GoneWithIt, WriterTells, WrittenOn
<1>2. ASSUME NEW r \in Markers, NEW k \in Keys, NEW to \in {"on", "off"}, AskMark(r, k, to)
      PROVE  ChecklistInv'
  <2>1. PICK new \in MarkKinds : new = [pc |-> "editable", key |-> k, to |-> to]
    BY DEF MarkKinds
  <2>2. /\ marker[r] = NoMark /\ filed # "approved" /\ marker' = [marker EXCEPT ![r] = new]
        /\ UNCHANGED <<filed, item, told, approver, verdict, astray, lateMarks>>
    BY <1>2, <2>1 DEF AskMark, Editable
  <2>3. marker'[r].pc = "editable" /\ \A z \in Markers \ {r} : marker'[z] = marker[z]
    BY <2>1, <2>2, <1>0 DEF ChecklistTypes
  <2>4. marker' \in [Markers -> MarkKinds]
    BY <2>1, <2>2, <1>0 DEF ChecklistTypes
  <2>5. ChecklistTypes' /\ AllowedSawTicks' /\ ApprovedMeansTicked' /\ FrozenAlready' /\ GoneWithIt'
    BY <2>2, <2>4 DEF ChecklistTypes, AllowedSawTicks, ApprovedMeansTicked, FrozenAlready, GoneWithIt
  <2>6. \A j : WrittenOn(j)' = WrittenOn(j)
    BY <2>2, <2>3, NoMarkIs DEF WrittenOn
  <2>7. WriterTells'
    BY <2>2, <2>3, <2>6, NoMarkIs DEF WriterTells, WrittenOn
  <2>. QED
    BY <2>5, <2>7
<1>3. ASSUME NEW r \in Markers, FindItem(r) PROVE ChecklistInv'
  <2>1. /\ marker[r].pc = "editable"
        /\ UNCHANGED <<filed, item, told, approver, verdict, astray, lateMarks>>
    BY <1>3 DEF FindItem
  <2>2. PICK new \in MarkKinds : marker' = [marker EXCEPT ![r] = new] /\ new.pc \in {"idle", "known"}
    <3>1. marker[r] = [pc |-> "editable", key |-> marker[r].key, to |-> marker[r].to]
          /\ marker[r].key \in Keys /\ marker[r].to \in {"on", "off"}
      BY <2>1, <1>0, MarkIs DEF ChecklistTypes
    <3>2. [pc |-> "known", key |-> marker[r].key, to |-> marker[r].to] \in MarkKinds
      BY <3>1 DEF MarkKinds
    <3>3. CASE marker[r].key \in Items
      <4>1. marker' = [marker EXCEPT ![r] = [marker[r] EXCEPT !.pc = "known"]]
        BY <3>3, <1>3, <1>0 DEF FindItem, ChecklistTypes
      <4>2. [marker[r] EXCEPT !.pc = "known"] = [pc |-> "known", key |-> marker[r].key, to |-> marker[r].to]
        BY <3>1
      <4>. QED
        BY <3>2, <4>1, <4>2
    <3>4. CASE marker[r].key \notin Items
      BY <3>4, <1>3, <1>0, NoMarkIs DEF FindItem, ChecklistTypes
    <3>. QED
      BY <3>3, <3>4
  <2>3. marker'[r] = new /\ \A z \in Markers \ {r} : marker'[z] = marker[z]
    BY <2>2, <1>0 DEF ChecklistTypes
  <2>4. marker' \in [Markers -> MarkKinds]
    BY <2>2, <1>0 DEF ChecklistTypes
  <2>5. ChecklistTypes' /\ AllowedSawTicks' /\ ApprovedMeansTicked' /\ FrozenAlready' /\ GoneWithIt'
    BY <2>1, <2>4 DEF ChecklistTypes, AllowedSawTicks, ApprovedMeansTicked, FrozenAlready, GoneWithIt
  <2>6. \A j : WrittenOn(j)' = WrittenOn(j)
    BY <2>1, <2>2, <2>3 DEF WrittenOn
  <2>7. WriterTells'
    BY <2>1, <2>3, <2>6 DEF WriterTells, WrittenOn
  <2>. QED
    BY <2>5, <2>7
<1>4. ASSUME NEW r \in Markers, UpsertItem(r) PROVE ChecklistInv'
  <2>1. PICK k \in Keys : k = marker[r].key /\ marker[r].to \in {"on", "off"}
          /\ marker[r] = [pc |-> "known", key |-> k, to |-> marker[r].to]
    BY <1>4, <1>0, MarkIs DEF UpsertItem, ChecklistTypes
  <2>2. marker[r].pc = "known" /\ UNCHANGED <<filed, told, verdict, lateMarks>>
    BY <1>4 DEF UpsertItem
  <2>3. CASE filed = "withdrawn"
    <3>1. marker' = [marker EXCEPT ![r] = NoMark] /\ UNCHANGED <<item, astray, approver>>
      BY <2>3, <1>4 DEF UpsertItem
    <3>2. marker'[r] = NoMark /\ \A z \in Markers \ {r} : marker'[z] = marker[z]
      BY <3>1, <1>0 DEF ChecklistTypes
    <3>3. marker' \in [Markers -> MarkKinds]
      BY <3>1, <1>0, NoMarkIs DEF ChecklistTypes
    <3>4. ChecklistTypes' /\ AllowedSawTicks' /\ ApprovedMeansTicked' /\ FrozenAlready' /\ GoneWithIt'
      BY <2>2, <2>3, <3>1, <3>3
         DEF ChecklistTypes, AllowedSawTicks, ApprovedMeansTicked, FrozenAlready, GoneWithIt
    <3>5. \A j : WrittenOn(j)' = WrittenOn(j)
      BY <2>2, <3>2, NoMarkIs DEF WrittenOn
    <3>6. WriterTells'
      BY <2>2, <2>3, <3>1, <3>5 DEF WriterTells
    <3>. QED
      BY <3>4, <3>6
  <2>4. CASE filed # "withdrawn"
    <3>1. /\ item' = [item EXCEPT ![k] = marker[r].to] /\ marker' = [marker EXCEPT ![r].pc = "written"]
          /\ astray' = (IF Crossed(r) THEN astray \cup {k} ELSE astray) /\ ApproverMoved
      BY <2>1, <2>4, <1>4 DEF UpsertItem
    <3>2. PICK new : new = [pc |-> "written", key |-> k, to |-> marker[r].to]
      OBVIOUS
    <3>3. marker'[r] = new /\ \A z \in Markers \ {r} : marker'[z] = marker[z]
      BY <2>1, <3>1, <3>2, <1>0 DEF ChecklistTypes
    <3>4. new \in MarkKinds /\ new.pc = "written" /\ new.key = k /\ new.to = marker[r].to
      BY <2>1, <3>2 DEF MarkKinds
    <3>5. marker' \in [Markers -> MarkKinds]
      BY <3>1, <3>3, <3>4, <1>0 DEF ChecklistTypes
    <3>6. item' \in [Keys -> Ticks] /\ item'[k] = marker[r].to /\ \A j \in Keys \ {k} : item'[j] = item[j]
      BY <2>1, <3>1, <1>0 DEF ChecklistTypes, Ticks
    <3>7. approver' \in ApprovalKinds /\ (approver'.pc = "allowed" => approver'.moved)
      BY <3>1, <1>0, ApproverIsMoved DEF ChecklistTypes
    <3>8. ChecklistTypes'
      BY <2>2, <3>5, <3>6, <3>7, <1>0 DEF ChecklistTypes
    <3>9. AllowedSawTicks' /\ ApprovedMeansTicked' /\ FrozenAlready' /\ GoneWithIt'
      BY <2>2, <2>4, <3>7 DEF AllowedSawTicks, ApprovedMeansTicked, FrozenAlready, GoneWithIt
    <3>10. WriterTells'
      <4>1. ASSUME NEW j \in Keys \ astray'
            PROVE  /\ \A y, z \in WrittenOn(j)' : y = z
                   /\ \A z \in WrittenOn(j)' : item'[j] = marker'[z].to
                   /\ WrittenOn(j)' = {} => told'[j] = item'[j]
        <5>1. CASE j # k
          <6>1. WrittenOn(j)' = WrittenOn(j) /\ r \notin WrittenOn(j)
            BY <5>1, <2>2, <3>3, <3>4 DEF WrittenOn
          <6>2. \A z \in WrittenOn(j) : marker'[z] = marker[z]
            BY <6>1, <3>3 DEF WrittenOn
          <6>3. j \in Keys \ astray /\ item'[j] = item[j]
            BY <5>1, <3>1, <3>6
          <6>. QED
            BY <6>1, <6>2, <6>3, <2>2, <2>4 DEF WriterTells
        <5>2. CASE j = k
          <6>1. ~Crossed(r)
            BY <5>2, <3>1
          <6>2. WrittenOn(j)' = {r}
            BY <6>1, <5>2, <2>1, <3>3, <3>4 DEF WrittenOn, Crossed
          <6>. QED
            BY <6>2, <5>2, <3>3, <3>4, <3>6
        <5>. QED
          BY <5>1, <5>2
      <4>. QED
        BY <4>1 DEF WriterTells
    <3>. QED
      BY <3>8, <3>9, <3>10
  <2>. QED
    BY <2>3, <2>4
<1>5. ASSUME NEW r \in Markers, InsertEvent(r) \/ MarkFails(r) PROVE ChecklistInv'
  <2>1. PICK k \in Keys : k = marker[r].key /\ marker[r].to \in {"on", "off"}
    BY <1>5, <1>0, MarkIs DEF InsertEvent, MarkFails, ChecklistTypes
  <2>2. /\ marker[r].pc = "written" /\ marker' = [marker EXCEPT ![r] = NoMark]
        /\ UNCHANGED <<filed, item, approver, verdict, lateMarks>>
    BY <1>5 DEF InsertEvent, MarkFails
  <2>3. marker'[r] = NoMark /\ \A z \in Markers \ {r} : marker'[z] = marker[z]
    BY <2>2, <1>0 DEF ChecklistTypes
  <2>4. marker' \in [Markers -> MarkKinds]
    BY <2>2, <1>0, NoMarkIs DEF ChecklistTypes
  <2>5. told' \in [Keys -> Ticks]
    BY <2>1, <1>5, <1>0 DEF InsertEvent, EventOf, MarkFails, ChecklistTypes, Ticks
  <2>6. ChecklistTypes' /\ AllowedSawTicks' /\ ApprovedMeansTicked' /\ FrozenAlready'
    BY <2>2, <2>3, <2>4, <2>5, <1>0, NoMarkIs
       DEF ChecklistTypes, AllowedSawTicks, ApprovedMeansTicked, FrozenAlready
  <2>7. filed = "withdrawn" => told' = told
    BY <1>5 DEF InsertEvent, MarkFails
  <2>8. GoneWithIt'
    BY <2>2, <2>7 DEF GoneWithIt
  <2>9. \A j \in Keys : j # k => told'[j] = told[j] /\ (j \in astray' <=> j \in astray)
    BY <2>1, <1>5, <1>0 DEF InsertEvent, MarkFails, ChecklistTypes
  <2>10. \A j \in Keys : j # k => WrittenOn(j)' = WrittenOn(j) /\ r \notin WrittenOn(j)
    BY <2>1, <2>2, <2>3, NoMarkIs DEF WrittenOn
  <2>11. k \notin astray' => WrittenOn(k)' = {} /\ told'[k] = item[k]
    <3>. SUFFICES ASSUME k \notin astray' PROVE WrittenOn(k)' = {} /\ told'[k] = item[k]
      OBVIOUS
    <3>1. /\ InsertEvent(r) /\ ~Crossed(r)
          /\ astray' = IF marker[r].to = item[k] THEN astray \ {k} ELSE astray
      BY <2>1, <1>5 DEF InsertEvent, MarkFails, EventOf
    <3>2. WrittenOn(k)' = {}
      BY <3>1, <2>1, <2>3, NoMarkIs DEF WrittenOn, Crossed
    <3>3. CASE filed = "withdrawn"
      <4>1. marker[r].to # item[k]
        BY <3>3, <2>1 DEF GoneWithIt
      <4>. QED
        BY <4>1, <3>2, <3>3, <2>7 DEF GoneWithIt
    <3>4. CASE filed # "withdrawn"
      <4>1. told' = [told EXCEPT ![k] = marker[r].to]
        BY <3>1, <3>4, <2>1 DEF InsertEvent, EventOf
      <4>2. told'[k] = marker[r].to
        BY <4>1, <1>0 DEF ChecklistTypes
      <4>3. marker[r].to = item[k]
        <5>1. ASSUME marker[r].to # item[k] PROVE FALSE
          <6>1. k \in Keys \ astray /\ r \in WrittenOn(k)
            BY <5>1, <3>1, <2>1, <2>2 DEF WrittenOn
          <6>. QED
            BY <6>1, <5>1, <3>4 DEF WriterTells
        <5>. QED
          BY <5>1
      <4>. QED
        BY <4>2, <4>3, <3>2
    <3>. QED
      BY <3>3, <3>4
  <2>12. WriterTells'
    <3>1. ASSUME NEW j \in Keys \ astray'
          PROVE  /\ \A y, z \in WrittenOn(j)' : y = z
                 /\ \A z \in WrittenOn(j)' : filed # "withdrawn" => item[j] = marker'[z].to
                 /\ WrittenOn(j)' = {} => told'[j] = item[j]
      <4>1. CASE j = k
        BY <4>1, <3>1, <2>11
      <4>2. CASE j # k
        <5>1. WrittenOn(j)' = WrittenOn(j) /\ j \in Keys \ astray /\ told'[j] = told[j]
          BY <4>2, <3>1, <2>9, <2>10
        <5>2. \A z \in WrittenOn(j) : marker'[z] = marker[z]
          BY <4>2, <2>3, <2>10 DEF WrittenOn
        <5>. QED
          BY <5>1, <5>2 DEF WriterTells
      <4>. QED
        BY <4>1, <4>2
    <3>. QED
      BY <3>1, <2>2 DEF WriterTells
  <2>. QED
    BY <2>6, <2>8, <2>12
\* Neither approvals nor the rest of the application's life touch the requests.
<1>6. ASSUME BeginApproval \/ CheckItems PROVE ChecklistInv'
  <2>1. UNCHANGED <<filed, item, told, marker, verdict, astray, lateMarks>>
    BY <1>6 DEF BeginApproval, CheckItems
  <2>2. approver' \in ApprovalKinds /\ (approver'.pc = "allowed" => Missing(approver'.required) = {})
    <3>1. CASE BeginApproval
      <4>1. Required \subseteq Keys
        BY ChecklistAssumption
      <4>. QED
        BY <3>1, <4>1 DEF BeginApproval, ApprovalKinds
    <3>2. CASE CheckItems
      <4>1. CASE Missing(approver.required) # {}
        BY <3>2, <4>1, NoApprovalIs DEF CheckItems
      <4>2. CASE Missing(approver.required) = {}
        BY <3>2, <4>2, <1>0 DEF CheckItems, ChecklistTypes, ApprovalKinds
      <4>. QED
        BY <4>1, <4>2
    <3>. QED
      BY <1>6, <3>1, <3>2
  <2>3. AllowedSawTicks'
    BY <2>1, <2>2 DEF AllowedSawTicks, Missing
  <2>4. ChecklistTypes' /\ ApprovedMeansTicked' /\ FrozenAlready' /\ GoneWithIt' /\ WriterTells'
    BY <2>1, <2>2 DEF ChecklistTypes, ApprovedMeansTicked, FrozenAlready, GoneWithIt, WriterTells, WrittenOn
  <2>. QED
    BY <2>3, <2>4
<1>7. ASSUME Approve \/ CommitteeApproves PROVE ChecklistInv'
  <2>1. UNCHANGED <<item, told, marker, astray>>
    BY <1>7 DEF Approve, CommitteeApproves
  <2>2. approver' \in ApprovalKinds /\ (approver'.pc = "idle" \/ approver' = approver)
    BY <1>7, <1>0, NoApprovalIs DEF Approve, CommitteeApproves, ChecklistTypes
  <2>3. CASE UNCHANGED <<filed, verdict, lateMarks>>
    BY <2>1, <2>2, <2>3, <1>0
       DEF ChecklistTypes, AllowedSawTicks, ApprovedMeansTicked, FrozenAlready, GoneWithIt, WriterTells,
           WrittenOn
  <2>4. CASE filed = "pending" /\ filed' = "approved" /\ verdict'.item = item
             /\ verdict'.required \subseteq Keys /\ verdict'.moved \in BOOLEAN
             /\ lateMarks' = MarkLetThrough
             /\ (verdict'.moved \/ \A k \in verdict'.required : item[k] = "on")
    <3>1. ChecklistTypes' /\ ApprovedMeansTicked'
      <4>1. lateMarks' \in BOOLEAN
        BY <2>4 DEF MarkLetThrough
      <4>. QED
        BY <4>1, <2>1, <2>2, <2>4, <1>0 DEF ChecklistTypes, ApprovedMeansTicked
    <3>2. AllowedSawTicks' /\ GoneWithIt'
      BY <2>1, <2>2, <2>4 DEF AllowedSawTicks, GoneWithIt
    <3>3. FrozenAlready'
      BY <2>1, <2>4 DEF FrozenAlready, MarkLetThrough
    <3>4. WriterTells'
      BY <2>1, <2>4 DEF WriterTells, WrittenOn
    <3>. QED
      BY <3>1, <3>2, <3>3, <3>4
  <2>5. CASE Approve /\ filed = "pending"
    <3>1. verdict' = [required |-> approver.required, item |-> item, moved |-> approver.moved]
          /\ approver.pc = "allowed" /\ filed' = "approved" /\ lateMarks' = MarkLetThrough
      BY <2>5 DEF Approve
    <3>2. verdict'.required = approver.required /\ verdict'.item = item /\ verdict'.moved = approver.moved
      BY <3>1
    <3>3. approver.required \subseteq Keys /\ approver.moved \in BOOLEAN
      BY <1>0 DEF ChecklistTypes, ApprovalKinds
    <3>4. approver.moved \/ \A k \in approver.required : item[k] = "on"
      BY <2>5, <3>1 DEF AllowedSawTicks
    <3>. QED
      BY <2>4, <2>5, <3>1, <3>2, <3>3, <3>4
  <2>6. CASE CommitteeApproves
    <3>1. filed = "pending" /\ filed' = "approved" /\ lateMarks' = MarkLetThrough
          /\ verdict' = [required |-> {}, item |-> item, moved |-> FALSE]
      BY <2>6 DEF CommitteeApproves, NoVerdict
    <3>2. verdict'.required = {} /\ verdict'.item = item /\ verdict'.moved = FALSE
      BY <3>1
    <3>. QED
      BY <2>4, <3>1, <3>2
  <2>. QED
    BY <1>7, <2>3, <2>5, <2>6 DEF Approve
<1>8. ASSUME StatusChanges PROVE ChecklistInv'
  <2>1. UNCHANGED <<item, told, marker, approver, verdict, astray, lateMarks>>
        /\ filed \in {"pending", "revision_requested", "rejected"}
        /\ filed' \in {"pending", "revision_requested", "rejected"}
    BY <1>8 DEF StatusChanges, requests
  <2>. QED
    BY <2>1, <1>0
       DEF ChecklistTypes, AllowedSawTicks, ApprovedMeansTicked, FrozenAlready, GoneWithIt, WriterTells,
           WrittenOn
<1>9. ASSUME Withdrawn PROVE ChecklistInv'
  <2>1. UNCHANGED <<marker, approver, verdict, astray, lateMarks>> /\ filed' = "withdrawn"
        /\ item' = [k \in Keys |-> "none"] /\ told' = [k \in Keys |-> "none"]
    BY <1>9 DEF Withdrawn, requests
  <2>. QED
    BY <2>1, <1>0
       DEF ChecklistTypes, Ticks, AllowedSawTicks, ApprovedMeansTicked, FrozenAlready, GoneWithIt,
           WriterTells, WrittenOn
<1>10. ASSUME PatchEnforced PROVE ChecklistInv'
  <2>1. UNCHANGED <<filed, item, told, marker, verdict, astray, lateMarks>> /\ ApproverMoved
    BY <1>10 DEF PatchEnforced
  <2>2. approver' \in ApprovalKinds /\ (approver'.pc = "allowed" => approver'.moved)
    BY <2>1, <1>0, ApproverIsMoved DEF ChecklistTypes
  <2>. QED
    BY <2>1, <2>2, <1>0
       DEF ChecklistTypes, AllowedSawTicks, ApprovedMeansTicked, FrozenAlready, GoneWithIt, WriterTells,
           WrittenOn
<1>. QED
  BY <1>1, <1>2, <1>3, <1>4, <1>5, <1>6, <1>7, <1>8, <1>9, <1>10, AnyOneIsFree DEF ChecklistNext

LEMMA ChecklistInvIsSound == ChecklistInv => ChecklistSound
BY DEF ChecklistInv, ChecklistSound, FrozenAlready, FrozenOnceApproved, WriterTells, WrittenOn, AtWork,
       EventsTell

(* Whatever ticks, approvals and changes of the switch meet: an approval   *)
(* that had to wait for the checklist found it complete, it does not       *)
(* change under an approved application but by a tick let through before,  *)
(* and its history tells how it stands.                                    *)
THEOREM ChecklistIsSound == ChecklistSpec => []ChecklistSound
<1>1. ChecklistSpec => []ChecklistInv
  BY ChecklistInvInit, ChecklistInvStep, PTL DEF ChecklistSpec
<1>. QED
  BY <1>1, ChecklistInvIsSound, PTL

-----------------------------------------------------------------------------
(***************************************************************************)
(* The tenant itself.  Users and those under way to be one, and the        *)
(* invitations sent and being sent, are no more than the requests begun.   *)
(* Unless a removal met another request, one under way is alone and what   *)
(* it looked at still holds, and once the tenant is deleted nothing is     *)
(* under way but acceptances judged on an old status; unless two changes   *)
(* of status met, the one under way is still allowed; and a cached status  *)
(* that is old, and not known to be, is about to be replaced.              *)
(***************************************************************************)
TenantReqKinds ==
  {NoTenantReq}
    \cup [op : {"status"}, pc : {"write", "cache"}, arg : Statuses]
    \cup [op : {"delete", "register", "invite", "cancel", "accept"}, pc : {"write"}, arg : {NoStatus}]
    \cup [op : {"dropDomain", "addDomain"}, pc : {"write"}, arg : Domains]
StatusSnapshots == [status : Statuses \cup {NoStatus}, deleted : BOOLEAN] \cup {NoStatus}
TenantsTypes ==
  /\ tenant \in [status : Statuses, deleted : BOOLEAN] /\ domains \subseteq Domains
  /\ residents \in Nat /\ invited \in Nat /\ begunTenantReqs \in 0..MaxTenantReqs
  /\ statusCache \in StatusSnapshots /\ statusLoad \in StatusSnapshots
  /\ tenantReq \in [TenantRequests -> TenantReqKinds]
  /\ metRemoval \in BOOLEAN /\ metChange \in BOOLEAN /\ jumped \in BOOLEAN
  /\ laggingStatus \in BOOLEAN /\ judgedOld \in BOOLEAN

Arrivals == {"register", "accept"}
Under(ops) == {r \in TenantRequests : tenantReq[r].op \in ops}
ResidentsCounted == residents + Cardinality(Under(Arrivals)) <= begunTenantReqs
InvitedCounted == invited + Cardinality(Under({"invite"})) <= begunTenantReqs + 1

RemovalAlone ==
  ~metRemoval =>
    /\ \A r, q \in TenantRequests : tenantReq[r].op \in Removals /\ tenantReq[q].op # "none" => r = q
    /\ \A r \in TenantRequests :
         /\ tenantReq[r].op = "delete" => residents = 0
         /\ tenantReq[r].op = "dropDomain" => Cardinality(domains) > 1
    /\ tenant.deleted => \A r \in TenantRequests :
         tenantReq[r].op = "none" \/ (tenantReq[r].op = "accept" /\ judgedOld)
ChangeAlone ==
  ~metChange =>
    /\ \A r, q \in TenantRequests : tenantReq[r].op = "status" /\ tenantReq[q].op = "status" => r = q
    /\ \A r \in TenantRequests :
         tenantReq[r].op = "status" /\ tenantReq[r].pc = "write" =>
           AllowedMove(tenant.status, tenantReq[r].arg)
CacheComes ==
  ~laggingStatus /\ (\A r \in TenantRequests : tenantReq[r].pc # "cache") =>
    statusCache \in {NoStatus, Snapshot}

TenantsInv ==
  /\ TenantsTypes /\ ResidentsCounted /\ InvitedCounted /\ RemovalAlone /\ NothingLeftBehind
  /\ ChangeAlone /\ MovesAllowed /\ CacheComes

LEMMA TenantsInvInit == TenantsInit => TenantsInv
<1>. SUFFICES ASSUME TenantsInit PROVE TenantsInv
  OBVIOUS
<1>0. PICK s \in Statuses : tenant = [status |-> s, deleted |-> FALSE]
  BY DEF TenantsInit, Statuses
<1>1. /\ NoTenantReq \in TenantReqKinds /\ NoTenantReq.op = "none" /\ NoTenantReq.pc = "idle"
      /\ tenant.deleted = FALSE /\ tenant \in [status : Statuses, deleted : BOOLEAN]
  BY <1>0 DEF TenantReqKinds, NoTenantReq
<1>2. TenantsTypes
  <2>1. statusCache \in StatusSnapshots /\ statusLoad \in StatusSnapshots
    BY DEF TenantsInit, StatusSnapshots
  <2>2. residents \in Nat /\ invited \in Nat /\ begunTenantReqs \in 0..MaxTenantReqs
    BY TenantsAssumption DEF TenantsInit
  <2>3. tenantReq \in [TenantRequests -> TenantReqKinds]
    BY <1>1 DEF TenantsInit
  <2>. QED
    BY <1>1, <2>1, <2>2, <2>3 DEF TenantsInit, TenantsTypes
<1>3. Under(Arrivals) = {} /\ Under({"invite"}) = {}
  BY <1>1 DEF TenantsInit, Under, Arrivals
<1>4. ResidentsCounted /\ InvitedCounted
  BY <1>3, FS_EmptySet DEF TenantsInit, ResidentsCounted, InvitedCounted
<1>5. RemovalAlone /\ ChangeAlone
  BY <1>1 DEF TenantsInit, RemovalAlone, ChangeAlone, Removals
<1>6. NothingLeftBehind /\ MovesAllowed /\ CacheComes
  BY <1>1, TenantsAssumption DEF TenantsInit, NothingLeftBehind, MovesAllowed, CacheComes
<1>. QED
  BY <1>2, <1>4, <1>5, <1>6 DEF TenantsInv

\* At most one more of a kind is under way when one request has begun.
LEMMA OneMoreUnder ==
  ASSUME NEW ops, NEW r \in TenantRequests,
         \A z \in TenantRequests \ {r} : tenantReq'[z] = tenantReq[z]
  PROVE  /\ Cardinality(Under(ops)) \in Nat /\ Cardinality(Under(ops)') \in Nat
         /\ Cardinality(Under(ops)') <= Cardinality(Under(ops)) + 1
         /\ tenantReq'[r].op \notin ops => Cardinality(Under(ops)') <= Cardinality(Under(ops))
         /\ tenantReq'[r].op \notin ops /\ tenantReq[r].op \in ops =>
              Cardinality(Under(ops)') + 1 <= Cardinality(Under(ops))
<1>. DEFINE old == Under(ops)
            new == Under(ops)'
<1>1. /\ new \subseteq old \cup {r}
      /\ tenantReq'[r].op \notin ops => new \subseteq old
      /\ tenantReq'[r].op \notin ops /\ tenantReq[r].op \in ops => r \in old /\ new = old \ {r}
  BY DEF Under
<1>2. IsFiniteSet(old)
  BY TenantsAssumption, FS_Subset DEF Under
<1>. HIDE DEF old, new
<1>3. IsFiniteSet(old \cup {r}) /\ Cardinality(old) \in Nat /\ Cardinality(old \cup {r}) \in Nat
  BY <1>2, FS_AddElement, FS_CardinalityType
<1>4. Cardinality(old \cup {r}) <= Cardinality(old) + 1
  <2>1. Cardinality(old \cup {r}) = IF r \in old THEN Cardinality(old) ELSE Cardinality(old) + 1
    BY <1>2, FS_AddElement
  <2>. QED
    BY <2>1, <1>3
<1>5. IsFiniteSet(new) /\ Cardinality(new) <= Cardinality(old \cup {r})
  BY <1>1, <1>3, FS_Subset
<1>6. Cardinality(new) \in Nat
  BY <1>5, FS_CardinalityType
<1>7. tenantReq'[r].op \notin ops => Cardinality(new) <= Cardinality(old)
  BY <1>1, <1>2, FS_Subset
<1>8. ASSUME tenantReq'[r].op \notin ops, tenantReq[r].op \in ops
      PROVE  Cardinality(new) + 1 <= Cardinality(old)
  <2>1. Cardinality(new) = Cardinality(old) - 1
    BY <1>1, <1>2, <1>8, FS_RemoveElement
  <2>. QED
    BY <2>1, <1>3
<1>. QED
  BY <1>3, <1>4, <1>5, <1>6, <1>7, <1>8 DEF old, new

\* A request begins: its place is counted, and what it meets is recorded.
LEMMA TenantReqBegins ==
  ASSUME TenantsInv, NEW r \in TenantRequests, NEW op, NEW arg, NEW ok \in BOOLEAN,
         BeginTenantReq(r, op, arg, ok),
         [op |-> op, pc |-> "write", arg |-> arg] \in TenantReqKinds, op # "none",
         op \in Removals => MayGo(op), op = "status" => AllowedMove(tenant.status, arg),
         op # "accept" => ~tenant.deleted \/ domains # {}, op = "accept" => MayAccept
  PROVE  TenantsInv'
<1>. DEFINE others == {tenantReq[q].op : q \in TenantRequests \ {r}} \ {"none"}
<1>0. TenantsTypes /\ ResidentsCounted /\ InvitedCounted
  BY DEF TenantsInv
<1>1. /\ tenantReq[r] = NoTenantReq /\ begunTenantReqs < MaxTenantReqs
      /\ UNCHANGED <<tenant, domains, residents, invited, statusCache, statusLoad, jumped, laggingStatus>>
      /\ judgedOld' = (judgedOld \/ (op = "accept" /\ tenant.deleted /\ laggingStatus))
      /\ begunTenantReqs' = begunTenantReqs + 1
      /\ metRemoval' = (metRemoval \/ others \cap Removals # {} \/ (op \in Removals /\ others # {}))
      /\ metChange' = (metChange \/ (op = "status" /\ "status" \in others))
  BY DEF BeginTenantReq
<1>2. PICK q : q = [op |-> op, pc |-> "write", arg |-> arg]
  OBVIOUS
<1>3. tenantReq' = [tenantReq EXCEPT ![r] = q] /\ q \in TenantReqKinds /\ q.op = op /\ q.pc = "write"
      /\ q.arg = arg
  BY <1>2 DEF BeginTenantReq
<1>4. tenantReq'[r] = q /\ \A z \in TenantRequests \ {r} : tenantReq'[z] = tenantReq[z]
  BY <1>3, <1>0 DEF TenantsTypes
<1>5. TenantsTypes'
  <2>1. begunTenantReqs' \in 0..MaxTenantReqs
    BY <1>1, <1>0, TenantsAssumption DEF TenantsTypes
  <2>2. tenantReq' \in [TenantRequests -> TenantReqKinds]
    BY <1>3, <1>0 DEF TenantsTypes
  <2>3. metRemoval' \in BOOLEAN /\ metChange' \in BOOLEAN /\ judgedOld' \in BOOLEAN
    BY <1>1
  <2>. QED
    BY <2>1, <2>2, <2>3, <1>1, <1>0 DEF TenantsTypes
<1>6. ResidentsCounted' /\ InvitedCounted'
  <2>1. /\ Cardinality(Under(Arrivals)) \in Nat /\ Cardinality(Under(Arrivals)') \in Nat
        /\ Cardinality(Under(Arrivals)') <= Cardinality(Under(Arrivals)) + 1
    BY <1>4, OneMoreUnder
  <2>2. /\ Cardinality(Under({"invite"})) \in Nat /\ Cardinality(Under({"invite"})') \in Nat
        /\ Cardinality(Under({"invite"})') <= Cardinality(Under({"invite"})) + 1
    BY <1>4, OneMoreUnder
  <2>3. residents \in Nat /\ invited \in Nat /\ begunTenantReqs \in Nat
    BY <1>0 DEF TenantsTypes
  <2>. QED
    BY <2>1, <2>2, <2>3, <1>0, <1>1 DEF ResidentsCounted, InvitedCounted
<1>7. RemovalAlone'
  <2>. SUFFICES ASSUME ~metRemoval' PROVE RemovalAlone'
    BY DEF RemovalAlone
  <2>1. ~metRemoval /\ others \cap Removals = {} /\ (op \in Removals => others = {})
    BY <1>1
  <2>2. \A z \in TenantRequests \ {r} : tenantReq[z].op \in others \/ tenantReq[z].op = "none"
    OBVIOUS
  <2>3. ASSUME NEW a \in TenantRequests, NEW b \in TenantRequests,
               tenantReq'[a].op \in Removals, tenantReq'[b].op # "none"
        PROVE  a = b
    <3>0. "none" \notin Removals
      BY DEF Removals
    <3>1. CASE a = r
      <4>1. others = {}
        BY <3>1, <2>1, <2>3, <1>3, <1>4
      <4>2. b # r => tenantReq[b].op = "none"
        BY <4>1, <2>2
      <4>. QED
        BY <4>2, <3>1, <2>3, <1>4
    <3>2. CASE a # r
      <4>1. tenantReq[a].op \in Removals
        BY <3>2, <2>3, <1>4
      <4>. QED
        BY <4>1, <3>2, <3>0, <2>1, <2>2
    <3>. QED
      BY <3>1, <3>2
  <2>4. ASSUME NEW a \in TenantRequests
        PROVE  /\ tenantReq'[a].op = "delete" => residents' = 0
               /\ tenantReq'[a].op = "dropDomain" => Cardinality(domains') > 1
    <3>1. CASE a = r
      BY <3>1, <1>1, <1>3, <1>4 DEF Removals, MayGo
    <3>2. CASE a # r
      BY <3>2, <2>1, <1>1, <1>4 DEF TenantsInv, RemovalAlone
    <3>. QED
      BY <3>1, <3>2
  <2>5. ASSUME tenant.deleted, NEW a \in TenantRequests
        PROVE  tenantReq'[a].op = "none" \/ (tenantReq'[a].op = "accept" /\ judgedOld')
    <3>0. \A z \in TenantRequests : tenantReq[z].op = "none" \/ (tenantReq[z].op = "accept" /\ judgedOld)
      BY <2>1, <2>5 DEF TenantsInv, RemovalAlone
    <3>1. CASE a # r
      BY <3>0, <3>1, <1>1, <1>4
    <3>2. CASE a = r
      <4>1. domains = {}
        BY <2>1, <2>5 DEF TenantsInv, NothingLeftBehind
      <4>2. op = "accept" /\ ~Blocks(Seen)
        BY <4>1, <2>5 DEF MayAccept
      <4>3. statusCache # NoStatus /\ statusCache # Snapshot
        BY <4>2, <2>5 DEF Seen, Blocks, Snapshot
      <4>4. \A z \in TenantRequests : tenantReq[z].pc # "cache"
        BY <3>0, <1>0 DEF TenantsTypes, TenantReqKinds, NoTenantReq
      <4>5. laggingStatus
        BY <4>3, <4>4 DEF TenantsInv, CacheComes
      <4>. QED
        BY <3>2, <4>2, <4>5, <2>5, <1>1, <1>3, <1>4
    <3>. QED
      BY <3>1, <3>2
  <2>. QED
    BY <2>3, <2>4, <2>5, <1>1 DEF RemovalAlone
<1>8. ChangeAlone'
  <2>. SUFFICES ASSUME ~metChange' PROVE ChangeAlone'
    BY DEF ChangeAlone
  <2>1. ~metChange /\ (op = "status" => "status" \notin others)
    BY <1>1
  <2>2. \A z \in TenantRequests \ {r} : tenantReq[z].op = "status" => "status" \in others
    OBVIOUS
  <2>3. ASSUME NEW a \in TenantRequests, NEW b \in TenantRequests,
               tenantReq'[a].op = "status", tenantReq'[b].op = "status"
        PROVE  a = b
    BY <2>1, <2>2, <2>3, <1>3, <1>4 DEF TenantsInv, ChangeAlone
  <2>4. ASSUME NEW a \in TenantRequests, tenantReq'[a].op = "status", tenantReq'[a].pc = "write"
        PROVE  AllowedMove(tenant'.status, tenantReq'[a].arg)
    BY <2>1, <2>4, <1>1, <1>3, <1>4 DEF TenantsInv, ChangeAlone
  <2>. QED
    BY <2>3, <2>4 DEF ChangeAlone
<1>9. NothingLeftBehind' /\ MovesAllowed'
  BY <1>1 DEF TenantsInv, NothingLeftBehind, MovesAllowed
<1>10. CacheComes'
  <2>1. (\A z \in TenantRequests : tenantReq'[z].pc # "cache") =>
          \A z \in TenantRequests : tenantReq[z].pc # "cache"
    BY <1>1, <1>4 DEF NoTenantReq
  <2>. QED
    BY <2>1, <1>1 DEF TenantsInv, CacheComes, Snapshot
<1>. QED
  BY <1>5, <1>6, <1>7, <1>8, <1>9, <1>10 DEF TenantsInv

LEMMA TenantFields ==
  ASSUME NEW t \in [status : Statuses, deleted : BOOLEAN]
  PROVE  /\ \A s : [t EXCEPT !.status = s] = [status |-> s, deleted |-> t.deleted]
         /\ \A d : [t EXCEPT !.deleted = d] = [status |-> t.status, deleted |-> d]
OBVIOUS

LEMMA TenantsInvStep == TenantsInv /\ [TenantsNext]_tenantVars => TenantsInv'
<1>. SUFFICES ASSUME TenantsInv, [TenantsNext]_tenantVars PROVE TenantsInv'
  OBVIOUS
<1>. USE DEF TenantsInv
<1>0. TenantsTypes /\ Snapshot \in StatusSnapshots
  BY DEF TenantsTypes, Snapshot, StatusSnapshots
<1>1. ASSUME UNCHANGED <<tenant, domains, residents, invited, tenantReq, begunTenantReqs, metRemoval,
                         metChange, jumped, judgedOld>>
      PROVE  /\ ResidentsCounted' /\ InvitedCounted' /\ RemovalAlone' /\ NothingLeftBehind'
             /\ ChangeAlone' /\ MovesAllowed' /\ Snapshot' = Snapshot
  <2>1. Under(Arrivals)' = Under(Arrivals) /\ Under({"invite"})' = Under({"invite"})
    BY <1>1 DEF Under, Arrivals
  <2>. QED
    BY <2>1, <1>1 DEF ResidentsCounted, InvitedCounted, RemovalAlone, NothingLeftBehind, ChangeAlone,
                      MovesAllowed, Snapshot
<1>2. ASSUME UNCHANGED tenantVars PROVE TenantsInv'
  <2>1. TenantsTypes' /\ CacheComes'
    BY <1>2, <1>1, <1>0 DEF tenantVars, TenantsTypes, CacheComes
  <2>. QED
    BY <2>1, <1>2, <1>1 DEF tenantVars
<1>3. ASSUME LoadStatus PROVE TenantsInv'
  <2>1. TenantsTypes' /\ CacheComes'
    BY <1>3, <1>1, <1>0 DEF LoadStatus, TenantsTypes, CacheComes
  <2>. QED
    BY <2>1, <1>3, <1>1 DEF LoadStatus
<1>4. ASSUME CacheStatus PROVE TenantsInv'
  <2>1. TenantsTypes' /\ CacheComes'
    BY <1>4, <1>1, <1>0 DEF CacheStatus, TenantsTypes, CacheComes, StatusSnapshots
  <2>. QED
    BY <2>1, <1>4, <1>1 DEF CacheStatus
<1>5. ASSUME StatusExpires PROVE TenantsInv'
  <2>1. TenantsTypes' /\ CacheComes'
    BY <1>5, <1>1, <1>0 DEF StatusExpires, TenantsTypes, CacheComes, StatusSnapshots
  <2>. QED
    BY <2>1, <1>5, <1>1 DEF StatusExpires
\* The requests that begin.
<1>6. ASSUME NEW r \in TenantRequests, NEW to \in Statuses, ChangeStatus(r, to) PROVE TenantsInv'
  <2>1. [op |-> "status", pc |-> "write", arg |-> to] \in TenantReqKinds
    BY DEF TenantReqKinds
  <2>2. /\ (Found /\ AllowedMove(tenant.status, to)) \in BOOLEAN /\ AllowedMove(tenant.status, to)
        /\ ~tenant.deleted
    BY <1>6 DEF ChangeStatus, BeginTenantReq, AllowedMove, Found
  <2>3. /\ BeginTenantReq(r, "status", to, Found /\ AllowedMove(tenant.status, to))
        /\ "status" \notin Removals
    BY <1>6 DEF ChangeStatus, Removals
  <2>. QED
    BY <2>1, <2>2, <2>3, TenantReqBegins
<1>7. ASSUME NEW r \in TenantRequests, NEW d \in Domains, DropDomain(r, d) \/ AddDomain(r, d)
      PROVE  TenantsInv'
  <2>1. /\ [op |-> "dropDomain", pc |-> "write", arg |-> d] \in TenantReqKinds
        /\ [op |-> "addDomain", pc |-> "write", arg |-> d] \in TenantReqKinds
    BY DEF TenantReqKinds
  <2>2. CASE DropDomain(r, d)
    <3>1. (Found /\ d \in domains /\ MayGo("dropDomain")) \in BOOLEAN /\ MayGo("dropDomain")
          /\ ~tenant.deleted
      BY <2>2 DEF DropDomain, BeginTenantReq, Found
    <3>. QED
      BY <3>1, <2>1, <2>2, TenantReqBegins DEF DropDomain
  <2>3. CASE AddDomain(r, d)
    <3>1. (Found /\ d \notin domains) \in BOOLEAN /\ ~tenant.deleted
      BY <2>3 DEF AddDomain, BeginTenantReq, Found
    <3>. QED
      BY <3>1, <2>1, <2>3, TenantReqBegins DEF AddDomain, Removals
  <2>. QED
    BY <1>7, <2>2, <2>3
<1>8. ASSUME NEW r \in TenantRequests, DeleteTenant(r) \/ Register(r) PROVE TenantsInv'
  <2>1. /\ [op |-> "delete", pc |-> "write", arg |-> NoStatus] \in TenantReqKinds
        /\ [op |-> "register", pc |-> "write", arg |-> NoStatus] \in TenantReqKinds
    BY DEF TenantReqKinds
  <2>2. CASE DeleteTenant(r)
    <3>1. (Found /\ MayGo("delete")) \in BOOLEAN /\ MayGo("delete") /\ ~tenant.deleted
      BY <2>2 DEF DeleteTenant, BeginTenantReq, MayGo, Found
    <3>. QED
      BY <3>1, <2>1, <2>2, TenantReqBegins DEF DeleteTenant
  <2>3. CASE Register(r)
    <3>1. (domains # {} /\ ~Blocks(Seen)) \in BOOLEAN /\ domains # {}
      BY <2>3 DEF Register, BeginTenantReq
    <3>. QED
      BY <3>1, <2>1, <2>3, TenantReqBegins DEF Register, Removals
  <2>. QED
    BY <1>8, <2>2, <2>3
<1>13. ASSUME NEW r \in TenantRequests, InviteAdmin(r) \/ CancelInvite(r) \/ AcceptInvite(r)
       PROVE  TenantsInv'
  <2>1. /\ [op |-> "invite", pc |-> "write", arg |-> NoStatus] \in TenantReqKinds
        /\ [op |-> "cancel", pc |-> "write", arg |-> NoStatus] \in TenantReqKinds
        /\ [op |-> "accept", pc |-> "write", arg |-> NoStatus] \in TenantReqKinds
    BY DEF TenantReqKinds
  <2>2. CASE InviteAdmin(r)
    <3>1. (Found /\ domains # {}) \in BOOLEAN /\ ~tenant.deleted
      BY <2>2 DEF InviteAdmin, BeginTenantReq, Found
    <3>. QED
      BY <3>1, <2>1, <2>2, TenantReqBegins DEF InviteAdmin, Removals
  <2>3. CASE CancelInvite(r)
    <3>1. (Found /\ invited > 0) \in BOOLEAN /\ ~tenant.deleted
      BY <2>3 DEF CancelInvite, BeginTenantReq, Found
    <3>. QED
      BY <3>1, <2>1, <2>3, TenantReqBegins DEF CancelInvite, Removals
  <2>4. CASE AcceptInvite(r)
    <3>1. MayAccept \in BOOLEAN /\ MayAccept
      BY <2>4 DEF AcceptInvite, BeginTenantReq, MayAccept
    <3>. QED
      BY <3>1, <2>1, <2>4, TenantReqBegins DEF AcceptInvite, Removals
  <2>. QED
    BY <1>13, <2>2, <2>3, <2>4
\* A request that ends leaves the others as they were.
<1>9. ASSUME NEW r \in TenantRequests, tenantReq' = [tenantReq EXCEPT ![r] = NoTenantReq],
             UNCHANGED <<tenant, domains, residents, invited, begunTenantReqs, metRemoval, metChange,
                         jumped, judgedOld>>
      PROVE  /\ tenantReq' \in [TenantRequests -> TenantReqKinds]
             /\ ResidentsCounted' /\ InvitedCounted' /\ RemovalAlone' /\ NothingLeftBehind'
             /\ ChangeAlone' /\ MovesAllowed' /\ Snapshot' = Snapshot
  <2>1. tenantReq'[r] = NoTenantReq /\ \A z \in TenantRequests \ {r} : tenantReq'[z] = tenantReq[z]
    BY <1>9, <1>0 DEF TenantsTypes
  <2>2. NoTenantReq.op = "none" /\ NoTenantReq.pc = "idle" /\ NoTenantReq \in TenantReqKinds
    BY DEF NoTenantReq, TenantReqKinds
  <2>3. "none" \notin Arrivals /\ "none" \notin {"invite"}
    BY DEF Arrivals
  <2>4. ResidentsCounted' /\ InvitedCounted'
    <3>1. /\ Cardinality(Under(Arrivals)) \in Nat /\ Cardinality(Under(Arrivals)') \in Nat
          /\ Cardinality(Under(Arrivals)') <= Cardinality(Under(Arrivals))
      BY <2>1, <2>2, <2>3, OneMoreUnder
    <3>2. /\ Cardinality(Under({"invite"})) \in Nat /\ Cardinality(Under({"invite"})') \in Nat
          /\ Cardinality(Under({"invite"})') <= Cardinality(Under({"invite"}))
      BY <2>1, <2>2, <2>3, OneMoreUnder
    <3>3. residents \in Nat /\ invited \in Nat /\ begunTenantReqs \in Nat
      BY <1>0 DEF TenantsTypes
    <3>. QED
      BY <3>1, <3>2, <3>3, <1>9 DEF ResidentsCounted, InvitedCounted
  <2>5. RemovalAlone' /\ ChangeAlone'
    BY <2>1, <2>2, <1>9 DEF RemovalAlone, ChangeAlone, Removals
  <2>6. NothingLeftBehind' /\ MovesAllowed' /\ Snapshot' = Snapshot
    BY <1>9 DEF NothingLeftBehind, MovesAllowed, Snapshot
  <2>. QED
    BY <2>2, <2>4, <2>5, <2>6, <1>9, <1>0 DEF TenantsTypes
<1>10. ASSUME NEW r \in TenantRequests, WriteStatus(r) PROVE TenantsInv'
  <2>1. CASE tenant.deleted
    <3>1. TenantsTypes' /\ CacheComes'
      <4>1. tenantReq'[r] = NoTenantReq /\ tenantReq[r].pc = "write"
            /\ \A z \in TenantRequests \ {r} : tenantReq'[z] = tenantReq[z]
        BY <2>1, <1>10, <1>0 DEF WriteStatus, TenantsTypes
      <4>. QED
        BY <4>1, <2>1, <1>10, <1>9, <1>0 DEF WriteStatus, TenantsTypes, CacheComes, NoTenantReq
    <3>. QED
      BY <3>1, <2>1, <1>10, <1>9 DEF WriteStatus
  <2>2. CASE ~tenant.deleted
    <3>1. PICK to \in Statuses, q \in TenantReqKinds :
            /\ tenantReq[r] = [op |-> "status", pc |-> "write", arg |-> to]
            /\ q = [op |-> "status", pc |-> "cache", arg |-> to]
            /\ tenantReq' = [tenantReq EXCEPT ![r] = q]
            /\ tenant' = [status |-> to, deleted |-> FALSE]
            /\ jumped' = (jumped \/ to = "trial" \/ (to = "past_due" /\ tenant.status \notin {"active", to}))
      <4>1. PICK to \in Statuses : tenantReq[r] = [op |-> "status", pc |-> "write", arg |-> to]
        BY <1>10, <1>0 DEF WriteStatus, TenantsTypes, TenantReqKinds, NoTenantReq
      <4>2. [op |-> "status", pc |-> "cache", arg |-> to] \in TenantReqKinds
        BY DEF TenantReqKinds
      <4>3. [tenantReq[r] EXCEPT !.pc = "cache"] = [op |-> "status", pc |-> "cache", arg |-> to]
        BY <4>1
      <4>4. [tenant EXCEPT !.status = to] = [status |-> to, deleted |-> FALSE]
        <5>1. tenant \in [status : Statuses, deleted : BOOLEAN] /\ tenant.deleted = FALSE
          BY <2>2, <1>0 DEF TenantsTypes
        <5>. QED
          BY <5>1, TenantFields
      <4>. QED
        BY <4>1, <4>2, <4>3, <4>4, <2>2, <1>10, <1>0 DEF WriteStatus, TenantsTypes
    <3>2. UNCHANGED <<domains, residents, invited, statusCache, statusLoad, begunTenantReqs, metRemoval,
                      metChange, laggingStatus, judgedOld>>
      BY <1>10 DEF WriteStatus
    <3>3. tenantReq'[r] = q /\ \A z \in TenantRequests \ {r} : tenantReq'[z] = tenantReq[z]
      BY <3>1, <1>0 DEF TenantsTypes
    <3>4. TenantsTypes'
      <4>1. jumped' \in BOOLEAN
        BY <3>1
      <4>2. tenant' \in [status : Statuses, deleted : BOOLEAN]
        BY <3>1
      <4>3. tenantReq' \in [TenantRequests -> TenantReqKinds]
        BY <3>1, <1>0 DEF TenantsTypes
      <4>. QED
        BY <4>1, <4>2, <4>3, <3>2, <1>0 DEF TenantsTypes
    <3>5. Under(Arrivals)' = Under(Arrivals) /\ Under({"invite"})' = Under({"invite"})
      BY <3>1, <3>3 DEF Under, Arrivals
    <3>6. ResidentsCounted' /\ InvitedCounted' /\ RemovalAlone' /\ NothingLeftBehind'
      BY <3>5, <3>1, <3>2, <3>3, <2>2
         DEF ResidentsCounted, InvitedCounted, RemovalAlone, NothingLeftBehind, Removals
    <3>7. ChangeAlone' /\ MovesAllowed'
      <4>. SUFFICES ASSUME ~metChange PROVE ChangeAlone' /\ MovesAllowed'
        BY <3>2 DEF ChangeAlone, MovesAllowed
      <4>1. \A z \in TenantRequests : tenantReq[z].op = "status" => z = r
        BY <3>1 DEF ChangeAlone
      <4>2. AllowedMove(tenant.status, to)
        BY <3>1 DEF ChangeAlone
      <4>3. ~jumped'
        BY <4>2, <3>1 DEF MovesAllowed, AllowedMove
      <4>4. \A z \in TenantRequests : tenantReq'[z].op = "status" => z = r /\ tenantReq'[z].pc = "cache"
        BY <4>1, <3>1, <3>3
      <4>. QED
        BY <4>3, <4>4 DEF ChangeAlone, MovesAllowed
    <3>8. CacheComes'
      BY <3>1, <3>3 DEF CacheComes
    <3>. QED
      BY <3>4, <3>6, <3>7, <3>8
  <2>. QED
    BY <2>1, <2>2
<1>11. ASSUME NEW r \in TenantRequests, NEW fails \in BOOLEAN, SetStatusCache(r, fails)
       PROVE  TenantsInv'
  <2>1. PICK to \in Statuses : tenantReq[r] = [op |-> "status", pc |-> "cache", arg |-> to]
    BY <1>11, <1>0 DEF SetStatusCache, TenantsTypes, TenantReqKinds, NoTenantReq
  <2>2. tenantReq' \in [TenantRequests -> TenantReqKinds] /\ Snapshot' = Snapshot
    BY <1>11, <1>9 DEF SetStatusCache
  <2>3. CASE fails
    BY <2>2, <2>3, <1>11, <1>9, <1>0 DEF SetStatusCache, TenantsTypes, CacheComes
  <2>4. CASE ~fails
    <3>1. statusCache' = [status |-> to, deleted |-> FALSE]
          /\ laggingStatus' = (tenant # [status |-> to, deleted |-> FALSE])
      BY <2>1, <2>4, <1>11 DEF SetStatusCache, WrittenThrough
    <3>2. TenantsTypes'
      <4>1. statusCache' \in StatusSnapshots
        BY <3>1 DEF StatusSnapshots
      <4>. QED
        BY <4>1, <3>1, <2>2, <1>11, <1>0 DEF SetStatusCache, TenantsTypes
    <3>3. CacheComes'
      <4>. SUFFICES ASSUME ~laggingStatus' PROVE statusCache' = Snapshot
        BY <2>2 DEF CacheComes
      <4>1. tenant = [status |-> to, deleted |-> FALSE]
        BY <3>1
      <4>2. Snapshot = [status |-> to, deleted |-> FALSE]
        BY <4>1 DEF Snapshot
      <4>. QED
        BY <4>2, <3>1
    <3>. QED
      BY <3>2, <3>3, <1>11, <1>9 DEF SetStatusCache
  <2>. QED
    BY <2>3, <2>4
<1>12. ASSUME NEW r \in TenantRequests, WriteOther(r) PROVE TenantsInv'
  <2>1. /\ tenantReq' = [tenantReq EXCEPT ![r] = NoTenantReq]
        /\ UNCHANGED <<invited, statusCache, statusLoad, begunTenantReqs, metRemoval, metChange, jumped,
                        judgedOld>>
        /\ laggingStatus' = (laggingStatus \/ (tenantReq[r].op = "delete" /\ statusCache # NoStatus))
    BY <1>12 DEF WriteOther
  <2>2. /\ tenantReq'[r] = NoTenantReq /\ NoTenantReq.op = "none" /\ NoTenantReq.pc = "idle"
        /\ \A z \in TenantRequests \ {r} : tenantReq'[z] = tenantReq[z]
        /\ tenantReq' \in [TenantRequests -> TenantReqKinds]
    BY <2>1, <1>0 DEF TenantsTypes, NoTenantReq, TenantReqKinds
  <2>3. tenantReq[r].op \in {"delete", "register", "dropDomain", "addDomain"}
        /\ tenantReq[r].pc = "write"
        /\ (tenantReq[r].op \in {"dropDomain", "addDomain"} => tenantReq[r].arg \in Domains)
    BY <1>12, <1>0 DEF WriteOther, TenantsTypes, TenantReqKinds, NoTenantReq
  <2>4. tenant' = (IF tenantReq[r].op = "delete" THEN [status |-> tenant.status, deleted |-> TRUE]
                   ELSE tenant)
        /\ tenant' \in [status : Statuses, deleted : BOOLEAN]
    <3>1. [tenant EXCEPT !.deleted = TRUE] = [status |-> tenant.status, deleted |-> TRUE]
          /\ [status |-> tenant.status, deleted |-> TRUE] \in [status : Statuses, deleted : BOOLEAN]
      BY <1>0, TenantFields DEF TenantsTypes
    <3>. QED
      BY <3>1, <1>12, <1>0 DEF WriteOther, TenantsTypes
  <2>5. domains' = DomainsAfter(tenantReq[r])
    BY <1>12 DEF WriteOther
  <2>6. /\ tenantReq[r].op = "delete" => domains' = {}
        /\ tenantReq[r].op = "dropDomain" => domains' = domains \ {tenantReq[r].arg}
        /\ tenantReq[r].op = "addDomain" => domains' = domains \cup {tenantReq[r].arg}
        /\ tenantReq[r].op = "register" => domains' = domains
    BY <2>5 DEF DomainsAfter
  <2>7. residents' = IF tenantReq[r].op = "register" THEN residents + 1 ELSE residents
    BY <1>12 DEF WriteOther
  <2>8. TenantsTypes'
    <3>1. domains' \subseteq Domains
      BY <2>3, <2>6, <1>0 DEF TenantsTypes
    <3>2. residents' \in Nat
      BY <2>7, <1>0 DEF TenantsTypes
    <3>. QED
      BY <3>1, <3>2, <2>1, <2>2, <2>4, <1>0 DEF TenantsTypes
  <2>9. ResidentsCounted' /\ InvitedCounted'
    <3>0. "none" \notin Arrivals /\ "none" \notin {"invite"} /\ "register" \in Arrivals
      BY DEF Arrivals
    <3>1. /\ Cardinality(Under(Arrivals)) \in Nat /\ Cardinality(Under(Arrivals)') \in Nat
          /\ Cardinality(Under(Arrivals)') <= Cardinality(Under(Arrivals))
          /\ tenantReq[r].op = "register" =>
               Cardinality(Under(Arrivals)') + 1 <= Cardinality(Under(Arrivals))
      BY <2>2, <3>0, OneMoreUnder
    <3>2. /\ Cardinality(Under({"invite"})) \in Nat /\ Cardinality(Under({"invite"})') \in Nat
          /\ Cardinality(Under({"invite"})') <= Cardinality(Under({"invite"}))
      BY <2>2, <3>0, OneMoreUnder
    <3>3. residents \in Nat /\ invited \in Nat /\ begunTenantReqs \in Nat
      BY <1>0 DEF TenantsTypes
    <3>. QED
      BY <3>1, <3>2, <3>3, <2>1, <2>7 DEF ResidentsCounted, InvitedCounted
  <2>10. RemovalAlone' /\ NothingLeftBehind'
    <3>. SUFFICES ASSUME ~metRemoval PROVE RemovalAlone' /\ NothingLeftBehind'
      BY <2>1 DEF RemovalAlone, NothingLeftBehind
    <3>0. /\ \A a, b \in TenantRequests : tenantReq[a].op \in Removals /\ tenantReq[b].op # "none" => a = b
          /\ (tenantReq[r].op = "delete" => residents = 0)
          /\ (tenantReq[r].op = "dropDomain" => Cardinality(domains) > 1)
          /\ ~tenant.deleted /\ domains # {}
      BY <2>3 DEF RemovalAlone, NothingLeftBehind
    <3>1. \A a \in TenantRequests : tenantReq'[a].op \in Removals => tenantReq[a].op \in Removals /\ a # r
      BY <2>2 DEF Removals
    <3>2. \A a \in TenantRequests : tenantReq'[a].op \notin Removals
      BY <3>0, <3>1, <2>3
    <3>3. tenantReq[r].op = "delete" => \A a \in TenantRequests : tenantReq'[a].op = "none"
      BY <3>0, <2>2 DEF Removals
    <3>4. tenant'.deleted = (tenantReq[r].op = "delete")
      BY <2>4, <3>0, <1>0 DEF TenantsTypes
    <3>5. RemovalAlone'
      BY <3>2, <3>3, <3>4 DEF RemovalAlone, Removals
    <3>6. CASE tenantReq[r].op = "delete"
      BY <3>6, <3>0, <3>4, <3>5, <2>6, <2>7 DEF NothingLeftBehind
    <3>7. CASE tenantReq[r].op = "dropDomain"
      <4>1. domains \ {tenantReq[r].arg} # {}
        BY <3>0, <3>7, MoreThanOne
      <4>. QED
        BY <4>1, <3>7, <3>4, <3>5, <2>6 DEF NothingLeftBehind
    <3>8. CASE tenantReq[r].op \in {"register", "addDomain"}
      BY <3>8, <3>0, <3>4, <3>5, <2>6 DEF NothingLeftBehind
    <3>. QED
      BY <2>3, <3>6, <3>7, <3>8
  <2>11. ChangeAlone' /\ MovesAllowed'
    <3>1. tenant'.status = tenant.status
      BY <2>4
    <3>2. \A a \in TenantRequests : tenantReq'[a].op = "status" => tenantReq'[a] = tenantReq[a]
      BY <2>2
    <3>. QED
      BY <3>1, <3>2, <2>1 DEF ChangeAlone, MovesAllowed
  <2>12. CacheComes'
    <3>1. (\A z \in TenantRequests : tenantReq'[z].pc # "cache") =>
            \A z \in TenantRequests : tenantReq[z].pc # "cache"
      BY <2>2, <2>3
    <3>2. tenantReq[r].op # "delete" => Snapshot' = Snapshot
      BY <2>4 DEF Snapshot
    <3>. QED
      BY <3>1, <3>2, <2>1 DEF CacheComes
  <2>. QED
    BY <2>8, <2>9, <2>10, <2>11, <2>12
<1>14. ASSUME NEW r \in TenantRequests, NEW succeeds \in BOOLEAN, WriteInvitation(r, succeeds)
       PROVE  TenantsInv'
  <2>. DEFINE op == tenantReq[r].op
  <2>1. /\ op \in {"invite", "cancel", "accept"} /\ (succeeds => op = "invite" \/ invited > 0)
        /\ invited' = (IF ~succeeds THEN invited
                        ELSE IF op = "invite" THEN invited + 1 ELSE invited - 1)
        /\ residents' = (IF succeeds /\ op = "accept" THEN residents + 1 ELSE residents)
        /\ tenantReq' = [tenantReq EXCEPT ![r] = NoTenantReq]
        /\ UNCHANGED <<tenant, domains, statusCache, statusLoad, begunTenantReqs, metRemoval, metChange,
                        jumped, laggingStatus, judgedOld>>
    BY <1>14 DEF WriteInvitation
  <2>2. /\ tenantReq'[r] = NoTenantReq /\ NoTenantReq.op = "none" /\ NoTenantReq.pc = "idle"
        /\ \A z \in TenantRequests \ {r} : tenantReq'[z] = tenantReq[z]
        /\ tenantReq' \in [TenantRequests -> TenantReqKinds]
    BY <2>1, <1>0 DEF TenantsTypes, NoTenantReq, TenantReqKinds
  <2>3. tenantReq[r].pc = "write"
    BY <2>1, <1>0 DEF TenantsTypes, TenantReqKinds, NoTenantReq
  <2>4. residents \in Nat /\ invited \in Nat /\ begunTenantReqs \in Nat
    BY <1>0 DEF TenantsTypes
  <2>5. TenantsTypes'
    <3>1. invited' \in Nat /\ residents' \in Nat
      BY <2>1, <2>4
    <3>. QED
      BY <3>1, <2>1, <2>2, <1>0 DEF TenantsTypes
  <2>6. ResidentsCounted' /\ InvitedCounted'
    <3>0. "none" \notin Arrivals /\ "none" \notin {"invite"} /\ "accept" \in Arrivals
          /\ "invite" \in {"invite"}
      BY DEF Arrivals
    <3>1. /\ Cardinality(Under(Arrivals)) \in Nat /\ Cardinality(Under(Arrivals)') \in Nat
          /\ Cardinality(Under(Arrivals)') <= Cardinality(Under(Arrivals))
          /\ op = "accept" => Cardinality(Under(Arrivals)') + 1 <= Cardinality(Under(Arrivals))
      BY <2>2, <3>0, OneMoreUnder
    <3>2. /\ Cardinality(Under({"invite"})) \in Nat /\ Cardinality(Under({"invite"})') \in Nat
          /\ Cardinality(Under({"invite"})') <= Cardinality(Under({"invite"}))
          /\ op = "invite" => Cardinality(Under({"invite"})') + 1 <= Cardinality(Under({"invite"}))
      BY <2>2, <3>0, OneMoreUnder
    <3>3. ResidentsCounted'
      BY <3>1, <2>1, <2>4 DEF ResidentsCounted
    <3>4. InvitedCounted'
      BY <3>2, <2>1, <2>4 DEF InvitedCounted
    <3>. QED
      BY <3>3, <3>4
  <2>7. RemovalAlone' /\ NothingLeftBehind'
    <3>. SUFFICES ASSUME ~metRemoval PROVE RemovalAlone' /\ NothingLeftBehind'
      BY <2>1 DEF RemovalAlone, NothingLeftBehind
    <3>1. \A a \in TenantRequests : tenantReq[a].op \notin Removals
      BY <2>1 DEF RemovalAlone, Removals
    <3>2. \A a \in TenantRequests : tenantReq'[a].op = tenantReq[a].op \/ tenantReq'[a].op = "none"
      BY <2>2
    <3>3. RemovalAlone'
      BY <3>1, <3>2, <2>1 DEF RemovalAlone, Removals
    <3>4. tenant.deleted => judgedOld
      BY <2>1 DEF RemovalAlone
    <3>. QED
      BY <3>3, <3>4, <2>1 DEF NothingLeftBehind
  <2>8. ChangeAlone' /\ MovesAllowed'
    <3>1. \A a \in TenantRequests : tenantReq'[a].op = "status" => tenantReq'[a] = tenantReq[a]
      BY <2>2
    <3>. QED
      BY <3>1, <2>1 DEF ChangeAlone, MovesAllowed
  <2>9. CacheComes'
    <3>1. (\A z \in TenantRequests : tenantReq'[z].pc # "cache") =>
            \A z \in TenantRequests : tenantReq[z].pc # "cache"
      BY <2>2, <2>3
    <3>. QED
      BY <3>1, <2>1 DEF CacheComes, Snapshot
  <2>. QED
    BY <2>5, <2>6, <2>7, <2>8, <2>9
<1>. QED
  BY <1>2, <1>3, <1>4, <1>5, <1>6, <1>7, <1>8, <1>10, <1>11, <1>12, <1>13, <1>14, AnyOneIsFree
     DEF TenantsNext

(* A tenant is sound, for any domains and any number of requests: every    *)
(* variable keeps its type, a removal leaves nothing behind unless it met  *)
(* another request, but for the users whose invitation was accepted on a   *)
(* cached status older than the deletion; the status moves as              *)
(* isAllowedStatusTransition says unless two changes met, and the cached   *)
(* status follows it but in the cases TenantsSound names                   *)
(* (university.service.ts, tenants.service.ts, auth.service.ts:688-735).   *)
THEOREM TenantsAreSound == TenantsSpec => []TenantsSound
<1>1. TenantsInv => TenantsSound
  <2>. SUFFICES ASSUME TenantsInv PROVE TenantsSound
    OBVIOUS
  <2>0. TenantsTypes /\ ResidentsCounted /\ InvitedCounted
    BY DEF TenantsInv
  <2>1. residents \in 0..MaxTenantReqs /\ invited \in 0..(MaxTenantReqs + 1)
    <3>1. Cardinality(Under(Arrivals)) \in Nat /\ Cardinality(Under({"invite"})) \in Nat
      BY TenantsAssumption, FS_Subset, FS_CardinalityType DEF Under
    <3>. QED
      BY <3>1, <2>0, TenantsAssumption DEF TenantsTypes, ResidentsCounted, InvitedCounted
  <2>2. \A r \in TenantRequests : tenantReq[r].pc \in {"idle", "write", "cache"}
    BY <2>0 DEF TenantsTypes, TenantReqKinds, NoTenantReq
  <2>3. TenantsTypeOK
    BY <2>0, <2>1, <2>2 DEF TenantsTypes, TenantsTypeOK, StatusSnapshots
  <2>4. StatusFollows
    BY DEF TenantsInv, CacheComes, StatusFollows, NoTenantReq
  <2>. QED
    BY <2>3, <2>4 DEF TenantsInv, TenantsSound
<1>. QED
  BY TenantsInvInit, TenantsInvStep, <1>1, PTL DEF TenantsSpec

-----------------------------------------------------------------------------
(***************************************************************************)
(* What hangs below it.  Unless a removal met another request, one under   *)
(* way is alone and still finds nothing below its node, and whatever is    *)
(* about to be created has a live parent; and a cached list that is old,   *)
(* and not known to be, is about to be dropped.                            *)
(***************************************************************************)
TreeReqKinds ==
  {NoTreeReq}
    \cup [op : {"create", "rename", "remove"}, pc : {"write", "drop"}, on : Nodes, user : {Nowhere}]
    \cup [op : {"place"}, pc : {"write"}, on : Leaves \cup {Nowhere}, user : Assignees]
TreeTypes ==
  /\ node \in [Nodes -> {"absent", "live", "gone"}]
  /\ placed \in [Assignees -> Leaves \cup {Nowhere}]
  /\ lists \in [Inner -> (SUBSET Nodes) \cup {Nowhere}]
  /\ listLoads \in [Inner -> (SUBSET Nodes) \cup {Nowhere}]
  /\ \A n \in Inner : {lists[n], listLoads[n]} \subseteq (SUBSET Children(n)) \cup {Nowhere}
  /\ treeReq \in [TreeRequests -> TreeReqKinds]
  /\ begunTree \in 0..MaxTreeReqs /\ metTree \in BOOLEAN
  /\ latecomers \subseteq Assignees /\ laggingLists \subseteq Inner

WritesTree(r, op) == treeReq[r].op = op /\ treeReq[r].pc = "write"
RemovalHolds ==
  ~metTree =>
    /\ \A r, z \in TreeRequests : treeReq[r].op = "remove" /\ treeReq[z].op # "none" => r = z
    /\ \A r \in TreeRequests : WritesTree(r, "remove") =>
         LiveChildren(treeReq[r].on) = {} /\ ~Occupied(treeReq[r].on)
    /\ \A r \in TreeRequests : WritesTree(r, "create") => node[ParentOf[treeReq[r].on]] = "live"
PlacesExist ==
  \A r \in TreeRequests :
    treeReq[r].op = "place" /\ treeReq[r].on # Nowhere => node[treeReq[r].on] # "absent"
WillDrop(r, n) == treeReq[r].pc = "drop" /\ n \in DroppedLists(treeReq[r].op, treeReq[r].on)
ListsCome ==
  \A n \in Inner \ laggingLists :
    lists[n] \in {Nowhere, LiveChildren(n)} \/ \E r \in TreeRequests : WillDrop(r, n)

TreeInv ==
  TreeTypes /\ RemovalHolds /\ PlacesExist /\ Rooted /\ PlacedInLive /\ ListsCome

LEMMA NodesAre ==
  /\ \A n \in Nodes : ParentOf[n] \in Inner
  /\ \A n \in Nodes, m \in Nodes : n \in Children(m) <=> n # m /\ m = ParentOf[n]
  /\ Inner \subseteq Nodes /\ Leaves \subseteq Nodes /\ Inner \cap Leaves = {}
<1>1. \A n \in Nodes, m \in Nodes : n \in Children(m) <=> n # m /\ m = ParentOf[n]
  BY DEF Children
<1>2. ASSUME NEW n \in Nodes PROVE ParentOf[n] \in Inner
  <2>1. CASE ParentOf[n] # n
    BY <2>1, <1>1, TreeAssumption DEF Inner
  <2>2. CASE ParentOf[n] = n
    BY <2>2, TreeAssumption DEF Inner, Children
  <2>. QED
    BY <2>1, <2>2
<1>. QED
  BY <1>1, <1>2 DEF Inner, Leaves

LEMMA TreeInvInit == TreeInit => TreeInv
<1>. SUFFICES ASSUME TreeInit PROVE TreeInv
  OBVIOUS
<1>1. PICK made \in Packages : node = [n \in Nodes |-> IF n \in made THEN "live" ELSE "absent"]
  BY DEF TreeInit
<1>2. NoTreeReq \in TreeReqKinds /\ NoTreeReq.op = "none" /\ NoTreeReq.pc = "idle"
  BY DEF TreeReqKinds, NoTreeReq
<1>3. TreeTypes
  <2>1. lists \in [Inner -> (SUBSET Nodes) \cup {Nowhere}]
        /\ listLoads \in [Inner -> (SUBSET Nodes) \cup {Nowhere}]
        /\ \A n \in Inner : {lists[n], listLoads[n]} \subseteq (SUBSET Children(n)) \cup {Nowhere}
    BY DEF TreeInit
  <2>2. node \in [Nodes -> {"absent", "live", "gone"}]
    BY <1>1
  <2>3. begunTree \in 0..MaxTreeReqs
    BY TreeAssumption DEF TreeInit
  <2>4. treeReq \in [TreeRequests -> TreeReqKinds]
    BY <1>2 DEF TreeInit
  <2>. QED
    BY <2>1, <2>2, <2>3, <2>4 DEF TreeInit, TreeTypes
<1>4. RemovalHolds /\ PlacesExist
  BY <1>2 DEF TreeInit, RemovalHolds, PlacesExist, WritesTree
<1>5. Rooted
  BY <1>1, TreeAssumption DEF Rooted, Packages
<1>6. PlacedInLive /\ ListsCome
  BY DEF TreeInit, PlacedInLive, ListsCome
<1>. QED
  BY <1>3, <1>4, <1>5, <1>6 DEF TreeInv

\* A request begins: what it meets is recorded.
LEMMA TreeReqBegins ==
  ASSUME TreeInv, NEW r \in TreeRequests, NEW op, NEW n \in Nodes \cup {Nowhere}, NEW u, NEW ok \in BOOLEAN,
         BeginTreeReq(r, op, n, u, ok),
         [op |-> op, pc |-> "write", on |-> n, user |-> u] \in TreeReqKinds, op # "none",
         op = "remove" => LiveChildren(n) = {} /\ ~Occupied(n),
         op = "create" => node[ParentOf[n]] = "live",
         op = "place" /\ n # Nowhere => node[n] # "absent"
  PROVE  TreeInv'
<1>. DEFINE others == {treeReq[q].op : q \in TreeRequests \ {r}} \ {"none"}
<1>0. TreeTypes
  BY DEF TreeInv
<1>1. /\ treeReq[r] = NoTreeReq /\ begunTree < MaxTreeReqs /\ begunTree' = begunTree + 1
      /\ UNCHANGED <<node, placed, lists, listLoads, latecomers, laggingLists>>
      /\ metTree' = (metTree \/ "remove" \in others \/ (op = "remove" /\ others # {}))
  BY DEF BeginTreeReq
<1>2. PICK q : q = [op |-> op, pc |-> "write", on |-> n, user |-> u]
  OBVIOUS
<1>3. treeReq' = [treeReq EXCEPT ![r] = q] /\ q \in TreeReqKinds /\ q.op = op /\ q.pc = "write"
      /\ q.on = n
  BY <1>2 DEF BeginTreeReq
<1>4. treeReq'[r] = q /\ \A z \in TreeRequests \ {r} : treeReq'[z] = treeReq[z]
  BY <1>3, <1>0 DEF TreeTypes
<1>5. TreeTypes'
  <2>1. begunTree' \in 0..MaxTreeReqs
    BY <1>1, <1>0, TreeAssumption DEF TreeTypes
  <2>2. treeReq' \in [TreeRequests -> TreeReqKinds]
    BY <1>3, <1>0 DEF TreeTypes
  <2>3. metTree' \in BOOLEAN
    BY <1>1
  <2>. QED
    BY <2>1, <2>2, <2>3, <1>1, <1>0 DEF TreeTypes
<1>6. RemovalHolds'
  <2>. SUFFICES ASSUME ~metTree' PROVE RemovalHolds'
    BY DEF RemovalHolds
  <2>1. ~metTree /\ "remove" \notin others /\ (op = "remove" => others = {})
    BY <1>1
  <2>2. \A z \in TreeRequests \ {r} : treeReq[z].op \in others \/ treeReq[z].op = "none"
    OBVIOUS
  <2>3. ASSUME NEW a \in TreeRequests, NEW b \in TreeRequests,
               treeReq'[a].op = "remove", treeReq'[b].op # "none"
        PROVE  a = b
    <3>1. a = r
      BY <2>1, <2>2, <2>3, <1>4
    <3>2. others = {}
      BY <3>1, <2>1, <2>3, <1>3, <1>4
    <3>3. b # r => treeReq[b].op = "none"
      BY <3>2, <2>2
    <3>. QED
      BY <3>1, <3>3, <2>3, <1>4
  <2>4. ASSUME NEW a \in TreeRequests
        PROVE  /\ WritesTree(a, "remove")' => LiveChildren(n)' = {} /\ ~Occupied(n)' /\ treeReq'[a].on = n
               /\ WritesTree(a, "create")' => node'[ParentOf[treeReq'[a].on]] = "live"
    <3>1. CASE a = r
      BY <3>1, <1>1, <1>3, <1>4 DEF WritesTree, LiveChildren, Occupied
    <3>2. CASE a # r
      BY <3>2, <2>1, <2>2, <1>1, <1>4 DEF TreeInv, RemovalHolds, WritesTree
    <3>. QED
      BY <3>1, <3>2
  <2>. QED
    BY <2>3, <2>4 DEF RemovalHolds, LiveChildren, Occupied
<1>7. PlacesExist'
  BY <1>1, <1>3, <1>4 DEF TreeInv, PlacesExist
<1>8. Rooted' /\ PlacedInLive'
  BY <1>1 DEF TreeInv, Rooted, PlacedInLive
<1>9. ListsCome'
  <2>1. \A m \in Inner, z \in TreeRequests : WillDrop(z, m) => WillDrop(z, m)'
    BY <1>1, <1>4 DEF WillDrop, DroppedLists, NoTreeReq
  <2>. QED
    BY <2>1, <1>1 DEF TreeInv, ListsCome, LiveChildren
<1>. QED
  BY <1>5, <1>6, <1>7, <1>8, <1>9 DEF TreeInv

LEMMA TreeInvStep == TreeInv /\ [TreeNext]_treeVars => TreeInv'
<1>. SUFFICES ASSUME TreeInv, [TreeNext]_treeVars PROVE TreeInv'
  OBVIOUS
<1>. USE DEF TreeInv
<1>0. TreeTypes /\ \A n \in Inner : LiveChildren(n) \in SUBSET Children(n)
  BY DEF LiveChildren
<1>1. ASSUME UNCHANGED <<node, placed, treeReq, begunTree, metTree, latecomers>>
      PROVE  /\ RemovalHolds' /\ PlacesExist' /\ Rooted' /\ PlacedInLive'
             /\ \A n : LiveChildren(n)' = LiveChildren(n)
             /\ \A r, n : WillDrop(r, n)' = WillDrop(r, n)
  BY <1>1 DEF RemovalHolds, PlacesExist, Rooted, PlacedInLive, LiveChildren, Occupied, WritesTree,
              WillDrop, DroppedLists
<1>2. ASSUME UNCHANGED treeVars PROVE TreeInv'
  <2>1. TreeTypes' /\ ListsCome'
    BY <1>2, <1>1, <1>0 DEF treeVars, TreeTypes, ListsCome
  <2>. QED
    BY <2>1, <1>2, <1>1 DEF treeVars
<1>3. ASSUME NEW n \in Inner, LoadList(n) PROVE TreeInv'
  <2>1. PICK new : /\ listLoads' = [listLoads EXCEPT ![n] = new]
                   /\ new \in SUBSET Children(n) /\ new \in SUBSET Nodes
    BY <1>3, <1>0 DEF LoadList, Children
  <2>2. TreeTypes'
    BY <2>1, <1>3, <1>0 DEF LoadList, TreeTypes
  <2>3. ListsCome'
    BY <1>3, <1>1 DEF LoadList, ListsCome
  <2>. QED
    BY <2>2, <2>3, <1>3, <1>1 DEF LoadList
<1>4. ASSUME NEW n \in Inner, CacheList(n) PROVE TreeInv'
  <2>1. /\ lists' = [lists EXCEPT ![n] = listLoads[n]] /\ listLoads' = [listLoads EXCEPT ![n] = Nowhere]
        /\ laggingLists' = IF listLoads[n] = LiveChildren(n) THEN laggingLists ELSE laggingLists \cup {n}
        /\ UNCHANGED <<node, placed, treeReq, begunTree, metTree, latecomers>>
    BY <1>4 DEF CacheList
  <2>2. TreeTypes'
    BY <2>1, <1>0 DEF TreeTypes
  <2>3. ListsCome'
    <3>. SUFFICES ASSUME NEW m \in Inner, m \notin laggingLists', \A r \in TreeRequests : ~WillDrop(r, m)
                  PROVE  lists'[m] \in {Nowhere, LiveChildren(m)}
      BY <2>1, <1>1 DEF ListsCome
    <3>1. CASE m = n
      BY <3>1, <2>1, <1>0 DEF TreeTypes
    <3>2. CASE m # n
      BY <3>2, <2>1, <1>0 DEF TreeTypes, ListsCome
    <3>. QED
      BY <3>1, <3>2
  <2>. QED
    BY <2>1, <2>2, <2>3, <1>1
\* The requests that begin.
<1>5. ASSUME NEW r \in TreeRequests, NEW n \in Nodes, CreateNode(r, n) \/ RenameNode(r, n)
      PROVE  TreeInv'
  <2>1. /\ [op |-> "create", pc |-> "write", on |-> n, user |-> Nowhere] \in TreeReqKinds
        /\ [op |-> "rename", pc |-> "write", on |-> n, user |-> Nowhere] \in TreeReqKinds
    BY DEF TreeReqKinds
  <2>2. CASE CreateNode(r, n)
    <3>. DEFINE ok == /\ node[n] = "absent" /\ node[ParentOf[n]] = "live"
                      /\ \A q \in TreeRequests : treeReq[q].on # n
    <3>1. BeginTreeReq(r, "create", n, Nowhere, ok)
      BY <2>2 DEF CreateNode
    <3>2. ok \in BOOLEAN /\ node[ParentOf[n]] = "live"
      BY <3>1 DEF BeginTreeReq
    <3>. HIDE DEF ok
    <3>. QED
      BY <3>1, <3>2, <2>1, TreeReqBegins
  <2>3. CASE RenameNode(r, n)
    <3>1. BeginTreeReq(r, "rename", n, Nowhere, node[n] = "live") /\ (node[n] = "live") \in BOOLEAN
      BY <2>3 DEF RenameNode
    <3>. QED
      BY <3>1, <2>1, TreeReqBegins
  <2>. QED
    BY <1>5, <2>2, <2>3
<1>6. ASSUME NEW r \in TreeRequests, NEW n \in Nodes, RemoveNode(r, n) PROVE TreeInv'
  <2>1. [op |-> "remove", pc |-> "write", on |-> n, user |-> Nowhere] \in TreeReqKinds
    BY DEF TreeReqKinds
  <2>. DEFINE ok == node[n] = "live" /\ Removable(n)
  <2>2. BeginTreeReq(r, "remove", n, Nowhere, ok)
    BY <1>6 DEF RemoveNode
  <2>3. ok \in BOOLEAN /\ LiveChildren(n) = {} /\ ~Occupied(n)
    BY <2>2 DEF BeginTreeReq, Removable
  <2>. HIDE DEF ok
  <2>. QED
    BY <2>1, <2>2, <2>3, TreeReqBegins
<1>7. ASSUME NEW r \in TreeRequests, NEW u \in Assignees, NEW n \in Leaves \cup {Nowhere},
             PlaceUser(r, u, n)
      PROVE  TreeInv'
  <2>1. [op |-> "place", pc |-> "write", on |-> n, user |-> u] \in TreeReqKinds
        /\ n \in Nodes \cup {Nowhere}
    BY NodesAre DEF TreeReqKinds
  <2>. DEFINE ok == n # Nowhere => node[n] # "absent"
  <2>2. BeginTreeReq(r, "place", n, u, ok)
    BY <1>7 DEF PlaceUser
  <2>3. ok \in BOOLEAN /\ (n # Nowhere => node[n] # "absent")
    BY <2>2 DEF BeginTreeReq
  <2>. HIDE DEF ok
  <2>. QED
    BY <2>1, <2>2, <2>3, TreeReqBegins
\* What is written: a node made, renamed or removed...
<1>8. ASSUME NEW r \in TreeRequests, WriteTree(r), treeReq[r].op # "place" PROVE TreeInv'
  <2>1. PICK op \in {"create", "rename", "remove"}, n \in Nodes, q \in TreeReqKinds :
          /\ treeReq[r] = [op |-> op, pc |-> "write", on |-> n, user |-> Nowhere]
          /\ q = [op |-> op, pc |-> "drop", on |-> n, user |-> Nowhere]
          /\ treeReq' = [treeReq EXCEPT ![r] = q]
    <3>1. PICK op \in {"create", "rename", "remove"}, n \in Nodes :
            treeReq[r] = [op |-> op, pc |-> "write", on |-> n, user |-> Nowhere]
      BY <1>8, <1>0 DEF WriteTree, TreeTypes, TreeReqKinds, NoTreeReq
    <3>2. [op |-> op, pc |-> "drop", on |-> n, user |-> Nowhere] \in TreeReqKinds
      BY DEF TreeReqKinds
    <3>3. [treeReq[r] EXCEPT !.pc = "drop"] = [op |-> op, pc |-> "drop", on |-> n, user |-> Nowhere]
      BY <3>1
    <3>. QED
      BY <3>1, <3>2, <3>3, <1>8 DEF WriteTree
  <2>2. UNCHANGED <<placed, latecomers, lists, listLoads, begunTree, metTree, laggingLists>>
    BY <1>8 DEF WriteTree
  <2>3. treeReq'[r] = q /\ \A z \in TreeRequests \ {r} : treeReq'[z] = treeReq[z]
    BY <2>1, <1>0 DEF TreeTypes
  <2>4. /\ op = "create" => node' = [node EXCEPT ![n] = "live"]
        /\ op = "remove" => node' = [node EXCEPT ![n] = "gone"]
        /\ op = "rename" => node' = node
    BY <2>1, <1>8 DEF WriteTree
  <2>5. /\ node' \in [Nodes -> {"absent", "live", "gone"}] /\ \A m \in Nodes \ {n} : node'[m] = node[m]
        /\ node'[n] = (IF op = "create" THEN "live" ELSE IF op = "remove" THEN "gone" ELSE node[n])
    BY <2>4, <1>0 DEF TreeTypes
  <2>6. TreeTypes'
    <3>1. treeReq' \in [TreeRequests -> TreeReqKinds]
      BY <2>1, <1>0 DEF TreeTypes
    <3>. QED
      BY <3>1, <2>2, <2>5, <1>0 DEF TreeTypes
  <2>7. RemovalHolds'
    <3>. SUFFICES ASSUME ~metTree PROVE RemovalHolds'
      BY <2>2 DEF RemovalHolds
    <3>1. \A a \in TreeRequests : treeReq'[a].op = treeReq[a].op /\ treeReq'[a].on = treeReq[a].on
      BY <2>1, <2>3
    <3>2. \A a \in TreeRequests : treeReq'[a].pc = "write" => a # r /\ treeReq[a].pc = "write"
      BY <2>1, <2>3
    <3>3. \A a \in TreeRequests, o \in {"remove", "create"} : WritesTree(a, o)' => a # r /\ WritesTree(a, o)
      BY <3>1, <3>2 DEF WritesTree
    <3>4. \A a, b \in TreeRequests : treeReq'[a].op = "remove" /\ treeReq'[b].op # "none" => a = b
      BY <3>1 DEF RemovalHolds
    <3>5. \A a \in TreeRequests : ~WritesTree(a, "remove")'
      BY <3>3, <2>1 DEF RemovalHolds, WritesTree
    <3>6. ASSUME NEW a \in TreeRequests, WritesTree(a, "create")'
          PROVE  node'[ParentOf[treeReq'[a].on]] = "live"
      <4>1. WritesTree(a, "create") /\ a # r /\ treeReq[a].op = "create"
        BY <3>3, <3>6 DEF WritesTree
      <4>2. node[ParentOf[treeReq[a].on]] = "live"
        BY <4>1 DEF RemovalHolds
      <4>3. op # "remove"
        BY <4>1, <2>1 DEF RemovalHolds
      <4>4. treeReq[a].on \in Nodes
        BY <4>1, <1>0 DEF TreeTypes, TreeReqKinds, NoTreeReq
      <4>. QED
        BY <4>2, <4>3, <4>4, <3>1, <2>5, TreeAssumption
    <3>. QED
      BY <3>4, <3>5, <3>6 DEF RemovalHolds
  <2>8. PlacesExist'
    <3>1. \A a \in TreeRequests : treeReq[a].op = "place" => treeReq[a].on \in Nodes \cup {Nowhere}
      BY <1>0, NodesAre DEF TreeTypes, TreeReqKinds, NoTreeReq
    <3>2. \A m \in Nodes : node[m] # "absent" => node'[m] # "absent"
      BY <2>5
    <3>. QED
      BY <3>1, <3>2, <2>1, <2>3 DEF PlacesExist
  <2>9. Rooted' /\ PlacedInLive'
    <3>. SUFFICES ASSUME ~metTree PROVE Rooted' /\ PlacedInLive'
      BY <2>2 DEF Rooted, PlacedInLive
    <3>1. op = "remove" => LiveChildren(n) = {} /\ ~Occupied(n)
      BY <2>1 DEF RemovalHolds, WritesTree
    <3>2. op = "create" => node[ParentOf[n]] = "live"
      BY <2>1 DEF RemovalHolds, WritesTree
    <3>3. ASSUME NEW m \in Nodes, node'[m] = "live" PROVE node'[ParentOf[m]] = "live"
      <4>1. ParentOf[m] \in Nodes
        BY TreeAssumption
      <4>2. CASE op = "create"
        <5>1. node[ParentOf[m]] = "live"
          BY <4>2, <3>2, <3>3, <2>5 DEF Rooted
        <5>. QED
          BY <5>1, <4>1, <4>2, <2>5
      <4>3. CASE op = "rename"
        BY <4>1, <4>3, <3>3, <2>5 DEF Rooted
      <4>4. CASE op = "remove"
        <5>1. m # n /\ node[m] = "live" /\ node[ParentOf[m]] = "live"
          BY <4>4, <3>3, <2>5 DEF Rooted
        <5>2. ParentOf[m] # n
          BY <5>1, <4>4, <3>1 DEF LiveChildren, Children
        <5>. QED
          BY <5>1, <5>2, <4>1, <2>5
      <4>. QED
        BY <4>2, <4>3, <4>4
    <3>4. ASSUME NEW u \in Assignees \ latecomers PROVE placed[u] = Nowhere \/ node'[placed[u]] = "live"
      <4>1. placed[u] = Nowhere \/ (node[placed[u]] = "live" /\ placed[u] \in Nodes)
        BY <1>0, NodesAre DEF PlacedInLive, TreeTypes
      <4>2. op = "remove" => placed[u] # n
        BY <3>1 DEF Occupied
      <4>. QED
        BY <4>1, <4>2, <2>5
    <3>. QED
      BY <3>3, <3>4, <2>2 DEF Rooted, PlacedInLive
  <2>10. ListsCome'
    <3>. SUFFICES ASSUME NEW m \in Inner, m \notin laggingLists
                  PROVE  lists[m] \in {Nowhere, LiveChildren(m)'} \/ \E z \in TreeRequests : WillDrop(z, m)'
      BY <2>2 DEF ListsCome
    <3>1. WillDrop(r, ParentOf[n])'
      BY <2>1, <2>3 DEF WillDrop, DroppedLists
    <3>2. CASE m = ParentOf[n]
      BY <3>1, <3>2
    <3>3. CASE m # ParentOf[n]
      <4>1. n \notin Children(m) /\ Children(m) \subseteq Nodes
        BY <3>3 DEF Children
      <4>2. LiveChildren(m)' = LiveChildren(m)
        BY <4>1, <2>5 DEF LiveChildren
      <4>3. \A z \in TreeRequests : WillDrop(z, m) => WillDrop(z, m)'
        BY <2>1, <2>3 DEF WillDrop, DroppedLists
      <4>. QED
        BY <4>2, <4>3 DEF ListsCome
    <3>. QED
      BY <3>2, <3>3
  <2>. QED
    BY <2>6, <2>7, <2>8, <2>9, <2>10
\* ...or a user placed.
<1>9. ASSUME NEW r \in TreeRequests, WriteTree(r), treeReq[r].op = "place" PROVE TreeInv'
  <2>1. PICK n \in Leaves \cup {Nowhere}, u \in Assignees :
          treeReq[r] = [op |-> "place", pc |-> "write", on |-> n, user |-> u]
    BY <1>9, <1>0 DEF TreeTypes, TreeReqKinds, NoTreeReq
  <2>2. /\ treeReq' = [treeReq EXCEPT ![r] = NoTreeReq] /\ placed' = [placed EXCEPT ![u] = n]
        /\ latecomers' = (IF n # Nowhere /\ node[n] = "gone" THEN latecomers \cup {u}
                           ELSE latecomers \ {u})
        /\ UNCHANGED <<node, lists, listLoads, begunTree, metTree, laggingLists>>
    BY <2>1, <1>9 DEF WriteTree
  <2>3. treeReq'[r] = NoTreeReq /\ NoTreeReq.op = "none" /\ NoTreeReq.pc = "idle"
        /\ \A z \in TreeRequests \ {r} : treeReq'[z] = treeReq[z]
    BY <2>2, <1>0 DEF TreeTypes, NoTreeReq
  <2>4. TreeTypes'
    BY <2>2, <1>0 DEF TreeTypes, TreeReqKinds
  <2>5. RemovalHolds'
    <3>. SUFFICES ASSUME ~metTree PROVE RemovalHolds'
      BY <2>2 DEF RemovalHolds
    <3>1. \A a \in TreeRequests : treeReq[a].op # "remove"
      BY <2>1 DEF RemovalHolds
    <3>2. \A a \in TreeRequests : treeReq'[a].op # "remove"
      BY <3>1, <2>3
    <3>3. \A a \in TreeRequests : WritesTree(a, "create")' => a # r /\ WritesTree(a, "create")
      BY <2>3 DEF WritesTree
    <3>. QED
      BY <3>2, <3>3, <2>2, <2>3 DEF RemovalHolds, WritesTree
  <2>6. PlacesExist' /\ Rooted'
    BY <2>2, <2>3 DEF PlacesExist, Rooted
  <2>7. PlacedInLive'
    <3>1. n # Nowhere => node[n] # "absent" /\ node[n] \in {"absent", "live", "gone"}
      BY <2>1, <1>0, NodesAre DEF PlacesExist, TreeTypes
    <3>2. placed'[u] = n /\ \A v \in Assignees \ {u} : placed'[v] = placed[v]
      BY <2>2, <1>0 DEF TreeTypes
    <3>. QED
      BY <3>1, <3>2, <2>2 DEF PlacedInLive
  <2>8. ListsCome'
    <3>1. \A m \in Inner, z \in TreeRequests : WillDrop(z, m) => WillDrop(z, m)'
      BY <2>1, <2>3 DEF WillDrop, DroppedLists
    <3>. QED
      BY <3>1, <2>2 DEF ListsCome, LiveChildren
  <2>. QED
    BY <2>4, <2>5, <2>6, <2>7, <2>8
<1>10. ASSUME NEW r \in TreeRequests, NEW fails \in BOOLEAN, DropLists(r, fails) PROVE TreeInv'
  <2>1. PICK op \in {"create", "rename", "remove"}, n \in Nodes :
          treeReq[r] = [op |-> op, pc |-> "drop", on |-> n, user |-> Nowhere]
    BY <1>10, <1>0 DEF DropLists, TreeTypes, TreeReqKinds, NoTreeReq
  <2>2. PICK dropped : dropped = DroppedLists(op, n)
    OBVIOUS
  <2>3. dropped \subseteq Inner
    BY <2>2, NodesAre DEF DroppedLists
  <2>4. /\ treeReq' = [treeReq EXCEPT ![r] = NoTreeReq]
        /\ UNCHANGED <<node, placed, listLoads, begunTree, metTree, latecomers>>
        /\ \/ laggingLists' = laggingLists \cup dropped /\ lists' = lists
           \/ laggingLists' = laggingLists \ dropped /\ lists' = Without(dropped)
    BY <1>10, <2>1, <2>2 DEF DropLists
  <2>5. treeReq'[r] = NoTreeReq /\ NoTreeReq.op = "none" /\ NoTreeReq.pc = "idle"
        /\ \A z \in TreeRequests \ {r} : treeReq'[z] = treeReq[z]
    BY <2>4, <1>0 DEF TreeTypes, NoTreeReq
  <2>6. TreeTypes'
    <3>1. treeReq' \in [TreeRequests -> TreeReqKinds]
      BY <2>4, <1>0 DEF TreeTypes, TreeReqKinds
    <3>2. /\ lists' \in [Inner -> (SUBSET Nodes) \cup {Nowhere}]
          /\ \A m \in Inner : lists'[m] \in (SUBSET Children(m)) \cup {Nowhere}
      BY <2>4, <1>0 DEF TreeTypes, Without
    <3>. QED
      BY <3>1, <3>2, <2>3, <2>4, <1>0 DEF TreeTypes
  <2>7. RemovalHolds'
    <3>1. \A a \in TreeRequests : WritesTree(a, "create")' => a # r /\ WritesTree(a, "create")
      BY <2>5 DEF WritesTree
    <3>2. \A a \in TreeRequests : WritesTree(a, "remove")' => a # r /\ WritesTree(a, "remove")
      BY <2>5 DEF WritesTree
    <3>3. \A a \in TreeRequests : treeReq'[a].op # "none" => a # r /\ treeReq[a] = treeReq'[a]
      BY <2>5
    <3>4. \A m : LiveChildren(m)' = LiveChildren(m) /\ Occupied(m)' = Occupied(m)
      BY <2>4 DEF LiveChildren, Occupied
    <3>. SUFFICES ASSUME ~metTree PROVE RemovalHolds'
      BY <2>4 DEF RemovalHolds
    <3>5. \A a, b \in TreeRequests : treeReq'[a].op = "remove" /\ treeReq'[b].op # "none" => a = b
      BY <3>3 DEF RemovalHolds
    <3>6. ASSUME NEW a \in TreeRequests, WritesTree(a, "remove")'
          PROVE  LiveChildren(treeReq[a].on) = {} /\ ~Occupied(treeReq[a].on) /\ treeReq'[a] = treeReq[a]
      BY <3>2, <3>6, <2>5 DEF RemovalHolds
    <3>7. ASSUME NEW a \in TreeRequests, WritesTree(a, "create")'
          PROVE  node'[ParentOf[treeReq'[a].on]] = "live"
      BY <3>1, <3>7, <2>4, <2>5 DEF RemovalHolds
    <3>. QED
      BY <3>4, <3>5, <3>6, <3>7, <2>4 DEF RemovalHolds, LiveChildren, Occupied
  <2>8. PlacesExist' /\ Rooted' /\ PlacedInLive'
    BY <2>4, <2>5 DEF PlacesExist, Rooted, PlacedInLive
  <2>9. ListsCome'
    <3>. SUFFICES ASSUME NEW m \in Inner, m \notin laggingLists'
                  PROVE  lists'[m] \in {Nowhere, LiveChildren(m)'} \/ \E z \in TreeRequests : WillDrop(z, m)'
      BY DEF ListsCome
    <3>0. LiveChildren(m)' = LiveChildren(m)
      BY <2>4 DEF LiveChildren
    <3>1. CASE m \in dropped
      BY <3>1, <2>4 DEF Without
    <3>2. CASE m \notin dropped
      <4>1. lists'[m] = lists[m] /\ m \notin laggingLists
        BY <3>2, <2>4 DEF Without
      <4>2. \A z \in TreeRequests : WillDrop(z, m) => WillDrop(z, m)'
        BY <3>2, <2>1, <2>2, <2>5 DEF WillDrop, DroppedLists
      <4>. QED
        BY <4>1, <4>2, <3>0 DEF ListsCome
    <3>. QED
      BY <3>1, <3>2
  <2>. QED
    BY <2>6, <2>7, <2>8, <2>9
<1>. QED
  BY <1>2, <1>3, <1>4, <1>5, <1>6, <1>7, <1>8, <1>9, <1>10, AnyOneIsFree DEF TreeNext

(* What hangs below a tenant is sound, for any tree and any number of      *)
(* requests: every variable keeps its type, nothing live hangs below a     *)
(* removed faculty or tenant nor a user in a removed department, and the   *)
(* cached lists follow, each but for the cases TreeSound names             *)
(* (university.service.ts, admin.service.ts:156).                          *)
THEOREM TreeIsSound == TreeSpec => []TreeSound
<1>1. TreeInv => TreeSound
  <2>. SUFFICES ASSUME TreeInv PROVE TreeSound
    OBVIOUS
  <2>1. \A r \in TreeRequests : treeReq[r].pc \in {"idle", "write", "drop"}
    BY DEF TreeInv, TreeTypes, TreeReqKinds, NoTreeReq
  <2>2. TreeTypeOK
    BY <2>1 DEF TreeInv, TreeTypes, TreeTypeOK
  <2>3. ListsFollow
    BY DEF TreeInv, ListsCome, WillDrop, ListsFollow, NoTreeReq
  <2>. QED
    BY <2>2, <2>3 DEF TreeInv, TreeSound
<1>. QED
  BY TreeInvInit, TreeInvStep, <1>1, PTL DEF TreeSpec

-----------------------------------------------------------------------------
(***************************************************************************)
(* Its settings.  Of two patches under way each knows that it met another; *)
(* what a patch that met none read is what the rows say; and a cached      *)
(* resolution that is old, and not known to be, is one that a patch still  *)
(* under way has written past.                                             *)
(***************************************************************************)
ResolvedSettings == [SettingKeys -> SettingValues]
PatchKinds ==
  {NoPatch}
    \cup [pc : {"write", "cache"}, todo : Seq(Entries), by : {"tenant", "platform"}, wrote : BOOLEAN,
          met : BOOLEAN, read : ResolvedSettings \cup {Unset}]
SettingsTypes ==
  /\ settingRow \in [SettingKeys -> SettingValues \cup {Unset}]
  /\ settingsCache \in ResolvedSettings \cup {Unset}
  /\ settingsLoad \in ResolvedSettings \cup {Unset}
  /\ patching \in [Patchers -> PatchKinds]
  /\ begunPatches \in 0..MaxPatches /\ meddled \subseteq SettingKeys
  /\ metPatch \in BOOLEAN /\ halfDone \in BOOLEAN /\ laggingSettings \in BOOLEAN
  /\ undulyOpen \in BOOLEAN

PatchesMeet ==
  \A p, q \in Patchers : p # q /\ patching[p] # NoPatch /\ patching[q] # NoPatch => patching[p].met
ReadsFollow ==
  \A p \in Patchers : patching[p].pc = "cache" =>
    /\ patching[p].read \in ResolvedSettings
    /\ ~patching[p].met => patching[p].read = Merged(settingRow)
ResolutionComes ==
  ~Accounted => settingsCache \in {Unset, Merged(settingRow)} \/ \E p \in Patchers : patching[p].wrote

SettingsInv ==
  /\ SettingsTypes /\ PatchesMeet /\ ReadsFollow /\ ResolutionComes /\ OnlyDeviations
  /\ meddled = {} /\ ~undulyOpen

LEMMA NoPatchIs ==
  NoPatch \in PatchKinds /\ NoPatch.pc = "idle" /\ NoPatch.wrote = FALSE /\ NoPatch.met = FALSE
BY DEF NoPatch, PatchKinds

\* NoPatch with some fields changed.
IdlePatches ==
  [pc : {"idle"}, todo : Seq(Entries), by : {Unset}, wrote : BOOLEAN, met : BOOLEAN, read : {Unset}]
LEMMA FromNoPatch ==
  /\ [NoPatch EXCEPT !.met = FALSE] = NoPatch
  /\ \A body \in Patches, by \in {"tenant", "platform"}, b \in BOOLEAN :
       LET new == [NoPatch EXCEPT !.pc = "write", !.todo = body, !.by = by, !.met = b] IN
       new \in PatchKinds /\ new.pc = "write" /\ new.met = b
<1>1. NoPatch \in IdlePatches
  BY DEF NoPatch, IdlePatches
<1>2. [NoPatch EXCEPT !.met = FALSE] \in IdlePatches
  BY <1>1 DEF IdlePatches
<1>3. \A k \in IdlePatches :
        k = [pc |-> k.pc, todo |-> k.todo, by |-> k.by, wrote |-> k.wrote, met |-> k.met,
             read |-> k.read]
  BY DEF IdlePatches
<1>4. /\ [NoPatch EXCEPT !.met = FALSE].pc = NoPatch.pc
      /\ [NoPatch EXCEPT !.met = FALSE].todo = NoPatch.todo
      /\ [NoPatch EXCEPT !.met = FALSE].by = NoPatch.by
      /\ [NoPatch EXCEPT !.met = FALSE].wrote = NoPatch.wrote
      /\ [NoPatch EXCEPT !.met = FALSE].met = NoPatch.met
      /\ [NoPatch EXCEPT !.met = FALSE].read = NoPatch.read
  BY <1>1, NoPatchIs DEF IdlePatches
<1>5. [NoPatch EXCEPT !.met = FALSE] = NoPatch
  BY <1>1, <1>2, <1>3, <1>4
<1>6. ASSUME NEW body \in Patches, NEW by \in {"tenant", "platform"}, NEW b \in BOOLEAN
      PROVE  /\ [NoPatch EXCEPT !.pc = "write", !.todo = body, !.by = by, !.met = b] \in PatchKinds
             /\ [NoPatch EXCEPT !.pc = "write", !.todo = body, !.by = by, !.met = b].pc = "write"
             /\ [NoPatch EXCEPT !.pc = "write", !.todo = body, !.by = by, !.met = b].met = b
  <2>1. [NoPatch EXCEPT !.pc = "write", !.todo = body, !.by = by, !.met = b] \in PatchKinds
    BY <1>1, SettingsAssumption DEF IdlePatches, PatchKinds
  <2>. QED
    BY <1>1, <2>1 DEF IdlePatches
<1>. QED
  BY <1>5, <1>6

LEMMA MergedIs ==
  ASSUME NEW rows \in [SettingKeys -> SettingValues \cup {Unset}]
  PROVE  /\ Merged(rows) \in ResolvedSettings
         /\ \A k \in SettingKeys : Merged(rows)[k] = IF rows[k] = Unset THEN DefaultOf[k] ELSE rows[k]
<1>1. \A k \in SettingKeys : Catalogue[k].defaultValue = DefaultOf[k]
  BY DEF Catalogue
<1>2. Merged(rows) = [k \in SettingKeys |-> IF rows[k] = Unset THEN DefaultOf[k] ELSE rows[k]]
  BY <1>1 DEF Merged
<1>. QED
  BY <1>2, SettingsAssumption DEF ResolvedSettings

LEMMA SettingsInvInit == SettingsInit => SettingsInv
<1>. SUFFICES ASSUME SettingsInit PROVE SettingsInv
  OBVIOUS
<1>1. SettingsTypes
  <2>1. patching \in [Patchers -> PatchKinds]
    BY NoPatchIs DEF SettingsInit
  <2>2. begunPatches \in 0..MaxPatches
    BY SettingsAssumption DEF SettingsInit
  <2>. QED
    BY <2>1, <2>2 DEF SettingsInit, SettingsTypes
<1>2. PatchesMeet /\ ReadsFollow
  BY NoPatchIs DEF SettingsInit, PatchesMeet, ReadsFollow
<1>3. ResolutionComes
  BY DEF SettingsInit, ResolutionComes
<1>4. OnlyDeviations
  BY SettingsAssumption DEF SettingsInit, OnlyDeviations
<1>. QED
  BY <1>1, <1>2, <1>3, <1>4 DEF SettingsInit, SettingsInv

\* A patch that ends leaves the others as they were.
LEMMA PatchEnds ==
  ASSUME SettingsInv, NEW p \in Patchers, patching' = [patching EXCEPT ![p] = NoPatch],
         settingRow' = settingRow
  PROVE  /\ patching' \in [Patchers -> PatchKinds] /\ PatchesMeet' /\ ReadsFollow'
         /\ Merged(settingRow)' = Merged(settingRow)
         /\ \A q \in Patchers : patching[q].wrote /\ q # p => patching'[q].wrote
<1>1. patching'[p] = NoPatch /\ \A q \in Patchers \ {p} : patching'[q] = patching[q]
  BY DEF SettingsInv, SettingsTypes
<1>2. patching' \in [Patchers -> PatchKinds]
  BY NoPatchIs DEF SettingsInv, SettingsTypes
<1>3. PatchesMeet'
  BY <1>1 DEF SettingsInv, PatchesMeet
<1>4. Merged(settingRow)' = Merged(settingRow)
  BY DEF Merged
<1>5. ReadsFollow'
  BY <1>1, <1>4, NoPatchIs DEF SettingsInv, ReadsFollow
<1>. QED
  BY <1>1, <1>2, <1>3, <1>4, <1>5

LEMMA SettingsInvStep == SettingsInv /\ [SettingsNext]_settingsVars => SettingsInv'
<1>. SUFFICES ASSUME SettingsInv, [SettingsNext]_settingsVars PROVE SettingsInv'
  OBVIOUS
<1>. USE DEF SettingsInv
<1>0. SettingsTypes /\ Merged(settingRow) \in ResolvedSettings
  BY MergedIs DEF SettingsTypes
<1>1. ASSUME UNCHANGED <<settingRow, patching>>
      PROVE  PatchesMeet' /\ ReadsFollow' /\ OnlyDeviations' /\ Merged(settingRow)' = Merged(settingRow)
  BY <1>1 DEF PatchesMeet, ReadsFollow, OnlyDeviations, Merged
<1>2. ASSUME UNCHANGED settingsVars PROVE SettingsInv'
  <2>1. SettingsTypes' /\ ResolutionComes'
    BY <1>2, <1>1 DEF settingsVars, SettingsTypes, ResolutionComes, Accounted
  <2>. QED
    BY <2>1, <1>2, <1>1 DEF settingsVars
<1>3. ASSUME LoadSettings PROVE SettingsInv'
  <2>1. SettingsTypes' /\ ResolutionComes'
    BY <1>3, <1>1, <1>0 DEF LoadSettings, SettingsTypes, ResolutionComes, Accounted
  <2>. QED
    BY <2>1, <1>3, <1>1 DEF LoadSettings
<1>4. ASSUME CacheSettings PROVE SettingsInv'
  <2>1. SettingsTypes'
    BY <1>4, <1>0 DEF CacheSettings, SettingsTypes, Fresh
  <2>2. ResolutionComes'
    BY <1>4, <1>1 DEF CacheSettings, ResolutionComes, Accounted, Fresh
  <2>. QED
    BY <2>1, <2>2, <1>4, <1>1 DEF CacheSettings
<1>5. ASSUME SettingsExpire PROVE SettingsInv'
  <2>1. SettingsTypes' /\ ResolutionComes'
    BY <1>5, <1>1, <1>0 DEF SettingsExpire, SettingsTypes, ResolutionComes, Accounted, Fresh
  <2>. QED
    BY <2>1, <1>5, <1>1 DEF SettingsExpire
\* A feature opens by its row, or by a cached value that is accounted for.
<1>6. ASSUME NEW k \in SettingKeys, NEW fails \in BOOLEAN, EnterFeature(k, fails) PROVE SettingsInv'
  <2>1. SeenSettings(fails)[k] = FeatureOn
    BY <1>6 DEF EnterFeature, FeatureEnabled
  <2>2. \A j \in SettingKeys : DefaultOf[j] # FeatureOn
    BY SettingsAssumption
  <2>3. Merged(settingRow)[k] = FeatureOn => settingRow[k] = FeatureOn
    BY <2>2, <1>0, MergedIs DEF SettingsTypes
  <2>4. ~fails
    <3>1. [j \in SettingKeys |-> Unset] \in [SettingKeys -> SettingValues \cup {Unset}]
      OBVIOUS
    <3>2. Merged([j \in SettingKeys |-> Unset])[k] = DefaultOf[k]
      BY <3>1, MergedIs
    <3>. QED
      BY <3>2, <2>1, <2>2 DEF SeenSettings
  <2>5. ASSUME AtRest, ~Accounted PROVE settingRow[k] = FeatureOn
    <3>1. \A p \in Patchers : ~patching[p].wrote
      BY <2>5, NoPatchIs DEF AtRest
    <3>2. settingsCache \in {Unset, Merged(settingRow)}
      BY <3>1, <2>5 DEF ResolutionComes
    <3>. QED
      BY <3>2, <2>1, <2>3, <2>4 DEF SeenSettings
  <2>6. undulyOpen' = FALSE
    BY <2>5, <1>6 DEF EnterFeature
  <2>7. SettingsTypes' /\ ResolutionComes'
    BY <2>6, <1>6, <1>1, <1>0 DEF EnterFeature, SettingsTypes, ResolutionComes, Accounted
  <2>. QED
    BY <2>6, <2>7, <1>6, <1>1 DEF EnterFeature
<1>7. ASSUME NEW p \in Patchers, NEW body \in Patches, NEW by \in {"tenant", "platform"},
             BeginPatch(p, body, by)
      PROVE  SettingsInv'
  <2>1. /\ patching[p] = NoPatch /\ begunPatches < MaxPatches /\ begunPatches' = begunPatches + 1
        /\ UNCHANGED <<settingRow, settingsCache, settingsLoad, metPatch, halfDone, laggingSettings,
                       meddled, undulyOpen>>
    BY <1>7 DEF BeginPatch
  <2>. DEFINE others == \E q \in Patchers : patching[q] # NoPatch
  <2>2. PICK new \in PatchKinds : patching'[p] = new /\ new.met = others /\ new.pc = "write"
    <3>. DEFINE k == [NoPatch EXCEPT !.pc = "write", !.todo = body, !.by = by, !.met = others]
    <3>1. others \in BOOLEAN
      OBVIOUS
    <3>2. patching'[p] = k
      BY <1>7 DEF BeginPatch
    <3>. HIDE DEF others
    <3>3. k \in PatchKinds /\ k.pc = "write" /\ k.met = others
      BY <3>1, FromNoPatch
    <3>. QED
      BY <3>2, <3>3
  <2>3. ASSUME NEW q \in Patchers \ {p}
        PROVE  /\ patching'[q] \in PatchKinds
               /\ patching[q] = NoPatch => patching'[q] = NoPatch
               /\ patching[q] # NoPatch => patching'[q].met
               /\ patching'[q].pc = patching[q].pc /\ patching'[q].wrote = patching[q].wrote
               /\ patching'[q].read = patching[q].read
               /\ patching'[q].met \/ ~patching[q].met
    <3>1. patching'[q] = [patching[q] EXCEPT !.met = patching[q] # NoPatch]
      BY <1>7 DEF BeginPatch
    <3>2. CASE patching[q] = NoPatch
      <4>1. [NoPatch EXCEPT !.met = FALSE] = NoPatch
        BY FromNoPatch
      <4>2. patching'[q] = NoPatch
        BY <3>1, <3>2, <4>1
      <4>. QED
        BY <4>2, <3>2, NoPatchIs
    <3>3. CASE patching[q] # NoPatch
      <4>1. patching[q] \in [pc : {"write", "cache"}, todo : Seq(Entries), by : {"tenant", "platform"},
                             wrote : BOOLEAN, met : BOOLEAN, read : ResolvedSettings \cup {Unset}]
        BY <3>3, <1>0 DEF SettingsTypes, PatchKinds
      <4>2. patching'[q] = [patching[q] EXCEPT !.met = TRUE]
        BY <3>1, <3>3
      <4>3. /\ [patching[q] EXCEPT !.met = TRUE] \in PatchKinds
            /\ [patching[q] EXCEPT !.met = TRUE].met = TRUE
            /\ [patching[q] EXCEPT !.met = TRUE].pc = patching[q].pc
            /\ [patching[q] EXCEPT !.met = TRUE].wrote = patching[q].wrote
            /\ [patching[q] EXCEPT !.met = TRUE].read = patching[q].read
        BY <4>1 DEF PatchKinds
      <4>. QED
        BY <4>2, <4>3, <3>3
    <3>. QED
      BY <3>2, <3>3
  <2>4. SettingsTypes'
    <3>1. \A q \in Patchers : patching'[q] \in PatchKinds
      BY <2>2, <2>3
    <3>2. patching' \in [Patchers -> PatchKinds]
      BY <3>1, <1>7 DEF BeginPatch
    <3>3. begunPatches' \in 0..MaxPatches
      BY <2>1, <1>0, SettingsAssumption DEF SettingsTypes
    <3>. QED
      BY <3>2, <3>3, <2>1, <1>0 DEF SettingsTypes
  <2>5. PatchesMeet'
    <3>. SUFFICES ASSUME NEW a \in Patchers, NEW b \in Patchers, a # b,
                         patching'[a] # NoPatch, patching'[b] # NoPatch
                  PROVE  patching'[a].met
      BY DEF PatchesMeet
    <3>1. CASE a = p
      <4>1. patching[b] # NoPatch
        BY <3>1, <2>3
      <4>2. others
        BY <4>1
      <4>. QED
        BY <4>2, <3>1, <2>2
    <3>2. CASE a # p
      BY <3>2, <2>3
    <3>. QED
      BY <3>1, <3>2
  <2>6. Merged(settingRow)' = Merged(settingRow) /\ OnlyDeviations'
    BY <2>1 DEF Merged, OnlyDeviations
  <2>7. ReadsFollow'
    BY <2>2, <2>3, <2>6 DEF ReadsFollow
  <2>8. ResolutionComes'
    BY <2>1, <2>3, <2>6, NoPatchIs DEF ResolutionComes, Accounted
  <2>. QED
    BY <2>1, <2>4, <2>5, <2>6, <2>7, <2>8
\* A key is written...
<1>8. ASSUME NEW p \in Patchers, PatchKey(p), Acceptable(Head(patching[p].todo), patching[p].by)
      PROVE  SettingsInv'
  <2>1. PICK e : e = Head(patching[p].todo)
    OBVIOUS
  <2>2. PICK old \in PatchKinds : old = patching[p]
    BY <1>0 DEF SettingsTypes
  <2>3. /\ old \in [pc : {"write", "cache"}, todo : Seq(Entries), by : {"tenant", "platform"},
                    wrote : BOOLEAN, met : BOOLEAN, read : ResolvedSettings \cup {Unset}]
        /\ old.todo # <<>> /\ old.pc = "write"
    BY <2>2, <1>8, NoPatchIs DEF PatchKey, PatchKinds
  <2>4. e \in Entries /\ Tail(old.todo) \in Seq(Entries)
    BY <2>1, <2>2, <2>3
  <2>5. e.key \in SettingKeys /\ CanEditSetting(e.key, old.by) /\ e.value # Refused
    BY <2>1, <2>2, <1>8 DEF Acceptable
  <2>6. PICK new \in PatchKinds :
          /\ patching' = [patching EXCEPT ![p] = new]
          /\ new.pc = "write" /\ new.wrote /\ new.met = old.met
    <3>. DEFINE k == [old EXCEPT !.todo = Tail(old.todo), !.wrote = TRUE]
    <3>1. k \in PatchKinds
      BY <2>3, <2>4 DEF PatchKinds
    <3>2. k.pc = "write" /\ k.wrote /\ k.met = old.met
      BY <2>3
    <3>3. patching' = [patching EXCEPT ![p] = k]
      BY <1>8, <2>1, <2>2 DEF PatchKey
    <3>. QED
      BY <3>1, <3>2, <3>3
  <2>7. /\ settingRow' = [settingRow EXCEPT ![e.key] = RowFor(e)]
        /\ UNCHANGED <<settingsCache, settingsLoad, begunPatches, metPatch, halfDone, laggingSettings,
                       undulyOpen>>
        /\ meddled' = IF old.by = "tenant" /\ settingRow'[e.key] # settingRow[e.key]
                      THEN meddled \cup ({e.key} \cap PlatformKeys) ELSE meddled
    BY <1>8, <2>1, <2>2 DEF PatchKey
  <2>8. patching'[p] = new /\ \A q \in Patchers \ {p} : patching'[q] = patching[q]
    BY <2>6, <1>0 DEF SettingsTypes
  <2>9. RowFor(e) \in SettingValues \cup {Unset} /\ RowFor(e) # DefaultOf[e.key]
    <3>1. Catalogue[e.key].defaultValue = DefaultOf[e.key] /\ DefaultOf[e.key] \in SettingValues
          /\ Unset \notin SettingValues
      BY <2>5, SettingsAssumption DEF Catalogue
    <3>2. e.value \in SettingValues \cup {Reset}
      BY <2>4, <2>5 DEF Entries
    <3>. QED
      BY <3>1, <3>2 DEF RowFor
  <2>10. meddled' = {}
    <3>1. Catalogue[e.key].editor = IF e.key \in PlatformKeys THEN "platform" ELSE "tenant"
      BY <2>5 DEF Catalogue
    <3>2. old.by = "tenant" => e.key \notin PlatformKeys
      BY <3>1, <2>5 DEF CanEditSetting
    <3>. QED
      BY <3>2, <2>7
  <2>11. SettingsTypes'
    <3>1. settingRow' \in [SettingKeys -> SettingValues \cup {Unset}]
      BY <2>5, <2>7, <2>9, <1>0 DEF SettingsTypes
    <3>2. patching' \in [Patchers -> PatchKinds]
      BY <2>6, <1>0 DEF SettingsTypes
    <3>. QED
      BY <3>1, <3>2, <2>7, <2>10, <1>0 DEF SettingsTypes
  <2>12. OnlyDeviations'
    BY <2>5, <2>7, <2>9, <1>0 DEF OnlyDeviations, SettingsTypes
  <2>13. old # NoPatch /\ new.met = old.met /\ new.pc = "write" /\ new.wrote
    BY <2>3, <2>6, NoPatchIs
  <2>14. PatchesMeet'
    BY <2>2, <2>8, <2>13 DEF PatchesMeet
  <2>15. ReadsFollow'
    <3>. SUFFICES ASSUME NEW q \in Patchers, patching'[q].pc = "cache"
                  PROVE  patching'[q].read \in ResolvedSettings /\ patching'[q].met
      BY DEF ReadsFollow
    <3>1. q # p /\ patching'[q] = patching[q] /\ patching[q] # NoPatch
      BY <2>8, <2>13, NoPatchIs
    <3>. QED
      BY <3>1, <2>2, <2>13 DEF PatchesMeet, ReadsFollow
  <2>16. ResolutionComes'
    BY <2>8, <2>13 DEF ResolutionComes
  <2>17. ~undulyOpen'
    BY <2>7
  <2>. QED
    BY <2>10, <2>11, <2>12, <2>14, <2>15, <2>16, <2>17
\* ...or refused, with what was written before it left.
<1>9. ASSUME NEW p \in Patchers, PatchKey(p), ~Acceptable(Head(patching[p].todo), patching[p].by)
      PROVE  SettingsInv'
  <2>1. /\ patching' = [patching EXCEPT ![p] = NoPatch] /\ halfDone' = (halfDone \/ patching[p].wrote)
        /\ UNCHANGED <<settingRow, meddled, settingsCache, settingsLoad, begunPatches, metPatch,
                       laggingSettings, undulyOpen>>
    BY <1>9 DEF PatchKey
  <2>2. /\ patching' \in [Patchers -> PatchKinds] /\ PatchesMeet' /\ ReadsFollow'
        /\ Merged(settingRow)' = Merged(settingRow)
        /\ \A q \in Patchers : patching[q].wrote /\ q # p => patching'[q].wrote
    BY <2>1, PatchEnds
  <2>3. halfDone' \in BOOLEAN
    BY <2>1
  <2>4. SettingsTypes' /\ OnlyDeviations'
    BY <2>1, <2>2, <2>3, <1>0 DEF SettingsTypes, OnlyDeviations
  <2>5. ResolutionComes'
    BY <2>1, <2>2 DEF ResolutionComes, Accounted
  <2>. QED
    BY <2>1, <2>2, <2>4, <2>5
<1>10. ASSUME NEW p \in Patchers, ReadRows(p) PROVE SettingsInv'
  <2>1. PICK old \in PatchKinds : old = patching[p]
    BY <1>0 DEF SettingsTypes
  <2>2. /\ old \in [pc : {"write", "cache"}, todo : Seq(Entries), by : {"tenant", "platform"},
                    wrote : BOOLEAN, met : BOOLEAN, read : ResolvedSettings \cup {Unset}]
        /\ old.pc = "write"
    BY <2>1, <1>10, NoPatchIs DEF ReadRows, PatchKinds
  <2>3. PICK new \in PatchKinds :
          /\ patching' = [patching EXCEPT ![p] = new]
          /\ new.wrote = old.wrote /\ new.met = old.met /\ new.read = Merged(settingRow)
    <3>. DEFINE k == [old EXCEPT !.pc = "cache", !.read = Merged(settingRow)]
    <3>1. k \in PatchKinds
      BY <2>2, <1>0 DEF PatchKinds
    <3>2. k.wrote = old.wrote /\ k.met = old.met /\ k.read = Merged(settingRow)
      BY <2>2
    <3>3. patching' = [patching EXCEPT ![p] = k]
      BY <1>10, <2>1 DEF ReadRows
    <3>. QED
      BY <3>1, <3>2, <3>3
  <2>4. patching'[p] = new /\ \A q \in Patchers \ {p} : patching'[q] = patching[q]
    BY <2>3, <1>0 DEF SettingsTypes
  <2>5. UNCHANGED <<settingRow, settingsCache, settingsLoad, begunPatches, metPatch, halfDone,
                    laggingSettings, meddled, undulyOpen>>
        /\ Merged(settingRow)' = Merged(settingRow)
    BY <1>10 DEF ReadRows, Merged
  <2>6. patching' \in [Patchers -> PatchKinds]
    BY <2>3, <1>0 DEF SettingsTypes
  <2>7. SettingsTypes' /\ OnlyDeviations'
    BY <2>5, <2>6, <1>0 DEF SettingsTypes, OnlyDeviations
  <2>8. old # NoPatch /\ new.met = old.met /\ new.wrote = old.wrote /\ new.read = Merged(settingRow)
    BY <2>2, <2>3, NoPatchIs
  <2>9. PatchesMeet'
    BY <2>1, <2>4, <2>8 DEF PatchesMeet
  <2>10. ReadsFollow'
    BY <2>4, <2>5, <2>8, <1>0 DEF ReadsFollow
  <2>11. ResolutionComes'
    <3>1. \A q \in Patchers : patching[q].wrote => patching'[q].wrote
      BY <2>1, <2>4, <2>8
    <3>. QED
      BY <3>1, <2>5 DEF ResolutionComes, Accounted
  <2>. QED
    BY <2>5, <2>7, <2>9, <2>10, <2>11
<1>11. ASSUME NEW p \in Patchers, NEW fails \in BOOLEAN, RefreshCache(p, fails) PROVE SettingsInv'
  <2>1. /\ patching' = [patching EXCEPT ![p] = NoPatch] /\ patching[p].pc = "cache"
        /\ UNCHANGED <<settingRow, settingsLoad, begunPatches, meddled, undulyOpen>>
    BY <1>11 DEF RefreshCache
  <2>2. /\ patching' \in [Patchers -> PatchKinds] /\ PatchesMeet' /\ ReadsFollow'
        /\ Merged(settingRow)' = Merged(settingRow)
        /\ \A q \in Patchers : patching[q].wrote /\ q # p => patching'[q].wrote
    BY <2>1, PatchEnds
  <2>3. OnlyDeviations'
    BY <2>1 DEF OnlyDeviations
  <2>4. CASE fails
    <3>1. laggingSettings' = (laggingSettings \/ settingsCache # Unset)
          /\ UNCHANGED <<settingsCache, metPatch, halfDone>>
      BY <2>4, <1>11 DEF RefreshCache
    <3>2. laggingSettings' \in BOOLEAN
      BY <3>1
    <3>3. SettingsTypes'
      BY <3>1, <3>2, <2>1, <2>2, <1>0 DEF SettingsTypes
    <3>4. ResolutionComes'
      BY <3>1 DEF ResolutionComes, Accounted
    <3>. QED
      BY <3>3, <3>4, <2>1, <2>2, <2>3
  <2>5. CASE ~fails
    <3>1. /\ settingsCache' = patching[p].read /\ metPatch' = patching[p].met
          /\ halfDone' = FALSE /\ laggingSettings' = FALSE
      BY <2>5, <1>11 DEF RefreshCache, Refreshed
    <3>2. patching[p].met \in BOOLEAN /\ patching[p].read \in ResolvedSettings
      BY <2>1, <1>0, NoPatchIs DEF ReadsFollow, SettingsTypes, PatchKinds
    <3>3. SettingsTypes'
      BY <3>1, <3>2, <2>1, <2>2, <1>0 DEF SettingsTypes
    <3>4. ResolutionComes'
      BY <3>1, <2>1, <2>2 DEF ReadsFollow, ResolutionComes, Accounted
    <3>. QED
      BY <3>3, <3>4, <2>1, <2>2, <2>3
  <2>. QED
    BY <2>4, <2>5
<1>. QED
  BY <1>2, <1>3, <1>4, <1>5, <1>6, <1>7, <1>8, <1>9, <1>10, <1>11, AnyOneIsFree DEF SettingsNext

(* The settings of a tenant are sound, for any catalogue and any number of *)
(* patches: every variable keeps its type, a row exists for a deviation    *)
(* only, a tenant's patch never changes a platform key, a feature opens    *)
(* only when its row says so, and the cached settings follow the rows but  *)
(* in the cases SettingsSound names (tenant-settings.service.ts,           *)
(* tenant-settings.cache.ts).                                              *)
THEOREM SettingsAreSound == SettingsSpec => []SettingsSound
<1>1. SettingsInv => SettingsSound
  <2>. SUFFICES ASSUME SettingsInv PROVE SettingsSound
    OBVIOUS
  <2>1. \A p \in Patchers : patching[p].pc \in {"idle", "write", "cache"}
    BY NoPatchIs DEF SettingsInv, SettingsTypes, PatchKinds
  <2>2. SettingsTypeOK
    BY <2>1 DEF SettingsInv, SettingsTypes, SettingsTypeOK, ResolvedSettings
  <2>3. SettingsFollow
    BY NoPatchIs DEF SettingsInv, ResolutionComes, SettingsFollow, AtRest
  <2>. QED
    BY <2>2, <2>3 DEF SettingsInv, SettingsSound
<1>. QED
  BY SettingsInvInit, SettingsInvStep, <1>1, PTL DEF SettingsSpec

-----------------------------------------------------------------------------
(***************************************************************************)
(* Its accounts.  An invitation about to be written is nobody else's and   *)
(* unmailed; unless two requests to invite met, one under way is alone and *)
(* about to write the only pending one; and unless two requests to make an *)
(* account met, one that found the address free still does.                *)
(***************************************************************************)
AccReqKinds ==
  {NoAccReq}
    \cup [op : {"register", "provision"}, pc : {"write"}, inv : {NoInvitation}]
    \cup [op : {"invite"}, pc : {"write", "mail"}, inv : Invitations]
    \cup [op : {"cancel"}, pc : {"write"}, inv : Invitations]
    \cup [op : {"accept"}, pc : {"write", "mark"}, inv : Invitations]
AccountsTypes ==
  /\ account \in {"none", "registered", "invited"} /\ platform \in BOOLEAN
  /\ invitation \in [Invitations -> {"none", "pending", "accepted", "cancelled"}]
  /\ mail \in [Invitations -> {"unsent", "queued", "sent", "dead"}]
  /\ tries \in [Invitations -> 0..MailAttempts]
  /\ accReq \in [AccountRequests -> AccReqKinds]
  /\ begunAccounts \in 0..MaxAccountReqs /\ metInvite \in BOOLEAN /\ metAccount \in BOOLEAN
  /\ expired \subseteq Invitations /\ unmailed \subseteq Invitations /\ withdrawn \subseteq Invitations

\* Of the mail of each invitation.
Untried == \A i \in Invitations :
  /\ mail[i] = "unsent" => tries[i] = 0
  /\ mail[i] = "queued" => tries[i] < MailAttempts
InvitesApart ==
  /\ \A r \in AccountRequests : accReq[r].op = "invite" =>
       /\ mail[accReq[r].inv] = "unsent"
       /\ (accReq[r].pc = "write") = (invitation[accReq[r].inv] = "none")
  /\ \A r, q \in AccountRequests :
       accReq[r].op = "invite" /\ accReq[q].op = "invite" /\ accReq[r].inv = accReq[q].inv => r = q

Inviting(r) == accReq[r].op = "invite"
InviteAlone ==
  ~metInvite =>
    /\ \A r, q \in AccountRequests : Inviting(r) /\ Inviting(q) => r = q
    /\ (\E r \in AccountRequests : Inviting(r) /\ accReq[r].pc = "write") =>
         \A i \in Invitations : ~Pending(i)
    /\ \A i, j \in Invitations : Pending(i) /\ Pending(j) => i = j

Making(r) == accReq[r].op \in Makers
MakerAlone ==
  ~metAccount =>
    /\ \A r, q \in AccountRequests : Making(r) /\ Making(q) => r = q
    /\ \A r \in AccountRequests : accReq[r].op = "provision" \/ accReq[r].pc = "mark" => ~Taken

AcceptedIs ==
  /\ account # "invited" => \A i \in Invitations : invitation[i] # "accepted"
  /\ account = "invited" =>
       \E i \in Invitations : \A j \in Invitations : (invitation[j] = "accepted") = (j = i)
WithdrawnStay == \A i \in withdrawn : invitation[i] = "cancelled"

AccountsInv ==
  /\ AccountsTypes /\ Untried /\ InvitesApart /\ InviteAlone /\ MakerAlone /\ AcceptedIs
  /\ WithdrawnStay /\ OnlyAccount /\ MailFollowsCommit

LEMMA NoAccReqIs ==
  NoAccReq \in AccReqKinds /\ NoAccReq.op = "none" /\ NoAccReq.pc = "idle"
BY DEF NoAccReq, AccReqKinds

LEMMA AccReqIs ==
  \A k \in AccReqKinds :
    /\ k.pc \in {"idle", "write", "mark", "mail"}
    /\ k.op \in {"none", "register", "provision", "invite", "cancel", "accept"}
    /\ k.op \in {"invite", "cancel", "accept"} => k.inv \in Invitations
    /\ k.pc = "mark" => k.op = "accept" /\ k = [op |-> "accept", pc |-> "mark", inv |-> k.inv]
    /\ k.pc = "mail" => k.op = "invite" /\ k = [op |-> "invite", pc |-> "mail", inv |-> k.inv]
    /\ k.op # "none" /\ k.pc = "write" => k = [op |-> k.op, pc |-> "write", inv |-> k.inv]
    /\ k.op = "invite" => k.pc \in {"write", "mail"}
    /\ k.op = "accept" => k.pc \in {"write", "mark"}
    /\ k.op \in {"register", "provision", "cancel"} => k.pc = "write"
BY DEF NoAccReq, AccReqKinds

LEMMA AccountsInvInit == AccountsInit => AccountsInv
<1>. SUFFICES ASSUME AccountsInit PROVE AccountsInv
  OBVIOUS
<1>1. AccountsTypes
  <2>1. tries \in [Invitations -> 0..MailAttempts] /\ begunAccounts \in 0..MaxAccountReqs
    BY AccountsAssumption DEF AccountsInit
  <2>2. accReq \in [AccountRequests -> AccReqKinds]
    BY NoAccReqIs DEF AccountsInit
  <2>. QED
    BY <2>1, <2>2 DEF AccountsInit, AccountsTypes
<1>2. Untried /\ InvitesApart /\ InviteAlone /\ MakerAlone
  BY NoAccReqIs
     DEF AccountsInit, Untried, InvitesApart, InviteAlone, Inviting, MakerAlone, Making, Makers, Pending
<1>3. AcceptedIs /\ WithdrawnStay /\ OnlyAccount /\ MailFollowsCommit
  BY DEF AccountsInit, AcceptedIs, WithdrawnStay, OnlyAccount, MailFollowsCommit
<1>. QED
  BY <1>1, <1>2, <1>3 DEF AccountsInv

\* A request begins: what it meets is recorded.
LEMMA AccReqBegins ==
  ASSUME AccountsInv, NEW r \in AccountRequests, NEW op, NEW i, NEW ok \in BOOLEAN,
         BeginAccReq(r, op, i, ok),
         [op |-> op, pc |-> "write", inv |-> i] \in AccReqKinds,
         op = "invite" => /\ i \in Invitations /\ invitation[i] = "none" /\ mail[i] = "unsent"
                          /\ MayInvite /\ \A q \in AccountRequests : accReq[q].inv # i,
         op = "provision" => ~Taken
  PROVE  AccountsInv'
<1>. DEFINE others == {accReq[q].op : q \in AccountRequests \ {r}}
<1>0. AccountsTypes
  BY DEF AccountsInv
<1>1. /\ accReq[r] = NoAccReq /\ begunAccounts < MaxAccountReqs /\ begunAccounts' = begunAccounts + 1
      /\ UNCHANGED <<tries, account, platform, invitation, expired, mail, unmailed, withdrawn>>
      /\ metInvite' = (metInvite \/ (op = "invite" /\ "invite" \in others))
      /\ metAccount' = (metAccount \/ (op \in Makers /\ others \cap Makers # {}))
  BY DEF BeginAccReq
<1>2. PICK new : new = [op |-> op, pc |-> "write", inv |-> i]
  OBVIOUS
<1>3. accReq' = [accReq EXCEPT ![r] = new] /\ new \in AccReqKinds /\ new.op = op /\ new.pc = "write"
      /\ new.inv = i
  BY <1>2 DEF BeginAccReq
<1>4. accReq'[r] = new /\ \A z \in AccountRequests \ {r} : accReq'[z] = accReq[z]
  BY <1>3, <1>0 DEF AccountsTypes
<1>5. AccountsTypes'
  <2>1. begunAccounts' \in 0..MaxAccountReqs
    BY <1>1, <1>0, AccountsAssumption DEF AccountsTypes
  <2>2. accReq' \in [AccountRequests -> AccReqKinds]
    BY <1>3, <1>0 DEF AccountsTypes
  <2>3. metInvite' \in BOOLEAN /\ metAccount' \in BOOLEAN
    BY <1>1
  <2>. QED
    BY <2>1, <2>2, <2>3, <1>1, <1>0 DEF AccountsTypes
<1>6. Untried' /\ AcceptedIs' /\ WithdrawnStay' /\ \A j : Pending(j)' = Pending(j)
  BY <1>1 DEF AccountsInv, Untried, AcceptedIs, WithdrawnStay, Pending
<1>7. InvitesApart'
  <2>1. ASSUME NEW z \in AccountRequests, accReq'[z].op = "invite"
        PROVE  /\ mail'[accReq'[z].inv] = "unsent"
               /\ (accReq'[z].pc = "write") = (invitation'[accReq'[z].inv] = "none")
    <3>1. CASE z = r
      BY <3>1, <2>1, <1>1, <1>3, <1>4
    <3>2. CASE z # r
      BY <3>2, <2>1, <1>1, <1>4 DEF AccountsInv, InvitesApart
    <3>. QED
      BY <3>1, <3>2
  <2>2. ASSUME NEW y \in AccountRequests, NEW z \in AccountRequests,
               accReq'[y].op = "invite", accReq'[z].op = "invite", accReq'[y].inv = accReq'[z].inv
        PROVE  y = z
    BY <2>2, <1>3, <1>4 DEF AccountsInv, InvitesApart
  <2>. QED
    BY <2>1, <2>2 DEF InvitesApart
<1>8. InviteAlone'
  <2>. SUFFICES ASSUME ~metInvite' PROVE InviteAlone'
    BY DEF InviteAlone
  <2>1. ~metInvite /\ (op = "invite" => "invite" \notin others)
    BY <1>1
  <2>2. \A z \in AccountRequests \ {r} : Inviting(z) => "invite" \in others
    BY DEF Inviting
  <2>3. ASSUME NEW y \in AccountRequests, NEW z \in AccountRequests, Inviting(y)', Inviting(z)'
        PROVE  y = z
    BY <2>1, <2>2, <2>3, <1>3, <1>4 DEF AccountsInv, InviteAlone, Inviting
  <2>4. ASSUME NEW z \in AccountRequests, Inviting(z)', accReq'[z].pc = "write", NEW j \in Invitations
        PROVE  ~Pending(j)
    <3>1. CASE z = r
      BY <3>1, <2>4, <1>3, <1>4 DEF Inviting, MayInvite
    <3>2. CASE z # r
      BY <3>2, <2>1, <2>4, <1>4 DEF AccountsInv, InviteAlone, Inviting
    <3>. QED
      BY <3>1, <3>2
  <2>5. \A j, k \in Invitations : Pending(j) /\ Pending(k) => j = k
    BY <2>1 DEF AccountsInv, InviteAlone
  <2>. QED
    BY <2>3, <2>4, <2>5, <1>6 DEF InviteAlone
<1>9. MakerAlone'
  <2>. SUFFICES ASSUME ~metAccount' PROVE MakerAlone'
    BY DEF MakerAlone
  <2>1. ~metAccount /\ (op \in Makers => others \cap Makers = {})
    BY <1>1
  <2>2. \A z \in AccountRequests \ {r} : Making(z) => accReq[z].op \in others \cap Makers
    BY DEF Making
  <2>3. ASSUME NEW y \in AccountRequests, NEW z \in AccountRequests, Making(y)', Making(z)'
        PROVE  y = z
    BY <2>1, <2>2, <2>3, <1>3, <1>4 DEF AccountsInv, MakerAlone, Making
  <2>4. ASSUME NEW z \in AccountRequests, accReq'[z].op = "provision" \/ accReq'[z].pc = "mark"
        PROVE  ~Taken
    <3>1. CASE z = r
      BY <3>1, <2>4, <1>3, <1>4
    <3>2. CASE z # r
      BY <3>2, <2>1, <2>4, <1>4 DEF AccountsInv, MakerAlone
    <3>. QED
      BY <3>1, <3>2
  <2>5. Taken' = Taken
    BY <1>1 DEF Taken
  <2>. QED
    BY <2>3, <2>4, <2>5 DEF MakerAlone
<1>10. OnlyAccount'
  BY <1>1 DEF AccountsInv, OnlyAccount
<1>11. MailFollowsCommit'
  <2>1. \A z \in AccountRequests : accReq[z].pc = "mail" => z # r
    BY <1>1, NoAccReqIs
  <2>. QED
    BY <2>1, <1>1, <1>4 DEF AccountsInv, MailFollowsCommit
<1>. QED
  BY <1>5, <1>6, <1>7, <1>8, <1>9, <1>10, <1>11 DEF AccountsInv

\* What a request that ends changes of the requests.
LEMMA AccReqEnds ==
  ASSUME AccountsInv, NEW r \in AccountRequests, Finish(r), UNCHANGED <<metInvite, metAccount>>
  PROVE  /\ accReq' \in [AccountRequests -> AccReqKinds]
         /\ accReq'[r] = NoAccReq /\ \A z \in AccountRequests \ {r} : accReq'[z] = accReq[z]
         /\ UNCHANGED <<invitation, mail>> => InvitesApart'
         /\ UNCHANGED <<invitation, expired>> => InviteAlone'
         /\ UNCHANGED <<account, platform>> => MakerAlone' /\ OnlyAccount'
         /\ accReq[r].pc # "mail" /\ UNCHANGED <<mail, invitation, unmailed>> => MailFollowsCommit'
<1>. USE DEF AccountsInv
<1>1. accReq' \in [AccountRequests -> AccReqKinds]
      /\ accReq'[r] = NoAccReq /\ \A z \in AccountRequests \ {r} : accReq'[z] = accReq[z]
  BY NoAccReqIs DEF Finish, AccountsTypes
<1>2. ASSUME UNCHANGED <<invitation, mail>> PROVE InvitesApart'
  BY <1>1, <1>2, NoAccReqIs DEF InvitesApart
<1>3. ASSUME UNCHANGED <<invitation, expired>> PROVE InviteAlone'
  BY <1>1, <1>3, NoAccReqIs DEF InviteAlone, Inviting, Pending
<1>4. ASSUME UNCHANGED <<account, platform>> PROVE MakerAlone' /\ OnlyAccount'
  BY <1>1, <1>4, NoAccReqIs DEF MakerAlone, Making, Makers, Taken, OnlyAccount
<1>5. ASSUME accReq[r].pc # "mail", UNCHANGED <<mail, invitation, unmailed>> PROVE MailFollowsCommit'
  BY <1>1, <1>5 DEF MailFollowsCommit
<1>. QED
  BY <1>1, <1>2, <1>3, <1>4, <1>5

LEMMA AccountsInvStep == AccountsInv /\ [AccountsNext]_accountsVars => AccountsInv'
<1>. SUFFICES ASSUME AccountsInv, [AccountsNext]_accountsVars PROVE AccountsInv'
  OBVIOUS
<1>. USE DEF AccountsInv
<1>0. AccountsTypes
  OBVIOUS
<1>1. ASSUME UNCHANGED accountsVars PROVE AccountsInv'
  BY <1>1 DEF accountsVars, AccountsTypes, Untried, InvitesApart, InviteAlone, Inviting, MakerAlone,
              Making, Taken, Pending, AcceptedIs, WithdrawnStay, OnlyAccount, MailFollowsCommit
<1>2. ASSUME NEW i \in Invitations, Expire(i) PROVE AccountsInv'
  <2>1. expired' = expired \cup {i}
        /\ UNCHANGED <<tries, account, platform, invitation, mail, accReq, begunAccounts, metInvite,
                       metAccount, unmailed, withdrawn>>
    BY <1>2 DEF Expire
  <2>2. \A j : Pending(j)' => Pending(j)
    BY <2>1 DEF Pending
  <2>3. AccountsTypes' /\ Untried' /\ InvitesApart' /\ MakerAlone' /\ AcceptedIs' /\ WithdrawnStay'
        /\ OnlyAccount' /\ MailFollowsCommit'
    BY <2>1 DEF AccountsTypes, Untried, InvitesApart, MakerAlone, Making, Taken, AcceptedIs,
                WithdrawnStay, OnlyAccount, MailFollowsCommit
  <2>4. InviteAlone'
    BY <2>1, <2>2 DEF InviteAlone, Inviting
  <2>. QED
    BY <2>3, <2>4
<1>3. ASSUME NEW i \in Invitations, NEW fails \in BOOLEAN, SendMail(i, fails) PROVE AccountsInv'
  <2>1. /\ mail[i] = "queued" /\ tries' = [tries EXCEPT ![i] = tries[i] + 1]
        /\ UNCHANGED <<account, platform, invitation, expired, accReq, begunAccounts, metInvite,
                       metAccount, unmailed, withdrawn>>
    BY <1>3 DEF SendMail
  <2>2. tries[i] \in 0..MailAttempts /\ tries[i] < MailAttempts
    BY <2>1, <1>0 DEF AccountsTypes, Untried
  <2>3. tries[i] + 1 \in 0..MailAttempts
    BY <2>2, AccountsAssumption
  <2>4. tries' \in [Invitations -> 0..MailAttempts] /\ tries'[i] = tries[i] + 1
    BY <2>1, <2>3, <1>0 DEF AccountsTypes
  <2>5. PICK to \in {"queued", "sent", "dead"} :
          mail' = [mail EXCEPT ![i] = to] /\ (to = "queued" => tries'[i] # MailAttempts)
    BY <2>1, <1>3 DEF SendMail
  <2>6. AccountsTypes'
    BY <2>1, <2>4, <2>5, <1>0 DEF AccountsTypes
  <2>7. Untried'
    <3>1. \A j \in Invitations \ {i} : mail'[j] = mail[j] /\ tries'[j] = tries[j]
      BY <2>1, <2>5, <1>0 DEF AccountsTypes
    <3>2. mail'[i] = to
      BY <2>5, <1>0 DEF AccountsTypes
    <3>3. to = "queued" => tries'[i] < MailAttempts
      BY <2>2, <2>4, <2>5, AccountsAssumption
    <3>. QED
      BY <3>1, <3>2, <3>3 DEF Untried
  <2>8. InvitesApart'
    <3>1. \A r \in AccountRequests : accReq[r].op = "invite" => accReq[r].inv # i
      BY <2>1 DEF InvitesApart
    <3>. QED
      BY <3>1, <2>1, <2>5, <1>0, AccReqIs DEF InvitesApart, AccountsTypes
  <2>9. InviteAlone' /\ MakerAlone' /\ AcceptedIs' /\ WithdrawnStay' /\ OnlyAccount'
    BY <2>1 DEF InviteAlone, Inviting, Pending, MakerAlone, Making, Taken, AcceptedIs, WithdrawnStay,
                OnlyAccount
  <2>10. MailFollowsCommit'
    BY <2>1, <2>5, <1>0 DEF MailFollowsCommit, AccountsTypes
  <2>. QED
    BY <2>6, <2>7, <2>8, <2>9, <2>10
\* The requests that begin.
<1>4. ASSUME NEW r \in AccountRequests, RegisterAccount(r) \/ ProvisionPlatform(r) PROVE AccountsInv'
  <2>1. /\ [op |-> "register", pc |-> "write", inv |-> NoInvitation] \in AccReqKinds
        /\ [op |-> "provision", pc |-> "write", inv |-> NoInvitation] \in AccReqKinds
    BY DEF AccReqKinds
  <2>2. CASE RegisterAccount(r)
    <3>1. BeginAccReq(r, "register", NoInvitation, account = "none") /\ (account = "none") \in BOOLEAN
      BY <2>2 DEF RegisterAccount
    <3>. QED
      BY <3>1, <2>1, AccReqBegins
  <2>3. CASE ProvisionPlatform(r)
    <3>1. BeginAccReq(r, "provision", NoInvitation, ~Taken) /\ (~Taken) \in BOOLEAN /\ ~Taken
      BY <2>3 DEF ProvisionPlatform, BeginAccReq
    <3>. QED
      BY <3>1, <2>1, AccReqBegins
  <2>. QED
    BY <1>4, <2>2, <2>3
<1>5. ASSUME NEW r \in AccountRequests, NEW i \in Invitations, Invite(r, i) PROVE AccountsInv'
  <2>. DEFINE ok == /\ MayInvite /\ invitation[i] = "none"
                    /\ \A q \in AccountRequests : accReq[q].inv # i
  <2>1. [op |-> "invite", pc |-> "write", inv |-> i] \in AccReqKinds
    BY DEF AccReqKinds
  <2>2. BeginAccReq(r, "invite", i, ok)
    BY <1>5 DEF Invite
  <2>3. ok /\ ok \in BOOLEAN
    BY <2>2 DEF BeginAccReq
  <2>4. mail[i] = "unsent"
    BY <2>3 DEF MailFollowsCommit
  <2>5. /\ i \in Invitations /\ invitation[i] = "none" /\ mail[i] = "unsent"
        /\ MayInvite /\ \A q \in AccountRequests : accReq[q].inv # i
    BY <2>3, <2>4
  <2>. HIDE DEF ok
  <2>. QED
    BY <2>1, <2>2, <2>3, <2>5, AccReqBegins
<1>6. ASSUME NEW r \in AccountRequests, NEW i \in Invitations,
             CancelInvitation(r, i) \/ AcceptInvitation(r, i)
      PROVE  AccountsInv'
  <2>1. /\ [op |-> "cancel", pc |-> "write", inv |-> i] \in AccReqKinds
        /\ [op |-> "accept", pc |-> "write", inv |-> i] \in AccReqKinds
    BY DEF AccReqKinds
  <2>2. CASE CancelInvitation(r, i)
    <3>1. BeginAccReq(r, "cancel", i, Pending(i)) /\ Pending(i) \in BOOLEAN
      BY <2>2 DEF CancelInvitation, Pending
    <3>. QED
      BY <3>1, <2>1, AccReqBegins
  <2>3. CASE AcceptInvitation(r, i)
    <3>. DEFINE ok == mail[i] = "sent" /\ Pending(i)
    <3>1. BeginAccReq(r, "accept", i, ok) /\ ok \in BOOLEAN
      BY <2>3 DEF AcceptInvitation, Pending
    <3>. HIDE DEF ok
    <3>. QED
      BY <3>1, <2>1, AccReqBegins
  <2>. QED
    BY <1>6, <2>2, <2>3
\* What they write.
<1>7. ASSUME NEW r \in AccountRequests, InsertAccount(r) PROVE AccountsInv'
  <2>1. /\ accReq[r].op \in {"register", "provision"} /\ accReq[r].pc = "write" /\ Finish(r)
        /\ account' = IF accReq[r].op = "register" /\ account = "none" THEN "registered" ELSE account
        /\ platform' = (platform \/ accReq[r].op = "provision")
        /\ UNCHANGED <<tries, invitation, expired, mail, begunAccounts, metInvite, metAccount, unmailed,
                       withdrawn>>
    BY <1>7 DEF InsertAccount
  <2>2. /\ accReq' \in [AccountRequests -> AccReqKinds] /\ accReq'[r] = NoAccReq
        /\ \A z \in AccountRequests \ {r} : accReq'[z] = accReq[z]
        /\ InvitesApart' /\ InviteAlone' /\ MailFollowsCommit'
    BY <2>1, AccReqEnds
  <2>3. AccountsTypes'
    <3>1. account' \in {"none", "registered", "invited"} /\ platform' \in BOOLEAN
      BY <2>1, <1>0 DEF AccountsTypes
    <3>. QED
      BY <3>1, <2>1, <2>2, <1>0 DEF AccountsTypes
  <2>4. (account' = "invited") = (account = "invited")
    BY <2>1
  <2>5. AcceptedIs' /\ Untried' /\ WithdrawnStay'
    BY <2>1, <2>4 DEF AcceptedIs, Untried, WithdrawnStay
  <2>6. MakerAlone'
    <3>. SUFFICES ASSUME ~metAccount PROVE MakerAlone'
      BY <2>1 DEF MakerAlone
    <3>1. Making(r)
      BY <2>1 DEF Making, Makers
    <3>2. \A z \in AccountRequests : ~Making(z)'
      <4>1. \A z \in AccountRequests \ {r} : ~Making(z)
        BY <3>1 DEF MakerAlone
      <4>. QED
        BY <4>1, <2>2, NoAccReqIs DEF Making, Makers
    <3>3. \A z \in AccountRequests : accReq'[z].op # "provision" /\ accReq'[z].pc # "mark"
      BY <3>2, <2>2, AccReqIs DEF Making, Makers
    <3>. QED
      BY <3>2, <3>3 DEF MakerAlone
  <2>7. OnlyAccount'
    <3>. SUFFICES ASSUME account' = "invited", platform', ~metAccount PROVE FALSE
      BY <2>1 DEF OnlyAccount
    <3>1. account = "invited" /\ ~platform
      BY <2>4 DEF OnlyAccount
    <3>2. accReq[r].op = "provision"
      BY <3>1, <2>1
    <3>. QED
      BY <3>1, <3>2 DEF MakerAlone, Taken
  <2>. QED
    BY <2>2, <2>3, <2>5, <2>6, <2>7
<1>8. ASSUME NEW r \in AccountRequests, MarkCancelled(r) PROVE AccountsInv'
  <2>1. PICK i \in Invitations : i = accReq[r].inv
    BY <1>8, <1>0, AccReqIs DEF MarkCancelled, AccountsTypes
  <2>2. /\ accReq[r].op = "cancel" /\ accReq[r].pc = "write" /\ Finish(r)
        /\ UNCHANGED <<tries, account, platform, expired, mail, begunAccounts, metInvite, metAccount,
                       unmailed>>
    BY <1>8, <1>0, AccReqIs DEF MarkCancelled, AccountsTypes
  <2>3. /\ accReq' \in [AccountRequests -> AccReqKinds] /\ accReq'[r] = NoAccReq
        /\ \A z \in AccountRequests \ {r} : accReq'[z] = accReq[z]
        /\ MakerAlone' /\ OnlyAccount'
    BY <2>2, AccReqEnds
  <2>4. CASE ~StillOpen(i)
    <3>1. UNCHANGED <<invitation, withdrawn>>
      BY <2>1, <2>4, <1>8 DEF MarkCancelled
    <3>2. InvitesApart' /\ InviteAlone' /\ MailFollowsCommit'
      BY <3>1, <2>2, AccReqEnds
    <3>3. AccountsTypes' /\ Untried' /\ AcceptedIs' /\ WithdrawnStay'
      BY <3>1, <2>2, <2>3 DEF AccountsTypes, Untried, AcceptedIs, WithdrawnStay
    <3>. QED
      BY <3>2, <3>3, <2>3
  <2>5. CASE StillOpen(i)
    <3>1. invitation' = [invitation EXCEPT ![i] = "cancelled"] /\ withdrawn' = withdrawn \cup {i}
          /\ invitation[i] = "pending"
      BY <2>1, <2>5, <1>8 DEF MarkCancelled, StillOpen
    <3>2. invitation'[i] = "cancelled" /\ \A j \in Invitations \ {i} : invitation'[j] = invitation[j]
      BY <3>1, <1>0 DEF AccountsTypes
    <3>3. AccountsTypes' /\ Untried' /\ WithdrawnStay'
      BY <3>1, <3>2, <2>2, <2>3 DEF AccountsTypes, Untried, WithdrawnStay
    <3>4. AcceptedIs'
      <4>1. \A j \in Invitations : (invitation'[j] = "accepted") = (invitation[j] = "accepted")
        BY <3>1, <3>2
      <4>. QED
        BY <4>1, <2>2 DEF AcceptedIs
    <3>5. InvitesApart'
      <4>1. \A j \in Invitations : (invitation'[j] = "none") = (invitation[j] = "none")
        BY <3>1, <3>2
      <4>2. \A z \in AccountRequests : accReq'[z].op = "invite" => z # r /\ accReq[z].inv \in Invitations
        BY <2>3, <1>0, AccReqIs, NoAccReqIs DEF AccountsTypes
      <4>. QED
        BY <4>1, <4>2, <2>2, <2>3 DEF InvitesApart
    <3>6. InviteAlone'
      <4>1. \A j \in Invitations : Pending(j)' => Pending(j)
        BY <3>1, <3>2, <2>2 DEF Pending
      <4>. QED
        BY <4>1, <2>2, <2>3, NoAccReqIs DEF InviteAlone, Inviting
    <3>7. MailFollowsCommit'
      <4>1. \A j \in Invitations : (invitation'[j] = "none") = (invitation[j] = "none")
        BY <3>1, <3>2
      <4>2. \A z \in AccountRequests : accReq[z].pc = "mail" => accReq'[z] = accReq[z]
        BY <2>2, <2>3
      <4>. QED
        BY <4>1, <4>2, <2>2 DEF MailFollowsCommit
    <3>. QED
      BY <3>3, <3>4, <3>5, <3>6, <3>7, <2>3
  <2>. QED
    BY <2>4, <2>5
<1>9. ASSUME NEW r \in AccountRequests, NEW commits \in BOOLEAN, CommitInvite(r, commits)
      PROVE  AccountsInv'
  <2>1. PICK i \in Invitations : i = accReq[r].inv
    BY <1>9, <1>0, AccReqIs DEF CommitInvite, AccountsTypes
  <2>2. /\ accReq[r].op = "invite" /\ accReq[r].pc = "write"
        /\ UNCHANGED <<tries, account, platform, expired, mail, begunAccounts, metInvite, metAccount,
                       unmailed, withdrawn>>
    BY <1>9 DEF CommitInvite
  <2>3. mail[i] = "unsent" /\ invitation[i] = "none"
    BY <2>1, <2>2 DEF InvitesApart
  <2>4. CASE ~commits
    <3>1. invitation' = invitation /\ Finish(r)
      BY <2>4, <1>9 DEF CommitInvite, MayMail
    <3>2. /\ accReq' \in [AccountRequests -> AccReqKinds]
          /\ InvitesApart' /\ InviteAlone' /\ MakerAlone' /\ OnlyAccount' /\ MailFollowsCommit'
      BY <3>1, <2>2, AccReqEnds
    <3>3. AccountsTypes' /\ Untried' /\ AcceptedIs' /\ WithdrawnStay'
      BY <3>1, <3>2, <2>2 DEF AccountsTypes, Untried, AcceptedIs, WithdrawnStay
    <3>. QED
      BY <3>2, <3>3
  <2>5. CASE commits
    <3>1. invitation' = [invitation EXCEPT ![i] = "pending"] /\ accReq' = [accReq EXCEPT ![r].pc = "mail"]
      BY <2>1, <2>5, <1>9 DEF CommitInvite, MayMail
    <3>2. invitation'[i] = "pending" /\ \A j \in Invitations \ {i} : invitation'[j] = invitation[j]
      BY <3>1, <1>0 DEF AccountsTypes
    <3>3. accReq[r] = [op |-> "invite", pc |-> "write", inv |-> i]
      BY <2>1, <2>2, <1>0, AccReqIs DEF AccountsTypes
    <3>4. PICK new : new = [op |-> "invite", pc |-> "mail", inv |-> i]
      OBVIOUS
    <3>5. accReq'[r] = new /\ \A z \in AccountRequests \ {r} : accReq'[z] = accReq[z]
      BY <3>1, <3>3, <3>4, <1>0 DEF AccountsTypes
    <3>6. new \in AccReqKinds /\ new.op = "invite" /\ new.pc = "mail" /\ new.inv = i
      BY <3>4 DEF AccReqKinds
    <3>7. AccountsTypes' /\ Untried'
      <4>1. accReq' \in [AccountRequests -> AccReqKinds]
        BY <3>1, <3>5, <3>6, <1>0 DEF AccountsTypes
      <4>2. invitation' \in [Invitations -> {"none", "pending", "accepted", "cancelled"}]
        BY <3>1, <1>0 DEF AccountsTypes
      <4>. QED
        BY <4>1, <4>2, <2>2 DEF AccountsTypes, Untried
    <3>8. InvitesApart'
      <4>1. \A z \in AccountRequests \ {r} : accReq[z].op = "invite" => accReq[z].inv \in Invitations \ {i}
        BY <2>1, <2>2, <1>0, AccReqIs DEF AccountsTypes, InvitesApart
      <4>2. ASSUME NEW z \in AccountRequests, accReq'[z].op = "invite"
            PROVE  /\ mail'[accReq'[z].inv] = "unsent"
                   /\ (accReq'[z].pc = "write") = (invitation'[accReq'[z].inv] = "none")
        <5>1. CASE z = r
          BY <5>1, <2>2, <2>3, <3>2, <3>5, <3>6
        <5>2. CASE z # r
          BY <5>2, <4>1, <4>2, <2>2, <3>2, <3>5 DEF InvitesApart
        <5>. QED
          BY <5>1, <5>2
      <4>3. ASSUME NEW y \in AccountRequests, NEW z \in AccountRequests,
                   accReq'[y].op = "invite", accReq'[z].op = "invite", accReq'[y].inv = accReq'[z].inv
            PROVE  y = z
        BY <4>1, <4>3, <3>5, <3>6 DEF InvitesApart
      <4>. QED
        BY <4>2, <4>3 DEF InvitesApart
    <3>9. InviteAlone'
      <4>. SUFFICES ASSUME ~metInvite PROVE InviteAlone'
        BY <2>2 DEF InviteAlone
      <4>1. \A z \in AccountRequests : Inviting(z) => z = r
        BY <2>2 DEF InviteAlone, Inviting
      <4>2. \A z \in AccountRequests : Inviting(z)' => z = r
        BY <4>1, <3>5 DEF Inviting
      <4>3. \A j \in Invitations : ~Pending(j)
        BY <2>2 DEF InviteAlone, Inviting
      <4>4. \A j \in Invitations : Pending(j)' => j = i
        BY <4>3, <3>2, <2>2 DEF Pending
      <4>5. accReq'[r].pc # "write"
        BY <3>5, <3>6
      <4>. QED
        BY <4>2, <4>4, <4>5 DEF InviteAlone
    <3>10. MakerAlone' /\ OnlyAccount'
      <4>1. ~Making(r) /\ ~Making(r)'
        BY <2>2, <3>5, <3>6 DEF Making, Makers
      <4>2. Taken' = Taken
        BY <2>2 DEF Taken
      <4>. QED
        BY <4>1, <4>2, <2>2, <3>5, <3>6 DEF MakerAlone, Making, OnlyAccount
    <3>11. AcceptedIs'
      <4>1. \A j \in Invitations : (invitation'[j] = "accepted") = (invitation[j] = "accepted")
        BY <2>3, <3>2
      <4>. QED
        BY <4>1, <2>2 DEF AcceptedIs
    <3>12. WithdrawnStay'
      BY <2>2, <2>3, <3>2, <1>0 DEF WithdrawnStay, AccountsTypes
    <3>13. MailFollowsCommit'
      <4>1. \A z \in AccountRequests : accReq[z].pc = "mail" => z # r
        BY <2>2
      <4>2. \A j \in Invitations \ {i} : invitation'[j] = invitation[j]
        BY <3>2
      <4>3. accReq'[r].inv = i /\ accReq'[r].pc = "mail"
        BY <3>5, <3>6
      <4>. QED
        BY <4>1, <4>2, <4>3, <2>2, <3>2, <3>5 DEF MailFollowsCommit
    <3>. QED
      BY <3>7, <3>8, <3>9, <3>10, <3>11, <3>12, <3>13
  <2>. QED
    BY <2>4, <2>5
<1>10. ASSUME NEW r \in AccountRequests, NEW lost \in BOOLEAN, QueueInvite(r, lost) PROVE AccountsInv'
  <2>1. PICK i \in Invitations : i = accReq[r].inv /\ accReq[r].op = "invite"
    BY <1>10, <1>0, AccReqIs DEF QueueInvite, AccountsTypes
  <2>2. /\ accReq[r].pc = "mail" /\ Finish(r)
        /\ mail' = (IF lost THEN mail ELSE [mail EXCEPT ![i] = "queued"])
        /\ unmailed' = (IF lost THEN unmailed \cup {i} ELSE unmailed)
        /\ UNCHANGED <<tries, account, platform, invitation, expired, begunAccounts, metInvite,
                       metAccount, withdrawn>>
    BY <1>10, <2>1 DEF QueueInvite
  <2>3. /\ accReq' \in [AccountRequests -> AccReqKinds] /\ accReq'[r] = NoAccReq
        /\ \A z \in AccountRequests \ {r} : accReq'[z] = accReq[z]
        /\ InviteAlone' /\ MakerAlone' /\ OnlyAccount'
    BY <2>2, AccReqEnds
  <2>4. mail[i] = "unsent" /\ invitation[i] # "none"
    BY <2>1, <2>2 DEF InvitesApart
  <2>5. mail'[i] \in {"unsent", "queued"} /\ \A j \in Invitations \ {i} : mail'[j] = mail[j]
    BY <2>2, <2>4, <1>0 DEF AccountsTypes
  <2>6. mail' \in [Invitations -> {"unsent", "queued", "sent", "dead"}] /\ unmailed' \subseteq Invitations
    BY <2>2, <1>0 DEF AccountsTypes
  <2>7. AccountsTypes' /\ AcceptedIs' /\ WithdrawnStay'
    BY <2>2, <2>3, <2>6, <1>0 DEF AccountsTypes, AcceptedIs, WithdrawnStay
  <2>8. Untried'
    <3>1. tries[i] = 0 /\ 0 < MailAttempts
      BY <2>4, AccountsAssumption DEF Untried
    <3>. QED
      BY <3>1, <2>2, <2>5 DEF Untried
  <2>9. InvitesApart'
    <3>1. \A z \in AccountRequests \ {r} : accReq[z].op = "invite" => accReq[z].inv \in Invitations \ {i}
      BY <2>1, <1>0, AccReqIs DEF AccountsTypes, InvitesApart
    <3>2. \A z \in AccountRequests : accReq'[z].op = "invite" => z # r
      BY <2>3, NoAccReqIs
    <3>. QED
      BY <3>1, <3>2, <2>2, <2>3, <2>5 DEF InvitesApart
  <2>10. MailFollowsCommit'
    <3>1. \A z \in AccountRequests : accReq[z].inv # i \/ z = r \/ accReq[z].op # "invite"
      BY <2>1 DEF InvitesApart
    <3>2. i \in unmailed' \/ mail'[i] = "queued"
      BY <2>2, <1>0 DEF AccountsTypes
    <3>3. \A j \in Invitations \ {i} : (j \in unmailed') = (j \in unmailed)
      BY <2>2
    <3>. QED
      BY <3>2, <3>3, <2>1, <2>2, <2>3, <2>4, <2>5 DEF MailFollowsCommit
  <2>. QED
    BY <2>3, <2>7, <2>8, <2>9, <2>10
<1>11. ASSUME NEW r \in AccountRequests, LookForAddress(r) PROVE AccountsInv'
  <2>1. PICK i \in Invitations : i = accReq[r].inv
    BY <1>11, <1>0, AccReqIs DEF LookForAddress, AccountsTypes
  <2>2. /\ accReq[r].op = "accept" /\ accReq[r].pc = "write"
        /\ UNCHANGED <<tries, account, platform, invitation, expired, mail, begunAccounts, metInvite,
                       metAccount, unmailed, withdrawn>>
    BY <1>11 DEF LookForAddress
  <2>3. CASE Taken
    <3>1. Finish(r)
      BY <2>3, <1>11 DEF LookForAddress
    <3>2. /\ accReq' \in [AccountRequests -> AccReqKinds]
          /\ InvitesApart' /\ InviteAlone' /\ MakerAlone' /\ OnlyAccount' /\ MailFollowsCommit'
      BY <3>1, <2>2, AccReqEnds
    <3>3. AccountsTypes' /\ Untried' /\ AcceptedIs' /\ WithdrawnStay'
      BY <3>2, <2>2 DEF AccountsTypes, Untried, AcceptedIs, WithdrawnStay
    <3>. QED
      BY <3>2, <3>3
  <2>4. CASE ~Taken
    <3>1. accReq' = [accReq EXCEPT ![r].pc = "mark"]
      BY <2>4, <1>11 DEF LookForAddress
    <3>2. accReq[r] = [op |-> "accept", pc |-> "write", inv |-> i]
      BY <2>1, <2>2, <1>0, AccReqIs DEF AccountsTypes
    <3>3. PICK new : new = [op |-> "accept", pc |-> "mark", inv |-> i]
      OBVIOUS
    <3>4. accReq'[r] = new /\ \A z \in AccountRequests \ {r} : accReq'[z] = accReq[z]
      BY <3>1, <3>2, <3>3, <1>0 DEF AccountsTypes
    <3>5. new \in AccReqKinds /\ new.op = "accept" /\ new.pc = "mark" /\ new.inv = i
      BY <3>3 DEF AccReqKinds
    <3>6. accReq' \in [AccountRequests -> AccReqKinds]
      BY <3>1, <3>4, <3>5, <1>0 DEF AccountsTypes
    <3>7. AccountsTypes' /\ Untried' /\ AcceptedIs' /\ WithdrawnStay' /\ OnlyAccount'
      BY <3>6, <2>2 DEF AccountsTypes, Untried, AcceptedIs, WithdrawnStay, OnlyAccount
    <3>8. InvitesApart' /\ InviteAlone' /\ MailFollowsCommit'
      BY <2>2, <3>4, <3>5 DEF InvitesApart, InviteAlone, Inviting, Pending, MailFollowsCommit
    <3>9. MakerAlone'
      BY <2>2, <2>4, <3>4, <3>5 DEF MakerAlone, Making, Makers, Taken
    <3>. QED
      BY <3>7, <3>8, <3>9
  <2>. QED
    BY <2>3, <2>4
<1>12. ASSUME NEW r \in AccountRequests, MarkAccepted(r) PROVE AccountsInv'
  <2>. DEFINE done == StillOpen(accReq[r].inv) /\ account = "none"
  <2>1. PICK i \in Invitations : i = accReq[r].inv /\ accReq[r].op = "accept"
    BY <1>12, <1>0, AccReqIs DEF MarkAccepted, AccountsTypes
  <2>2. /\ accReq[r].pc = "mark" /\ Finish(r)
        /\ UNCHANGED <<tries, platform, expired, mail, begunAccounts, metInvite, metAccount, unmailed,
                       withdrawn>>
    BY <1>12 DEF MarkAccepted
  <2>3. /\ accReq' \in [AccountRequests -> AccReqKinds] /\ accReq'[r] = NoAccReq
        /\ \A z \in AccountRequests \ {r} : accReq'[z] = accReq[z]
    BY <2>2, AccReqEnds
  <2>4. CASE ~done
    <3>1. invitation' = invitation /\ account' = account
      BY <2>4, <1>12 DEF MarkAccepted
    <3>2. InvitesApart' /\ InviteAlone' /\ MakerAlone' /\ OnlyAccount' /\ MailFollowsCommit'
      BY <3>1, <2>2, AccReqEnds
    <3>3. AccountsTypes' /\ Untried' /\ AcceptedIs' /\ WithdrawnStay'
      BY <3>1, <2>2, <2>3 DEF AccountsTypes, Untried, AcceptedIs, WithdrawnStay
    <3>. QED
      BY <3>2, <3>3
  <2>5. CASE done
    <3>1. invitation' = [invitation EXCEPT ![i] = "accepted"] /\ account' = "invited"
          /\ invitation[i] = "pending" /\ account = "none"
      BY <2>1, <2>5, <1>12 DEF MarkAccepted, StillOpen
    <3>2. invitation'[i] = "accepted" /\ \A j \in Invitations \ {i} : invitation'[j] = invitation[j]
      BY <3>1, <1>0 DEF AccountsTypes
    <3>3. AccountsTypes' /\ Untried'
      BY <3>1, <2>2, <2>3 DEF AccountsTypes, Untried
    <3>4. AcceptedIs' /\ WithdrawnStay'
      <4>1. \A j \in Invitations : (invitation'[j] = "accepted") = (j = i)
        BY <3>1, <3>2 DEF AcceptedIs
      <4>2. WithdrawnStay'
        BY <3>1, <3>2, <2>2, <1>0 DEF WithdrawnStay, AccountsTypes
      <4>. QED
        BY <4>1, <4>2, <3>1 DEF AcceptedIs
    <3>5. \A j \in Invitations : (invitation'[j] = "none") = (invitation[j] = "none")
      BY <3>1, <3>2
    <3>6. InvitesApart'
      <4>1. \A z \in AccountRequests : accReq'[z].op = "invite" => z # r /\ accReq[z].inv \in Invitations
        BY <2>3, <1>0, AccReqIs, NoAccReqIs DEF AccountsTypes
      <4>. QED
        BY <4>1, <3>5, <2>2, <2>3 DEF InvitesApart
    <3>7. InviteAlone'
      <4>1. \A j \in Invitations : Pending(j)' => Pending(j)
        BY <3>1, <3>2, <2>2 DEF Pending
      <4>. QED
        BY <4>1, <2>2, <2>3, NoAccReqIs DEF InviteAlone, Inviting
    <3>8. MailFollowsCommit'
      <4>1. \A z \in AccountRequests : accReq[z].pc = "mail" => accReq'[z] = accReq[z]
        BY <2>2, <2>3
      <4>. QED
        BY <4>1, <3>5, <2>2 DEF MailFollowsCommit
    <3>9. MakerAlone' /\ OnlyAccount'
      <4>. SUFFICES ASSUME ~metAccount PROVE MakerAlone' /\ OnlyAccount'
        BY <2>2 DEF MakerAlone, OnlyAccount
      <4>1. \A z \in AccountRequests \ {r} : ~Making(z)
        BY <2>1 DEF MakerAlone, Making, Makers
      <4>2. \A z \in AccountRequests : ~Making(z)'
        BY <4>1, <2>3, NoAccReqIs DEF Making, Makers
      <4>3. \A z \in AccountRequests : accReq'[z].op # "provision" /\ accReq'[z].pc # "mark"
        BY <4>2, <2>3, AccReqIs DEF Making, Makers
      <4>4. ~platform
        BY <2>2 DEF MakerAlone, Taken
      <4>. QED
        BY <4>2, <4>3, <4>4, <2>2 DEF MakerAlone, OnlyAccount
    <3>. QED
      BY <3>3, <3>4, <3>6, <3>7, <3>8, <3>9
  <2>. QED
    BY <2>4, <2>5
<1>. QED
  BY <1>1, <1>2, <1>3, <1>4, <1>5, <1>6, <1>7, <1>8, <1>9, <1>10, <1>11, <1>12, AnyOneIsFree DEF AccountsNext

LEMMA AccountsInvIsSound == AccountsInv => AccountsSound
<1>. SUFFICES ASSUME AccountsInv PROVE AccountsSound
  OBVIOUS
<1>. USE DEF AccountsInv
<1>1. AccountsTypeOK
  BY AccReqIs DEF AccountsTypes, AccountsTypeOK
<1>2. Cardinality({}) = 0 /\ \A x : Cardinality({x}) = 1
  BY FS_EmptySet, FS_Singleton
<1>3. AcceptedOnce
  <2>. DEFINE accepted == {i \in Invitations : invitation[i] = "accepted"}
  <2>1. CASE account # "invited"
    <3>1. accepted = {}
      BY <2>1 DEF AcceptedIs
    <3>. QED
      BY <2>1, <3>1, <1>2 DEF AcceptedOnce
  <2>2. CASE account = "invited"
    <3>1. PICK i \in Invitations : \A j \in Invitations : (invitation[j] = "accepted") = (j = i)
      BY <2>2 DEF AcceptedIs
    <3>2. accepted = {i}
      BY <3>1
    <3>. QED
      BY <2>2, <3>2, <1>2 DEF AcceptedOnce
  <2>. QED
    BY <2>1, <2>2
<1>4. OnePending
  <2>. SUFFICES ASSUME ~metInvite PROVE Cardinality({i \in Invitations : Pending(i)}) <= 1
    BY DEF OnePending, AccountsTypes
  <2>. DEFINE pending == {i \in Invitations : Pending(i)}
  <2>1. pending = {} \/ \E i : pending = {i}
    BY DEF InviteAlone
  <2>2. Cardinality(pending) = 0 \/ Cardinality(pending) = 1
    BY <2>1, <1>2
  <2>. QED
    BY <2>2
<1>5. StaysWithdrawn
  BY DEF WithdrawnStay, StaysWithdrawn
<1>. QED
  BY <1>1, <1>3, <1>4, <1>5 DEF AccountsSound

(* How one address becomes an account, whatever requests meet: an          *)
(* invitation is accepted exactly when its account was made, and never     *)
(* once withdrawn; two are pending, or an invited account shares its       *)
(* address, only if two such requests met; and a mail goes out for every   *)
(* committed invitation and no other, unless the process stops between.    *)
THEOREM AccountsAreSound == AccountsSpec => []AccountsSound
<1>1. AccountsSpec => []AccountsInv
  BY AccountsInvInit, AccountsInvStep, PTL DEF AccountsSpec
<1>. QED
  BY <1>1, AccountsInvIsSound, PTL

-----------------------------------------------------------------------------
(***************************************************************************)
(* The whole.                                                              *)
(***************************************************************************)
LEMMA PartsBegin ==
  AdminInit => /\ AuthorityInit /\ CommitteeInit /\ ChecklistInit /\ TenantsInit /\ TreeInit
               /\ SettingsInit /\ AccountsInit
BY DEF AdminInit

LEMMA PartsStep ==
  [AdminNext]_adminVars =>
    /\ [AuthorityNext]_authorityVars /\ [CommitteeNext]_committeeVars /\ [ChecklistNext]_checklistVars
    /\ [TenantsNext]_tenantVars /\ [TreeNext]_treeVars /\ [SettingsNext]_settingsVars
    /\ [AccountsNext]_accountsVars
BY DEF AdminNext, adminVars

(* A behaviour of the whole is a behaviour of each part: the parts share   *)
(* no state, so a step of one leaves the others where they are.            *)
THEOREM AdminIsItsParts ==
  AdminSpec => /\ AuthoritySpec /\ CommitteeSpec /\ ChecklistSpec /\ TenantsSpec /\ TreeSpec
               /\ SettingsSpec /\ AccountsSpec
BY PartsBegin, PartsStep, PTL
   DEF AdminSpec, AuthoritySpec, CommitteeSpec, ChecklistSpec, TenantsSpec, TreeSpec, SettingsSpec,
       AccountsSpec

(* Who may do what, whose vote counts and what an approval waits for, in   *)
(* every behaviour of the whole: nobody rises without a super admin, an    *)
(* admin remains and the cached authority follows; a committee decides by  *)
(* a majority of the list last asked for; and an approval that had to wait *)
(* for the checklist found it complete.                                    *)
THEOREM RightsHold == AdminSpec => []RightsSound
<1>1. AuthoritySound /\ CommitteeSound /\ ChecklistSound => RightsSound
  BY DEF RightsSound
<1>. QED
  BY <1>1, AdminIsItsParts, AuthorityIsSound, CommitteeIsSound, ChecklistIsSound, PTL

(* A tenant's status and domains, its faculties and departments, its       *)
(* settings and its accounts, in every behaviour of the whole.             *)
THEOREM DirectoryHolds == AdminSpec => []DirectorySound
<1>1. TenantsSound /\ TreeSound /\ SettingsSound /\ AccountsSound => DirectorySound
  BY DEF DirectorySound
<1>. QED
  BY <1>1, AdminIsItsParts, TenantsAreSound, TreeIsSound, SettingsAreSound, AccountsAreSound, PTL
=============================================================================
