----------------------------- MODULE Deployment -----------------------------
(***************************************************************************)
(* What happens around a deployment: bootstrap runs that provision the     *)
(* catalogue of roles and permissions and the first super_admin, each in   *)
(* one READ COMMITTED transaction, beside administrators who change the    *)
(* same tables, and servers that look for pending migrations as they       *)
(* start.                                                                  *)
(***************************************************************************)
EXTENDS Naturals, FiniteSets

CONSTANTS Bootstraps, Replicas,
          CatalogueRoles, Super,      \* ROLE_DEFS, and super_admin among them
          CatalogueKeys, Bundles,     \* PERMISSION_CATALOG, and ROLE_BUNDLES of each role
          LegacyKeys, ExtraKeys,      \* other permissions a database may hold
          MaxChoices                  \* bound: grants changed by administrators since the last run

ASSUME DeploymentAssumption ==
  /\ Super \in CatalogueRoles /\ Bundles \in [CatalogueRoles -> SUBSET CatalogueKeys]
  /\ LegacyKeys \cap CatalogueKeys = {} /\ MaxChoices \in Nat

VARIABLES roleRows,    \* rows of each global role
          misranked,   \* roles whose rank is not the catalogue's
          keys,        \* permissions
          grants,      \* role_permissions
          admins,      \* super_admin accounts with the configured e-mail
          boot,        \* each run: [pc, missing, known, legacy, rows, met]
          provisioned, \* history: a run has committed
          chosen,      \* history: grants and
          revoked,   \* withdrawals an administrator made, and permissions created,
          created,     \* none of which a run has seen since
          behind,      \* migrations are pending
          server       \* each server process: "down", "up", "old" (it knew better)

rbacVars == <<roleRows, misranked, keys, grants, admins>>
pastVars == <<provisioned, chosen, revoked, created>>
deployVars == <<rbacVars, boot, pastVars, behind, server>>

NoRun == [pc |-> "idle", missing |-> {}, known |-> {}, legacy |-> {}, rows |-> {}, met |-> FALSE]
Running(b) == boot[b].pc \notin {"idle", "failed", "done"}

DeployInit ==
  /\ \/ roleRows = [r \in CatalogueRoles |-> 0] /\ keys = {} /\ misranked = {}
     \/ /\ roleRows = [r \in CatalogueRoles |-> 1] /\ misranked = {Super}
        /\ keys \in {CatalogueKeys, CatalogueKeys \cup LegacyKeys}
  /\ grants = {} /\ admins = 0
  /\ boot = [b \in Bootstraps |-> NoRun]
  /\ provisioned = FALSE /\ chosen = {} /\ revoked = {} /\ created = {}
  /\ behind = TRUE /\ server = [s \in Replicas |-> "down"]

----------------------------------------------------------------------------
(***************************************************************************)
(* provisionRbacCatalog and the first super_admin.  What a run writes is   *)
(* its own until it commits.                                               *)
(***************************************************************************)
\* Whoever runs at the same time is met, and meets.  The migrations come first.
LookUpRoles(b) ==
  /\ boot[b].pc = "idle" /\ ~behind
  /\ boot' = [c \in Bootstraps |->
       IF c = b THEN [NoRun EXCEPT !.pc = "roles", !.missing = {r \in CatalogueRoles : roleRows[r] = 0},
                                   !.met = \E d \in Bootstraps : Running(d)]
       ELSE [boot[c] EXCEPT !.met = @ \/ Running(c)]]
  /\ UNCHANGED <<rbacVars, pastVars, behind, server>>

\* Mutant: the table lets a global role have two rows.
Mutant_NoIndex(b) == FALSE
\* global_role_name_idx
Conflicts(b) == \E r \in boot[b].missing : roleRows[r] > 0

\* An insert waits for a transaction that has inserted the same name.
InsertRoles(b) ==
  /\ boot[b].pc = "roles"
  /\ boot[b].missing # {} =>
       \A c \in Bootstraps \ {b} : Running(c) /\ boot[c].pc # "roles" => boot[c].missing = {}
  /\ boot' = [boot EXCEPT ![b].pc = IF Conflicts(b) THEN "failed" ELSE "permissions"]
  /\ UNCHANGED <<rbacVars, pastVars, behind, server>>

\* The upsert locks every row of the catalogue until the end of the transaction.
Locked(b) == \E c \in Bootstraps \ {b} : boot[c].pc \in {"legacy", "bundles", "super", "admin"}

UpsertPermissions(b) ==
  /\ boot[b].pc = "permissions" /\ ~Locked(b)
  /\ boot' = [boot EXCEPT ![b].pc = "legacy", ![b].known = keys \cup CatalogueKeys]
  /\ UNCHANGED <<rbacVars, pastVars, behind, server>>

\* Mutant: legacy permissions stay.
Mutant_KeepsLegacy(known) == {}
LegacyAmong(known) == known \cap LegacyKeys
DeleteLegacy(b) ==
  /\ boot[b].pc = "legacy"
  /\ boot' = [boot EXCEPT ![b].pc = "bundles", ![b].legacy = LegacyAmong(boot[b].known)]
  /\ UNCHANGED <<rbacVars, pastVars, behind, server>>

\* ROLE_BUNDLES where super_admin is the only role, which has no bundle of its own.
SuperAlone == [r \in {Super} |-> {}]
BundleRows == UNION {{r} \X Bundles[r] : r \in CatalogueRoles}
InsertBundles(b) ==
  /\ boot[b].pc = "bundles"
  /\ boot' = [boot EXCEPT ![b].pc = "super", ![b].rows = BundleRows \ grants]
  /\ UNCHANGED <<rbacVars, pastVars, behind, server>>

\* Mutant: super_admin is given what the catalogue holds.
Mutant_CatalogueOnly(known) == {Super} \X CatalogueKeys
\* The permissions as they were read before the legacy ones were deleted.
SuperRows(known) == {Super} \X known
\* The permissions there are for the transaction; a row of any other fails it.
VisibleKeys(b) == (keys \cup CatalogueKeys) \ boot[b].legacy
InsertSuper(b) ==
  /\ boot[b].pc = "super"
  /\ LET rows == SuperRows(boot[b].known)
     IN boot' = [boot EXCEPT ![b] =
          IF \A row \in rows : row[2] \in VisibleKeys(b)
          THEN [boot[b] EXCEPT !.pc = "admin", !.rows = boot[b].rows \cup (rows \ grants)]
          ELSE [boot[b] EXCEPT !.pc = "failed"]]
  /\ UNCHANGED <<rbacVars, pastVars, behind, server>>

\* Mutant: an administrator's own grants are taken back.
Mutant_Resets(b) == boot[b].rows
GrantsAfter(b) == {g \in grants : g[2] \notin boot[b].legacy} \cup boot[b].rows
\* Mutant: every run makes an account.
Mutant_AnotherAdmin == admins + 1
AdminsAfter == IF admins = 0 THEN 1 ELSE admins

\* Mutant: a role that is there keeps its rank.
Mutant_KeepsRank(b) == misranked
\* Ranks change for the roles that were there.
Reranked(b) == misranked \cap boot[b].missing
\* The account is made if there is none, and the transaction commits.
Commit(b) ==
  /\ boot[b].pc = "admin"
  /\ roleRows' = [r \in CatalogueRoles |-> roleRows[r] + (IF r \in boot[b].missing THEN 1 ELSE 0)]
  /\ misranked' = Reranked(b)
  /\ keys' = VisibleKeys(b)
  /\ grants' = GrantsAfter(b)
  /\ admins' = AdminsAfter
  /\ boot' = [boot EXCEPT ![b] = [NoRun EXCEPT !.pc = "done"]]
  /\ provisioned' = TRUE
  /\ chosen' = {g \in chosen : g[2] \notin boot[b].legacy}
  /\ revoked' = revoked \ boot[b].rows
  /\ created' = created \ boot[b].known
  /\ UNCHANGED <<behind, server>>

----------------------------------------------------------------------------
(***************************************************************************)
(* Administrators meanwhile.                                               *)
(***************************************************************************)
Meets == boot' = [b \in Bootstraps |-> [boot[b] EXCEPT !.met = @ \/ Running(b)]]

\* A run that has not ended yet has deleted it.
Deleting(k) == \E b \in Bootstraps : Running(b) /\ k \in boot[b].legacy

\* Bound: a key does not come back, as a row of its own, while a run knows the old row.
CreatePermission(k) ==
  /\ k \in ExtraKeys \ keys
  /\ \A b \in Bootstraps : Running(b) => k \notin boot[b].known
  /\ keys' = keys \cup {k} /\ created' = created \cup {k}
  /\ Meets
  /\ UNCHANGED <<roleRows, misranked, grants, admins, provisioned, chosen, revoked, behind, server>>

\* Not of the core catalogue, and not while a transaction refers to it.
DeletePermission(k) ==
  /\ k \in keys \ CatalogueKeys
  /\ ~Deleting(k) /\ \A b \in Bootstraps : Running(b) => \A row \in boot[b].rows : row[2] # k
  /\ keys' = keys \ {k} /\ created' = created \ {k}
  /\ grants' = {g \in grants : g[2] # k}
  /\ chosen' = {g \in chosen : g[2] # k} /\ revoked' = {g \in revoked : g[2] # k}
  /\ Meets
  /\ UNCHANGED <<roleRows, misranked, admins, provisioned, behind, server>>

MayChoose == Cardinality(chosen) + Cardinality(revoked) < MaxChoices

Attach(r, k) ==
  /\ MayChoose
  /\ roleRows[r] > 0 /\ k \in keys /\ <<r, k>> \notin grants
  /\ ~Deleting(k) /\ \A b \in Bootstraps : Running(b) => <<r, k>> \notin boot[b].rows
  /\ grants' = grants \cup {<<r, k>>} /\ chosen' = chosen \cup {<<r, k>>}
  /\ revoked' = revoked \ {<<r, k>>}
  /\ UNCHANGED <<roleRows, misranked, keys, admins, boot, provisioned, created, behind, server>>

Detach(r, k) ==
  /\ MayChoose
  /\ <<r, k>> \in grants
  /\ ~Deleting(k)
  /\ grants' = grants \ {<<r, k>>} /\ chosen' = chosen \ {<<r, k>>}
  /\ revoked' = revoked \cup {<<r, k>>}
  /\ UNCHANGED <<roleRows, misranked, keys, admins, boot, provisioned, created, behind, server>>

----------------------------------------------------------------------------
(***************************************************************************)
(* ensureMigrationsAtStartup, in production.                               *)
(***************************************************************************)
Migrate ==
  /\ behind /\ behind' = FALSE
  /\ UNCHANGED <<rbacVars, boot, pastVars, server>>

\* Mutant: pending migrations are a warning.
Mutant_WarnsOnly == TRUE
MayServe == ~behind
\* A database that does not answer does not keep the server down.
Start(s) ==
  /\ server[s] = "down"
  /\ \E reached \in BOOLEAN :
       /\ reached => MayServe
       /\ server' = [server EXCEPT ![s] = IF reached /\ behind THEN "old" ELSE "up"]
  /\ UNCHANGED <<rbacVars, boot, pastVars, behind>>

DeployNext ==
  \/ \E b \in Bootstraps :
       LookUpRoles(b) \/ InsertRoles(b) \/ UpsertPermissions(b) \/ DeleteLegacy(b)
       \/ InsertBundles(b) \/ InsertSuper(b) \/ Commit(b)
  \/ \E k \in ExtraKeys : CreatePermission(k)
  \/ \E k \in keys : DeletePermission(k)
  \/ \E r \in CatalogueRoles, k \in keys : Attach(r, k) \/ Detach(r, k)
  \/ Migrate \/ \E s \in Replicas : Start(s)

DeploySpec == DeployInit /\ [][DeployNext]_deployVars

----------------------------------------------------------------------------
(* Runs at the same time leave one row of each role and one account, and   *)
(* once a run has committed the catalogue is complete: every key is there, *)
(* every role has its rank, every bundle is granted, super_admin holds     *)
(* every permission and no legacy one is left - but for what               *)
(* administrators did since.                                               *)
CatalogueIsComplete ==
  /\ admins <= 1 /\ \A r \in CatalogueRoles : roleRows[r] <= 1
  /\ provisioned =>
       /\ CatalogueKeys \subseteq keys /\ admins = 1 /\ misranked = {}
       /\ BundleRows \subseteq grants \cup revoked
       /\ {Super} \X (keys \ created) \subseteq grants \cup revoked
       /\ keys \cap LegacyKeys \subseteq created

(* No run takes back what an administrator has granted.                    *)
GrantsAreKept == chosen \subseteq grants

(* A run fails only if it met another, or an administrator who created or  *)
(* deleted permissions, or if the database holds a legacy permission.      *)
FailsForAReason == \A b \in Bootstraps : boot[b].pc = "failed" => boot[b].met \/ boot[b].legacy # {}

(* No server serves a schema older than its code, unless it could not ask. *)
ServersAreCurrent == \A s \in Replicas : server[s] # "old"

DeploymentSound == CatalogueIsComplete /\ GrantsAreKept /\ FailsForAReason /\ ServersAreCurrent

(* A run that nothing meets succeeds, whatever the database holds: the     *)
(* catalogue may be provisioned again at every deployment, and legacy      *)
(* permissions are cleaned (rbac-catalog.ts).                              *)
ProvisionIsIdempotent == \A b \in Bootstraps : boot[b].pc = "failed" => boot[b].met
=============================================================================
