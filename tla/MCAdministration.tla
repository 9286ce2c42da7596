-------------------------- MODULE MCAdministration --------------------------
(***************************************************************************)
(* The modules about how a university is run, for TLC: who may do what,    *)
(* who votes on applications and what an approval waits for, the tenant    *)
(* itself, its faculties and departments, its settings and its accounts.   *)
(* As in MCClubLife a behaviour works on one part and the others rest.     *)
(***************************************************************************)
EXTENDS Authority, ApprovalCommittees, ReviewChecklist, Tenants, TenantTree, TenantSettings,
        Accounts, TLC

CONSTANTS root1, root2, dean1, pupil, d1, d2, q1, q2, uni, f1, p1, u1, pins, export, v0, on, i1, i2,
          k1, k2, k3, key1, key2, key3

VARIABLE part

Ranks == (SuperAdmin :> 100) @@ (UniAdmin :> 80) @@ (Student :> 10)
SomeParents == (uni :> uni) @@ (f1 :> uni) @@ (p1 :> f1)
SomeDefaults == [k \in SettingKeys |-> v0]
OwnEntries == [key : {pins}, value : {v0, on, Refused, Reset}]
PlatformEntries == [key : {export}, value : {v0, on}]
SomePatches ==
  {<<e>> : e \in OwnEntries}
  \cup {<<e, f>> : e \in OwnEntries, f \in PlatformEntries}
  \cup {<<f, [key |-> UnknownKey, value |-> on]>> : f \in PlatformEntries}

\* Committees of two and of three.
SomeRolls == {list \in SUBSET Colleagues : Cardinality(list) > 1}
\* Two updates by themselves, or one beside a vote or a reading of the tally.
SomeUpdates == {[updates |-> 2, readers |-> 0], [updates |-> 1, readers |-> 1]}
\* Three ticks, or two beside a change of the settings.
SomeMarks == {[marks |-> 3, edits |-> 1], [marks |-> 2, edits |-> 2]}

Parts == {"authority", "committee", "checklist", "tenants", "tree", "settings", "accounts"}
adminVars == <<part, authorityVars, committeeVars, checklistVars, tenantVars, treeVars, settingsVars,
               accountsVars>>

\* A part that rests has one initial state.
AdminInit ==
  /\ part \in Parts
  /\ AuthorityInit /\ CommitteeInit /\ ChecklistInit /\ TenantsInit /\ TreeInit /\ SettingsInit
  /\ AccountsInit
  /\ part # "committee" => committeeLeft.updates = 2
  /\ part # "checklist" => checklistLeft.marks = 3
  /\ part # "tenants" => tenant.status = "active" /\ invited = 0
  /\ part # "tree" => \A n \in Nodes : node[n] = "live"

AdminNext ==
  \/ part = "authority" /\ AuthorityNext
     /\ UNCHANGED <<part, committeeVars, checklistVars, tenantVars, treeVars, settingsVars,
                    accountsVars>>
  \/ part = "committee" /\ CommitteeNext
     /\ UNCHANGED <<part, authorityVars, checklistVars, tenantVars, treeVars, settingsVars,
                    accountsVars>>
  \/ part = "checklist" /\ ChecklistNext
     /\ UNCHANGED <<part, authorityVars, committeeVars, tenantVars, treeVars, settingsVars,
                    accountsVars>>
  \/ part = "tenants" /\ TenantsNext
     /\ UNCHANGED <<part, authorityVars, committeeVars, checklistVars, treeVars, settingsVars,
                    accountsVars>>
  \/ part = "tree" /\ TreeNext
     /\ UNCHANGED <<part, authorityVars, committeeVars, checklistVars, tenantVars, settingsVars,
                    accountsVars>>
  \/ part = "settings" /\ SettingsNext
     /\ UNCHANGED <<part, authorityVars, committeeVars, checklistVars, tenantVars, treeVars,
                    accountsVars>>
  \/ part = "accounts" /\ AccountsNext
     /\ UNCHANGED <<part, authorityVars, committeeVars, checklistVars, tenantVars, treeVars,
                    settingsVars>>

AdminSpec == AdminInit /\ [][AdminNext]_adminVars

(* What each part promises, asked where it works: who may do what, whose   *)
(* vote counts and what an approval waits for; and a tenant's status and   *)
(* domains, its faculties and departments, its settings and its accounts.  *)
RightsSound ==
  /\ part = "authority" => AuthoritySound
  /\ part = "committee" => CommitteeSound
  /\ part = "checklist" => ChecklistSound
DirectorySound ==
  /\ part = "tenants" => TenantsSound
  /\ part = "tree" => TreeSound
  /\ part = "settings" => SettingsSound
  /\ part = "accounts" => AccountsSound
=============================================================================
