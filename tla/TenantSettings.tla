--------------------------- MODULE TenantSettings ---------------------------
(***************************************************************************)
(* The settings of one tenant: the catalogue of keys with their defaults,  *)
(* the rows that deviate from them, and the cached resolution of both.     *)
(*                                                                         *)
(* A patch names several keys and writes them one statement at a time, so  *)
(* a key that is refused stops it with the keys before it written; only a  *)
(* patch that reaches its end reads the rows again and writes the cache.   *)
(***************************************************************************)
EXTENDS Naturals, Sequences, FiniteSets, Names

CONSTANTS SettingKeys, PlatformKeys,  \* the catalogue, and what the platform alone edits
          SettingValues, DefaultOf,   \* values in range, and the default of each key
          FeatureOn,                  \* the value that opens a feature
          Refused, Reset,             \* a value that does not parse, and null
          UnknownKey,
          Patches,                    \* bodies: sequences of entries of distinct keys
          Patchers,                   \* requests that may overlap
          MaxPatches,                 \* bound: patches ever begun
          Unset                       \* no row, nothing cached

Entries == [key : SettingKeys \cup {UnknownKey}, value : SettingValues \cup {Refused, Reset}]

\* No feature is open by default.
ASSUME SettingsAssumption ==
  /\ PlatformKeys \subseteq SettingKeys /\ DefaultOf \in [SettingKeys -> SettingValues]
  /\ Unset \notin SettingValues /\ \A k \in SettingKeys : DefaultOf[k] # FeatureOn
  /\ Patches \subseteq Seq(Entries) /\ MaxPatches \in Nat

VARIABLES settingRow,       \* tenant_settings: value of each key, or Unset
          settingsCache, settingsLoad,  \* tenant:settings, and what a load read
          patching,          \* [pc, todo, by, wrote, read] of each request
          begunPatches,
          metPatch,       \* a patch wrote while another was running, until the cache goes
          halfDone,       \* a patch stopped with keys written, until the cache goes
          laggingSettings,\* a slow load or a failing store, until the cache goes
          meddled,        \* history: platform keys that a tenant's patch changed
          undulyOpen      \* history: a feature was open against rows at rest

settingsVars == <<settingRow, settingsCache, settingsLoad, patching, begunPatches, metPatch, halfDone,
                  laggingSettings, meddled, undulyOpen>>

NoPatch == [pc |-> "idle", todo |-> <<>>, by |-> Unset, wrote |-> FALSE, met |-> FALSE, read |-> Unset]

SettingsInit ==
  /\ settingRow = [k \in SettingKeys |-> Unset]
  /\ settingsCache = Unset /\ settingsLoad = Unset
  /\ patching = [p \in Patchers |-> NoPatch] /\ begunPatches = 0
  /\ metPatch = FALSE /\ halfDone = FALSE /\ laggingSettings = FALSE
  /\ meddled = {} /\ undulyOpen = FALSE

\* TENANT_SETTING_CATALOG
Catalogue ==
  [k \in SettingKeys |-> [defaultValue |-> DefaultOf[k],
                          editor |-> IF k \in PlatformKeys THEN "platform" ELSE "tenant"]]

\* mergeOverridesIntoResolved, buildDefaultResolvedSettings
Merged(rows) ==
  [k \in SettingKeys |-> IF rows[k] = Unset THEN Catalogue[k].defaultValue ELSE rows[k]]

----------------------------------------------------------------------------
(* Reading. *)

\* A value that went into the cache replaces whatever made the old one lag.
Fresh(lags) == metPatch' = FALSE /\ halfDone' = FALSE /\ laggingSettings' = lags

LoadSettings ==
  /\ settingsCache = Unset /\ settingsLoad = Unset
  /\ settingsLoad' = Merged(settingRow)
  /\ UNCHANGED <<settingRow, settingsCache, patching, begunPatches, metPatch, halfDone, laggingSettings,
                 meddled, undulyOpen>>
CacheSettings ==
  /\ settingsLoad # Unset
  /\ settingsCache' = settingsLoad /\ settingsLoad' = Unset
  /\ Fresh(settingsLoad # Merged(settingRow))
  /\ UNCHANGED <<settingRow, patching, begunPatches, meddled, undulyOpen>>
\* TTL_SECONDS, or invalidateTenantSettingsCache by a script.
SettingsExpire ==
  /\ settingsCache # Unset /\ settingsCache' = Unset /\ Fresh(FALSE)
  /\ UNCHANGED <<settingRow, settingsLoad, patching, begunPatches, meddled, undulyOpen>>

\* getTenantSettings: the defaults stand in for settings that cannot be read.
SeenSettings(fails) ==
  IF fails THEN Merged([k \in SettingKeys |-> Unset])
  ELSE IF settingsCache # Unset THEN settingsCache ELSE Merged(settingRow)

AtRest == \A p \in Patchers : patching[p] = NoPatch
Accounted == metPatch \/ halfDone \/ laggingSettings

FeatureEnabled(settings, k) == settings[k] = FeatureOn
\* requireFeature, requireTenantFeatureFromAuth
EnterFeature(k, fails) ==
  /\ FeatureEnabled(SeenSettings(fails), k)
  /\ undulyOpen' = (undulyOpen \/ (AtRest /\ ~Accounted /\ settingRow[k] # FeatureOn))
  /\ UNCHANGED <<settingRow, settingsCache, settingsLoad, patching, begunPatches, metPatch, halfDone,
                 laggingSettings, meddled>>

----------------------------------------------------------------------------
(* Patching. *)

BeginPatch(p, body, by) ==
  /\ patching[p] = NoPatch /\ begunPatches < MaxPatches
  /\ LET others == \E q \in Patchers : patching[q] # NoPatch IN
     patching' = [q \in Patchers |->
       IF q = p THEN [NoPatch EXCEPT !.pc = "write", !.todo = body, !.by = by, !.met = others]
       ELSE [patching[q] EXCEPT !.met = patching[q] # NoPatch]]
  /\ begunPatches' = begunPatches + 1
  /\ UNCHANGED <<settingRow, settingsCache, settingsLoad, metPatch, halfDone, laggingSettings,
                 meddled, undulyOpen>>

\* Mutant: every key is the tenant's to edit.
Mutant_EditsAll(key, by) == TRUE
\* canEditSetting
CanEditSetting(key, by) == Catalogue[key].editor = "tenant" \/ by = "platform"

Acceptable(e, by) == e.key \in SettingKeys /\ CanEditSetting(e.key, by) /\ e.value # Refused

\* Mutant: a value equal to the default gets a row like any other.
Mutant_KeepsDefault(e) == IF e.value = Reset THEN Unset ELSE e.value
\* deleteOverride or upsertOverride; tenantSettingDefaultEquals
RowFor(e) == IF e.value \in {Reset, Catalogue[e.key].defaultValue} THEN Unset ELSE e.value

\* One key; the row is written or the request ends here.
PatchKey(p) ==
  LET e == Head(patching[p].todo) IN
  /\ patching[p].pc = "write" /\ patching[p].todo # <<>>
  /\ IF Acceptable(e, patching[p].by)
     THEN /\ settingRow' = [settingRow EXCEPT ![e.key] = RowFor(e)]
          /\ patching' = [patching EXCEPT ![p].todo = Tail(@), ![p].wrote = TRUE]
          /\ meddled' = IF patching[p].by = "tenant" /\ settingRow'[e.key] # settingRow[e.key]
                        THEN meddled \cup ({e.key} \cap PlatformKeys) ELSE meddled
          /\ UNCHANGED halfDone
     ELSE /\ patching' = [patching EXCEPT ![p] = NoPatch]
          /\ halfDone' = (halfDone \/ patching[p].wrote)
          /\ UNCHANGED <<settingRow, meddled>>
  /\ UNCHANGED <<settingsCache, settingsLoad, begunPatches, metPatch, laggingSettings, undulyOpen>>

\* listOverrides, once every key is written.
ReadRows(p) ==
  /\ patching[p].pc = "write" /\ patching[p].todo = <<>>
  /\ patching' = [patching EXCEPT ![p].pc = "cache", ![p].read = Merged(settingRow)]
  /\ UNCHANGED <<settingRow, settingsCache, settingsLoad, begunPatches, metPatch, halfDone, laggingSettings,
                 meddled, undulyOpen>>

\* Mutant: the patch leaves the cache to its TTL.
Mutant_NoRefresh(settings) == settingsCache
Refreshed(settings) == settings
\* setTenantSettingsCache: a failing store is logged and the patch stands.
RefreshCache(p, fails) ==
  /\ patching[p].pc = "cache"
  /\ IF fails
     THEN /\ laggingSettings' = (laggingSettings \/ settingsCache # Unset)
          /\ UNCHANGED <<settingsCache, metPatch, halfDone>>
     ELSE /\ settingsCache' = Refreshed(patching[p].read)
          /\ metPatch' = patching[p].met /\ halfDone' = FALSE /\ laggingSettings' = FALSE
  /\ patching' = [patching EXCEPT ![p] = NoPatch]
  /\ UNCHANGED <<settingRow, settingsLoad, begunPatches, meddled, undulyOpen>>

SettingsNext ==
  \/ LoadSettings \/ CacheSettings \/ SettingsExpire
  \/ \E k \in SettingKeys, fails \in BOOLEAN : EnterFeature(k, fails)
  \/ \E p \in AnyOne({q \in Patchers : patching[q] = NoPatch}) :
       \E body \in Patches, by \in {"tenant", "platform"} : BeginPatch(p, body, by)
  \/ \E p \in Patchers : PatchKey(p) \/ ReadRows(p) \/ \E fails \in BOOLEAN : RefreshCache(p, fails)

SettingsSpec == SettingsInit /\ [][SettingsNext]_settingsVars

----------------------------------------------------------------------------
SettingsTypeOK ==
  /\ settingRow \in [SettingKeys -> SettingValues \cup {Unset}]
  /\ {settingsCache, settingsLoad} \subseteq [SettingKeys -> SettingValues] \cup {Unset}
  /\ \A p \in Patchers : patching[p].pc \in {"idle", "write", "cache"}
  /\ begunPatches \in 0..MaxPatches /\ meddled \subseteq SettingKeys
  /\ {metPatch, halfDone, laggingSettings, undulyOpen} \subseteq BOOLEAN
OnlyDeviations == \A k \in SettingKeys : settingRow[k] # DefaultOf[k]
\* Between patches the cached settings are the rows over the defaults.
SettingsFollow == AtRest /\ ~Accounted => settingsCache \in {Unset, Merged(settingRow)}

(* Every variable keeps its type; a row exists for a deviation only; a     *)
(* tenant's patch never changes a platform key, however far it gets; the   *)
(* cached settings follow the rows, but for a patch refused half-way       *)
(* (tenant-settings.service.ts:80), two patches that meet, a slow load or  *)
(* a failing store; and a feature opens only when its row says so, also    *)
(* when the settings cannot be read (tenant-settings.cache.ts:31).         *)
SettingsSound ==
  SettingsTypeOK /\ OnlyDeviations /\ meddled = {} /\ SettingsFollow /\ ~undulyOpen
=============================================================================
