SPECIFICATION DeploySpec
CONSTANTS
  Bootstraps = {b1}
  Replicas = {}
  CatalogueRoles = {superAdmin}
  Super = superAdmin
  CatalogueKeys = {key1}
  Bundles <- SuperAlone
  LegacyKeys = {oldKey}
  ExtraKeys = {}
  MaxChoices = 0
CHECK_DEADLOCK FALSE
INVARIANT ProvisionIsIdempotent
