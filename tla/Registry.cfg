\* One API process; one tenant adds a provider twice and its rows may be
\* unreadable at a restart, the other has one integration per provider.
CONSTANTS
  Tenant = {t1, t2}
  Provider <- MC_Provider
  RegistryProvider <- MC_RegistryProvider
  Id = {i1, i2}
  Endpoint = {e1, e2}
  NoEndpoint = noendpoint
  Model = {m1}
  NoModel = nomodel
  Blank = blank
  Default = default
  NoRow = norow
  OtherProvider = slack
  ApiProcess = {p}
  Duplicates = {t1}
  StoreFaults = {t1}
SPECIFICATION Spec
SYMMETRY MC_Symmetry
INVARIANTS
  TypeOK
  RegistryBacked
  RestartKeepsSteady
  ConnectorInUse
PROPERTY
  RestartHeals
