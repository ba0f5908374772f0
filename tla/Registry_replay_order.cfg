\* Two integrations of one provider.
CONSTANTS
  Tenant = {t1}
  Provider <- MC_OneProvider
  RegistryProvider <- MC_OneProvider
  Id = {i1, i2}
  Endpoint = {e1, e2}
  NoEndpoint = noendpoint
  Model = {}
  NoModel = nomodel
  Blank = blank
  Default = default
  NoRow = norow
  OtherProvider = slack
  ApiProcess = {p}
  Duplicates = {t1}
  StoreFaults = {}
SPECIFICATION Spec
INVARIANT
  RestartChangesNothing
