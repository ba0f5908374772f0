------------------------ MODULE MC_ConnectorRegistry ------------------------
(* Small instances of ConnectorRegistry for TLC. *)
EXTENDS ConnectorRegistry, TLC

CONSTANTS OtherProvider

MC_Provider == {"opensearch", "openrouter", OtherProvider}
MC_RegistryProvider == {"opensearch", "openrouter"}
MC_DataProvider == {"opensearch", OtherProvider}
MC_OneProvider == {"opensearch"}

(* Ids and endpoints are interchangeable; the tenants differ. *)
MC_Symmetry ==
  Permutations(Id) \cup Permutations(Endpoint)
=============================================================================
