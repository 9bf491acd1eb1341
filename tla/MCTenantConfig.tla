--------------------------- MODULE MCTenantConfig ---------------------------
(* Instances of TenantConfig for TLC. *)
EXTENDS TenantConfig, TLC, FiniteSets

Alike == Permutations(Ops)

Everything == Kinds
Publishing == {"deploy", "switch", "delete"}
Changing == {"deploy", "status"}
=============================================================================
