----------------------------- MODULE MCCatalog -----------------------------
(* Instances of Catalog for TLC. *)
EXTENDS Catalog

CONSTANTS A, B

SchemaA == <<A>>

=============================================================================
