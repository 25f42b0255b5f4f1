--------------------------- MODULE MCMetadataStore ---------------------------
(* Three log works: enough for a deletion to shift two later keys.           *)
EXTENDS MetadataStore
=============================================================================
