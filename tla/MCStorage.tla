----------------------------- MODULE MCStorage -----------------------------
(* Three certificates, two of them of one type, for module Storage.        *)
EXTENDS Storage

CONSTANTS k1, k2, k3

MCFilters == {{k1}, {k2}, {k3}, {k1, k2}}
=============================================================================
