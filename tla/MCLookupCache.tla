---------------------------- MODULE MCLookupCache ----------------------------
(* Model-checking instances of LookupCache. *)
EXTENDS LookupCache

CONSTANTS c1, c2

=============================================================================
