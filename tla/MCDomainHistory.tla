--------------------------- MODULE MCDomainHistory ---------------------------
(* Small instances of DomainHistory for TLC. *)
EXTENDS DomainHistory
=============================================================================
