---------------------------- MODULE MCLibvirtPool ----------------------------
(* A small instance of LibvirtPool for TLC.  No symmetry: liveness is checked. *)
EXTENDS LibvirtPool
=============================================================================
