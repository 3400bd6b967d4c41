-------------------------- MODULE MCDirectoryTools --------------------------
(* DirectoryTools for TLC. *)
EXTENDS DirectoryTools
=============================================================================
