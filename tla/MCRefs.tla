------------------------------- MODULE MCRefs -------------------------------
(***************************************************************************)
(* The history variables and the documented claims, on the repositories    *)
(* and commands of MCRefStore.                                             *)
(***************************************************************************)
EXTENDS RefClaims, MCRefStore
=============================================================================
