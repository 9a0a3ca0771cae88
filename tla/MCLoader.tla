------------------------------ MODULE MCLoader ------------------------------
(***************************************************************************)
(* A small instance of LoaderBoot: two pieces, two patches in the second.  *)
(***************************************************************************)
EXTENDS LoaderBoot

MCPatchAt == <<1, 2, 2>>
=============================================================================
