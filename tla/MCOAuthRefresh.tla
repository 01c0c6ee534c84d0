--------------------------- MODULE MCOAuthRefresh ---------------------------
(***************************************************************************)
(* OAuthRefresh on a profile with a few processes.                         *)
(***************************************************************************)
EXTENDS OAuthRefresh, TLC

\* Every process runs the same program.
Peers == Permutations(Procs)
=============================================================================
