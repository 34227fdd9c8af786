--------------------------- MODULE MCSystemUpdate ---------------------------
(* Small instances of SystemUpdate.                                        *)
EXTENDS SystemUpdate, TLC

CliSymmetry == Permutations(Cli)
=============================================================================
