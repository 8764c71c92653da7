-------------------------- MODULE MCProjectionHost --------------------------
(* Instances of ProjectionHost for TLC.                                    *)
EXTENDS ProjectionHost, TLC

HostSymmetry == Permutations(Hosts)
=============================================================================
