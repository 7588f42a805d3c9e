--------------------------- MODULE MCHotArtifacts ---------------------------
(* Instances of HotArtifacts for TLC.                                      *)
EXTENDS HotArtifacts, TLC

ReaderSymmetry == Permutations(Readers)
HotSymmetry == Permutations(Readers) \cup Permutations(Flights)
=============================================================================
