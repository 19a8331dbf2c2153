----------------------------- MODULE MCVolumes -----------------------------
EXTENDS VolumeProperties, TLC
CONSTANTS a1, a2, v1, v2, data, files
MCHome == [a \in App |-> a]
Symmetry == {swap @@ move : swap \in Permutations(App), move \in Permutations(Path)}
=============================================================================
