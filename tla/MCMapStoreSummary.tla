------------------------- MODULE MCMapStoreSummary -------------------------
(* Model checking of MapStoreSummary with up to three nested folders.      *)
EXTENDS MapStoreSummary, TLC

CONSTANTS i1, i2, i3, a, b

TwoIds   == {i1, i2}
ThreeIds == {i1, i2, i3}
MCNames  == {a, b}

Symmetry == Permutations(Ids) \cup Permutations(Names)

============================================================================
