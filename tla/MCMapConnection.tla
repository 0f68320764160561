-------------------------- MODULE MCMapConnection --------------------------
(* Model checking of MapConnection: two threads, two folders, and a phone  *)
(* whose session is lost and made again.                                   *)
EXTENDS MapConnection, TLC

CONSTANTS t1, t2, f1, f2

MCThreads == {t1, t2}
MCFolders == {f1, f2}

Symmetry == Permutations(MCThreads) \cup Permutations(MCFolders)

============================================================================
