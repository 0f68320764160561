------------------------- MODULE MCMapMessageFetch -------------------------
(* Model checking of MapMessageFetch on a few threads and messages.        *)
EXTENDS MapMessageFetch, TLC

CONSTANTS t1, t2, t3, m1, m2

MCThreads == {t1, t2, t3}
MCUids    == {m1, m2}

\* Threads and messages are interchangeable; used in runs without liveness.
Symmetry == Permutations(MCThreads) \cup Permutations(MCUids)

============================================================================
