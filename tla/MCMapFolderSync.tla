-------------------------- MODULE MCMapFolderSync --------------------------
(* Model checking of MapFolderSync: one folder with two messages, or two   *)
(* folders with one message each.                                          *)
EXTENDS MapFolderSync, TLC

CONSTANTS t1, t2, f1, f2, m1, m2

MCThreads  == {t1, t2}
MCMessages == {m1, m2}

OneFolder  == {f1}
TwoFolders == {f1, f2}

AllInOne == [m \in MCMessages |-> f1]
OneEach  == m1 :> f1 @@ m2 :> f2

\* Threads are interchangeable; so are the messages of one folder.
ThreadSymmetry  == Permutations(MCThreads)
FolderSymmetry  == Permutations(MCThreads) \cup Permutations(MCMessages)

============================================================================
