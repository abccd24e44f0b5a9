------------------------------ MODULE MCForwards ------------------------------
(* Two screens, two forwards, one spec for both.                           *)
EXTENDS Forwards, TLC
CONSTANT s1
Interchangeable == Permutations(Tuis) \cup Permutations(Pids)
MCShows == {<<s1, s1>>}
=============================================================================
