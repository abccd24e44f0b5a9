------------------------------- MODULE MCConnect -------------------------------
(* Two processes, one key of the store that all hosts share, one secret that   *)
(* gets in and one that does not.                                              *)
EXTENDS Connect, TLC
CONSTANTS right, wrong
Interchangeable == Permutations(Procs)
MCFiles == {"open", "sealed", "second", "long"}
MCSealed == {"sealed", "second", "long"}
MCLong == {"long"}
MCRight == [k \in Keys |-> {right}]
AHost(a, f, j, c, x) ==
    {[auth |-> a, files |-> f, jump |-> j, twofa |-> c, skey |-> k, free |-> x] : k \in Keys}
MCHosts == UNION {
    AHost("password", {}, "none", FALSE, FALSE),
    AHost("password", {}, "one", TRUE, FALSE),
    AHost("password", {}, "many", FALSE, FALSE),
    AHost("password", {}, "none", FALSE, TRUE),
    AHost("key", {"sealed", "second"}, "one", FALSE, FALSE),
    AHost("key", {"open", "sealed"}, "none", TRUE, TRUE),
    AHost("key", {"long"}, "odd", FALSE, FALSE),
    AHost("key", {"long"}, "none", FALSE, FALSE),
    AHost("agent", {}, "one", TRUE, FALSE)}
MCWorlds == {
    [vault |-> FALSE, tmux3 |-> TRUE, runtime |-> TRUE],
    [vault |-> FALSE, tmux3 |-> FALSE, runtime |-> FALSE],
    [vault |-> TRUE, tmux3 |-> TRUE, runtime |-> TRUE]}
=============================================================================
