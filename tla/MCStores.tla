------------------------------ MODULE MCStores ------------------------------
(* A hosts file, at home or elsewhere, with one host, which is in a site and *)
(* on a credential; another id may be given to a host of the same name.      *)
EXTENDS Stores, TLC

CONSTANTS h1, h2, name, corp, east, west, home, moved

MCNames == [h \in {h1, h2} |-> name]

OneHost ==
    [hosts |-> h1 :> [cred |-> corp, site |-> east],
     creds |-> {corp}, sites |-> {east}]

MCInitial == {home :> OneHost @@ moved :> None, home :> None @@ moved :> OneHost}

Interchangeable == Permutations(Calls)
=============================================================================
