--------------------------------- MODULE MCApp ---------------------------------
(* Two hosts of sites spelled in two ways, up to four after two changes; filters *)
(* by site and tag, and a text that matches two of the names.                   *)
EXTENDS App
MCSiteNames == {"alpha", "Alpha", "zeta", "Ecole", "ecole"}
MCLower == [s \in MCSiteNames |->
               CASE s = "Alpha" -> "alpha" [] s = "Ecole" -> "ecole" [] OTHER -> s]
\* The capital of Ecole stands for one beyond A to Z, which only Lower folds.
MCFolded == [s \in MCSiteNames |-> IF s = "Alpha" THEN "alpha" ELSE s]
MCAlphabet == [alpha |-> 1, zeta |-> 3, Alpha |-> 0, ecole |-> 2, Ecole |-> 0]
MCScore == [x \in {"text"} \X Names \X (SiteNames \cup {None}) |->
               IF x[2] = 1 THEN 2 ELSE IF x[2] = 3 \/ x[3] = "zeta" THEN 1 ELSE 0]
Host(i, n, s, t, c) ==
    [id |-> i, name |-> n, site |-> s, tags |-> t, tfa |-> c, cred |-> None]
MCStarts == {[hosts |-> <<Host(1, 2, "Alpha", {"tag"}, FALSE), Host(2, 1, None, {}, TRUE)>>,
              sites |-> {"alpha", "zeta"}]}
MCOthers == {[hosts |-> <<Host(3, 1, "Ecole", {}, FALSE)>>, sites |-> {"alpha"}]}
MCImports == {<<1, 4>>}
MCEntered == {[name |-> 3, site |-> "alpha"]}
MCSiteLists == {{"Alpha"}, {"alpha", "zeta"}}
MCAsked == {[NoQuery EXCEPT !.typed = TRUE, !.tags = {"tag"}, !.site = "Alpha"],
            [NoQuery EXCEPT !.typed = TRUE, !.text = "text"]}
=============================================================================
