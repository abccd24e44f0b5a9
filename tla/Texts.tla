-------------------------------- MODULE Texts --------------------------------
(* What the modules about lines, forms and imports share: a mark for nothing, *)
(* and texts whose inside is given by a constant of those modules.            *)
EXTENDS Naturals, SequencesExt

CONSTANTS
    None,     \* nothing there
    LowerOf   \* texts with capitals, in lower case

Lookup(f, text, otherwise) == IF text \in DOMAIN f THEN f[text] ELSE otherwise
Lowered(text) == Lookup(LowerOf, text, text)
SameText(a, b) == Lowered(a) = Lowered(b)
Else(x, y) == IF x # None THEN x ELSE y
Written(pieces) == FoldLeft(LAMBDA a, b : a \o b, "", pieces)
=============================================================================
