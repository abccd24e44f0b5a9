------------------------------- MODULE HostList -------------------------------
(***************************************************************************)
(* What the list shows: which hosts a query leaves, in which order, and    *)
(* the rows and headers they are drawn as (src/src/search.rs, recompute    *)
(* and group_order of src/src/app.rs, src/src/ui/list.rs).                 *)
(*                                                                         *)
(* The fuzzy score of a text is a constant, the decay of a host's usage is *)
(* left out, and names are the numbers that sort like their lower-case     *)
(* forms.  What is kept is how names of sites are compared: some           *)
(* comparisons fold the case of every letter, some that of a to z only.    *)
(***************************************************************************)
EXTENDS FiniteSets, Integers, SequencesExt, Retain

CONSTANTS
    Names,      \* host names, numbers that sort as the names do
    SiteNames,
    Lower,      \* the lower-case form of each site name
    Folded,     \* two names are equal but for the case of a to z iff this is
    Alphabet,   \* where a lower-case site name sorts
    Tags,
    Texts,      \* what may be typed besides filters
    Score,      \* how well a text matches a host, 0 when it does not
    None

\* typed: whether the search box holds anything at all, a space for instance.
Queries == [typed : BOOLEAN, tags : SUBSET Tags, site : SiteNames \cup {None},
            text : Texts \cup {None}]

NoQuery == [typed |-> FALSE, tags |-> {}, site |-> None, text |-> None]

SameSite(s, t) == Folded[s] = Folded[t]

\* Lower-case names have a place in the alphabet each; and who equals one but for
\* the case of a to z has it as its own lower-case form.
ASSUME HostListAssumption ==
    /\ Names \subseteq Int
    /\ None \notin SiteNames
    /\ Lower \in [SiteNames -> SiteNames]
    /\ \A s, t \in SiteNames : SameSite(s, Lower[t]) => Lower[s] = Lower[t]
    /\ Alphabet \in [SiteNames -> Int]
    /\ \A s, t \in SiteNames : Alphabet[Lower[s]] = Alphabet[Lower[t]] => Lower[s] = Lower[t]
    /\ Score \in [Texts \X Names \X (SiteNames \cup {None}) -> Nat]

\* Whether a host passes the filters; the query's site is in lower case.
Candidate(h, q) ==
    /\ q.tags \subseteq h.tags
    /\ q.site # None => h.site # None /\ SameSite(h.site, Lower[q.site])

Points(h, q) == IF q.text = None THEN 0 ELSE Score[<<q.text, h.name, h.site>>]

Matches(h, q) == Candidate(h, q) /\ (q.text # None => Points(h, q) > 0)

\* How much a host was used counts unless the list is sorted by name.
Used(h, q, uses, sort) == IF sort = "name" /\ q.text = None THEN 0 ELSE uses[h.id]

\* The elements of S, sorted by the pairs of which the first is before the second.
Sorted(S, before) ==
    LET place(x) == Cardinality({y \in S : <<y, x>> \in before})
    IN  [n \in 1..Cardinality(S) |-> CHOOSE x \in S : place(x) = n - 1]

\* Best match first, then most used, then by name; a stable sort of the rest.
Before(hosts, q, uses, sort, i, j) ==
    LET a == hosts[i]
        b == hosts[j]
        key(h) == <<-Points(h, q), -Used(h, q, uses, sort), h.name>>
    IN  \E n \in 1..4 :
            /\ \A m \in 1..(n - 1) : key(a)[m] = key(b)[m]
            /\ IF n = 4 THEN i < j ELSE key(a)[n] < key(b)[n]

Rank(hosts, q, uses, sort) ==
    LET S == {i \in DOMAIN hosts : Matches(hosts[i], q)}
    IN  Sorted(S, {x \in S \X S : Before(hosts, q, uses, sort, x[1], x[2])})

\* The names of the sections, in the order they are shown.
SectionKeys(hosts, ranked) ==
    LET S == {Lower[hosts[i].site] : i \in {j \in ToSet(ranked) : hosts[j].site # None}}
    IN  Sorted(S, {x \in S \X S : Alphabet[x[1]] < Alphabet[x[2]]})

\* Which hosts a section takes, and which have none.
Sectioned(hosts, k) == {i \in DOMAIN hosts : hosts[i].site # None /\ SameSite(hosts[i].site, k)}
Siteless(hosts) == {i \in DOMAIN hosts : hosts[i].site = None}

Sections(hosts, ranked) ==
    LET keys == SectionKeys(hosts, ranked)
    IN  [n \in DOMAIN keys |-> Retained(ranked, Sectioned(hosts, keys[n]))]

\* Mutant: a host without a site is in no section.
GroupOrderNoSiteless(hosts, ranked) == FlattenSeq(Sections(hosts, ranked))

\* The hosts of each site together, those without one last.
GroupOrder(hosts, ranked) ==
    FlattenSeq(Sections(hosts, ranked)) \o Retained(ranked, Siteless(hosts))

\* recompute: sections while nothing is typed, the ranking otherwise.
Order(hosts, q, uses, sort) ==
    LET ranked == Rank(hosts, q, uses, sort)
    IN  IF q.typed THEN ranked ELSE GroupOrder(hosts, ranked)

Clamped(selected, order) ==
    IF selected < Len(order) THEN selected
    ELSE IF order = <<>> THEN 0 ELSE Len(order) - 1

\* What a host is shown under, and the rows: a header (0) where it changes,
\* none while a query is typed.
SectionKey(h) == IF h.site = None THEN None ELSE Lower[h.site]

Headed(hosts, order, p) ==
    p = 1 \/ SectionKey(hosts[order[p]]) # SectionKey(hosts[order[p - 1]])

Rows(hosts, order, q) ==
    FlattenSeq([p \in DOMAIN order |->
        IF ~q.typed /\ Headed(hosts, order, p) THEN <<0, order[p]>> ELSE <<order[p]>>])

\* The row drawn as selected: the headers above it shift it.
Cursor(hosts, order, q, selected) ==
    Len(Rows(hosts, SubSeq(order, 1, selected + 1), q))
=============================================================================
