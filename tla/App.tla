---------------------------------- MODULE App ----------------------------------
(***************************************************************************)
(* The list and the popups it opens (src/src/app.rs, src/src/state.rs):    *)
(* hosts are referred to by their place in memory (the order shown, what a *)
(* popup was opened for, the connect that is waiting) and by id (marks,    *)
(* the deletion that is being confirmed), while popups add, replace,       *)
(* remove and adopt hosts.  Pick mode is the same list with fewer keys.    *)
(*                                                                         *)
(* The files are those of Stores, a connect is that of Connect, forwards   *)
(* and transfers have modules of their own; here a popup for them is open  *)
(* until it is closed.  What the forms do with keys is in Entry.           *)
(***************************************************************************)
EXTENDS HostList

CONSTANTS
    Starts,     \* what the hosts file may hold at first: the hosts and the sites
    Others,     \* what there may be where the settings point
    Imports,    \* what ~/.ssh/config may hold: sequences of names
    Entered,    \* what the form may say of a host: its name and its site
    SiteLists,  \* what the site manager may leave
    Asked,      \* the queries that are typed
    FirstNew,   \* bound: ids are given out from this one, which no file has
    Sorts,      \* settings of default_sort
    MaxId,      \* bound: ids given out
    MaxChanges, \* bound: changes to the hosts
    MaxUses     \* bound: how often one host is used

Ids == 1..MaxId
Creds == {0}  \* shared credentials; a key of the secret store is a host's id or one of them

HostType == [id : Ids, name : Names, site : SiteNames \cup {None}, tags : SUBSET Tags,
             tfa : BOOLEAN, cred : Creds \cup {None}]

\* What the files and the keys may bring: hosts with an id each, and queries that are
\* not empty.
ASSUME AppAssumption ==
    /\ MaxId \in Nat /\ MaxUses \in Nat /\ FirstNew \in Ids /\ None \notin Ids
    /\ \A f \in Starts \cup Others :
          /\ f.hosts \in Seq(HostType)
          /\ \A i \in DOMAIN f.hosts : f.hosts[i].id < FirstNew
          /\ \A i, j \in DOMAIN f.hosts : f.hosts[i].id = f.hosts[j].id => i = j
          /\ f.sites \subseteq SiteNames
    /\ Imports \subseteq Seq(Names)
    /\ Entered \subseteq [name : Names, site : SiteNames \cup {None}]
    /\ SiteLists \subseteq SUBSET SiteNames
    /\ \A q \in Asked : q \in Queries /\ q.typed

VARIABLES
    hosts, sites,  \* the database in memory
    uses,          \* how often each host was used
    query, order, selected,
    marked,        \* ids marked with ^s
    popup,         \* what is open over the list, and for which hosts
    world,         \* whether this is pick mode, whether in tmux, and the sort
    pending,       \* the host to connect to or to print, 0 for none
    quit,
    next,          \* the next id
    changes,       \* how often the hosts have changed
    stored,        \* history: the keys of the secret store the last key wrote
    chosen         \* history: the hosts the user saw the last key to be about

appVars == <<hosts, sites, uses, query, order, selected, marked, popup, world, pending,
             quit, next, changes, stored, chosen>>

\* at: the places of the hosts it is for; id: the host it will edit or delete.
Popups == [kind : {"none", "help", "wizard", "confirm", "settings", "sites", "forward",
                   "forwards", "code", "bulk", "transfer"},
           at : SUBSET Nat, id : Ids \cup {None}]

Over(kind, at, id) == [kind |-> kind, at |-> at, id |-> id]
NoPopup == Over("none", {}, None)

Init ==
    /\ \E f \in Starts : hosts = f.hosts /\ sites = f.sites
    /\ uses = [i \in Ids |-> 0]
    /\ world \in [pick : BOOLEAN, tmux : BOOLEAN, sort : Sorts]
    /\ query \in IF world.pick THEN Asked \cup {NoQuery} ELSE {NoQuery}
    /\ order = Order(hosts, query, uses, world.sort)
    /\ selected = 0
    /\ marked = {}
    /\ popup \in {NoPopup} \cup IF world.pick THEN {} ELSE {Over("wizard", {}, None)}
    /\ pending = 0
    /\ quit = FALSE
    /\ next = FirstNew
    /\ changes = 0
    /\ stored = {}
    /\ chosen = {}

Opens(p) == popup = NoPopup /\ ~quit /\ ~world.pick /\ popup' = p
IsOpen(kind) == popup.kind = kind /\ ~quit

\* The host under the cursor.
HasCurrent == selected < Len(order)
Current == order[selected + 1]

IdsOf(h) == {h[i].id : i \in DOMAIN h}
IdsAt(at) == {hosts[i].id : i \in at}

\* The database changes, and the list with it.
Changed(h, s, u) ==
    /\ changes < MaxChanges
    /\ changes' = changes + 1
    /\ hosts' = h
    /\ sites' = s
    /\ uses' = u
    /\ order' = Order(h, query, u, world.sort)
    /\ selected' = Clamped(selected, order')
-----------------------------------------------------------------------------
(* The keys of the list.                                                   *)

ListKey ==
    /\ popup = NoPopup /\ ~quit
    /\ stored' = {}
    /\ UNCHANGED <<hosts, sites, world, next, changes>>

Looks(q, n) ==
    /\ query' = q
    /\ order' = Order(hosts, q, uses, world.sort)
    /\ selected' = Clamped(n, order')

\* A character or a backspace, which starts again from the first row.
TypeQuery ==
    /\ ListKey
    /\ \E q \in Asked \cup {NoQuery} : Looks(q, 0)
    /\ chosen' = {}
    /\ UNCHANGED <<uses, marked, popup, pending, quit>>

\* Esc undoes the marks, then the query, then leaves; ^c leaves.
Esc ==
    /\ ListKey
    /\ \/ marked # {} /\ marked' = {} /\ UNCHANGED <<query, order, selected, quit>>
       \/ /\ marked = {} /\ query.typed
          /\ Looks(NoQuery, 0)
          /\ UNCHANGED <<marked, quit>>
       \/ quit' = TRUE /\ UNCHANGED <<query, order, selected, marked>>
    /\ chosen' = {}
    /\ UNCHANGED <<uses, popup, pending>>

Move ==
    /\ ListKey
    /\ \/ selected + 1 < Len(order) /\ selected' = selected + 1
       \/ selected > 0 /\ selected' = selected - 1
    /\ chosen' = {}
    /\ UNCHANGED <<uses, query, order, marked, popup, pending, quit>>

ToggleMark ==
    /\ ListKey /\ HasCurrent
    /\ LET id == hosts[Current].id
       IN  marked' = IF id \in marked THEN marked \ {id} ELSE marked \cup {id}
    /\ chosen' = {}
    /\ UNCHANGED <<uses, query, order, selected, popup, pending, quit>>

\* The usage statistics after a connect to a host, and without a deleted one.
Recorded(id) == [uses EXCEPT ![id] = @ + 1]
Forgotten(id) == [uses EXCEPT ![id] = 0]

\* Connecting at i: a window of tmux, which counts as a use at once, or the
\* screen ends and the connect follows.
Connect(i, code) ==
    \/ /\ pending' = i /\ quit' = TRUE
       /\ UNCHANGED uses
    \/ /\ world.tmux /\ ~code
       /\ uses[hosts[i].id] < MaxUses
       /\ uses' = Recorded(hosts[i].id)
       /\ UNCHANGED <<pending, quit>>

\* Enter: pick mode stops here; a host with a code is asked for it unless a
\* first secret is to be asked for, which Connect decides.
Enter ==
    /\ ListKey /\ HasCurrent
    /\ chosen' = IF world.pick /\ marked # {} THEN marked ELSE {hosts[Current].id}
    /\ \/ /\ world.pick
          /\ pending' = Current /\ quit' = TRUE
          /\ UNCHANGED <<uses, popup>>
       \/ /\ ~world.pick /\ hosts[Current].tfa
          /\ popup' = Over("code", {Current}, None)
          /\ UNCHANGED <<uses, pending, quit>>
       \/ ~world.pick /\ Connect(Current, FALSE) /\ UNCHANGED popup
    /\ UNCHANGED <<query, order, selected, marked>>

Stays == UNCHANGED <<uses, query, order, selected, marked, pending, quit>>

\* ^t, ^f, ^e and ^d, for the host under the cursor.
OpenForHost ==
    /\ ListKey /\ HasCurrent
    /\ \/ \E k \in {"transfer", "forward"} : Opens(Over(k, {Current}, None))
       \/ \E k \in {"wizard", "confirm"} : Opens(Over(k, {}, hosts[Current].id))
    /\ chosen' = {hosts[Current].id}
    /\ Stays

\* ^a, F1, F2, F3 and F4.
OpenOther ==
    /\ ListKey
    /\ \E k \in {"wizard", "help", "settings", "sites", "forwards"} : Opens(Over(k, {}, None))
    /\ chosen' = {}
    /\ Stays

\* Mutant: marked hosts that the filter hides are left out.
BulkTargetsShown ==
    IF marked = {} THEN ToSet(order) ELSE {i \in ToSet(order) : hosts[i].id \in marked}

\* What is marked, or all that is shown when nothing is.
BulkTargets ==
    IF marked = {} THEN ToSet(order) ELSE {i \in DOMAIN hosts : hosts[i].id \in marked}

OpenBulkSecret ==
    /\ ListKey
    /\ BulkTargets # {}
    /\ Opens(Over("bulk", BulkTargets, None))
    /\ chosen' = LET shown == marked \cap IdsOf(hosts)
                 IN  IF shown # {} THEN shown ELSE IdsAt(ToSet(order))
    /\ Stays
-----------------------------------------------------------------------------
(* Popups.                                                                 *)

\* Esc, or whatever ends a popup without a change of the hosts.
ClosePopup ==
    /\ popup # NoPopup /\ ~quit
    /\ popup' = NoPopup
    /\ chosen' = {}
    /\ UNCHANGED <<hosts, sites, world, next, changes, stored>>
    /\ Stays

Saves(kind) ==
    /\ IsOpen(kind)
    /\ popup' = NoPopup
    /\ chosen' = {}
    /\ UNCHANGED <<query, world, pending, quit>>

\* The form: it builds the host anew and replaces the one it was opened for.  No
\* secret is typed, or it is not stored, or it is.
SaveForm ==
    /\ Saves("wizard")
    /\ UNCHANGED marked
    /\ \E e \in Entered, tfa \in BOOLEAN, secret \in BOOLEAN :
          LET id == IF popup.id = None THEN next ELSE popup.id
              h == [id |-> id, name |-> e.name, site |-> e.site, tags |-> {}, tfa |-> tfa,
                    cred |-> None]
              at == {i \in DOMAIN hosts : hosts[i].id = id}
          IN  /\ id \in Ids
              /\ Changed(IF at = {} THEN Append(hosts, h)
                         ELSE [i \in DOMAIN hosts |-> IF i \in at THEN h ELSE hosts[i]],
                         sites, uses)
              /\ stored' = IF secret THEN {id} ELSE {}
              /\ next' = IF popup.id = None THEN next + 1 ELSE next

Besides(id) == {h \in ToSet(hosts) : h.id # id}

\* Mutant: the list is not ranked again after a deletion.
DeletedUnranked ==
    /\ Saves("confirm")
    /\ changes < MaxChanges /\ changes' = changes + 1
    /\ hosts' = Retained(hosts, Besides(popup.id))
    /\ uses' = Forgotten(popup.id)
    /\ UNCHANGED <<sites, order, selected, marked, next, stored>>

\* y in the confirmation.  A mark of the host stays.
Delete ==
    /\ Saves("confirm")
    /\ Changed(Retained(hosts, Besides(popup.id)), sites, Forgotten(popup.id))
    /\ UNCHANGED <<marked, next, stored>>

\* The manager's sites; members of a renamed site follow, those of one that is
\* gone have none.
SaveSites ==
    /\ Saves("sites")
    /\ \E s \in SiteLists, rename \in {<<>>} \cup (sites \X SiteNames) :
          LET site(h) == IF rename # <<>> /\ h.site # None /\ SameSite(h.site, rename[1])
                         THEN rename[2] ELSE h.site
              defined == {None} \cup {t \in SiteNames : \E d \in s : Lower[t] = Lower[d]}
          IN  /\ rename # <<>> => rename[2] \in s
              /\ Changed([i \in DOMAIN hosts |-> [hosts[i] EXCEPT
                             !.site = IF site(hosts[i]) \in defined THEN site(hosts[i])
                                      ELSE None]],
                         s, uses)
    /\ UNCHANGED <<marked, next, stored>>

\* The settings name another file, which is adopted.
Adopt ==
    /\ Saves("settings")
    /\ \E f \in Others : Changed(f.hosts, f.sites, uses)
    /\ UNCHANGED <<marked, next, stored>>

\* ^o: the hosts of ~/.ssh/config whose names are new.
ImportSshConfig ==
    /\ popup = NoPopup /\ ~quit /\ ~world.pick
    /\ \E f \in Imports :
          LET fresh == Retained(f, Names \ {h.name : h \in ToSet(hosts)})
              new == [i \in DOMAIN fresh |->
                         [id |-> next + i - 1, name |-> fresh[i], site |-> None, tags |-> {},
                          tfa |-> FALSE, cred |-> None]]
          IN  /\ next + Len(fresh) <= MaxId + 1
              /\ Changed(hosts \o new, sites, uses)
              /\ next' = next + Len(fresh)
    /\ UNCHANGED <<query, marked, popup, world, pending, quit, stored, chosen>>

\* One password, stored for each host.  A store may fail.
BulkEach ==
    /\ \E failed \in SUBSET popup.at :
          LET key(h) == IF h.cred = None THEN h.id ELSE h.cred
          IN  stored' = {key(hosts[i]) : i \in popup.at \ failed}
    /\ Changed(hosts, sites, uses)

Bound(cred) == [i \in DOMAIN hosts |->
                   IF i \in popup.at THEN [hosts[i] EXCEPT !.cred = cred] ELSE hosts[i]]

\* A shared credential, with or without its secret; nothing changes when that
\* cannot be stored.
BulkShared ==
    \/ \E c \in Creds : stored' \in {{}, {c}} /\ Changed(Bound(c), sites, uses)
    \/ UNCHANGED stored /\ Changed(hosts, sites, uses)

BulkUnbind == UNCHANGED stored /\ Changed(Bound(None), sites, uses)

ApplyBulk ==
    /\ Saves("bulk")
    /\ marked' = {}
    /\ BulkEach \/ BulkShared \/ BulkUnbind
    /\ UNCHANGED next

\* The code of a host that asks for one: the connect cannot leave the screen.
SubmitCode ==
    /\ IsOpen("code")
    /\ popup' = NoPopup
    /\ \E i \in popup.at : Connect(i, TRUE)
    /\ UNCHANGED <<hosts, sites, query, order, selected, marked, world, next, changes, stored,
                   chosen>>

Next ==
    \/ TypeQuery \/ Esc \/ Move \/ ToggleMark \/ Enter
    \/ OpenForHost \/ OpenOther \/ OpenBulkSecret \/ ClosePopup
    \/ SaveForm \/ Delete \/ SaveSites \/ Adopt \/ ImportSshConfig \/ ApplyBulk \/ SubmitCode

Spec == Init /\ [][Next]_appVars

\* What pick mode prints: the marked hosts, or the one that was chosen.
PickedNames ==
    IF pending = 0 THEN {}
    ELSE IF marked = {} THEN {pending}
    ELSE {i \in DOMAIN hosts : hosts[i].id \in marked}
-----------------------------------------------------------------------------
(* Properties.                                                             *)

\* The type invariant, with what the code indexes without asking: the order, the
\* selection, and the hosts a popup or a connect is for exist.
AppTypeOK ==
    /\ hosts \in Seq(HostType)
    /\ sites \subseteq SiteNames
    /\ uses \in [Ids -> 0..MaxUses]
    /\ stored \subseteq Ids \cup Creds
    /\ query \in Queries
    /\ order \in Seq(DOMAIN hosts)
    /\ selected \in {0} \cup 0..(Len(order) - 1)
    /\ marked \subseteq Ids
    /\ popup \in Popups /\ popup.at \subseteq DOMAIN hosts
    /\ pending \in DOMAIN hosts \cup {0}
    /\ chosen \subseteq Ids
    /\ world \in [pick : BOOLEAN, tmux : BOOLEAN, sort : Sorts]
    /\ quit \in BOOLEAN
    /\ next \in FirstNew..(MaxId + 1)

\* Hosts whose site is in no section: its name has a capital beyond A to Z, which
\* the key of a section folds and the comparison with it does not.
Unsectioned(h) == h.site # None /\ ~SameSite(h.site, Lower[h.site])

\* Each host that the query matches is in the list exactly once; when nothing is
\* typed all are that a section takes, each site has one header, with its hosts
\* below it; and the row drawn as selected is that of the host a key acts on
\* (App::recompute, group_order, render_list).
ListIsWhole ==
    LET rows == Rows(hosts, order, query)
        header(p) == rows[p] = 0
        headed(p) == SectionKey(hosts[rows[p + 1]])
    IN  /\ IsInjective(order)
        /\ ToSet(order) = {i \in DOMAIN hosts :
               IF query.typed THEN Matches(hosts[i], query) ELSE ~Unsectioned(hosts[i])}
        /\ \A p, q \in DOMAIN rows :
              header(p) /\ header(q) /\ headed(p) = headed(q) => p = q
        /\ HasCurrent => rows[Cursor(hosts, order, query, selected)] = Current

Of(id, h) == {x \in ToSet(h) : x.id = id}
Touched == {id \in IdsOf(hosts) : Of(id, hosts) # Of(id, hosts')}

OnTheChosen ==
    /\ popup.kind \in {"wizard", "confirm", "bulk"} =>
          Touched \subseteq chosen /\ stored' \cap IdsOf(hosts) \subseteq chosen
    /\ popup.kind = "bulk" /\ Touched # {} =>
          \E c \in Creds \cup {None} : \A h \in ToSet(hosts') : h.id \in chosen => h.cred = c
    /\ popup.at # {} => IdsAt(popup.at) = chosen
    /\ pending' # pending =>
          chosen' = IF world.pick THEN {hosts[i].id : i \in PickedNames'}
                    ELSE {hosts[pending'].id}

\* What is connected to or printed, edited, deleted or given credentials is what the
\* user saw to be chosen: the host under the cursor when the key was pressed, or all
\* the marked hosts whatever the filter has hidden since; and all of it.
ActsOnTheChosen == [][OnTheChosen]_appVars
=============================================================================
