------------------------------ MODULE HostFile ------------------------------
(***************************************************************************)
(* The host database as data: what hosts.toml holds, the edits sshelf      *)
(* makes to it, and a session of the sites manager (src/src/model.rs,      *)
(* src/src/import.rs, src/src/ui/sites.rs and the handlers of main.rs and  *)
(* app.rs that edit a database).  Nothing here reads or writes a file;     *)
(* Stores says who does and when.                                          *)
(***************************************************************************)
EXTENDS Naturals, Sequences

CONSTANTS
    Hosts,   \* host ids: a fresh one for every host ever added
    NameOf,  \* the name of each, which editing never changes here
    Creds,   \* names of shared credentials
    Sites,   \* names of sites
    None     \* no credential, no site, no file

HostRecords == [cred : Creds \cup {None}, site : Sites \cup {None}]

\* A host that is in the file is in the domain of "hosts".
Contents ==
    [hosts : UNION {[S -> HostRecords] : S \in SUBSET Hosts},
     creds : SUBSET Creds,
     sites : SUBSET Sites]

Empty == [hosts |-> [h \in {} |-> [cred |-> None, site |-> None]],
          creds |-> {}, sites |-> {}]

ASSUME HostFileAssumption ==
    /\ None \notin Hosts \cup Creds \cup Sites
    /\ None \notin Contents
    /\ Hosts \cap Creds = {}

Keys == Hosts \cup Creds

Listed(x) == DOMAIN x.hosts

SecretKey(x, h) == IF x.hosts[h].cred = None THEN h ELSE x.hosts[h].cred

\* Mutant: the secret goes, shared or not.
SharedSecretToo(x, h) == {SecretKey(x, h)}

\* The secret that goes with a host when it is deleted.
OwnSecret(x, h) == {SecretKey(x, h)} \cap Hosts

Users(x, c) == {h \in Listed(x) : x.hosts[h].cred = c}

NameTaken(x, h) == \E k \in Listed(x) : NameOf[k] = NameOf[h]

\* Mutant: an import does not look at the names that are there.
AllHosts(x, H) == H

NewHosts(x, H) == {h \in H : ~NameTaken(x, h)}
-----------------------------------------------------------------------------
(* Edits.  Each says what one command or popup does to the database it is  *)
(* applied to, which is the one its process holds in memory.               *)

Changes ==
         [op : {"host"}, host : Hosts, record : HostRecords]
    \cup [op : {"import"}, hosts : SUBSET Hosts, site : Sites \cup {None}]
    \cup [op : {"delete"}, host : Hosts]
    \cup [op : {"bind"}, hosts : SUBSET Hosts, cred : Creds \cup {None}, declare : BOOLEAN]
    \cup [op : {"declare", "remove"}, cred : Creds]
    \cup [op : {"site"}, site : Sites]
    \cup [op : {"sites"}, sites : SUBSET Sites, renames : Seq(Sites \X Sites)]

NoChange == [op |-> "none"]

Edits == Changes \cup {[op |-> "none"]}

PutHost(x, h, r) ==
    [x EXCEPT !.hosts = [k \in Listed(x) \cup {h} |-> IF k = h THEN r ELSE @[k]]]

\* Hosts whose name is there already are skipped; the site of the others is
\* created when it is missing.
Import(x, H, s) ==
    LET new == NewHosts(x, H)
    IN  [x EXCEPT !.hosts = [k \in Listed(x) \cup new |->
                                IF k \in new THEN [cred |-> None, site |-> s] ELSE @[k]],
                  !.sites = @ \cup (IF new = {} THEN {} ELSE {s} \ {None})]

DropHost(x, h) ==
    [x EXCEPT !.hosts = [k \in Listed(x) \ {h} |-> @[k]]]

Bind(x, H, c, declare) ==
    [x EXCEPT !.hosts = [k \in Listed(x) |-> IF k \in H THEN [@[k] EXCEPT !.cred = c] ELSE @[k]],
              !.creds = IF declare THEN @ \cup ({c} \ {None}) ELSE @]

RemoveCred(x, c) ==
    [x EXCEPT !.hosts = [k \in Listed(x) |->
                            IF @[k].cred = c THEN [@[k] EXCEPT !.cred = None] ELSE @[k]],
              !.creds = @ \ {c}]

\* The renames one after the other, applied to the name of a site.
AfterRenames(s, renames) ==
    LET upTo[n \in 0 .. Len(renames)] ==
            IF n = 0 THEN s
            ELSE IF upTo[n - 1] = renames[n][1] THEN renames[n][2]
            ELSE upTo[n - 1]
    IN  upTo[Len(renames)]

\* Mutant: members keep the name of a site that is gone.
CascadeRenames(s, sites, renames) == AfterRenames(s, renames)

\* The renames, then no site that is not defined.
Cascade(s, sites, renames) ==
    LET renamed == AfterRenames(s, renames)
    IN  IF renamed \in sites THEN renamed ELSE None

SaveSites(x, sites, renames) ==
    [x EXCEPT !.hosts = [k \in Listed(x) |->
                            [@[k] EXCEPT !.site = Cascade(x.hosts[k].site, sites, renames)]],
              !.sites = sites]

Apply(e, x) ==
    CASE e.op = "host"    -> PutHost(x, e.host, e.record)
      [] e.op = "import"  -> Import(x, e.hosts, e.site)
      [] e.op = "delete"  -> DropHost(x, e.host)
      [] e.op = "bind"    -> Bind(x, e.hosts, e.cred, e.declare)
      [] e.op = "declare" -> [x EXCEPT !.creds = @ \cup {e.cred}]
      [] e.op = "remove"  -> RemoveCred(x, e.cred)
      [] e.op = "site"    -> [x EXCEPT !.sites = @ \cup {e.site}]
      [] e.op = "sites"   -> SaveSites(x, e.sites, e.renames)
      [] OTHER            -> x
-----------------------------------------------------------------------------
(* The sites manager (F3).  It edits a copy of the list of sites and notes *)
(* the renames; the app applies both when the user saves.  "follow" is     *)
(* what the user did to each site: its name now, or None once deleted.     *)

OpenManager(sites) ==
    [sites |-> sites, renames |-> << >>, deleted |-> {}, reused |-> FALSE,
     follow |-> [s \in Sites \cup {None} |-> s]]

Named(m, s) == [m EXCEPT !.sites = @ \cup {s}, !.reused = @ \/ s \in m.deleted]

Added(m) == {Named(m, s) : s \in Sites \ m.sites}

Deleted(m) ==
    {[m EXCEPT !.sites = @ \ {s}, !.deleted = @ \cup {s},
               !.follow = [k \in DOMAIN @ |-> IF @[k] = s THEN None ELSE @[k]]] :
     s \in m.sites}

Renamed(m) ==
    {[Named([m EXCEPT !.sites = @ \ {p[1]}], p[2]) EXCEPT
         !.renames = Append(@, p),
         !.follow = [k \in DOMAIN @ |-> IF @[k] = p[1] THEN p[2] ELSE @[k]]] :
     p \in m.sites \X (Sites \ m.sites)}

Managed(m) == Added(m) \cup Deleted(m) \cup Renamed(m)

\* Bound: sessions of one or two changes.
Sessions(sites) ==
    LET once == Managed(OpenManager(sites))
    IN  once \cup UNION {Managed(m) : m \in once}

\* Where a host of site s belongs after session m.
Home(m, s) == IF m.follow[s] \in m.sites THEN m.follow[s] ELSE None
=============================================================================
