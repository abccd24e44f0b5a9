------------------------------- MODULE Import -------------------------------
(***************************************************************************)
(* What `import` makes of ~/.ssh/config and of a tailnet, and how it adds  *)
(* the result to the hosts file: only new names, and a site for each that  *)
(* is named and not there yet.                                             *)
(***************************************************************************)
EXTENDS Texts

CONSTANTS
    Unprintable,  \* the names with a control character
    IPv4          \* the addresses of the fourth version

Nobody == [name |-> None, hostname |-> None, user |-> None, port |-> None,
           auth |-> "agent", keys |-> <<>>, tags |-> <<>>, site |-> None]
NamesOf(hosts) == {hosts[i].name : i \in DOMAIN hosts}

-----------------------------------------------------------------------------
(* A block of ssh config: its patterns, and what it sets.                  *)

FromBlock(alias, b) ==
    [Nobody EXCEPT !.name = alias, !.hostname = Else(b.hostname, alias), !.user = b.user,
                   !.port = b.port, !.keys = b.keys,
                   !.auth = IF b.keys = <<>> THEN "agent" ELSE "key"]

ParseStr(blocks) ==
    LET take(b, acc, c) ==
            IF c.skip \/ c.alias \in Unprintable \/ c.alias \in NamesOf(acc) THEN acc
            ELSE Append(acc, FromBlock(c.alias, b))
    IN  FoldLeft(LAMBDA acc, b : FoldLeft(LAMBDA a, c : take(b, a, c), acc, b.patterns),
                 <<>>, blocks)

-----------------------------------------------------------------------------
(* A tailnet: its state, name, suffix and the first label of that, whether  *)
(* MagicDNS is on, and its peers.                                          *)

(* The tailscale program: the one the environment names, else the one on   *)
(* the path, else the one of the app.  `usable` are those that can be run.  *)
ResolveIn(env, path, app, usable) ==
    CASE env # None -> IF env \in usable THEN env ELSE None
      [] env = None /\ path \in usable -> path
      [] env = None /\ path \notin usable /\ app \in usable -> app
      [] OTHER -> None

SiteName(net) == IF net.name = None \/ net.name \in Unprintable THEN net.first ELSE net.name

Foreign(p, net) == p.label # None /\ ~SameText(p.suffix, net.suffix)
PeerName(p) == Lowered(Else(p.label, p.host))
Dns(p) == p.label \o "." \o p.suffix
PeerHostname(p, magic) ==
    LET four == SelectSeq(p.ips, LAMBDA ip : ip \in IPv4) IN
    CASE magic /\ p.label # None -> Dns(p)
      [] four # <<>> -> four[1]
      [] four = <<>> /\ p.ips # <<>> -> p.ips[1]
      [] OTHER -> IF p.label # None THEN Dns(p) ELSE None

FromPeer(p, net) ==
    [Nobody EXCEPT !.name = PeerName(p), !.hostname = PeerHostname(p, net.magic),
                   !.site = SiteName(net), !.tags = p.tags]

TakePeer(net, hosts, p) ==
    IF \/ p.expired \/ Foreign(p, net)
       \/ Else(p.label, p.host) = None \/ PeerHostname(p, net.magic) = None
       \/ PeerName(p) \in Unprintable \cup NamesOf(hosts)
    THEN hosts
    ELSE Append(hosts, FromPeer(p, net))

Usable(net) ==
    /\ net.program # None
    /\ net.state = "Running"
    /\ net.suffix # None
    /\ SiteName(net) \notin Unprintable

(* The order by name that the hosts are sorted in afterwards is left out.  *)
ParseStatus(net) ==
    IF Usable(net) THEN FoldLeft(LAMBDA acc, p : TakePeer(net, acc, p), <<>>, net.peers)
    ELSE <<>>

-----------------------------------------------------------------------------
(* Adding to the file, [hosts, sites].                                     *)

NewHosts(parsed, existing) ==
    SelectSeq(parsed, LAMBDA h : \A n \in NamesOf(existing) : ~SameText(h.name, n))

\* Mutant: the sites added on the way are not looked at.
PlaceHostAlone(sites, acc, h) ==
    LET known == SelectSeq(sites, LAMBDA s : SameText(s, h.site)) IN
    CASE h.site = None -> [acc EXCEPT !.hosts = Append(@, h)]
      [] h.site # None /\ known # <<>> ->
             [acc EXCEPT !.hosts = Append(@, [h EXCEPT !.site = known[1]])]
      [] OTHER -> [hosts |-> Append(acc.hosts, h), fresh |-> Append(acc.fresh, h.site)]
(* A host takes the spelling of the site it finds; a site found neither in *)
(* the file nor among those already added is added.                        *)
PlaceHost(sites, acc, h) ==
    LET known == SelectSeq(sites \o acc.fresh, LAMBDA s : SameText(s, h.site)) IN
    CASE h.site = None -> [acc EXCEPT !.hosts = Append(@, h)]
      [] h.site # None /\ known # <<>> ->
             [acc EXCEPT !.hosts = Append(@, [h EXCEPT !.site = known[1]])]
      [] OTHER -> [hosts |-> Append(acc.hosts, h), fresh |-> Append(acc.fresh, h.site)]
MissingSites(toAdd, sites) ==
    FoldLeft(LAMBDA acc, h : PlaceHost(sites, acc, h), [hosts |-> <<>>, fresh |-> <<>>], toAdd)

ApplyImport(file, parsed) ==
    LET placed == MissingSites(NewHosts(parsed, file.hosts), file.sites)
    IN  [hosts |-> file.hosts \o placed.hosts, sites |-> file.sites \o placed.fresh]
=============================================================================
