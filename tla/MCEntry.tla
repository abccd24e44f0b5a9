------------------------------- MODULE MCEntry -------------------------------
(* Lines of up to four words after `ssh` (the four of a smaller alphabet),     *)
(* every form with two edits, and imports of two hosts that differ in the case *)
(* of a letter.                                                                *)
EXTENDS Entry

\* ------------------------------------------------------------------- lines
Word(f, v) == [flags |-> f, attached |-> v]
MCWordOf == ("-l" :> Word(<<"l">>, None)) @@ ("-p" :> Word(<<"p">>, None))
    @@ ("-i" :> Word(<<"i">>, None)) @@ ("-J" :> Word(<<"J">>, None))
    @@ ("-o" :> Word(<<"o">>, None)) @@ ("-p2222" :> Word(<<"p">>, "2222"))
    @@ ("-p22" :> Word(<<"p">>, "22")) @@ ("-oPort=22" :> Word(<<"o">>, "Port=22"))
    @@ ("-oPort=2222" :> Word(<<"o">>, "Port=2222"))
    @@ ("-oProxyJump=ann@h" :> Word(<<"o">>, "ProxyJump=ann@h"))
    @@ ("-oIdentityFile=/home/m" :> Word(<<"o">>, "IdentityFile=/home/m"))
    @@ ("-ik" :> Word(<<"i">>, "k")) @@ ("-Jj,ann@h" :> Word(<<"J">>, "j,ann@h"))
    @@ ("-Jj" :> Word(<<"J">>, "j")) @@ ("-oUser=bob" :> Word(<<"o">>, "User=bob"))
    @@ ("-oCompression=yes" :> Word(<<"o">>, "Compression=yes"))
    @@ ("-oPasswordAuthentication=yes" :> Word(<<"o">>, "PasswordAuthentication=yes"))
    @@ ("-tv" :> Word(<<"t", "v">>, None)) @@ ("-t" :> Word(<<"t">>, None))
    @@ ("-N" :> Word(<<"N">>, None)) @@ ("-L" :> Word(<<"L">>, None)) @@ ("-D" :> Word(<<"D">>, None))
    @@ ("--help" :> Word(<<"-">>, None))
Setting(k, v) == [key |-> k, value |-> v]
MCOptionOf == ("User=bob" :> Setting("user", "bob"))
    @@ ("Port=22" :> Setting("port", "22")) @@ ("Port=2222" :> Setting("port", "2222"))
    @@ ("ProxyJump=ann@h" :> Setting("proxyjump", "ann@h"))
    @@ ("IdentityFile=/home/m" :> Setting("identityfile", "/home/m"))
    @@ ("Compression=yes" :> Setting("compression", "yes"))
    @@ ("PasswordAuthentication=yes" :> Setting("passwordauthentication", "yes"))
    @@ ("PreferredAuthentications=publickey" :> Setting("preferredauthentications", "publickey"))
    @@ ("PreferredAuthentications=publickey,keyboard-interactive"
           :> Setting("preferredauthentications", "publickey,keyboard-interactive"))
    @@ ("StrictHostKeyChecking=accept-new" :> Setting("stricthostkeychecking", "accept-new"))
    @@ ("ExitOnForwardFailure=yes" :> Setting("exitonforwardfailure", "yes"))
    @@ ("BatchMode=yes" :> Setting("batchmode", "yes"))
    @@ ("ProxyCommand=j" :> Setting("proxycommand", "j"))
    @@ ("ProxyCommand=ann@h" :> Setting("proxycommand", "ann@h"))
Dest(u, h, p) == [user |-> u, host |-> h, port |-> p]
Logins == {"me", "ann", "bob", "ssh", "ann@h"}
MCDestOf == [t \in {u \o "@" \o h : u \in Logins, h \in {"h", "bob"}} |->
                LET at == CHOOSE x \in Logins \X {"h", "bob"} : x[1] \o "@" \o x[2] = t
                IN  Dest(at[1], at[2], None)]
    @@ ("ssh://ann@h:2200" :> Dest("ann", "h", "2200")) @@ ("@h" :> Dest("", "h", None))
    @@ ("ssh://ann@h:0" :> Dest("ann", "h", "0"))
MCListOf == ("j,ann@h" :> <<"j", "ann@h">>)
    @@ ("publickey,keyboard-interactive" :> <<"publickey", "keyboard-interactive">>)
MCPortTexts == {"22", "2200", "2222"}
MCAbsoluteOf == "k" :> "/home/k"
MCProxyOf == ("j" :> "ProxyCommand=j")
MCControls == {"\t"}

Pasted == {"-l", "bob", "-p2222", "-ik", "-Jj", "-Jj,ann@h", "-oUser=bob", "-oCompression=yes",
           "-oPasswordAuthentication=yes", "-tv", "--", "ann@h", "ssh://ann@h:2200"}
\* No login is a URL.
Sane(l) == \A i \in 1 .. Len(l) - 1 : l[i] = "-l" => l[i + 1] # "ssh://ann@h:2200"
Rarer == {"-p22", "-oPort=22", "-oPort=2222", "-oProxyJump=ann@h", "-oIdentityFile=/home/m"}
Short == UNION {[1 .. n -> Pasted \cup Rarer] : n \in 1 .. 3}
Long == [1 .. 4 -> Pasted \ {"-Jj,ann@h", "-oCompression=yes", "ssh://ann@h:2200"}]
MCLines == {<<"ssh">> \o l : l \in {m \in Short \cup Long : Sane(m)}}
    \cup {<<>>, <<"ssh">>, <<"curl", "ann@h">>, <<"-p2222", "ann@h">>, <<"ssh", "'">>,
          <<"ssh", "\t">>, <<"ssh", "--help">>, <<"ssh", "@h">>, <<"ssh", "ssh://ann@h:0">>,
          <<"ssh", "-p", "x", "ann@h">>, <<"ssh", "-p", "22", "bob">>, <<"ssh", "-ik", "-i", "/home/m", "ann@h">>}
Given(site) ==
    [name |-> "web", tags |-> <<"prod">>, site |-> site, tfa |-> FALSE, credential |-> None,
     password |-> FALSE, stdin |-> "", quiet |-> FALSE]
MCGivens == {Given(None), [Given("DC") EXCEPT !.name = None, !.password = TRUE, !.stdin = "pw",
                                              !.tfa = TRUE, !.credential = "shared"]}
MCFlags ==
    [name : {None, "web", "db"}, hostname : {None, "h"}, auth : {None, "agent", "key"},
     keys : {<<>>, <<"k">>}, credential : {None, "shared", "xx"}, password : BOOLEAN,
     stdin : {"pw", ""}, quiet : BOOLEAN]
MCSites == "dc" :> [user |-> "ann", port |-> "2222", jumps |-> <<"j">>, keys |-> <<"/home/m">>]

Tunnel(type, target) ==
    [type |-> type, bind |-> None, listen |-> "8080", target |-> target, port |-> "80"]
MCTunnels == {Tunnel("local", "db"), Tunnel("dynamic", None)}

\* ------------------------------------------------------------------- forms
MCPiecesOf == "a b" :> <<"a", " ", "b">>
MCKeyFiles == <<"/home/k", "/home/m">>
File(name, fits) == [name |-> name, path |-> "/" \o name, dir |-> FALSE, fits |-> fits]
Dir(name, path, fits) == [name |-> name, path |-> path, dir |-> TRUE, fits |-> fits]
MCDirs == ("/" :> <<Dir("ssh/", "/ssh", {"s"})>>)
    @@ ("/ssh" :> <<Dir("../", "/", {}), File("x.pem", {"x", "p"}), File("s.pub", {"s", "p"})>>)
AHost == [name |-> "web", hostname |-> "h", user |-> "ann", port |-> "22", auth |-> "key",
          keys |-> <<"/old", "/home/k", "/old">>, jumps |-> <<"j", "ann@h">>, tags |-> <<"a", "b">>,
          site |-> "gone", tfa |-> TRUE, extra |-> <<"-o", "Compression=yes">>, credential |-> None]
BareHost == [AHost EXCEPT !.user = None, !.port = None, !.auth = "password", !.keys = <<>>,
                          !.jumps = <<>>, !.tags = <<>>, !.site = None, !.tfa = FALSE,
                          !.extra = <<>>]
Capitals == [BareHost EXCEPT !.site = "DC", !.tags = <<"a b", "c">>]
NewHost == [BareHost EXCEPT !.name = "", !.hostname = "", !.auth = "agent"]
MCNewForm == FromHost(NewHost, <<"dc">>, FALSE)
Edits(h) == [form |-> FromHost(h, <<"dc">>, TRUE), source |-> h]
Other(opened) == [form |-> opened, source |-> None]
MCOpened ==
    {Edits(AHost), Edits([BareHost EXCEPT !.auth = "key", !.site = "(none)"]), Edits(BareHost), Edits(Capitals),
     Other(MCNewForm),
     [form |-> Prefill(BareHost, <<"dc">>, "secret"), source |-> BareHost],
     Other(ForwardPopup), Other(Settings(None, "off")), Other(Settings("f", "window")),
     Other(BulkSecret(0)), Other(BulkSecret(2)), Other(TwoFactor),
     Other(SiteForm([name |-> "", user |-> None, port |-> None, jumps |-> <<>>, keys |-> <<>>], {"x", "S"})),
     Other(SiteForm([name |-> "dc", user |-> "ann", port |-> "22", jumps |-> <<"j">>,
                     keys |-> <<"/home/k">>], {"x"}))}
Key(c, m) == [code |-> c, mod |-> m]
MCKeys == {Key(c, "") : c \in {"esc", "enter", "tab", "backtab", "down", "up", "left", "right",
                               "backspace", "home", "end", "x", "s", " ", ",", "ESC"}}
    \cup {Key(c, "ctrl") : c \in {"s", "c", "r", "n", "p", "x"}} \cup {Key("x", "alt")}

\* ----------------------------------------------------------------- imports
MCLowerOf == ("Web" :> "web") @@ ("DC" :> "dc") @@ ("Net" :> "net") @@ ("S" :> "s")
Block(alias, keys) ==
    [patterns |-> <<[alias |-> alias, skip |-> FALSE], [alias |-> "w*", skip |-> TRUE]>>,
     hostname |-> None, user |-> "ann", port |-> None, keys |-> keys]
MCConfigs == {<<Block(a, <<>>), Block(b, <<"k">>)>> : a \in {"web", "Web", "\t"}, b \in {"web", "db"}}
Peer(label, suffix, host, ips) ==
    [label |-> label, suffix |-> suffix, host |-> host, ips |-> ips, expired |-> FALSE,
     tags |-> <<"server">>]
Peers == {Peer("Web", "net", "w", <<>>), Peer("web", "Net", "w", <<"100.1">>),
          Peer("db", "other", "d", <<"100.2">>), Peer(None, None, "db", <<"fd7a", "100.3">>),
          Peer(None, None, "db", <<>>), Peer("\t", "net", "w", <<>>),
          [Peer("old", "net", "o", <<"100.4">>) EXCEPT !.expired = TRUE]}
MCTailnets ==
    {[program |-> p, state |-> s, name |-> n, suffix |-> "net", first |-> "net", magic |-> m,
      peers |-> <<a, b>>] :
        p \in {None, ResolveIn(None, "ts", None, {"ts"}), ResolveIn("t", "ts", None, {"ts"})},
        s \in {"Running", "Stopped"}, n \in {None, "DC", "\t"}, m \in BOOLEAN,
        a \in Peers, b \in Peers}
InFile(n, s) == [Nobody EXCEPT !.name = n, !.hostname = n, !.site = s]
MCFiles == {NoFile, [hosts |-> <<InFile("web", "dc")>>, sites |-> <<"dc">>],
            [hosts |-> <<InFile("DB", None)>>, sites |-> <<>>]}
=============================================================================
