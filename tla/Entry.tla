-------------------------------- MODULE Entry --------------------------------
(***************************************************************************)
(* How a host gets into the file: by `sshelf add` with flags or with a     *)
(* pasted ssh command (--from-ssh), saved at once or through the form       *)
(* filled in from it, by the form, which also edits, and by an import.  The *)
(* other forms are here too, since they take the same keys.                 *)
(***************************************************************************)
EXTENDS SshLine, Forms, Import, FiniteSets

CONSTANTS
    Lines,       \* the lines pasted, sequences of words
    FormWords,   \* the longest line a form is opened on
    Givens,      \* what `add` may be given beside a line
    Flags,       \* what it may be given without one
    Sites,       \* the sites' defaults, by name
    Tunnels,     \* the forwards opened to a host
    Opened,      \* [form, source]: the forms opened from the screens
    NewForm,     \* the empty form
    Keys,        \* the keys pressed
    MaxEdits,    \* how many of them change more than the focus
    Files,       \* the hosts file before
    Configs, Tailnets   \* what an import may read

VARIABLES phase, line, given, source, form, touched, edits, saved, file, before
vars == <<phase, line, given, source, form, touched, edits, saved, file, before>>

NoFile == [hosts |-> <<>>, sites |-> <<>>]
Start(p) == phase = p /\ given = None /\ touched = {} /\ edits = 0 /\ saved = None
Init ==
    \/ /\ Start("line") /\ line \in Lines
       /\ source = None /\ form = None /\ file = NoFile /\ before = NoFile
    \/ /\ Start("form") /\ line = <<>>
       /\ \E o \in Opened : form = o.form /\ source = o.source
       /\ file = NoFile /\ before = NoFile
    \/ /\ phase \in {"flags", "import"} /\ Start(phase) /\ line = <<>>
       /\ source = None /\ form = None /\ file \in Files /\ before = file

-----------------------------------------------------------------------------
(* `sshelf add`.                                                           *)

(* With no flag the form opens; a shared credential does not count as one. *)
NoFlag(args) ==
    /\ args.name = None /\ args.hostname = None /\ args.auth = None
    /\ args.keys = <<>> /\ ~args.password /\ ~args.quiet
AddRoute(args) ==
    CASE args.quiet -> "Error"
      [] ~args.quiet /\ NoFlag(args) -> "Form"
      [] OTHER -> "Flags"

ResolvedAuth(args) ==
    CASE args.auth # None -> args.auth
      [] args.auth = None /\ args.keys # <<>> -> "key"
      [] args.auth = None /\ args.keys = <<>> /\ args.password -> "password"
      [] OTHER -> "agent"

NotACredential(args) == args.credential \in BadNames

FromFlags(args) ==
    [name |-> args.name, hostname |-> args.hostname, user |-> None, port |-> None,
     auth |-> ResolvedAuth(args), keys |-> args.keys, jumps |-> <<>>, extra |-> <<>>,
     tags |-> <<>>, site |-> None, tfa |-> FALSE, credential |-> args.credential]

Add(args) ==
    /\ phase = "flags" /\ given' = args
    /\ \/ /\ AddRoute(args) = "Form"
          /\ phase' = "form" /\ form' = NewForm /\ edits' = MaxEdits
          /\ UNCHANGED source
       \/ /\ \/ AddRoute(args) = "Error"
             \/ AddRoute(args) = "Flags" /\ (None \in {args.name, args.hostname} \/ NotACredential(args))
          /\ phase' = "refused" /\ UNCHANGED <<source, form, edits>>
       \/ /\ AddRoute(args) = "Flags" /\ None \notin {args.name, args.hostname}
          /\ ~NotACredential(args)
          /\ phase' = "read" /\ source' = FromFlags(args) /\ UNCHANGED <<form, edits>>
    /\ UNCHANGED <<line, touched, saved, file, before>>

ReadLine(args) ==
    /\ phase = "line" /\ given' = args
    /\ LET parsed == Parse(line) IN
           IF parsed.error # None \/ NotACredential(args)
           THEN phase' = "refused" /\ UNCHANGED source
           ELSE phase' = "read" /\ source' = IntoHost(parsed, args)
    /\ UNCHANGED <<line, form, touched, edits, saved, file, before>>

(* The secret on standard input, and where it is stored: under the shared  *)
(* credential the host names, else under the host itself.                  *)
Secret == IF given.password THEN given.stdin ELSE None
SecretKey(h) == Else(h.credential, "id")

(* With flags, with --quiet, or where there is no terminal for the form. A *)
(* name that is taken is refused, and so is a secret that is not there.    *)
SaveNewHost ==
    /\ phase = "read"
    /\ IF source.name \in NamesOf(file.hosts) \/ Secret = ""
       THEN phase' = "refused" /\ UNCHANGED saved
       ELSE /\ phase' = "saved"
            /\ saved' = [kind |-> "added", host |-> source, secret |-> Secret,
                          under |-> SecretKey(source)]
    /\ UNCHANGED <<line, given, source, form, touched, edits, file, before>>

OpenPrefilled ==
    /\ phase = "read" /\ line # <<>> /\ Len(line) <= FormWords /\ ~given.quiet /\ Secret # ""
    /\ phase' = "form" /\ form' = Prefill(source, SetToSeq(DOMAIN Sites), Secret)
    /\ edits' = MaxEdits   \* the edits of a form are counted on the ones in Opened
    /\ UNCHANGED <<line, given, source, touched, saved, file, before>>

-----------------------------------------------------------------------------
(* A form.                                                                 *)

Changed(f, g) == f.texts # g.texts \/ f.picks # g.picks
Touched(f, g) ==
    IF Browsing(f) THEN (IF Changed(f, g) THEN {"keys"} ELSE {})
    ELSE IF Changed(f, g) THEN {Focused(f)} ELSE {}

Edit(key) ==
    /\ phase = "form" /\ ~Cancels(form, key) /\ ~Submits(form, key)
    /\ form' = Pressed(form, key)
    /\ edits' = IF [form' EXCEPT !.focus = form.focus, !.error = form.error] = form
                THEN edits ELSE edits + 1
    /\ edits' <= MaxEdits
    /\ touched' = touched \cup Touched(form, form')
    /\ UNCHANGED <<phase, line, given, source, saved, file, before>>

Cancel(key) ==
    /\ phase = "form" /\ Cancels(form, key)
    /\ phase' = "cancelled" /\ form' = None
    /\ UNCHANGED <<line, given, source, touched, edits, saved, file, before>>

Refuse(key) ==
    /\ phase = "form" /\ ~Cancels(form, key) /\ Submits(form, key) /\ Fault(form) # None
    /\ form' = Failed(form)
    /\ UNCHANGED <<phase, line, given, source, touched, edits, saved, file, before>>

Save(key) ==
    /\ phase = "form" /\ ~Cancels(form, key) /\ Submits(form, key) /\ Fault(form) = None
    /\ phase' = "saved" /\ saved' = Makes(form) /\ form' = None
    /\ UNCHANGED <<line, given, source, touched, edits, file, before>>

-----------------------------------------------------------------------------
(* An import.                                                              *)

ImportConfig(blocks) ==
    /\ phase = "import"
    /\ phase' = "imported" /\ file' = ApplyImport(file, ParseStr(blocks))
    /\ UNCHANGED <<line, given, source, form, touched, edits, saved, before>>

ImportTailnet(net) ==
    /\ phase = "import"
    /\ phase' = "imported" /\ file' = ApplyImport(file, ParseStatus(net))
    /\ UNCHANGED <<line, given, source, form, touched, edits, saved, before>>

Next ==
    \/ \E args \in Givens : ReadLine(args)
    \/ \E args \in Flags : Add(args)
    \/ SaveNewHost \/ OpenPrefilled
    \/ \E key \in Keys : Edit(key) \/ Cancel(key) \/ Refuse(key) \/ Save(key)
    \/ \E blocks \in Configs : ImportConfig(blocks)
    \/ \E net \in Tailnets : ImportTailnet(net)

Spec == Init /\ [][Next]_vars

-----------------------------------------------------------------------------
(* The state is of its kind, and the key the user presses next goes to a   *)
(* field that the form shows, with the cursor inside its text and every    *)
(* pick at one of its options (Wizard::handle_key and the other forms).    *)
EntryTypeOK ==
    /\ phase \in {"line", "flags", "read", "refused", "form", "cancelled", "saved", "import", "imported"}
    /\ edits \in 0 .. MaxEdits
    /\ (phase = "form") = (form # None)
    /\ (phase = "saved") = (saved # None)
    /\ form # None =>
           /\ form.focus \in DOMAIN Shown(form)
           /\ \A f \in DOMAIN form.texts : form.texts[f].cursor \in 0 .. Len(form.texts[f].value)
           /\ \A f \in DOMAIN form.picks :
                  form.picks[f].options # <<>> =>
                      form.picks[f].at \in DOMAIN form.picks[f].options
           /\ Browsing(form) =>
                  form.browser.selected \in 1 .. Len(Dirs[form.browser.dir]) + 1

(* What a field the user did not touch is saved as.                         *)

(* The entries' words: an entry with a blank inside is read as several tags. *)
WordsOf(tags) ==
    FlattenSeq([i \in DOMAIN tags |-> SelectSeq(Inside(tags[i]), LAMBDA p : p \notin {" ", ","})])
(* The defined spelling of a site, else its own. *)
KeepsSite(site, kept) ==
    IF FindSite(Sites, site) = {} THEN kept = site ELSE kept \in FindSite(Sites, site)
(* Each key file once, at its first place. *)
Once(keys) ==
    LET at == SetToSortSeq({i \in DOMAIN keys : \A j \in 1 .. i - 1 : keys[j] # keys[i]}, <)
    IN  [n \in DOMAIN at |-> keys[at[n]]]

(* A form that edits a host, or is filled in from a line, saves every field *)
(* the user did not touch as it was, the key files of a key host in their   *)
(* order included, and a secret only when the form shows a field for one.   *)
(* Four fields may come back otherwise (Wizard::from_host, try_save,         *)
(* SitePicker, split_tags), each in one way only: a site takes the spelling *)
(* in which it is defined, and one called (none) is no site; a tag with a   *)
(* blank inside becomes its words; a key file named twice is kept once, and *)
(* a key host without one gets the first key the picker found; and a shared *)
(* credential may be dropped.                                                *)
FormKeeps ==
    phase = "saved" /\ saved.kind = "wizard" /\ source # None =>
        LET h == saved.host IN
        /\ \A f \in DOMAIN source \ {"keys", "credential", "site", "tags"} :
               f \in touched \/ h[f] = source[f]
        /\ "tags" \in touched \/ h.tags = WordsOf(source.tags)
        /\ \/ "site" \in touched
           \/ IF source.site = "(none)" THEN h.site = None ELSE KeepsSite(source.site, h.site)
        /\ \/ {"auth", "keys"} \cap touched # {}
           \/ IF source.auth = "key" /\ source.keys = <<>>
              THEN h.keys = SubSeq(KeyFiles, 1, 1)
              ELSE h.keys = IF source.auth = "key" THEN Once(source.keys) ELSE <<>>
        /\ h.credential \in {source.credential, None}
        /\ saved.secret # None => h.auth \in {"key", "password"}

-----------------------------------------------------------------------------
(* What a line says, with what the site of the host adds where it is silent. *)

SiteSays(h) ==
    IF FindSite(Sites, h.site) = {} THEN <<>>
    ELSE LET s == Sites[CHOOSE n \in FindSite(Sites, h.site) : TRUE]
         IN  (IF s.user = None THEN <<>> ELSE <<[key |-> "user", value |-> s.user]>>)
                 \o (IF s.port = None THEN <<>> ELSE <<[key |-> "port", value |-> s.port]>>)
                 \o (IF s.jumps = <<>> THEN <<>>
                     ELSE <<[key |-> "proxyjump", value |-> Commas(s.jumps)]>>)

(* What a line means to sshelf.  It is what ssh reads, but for one rule of  *)
(* its own: an -l or a -p behind a destination that names a user or a port  *)
(* of its own goes over it, where ssh goes by the order of the words and    *)
(* takes the destination's.                                                  *)
Overruled(walk) ==
    LET d == Destination(walk.dest)
        behind == {walk.opts[i].flag : i \in walk.seen + 1 .. Len(walk.opts)}
    IN  \/ d.user # None /\ "l" \in behind
        \/ d.port # None /\ "p" \in behind
Meant(words) ==
    LET walk == ReadOptions(words)
    IN  IF Overruled(walk) THEN SaidAround(walk, Len(walk.opts)) ELSE Said(words)

(* What a host is saved without, and what every connect or forward adds. *)
Unkept == {"-" \o f : f \in DroppedFlags}
            \cup {"stricthostkeychecking", "passwordauthentication", "preferredauthentications",
                  "exitonforwardfailure", "batchmode"}
Keeping(reading) == [reading EXCEPT !.rest = {o \in @ : o.key \notin Unkept}]
FlagKeys == {"-" \o f : f \in BooleanFlags \cup ValueFlags}
InBlock(reading) ==
    [reading EXCEPT !.rest = {o \in @ : o.value # "" /\ o.key \notin FlagKeys}]

ForwardSays(spec) == [key |-> ForwardArgs(spec)[1], value |-> SpecString(spec)]

(* A setting that an -o gives and another option, the destination or the    *)
(* site of the host gives too.                                               *)
ByOption(words, keys) ==
    LET walk == ReadOptions(words)
    IN  \E i \in DOMAIN walk.opts :
            walk.opts[i].flag = "o" /\ Option(walk.opts[i].value).key \in keys
Rivals(words, said, keys) == ByOption(words, keys) /\ Len(Values(said, keys)) > 1

(* `read` is what a host made of the line does: the place, the options and, *)
(* where nothing competes, the user, the port, the route and the keys that  *)
(* `said` gives.  Where an -o competes with something else, one of the two. *)
(* A user nobody names is `silent`, and port 22 is left unsaid unless an -o *)
(* says it.                                                                  *)
Conveys(read, meant, words, said, silent) ==
    LET rivals(keys) == Rivals(words, said, keys)
        one(keys) == {o.value : o \in ToSet(Values(said, keys))}
        route == {"proxyjump", "proxycommand"}
    IN  /\ read.host = meant.host /\ read.rest = meant.rest
        /\ IF rivals({"user"}) THEN read.user \in one({"user"})
           ELSE read.user = Else(meant.user, silent)
        /\ IF rivals({"port"}) THEN read.port \in one({"port"})
           ELSE read.port = IF meant.port = "22" /\ ~ByOption(words, {"port"}) THEN None
                            ELSE meant.port
        /\ IF rivals(route) THEN read.route \in {Route(<<o>>) : o \in ToSet(Values(said, route))}
           ELSE read.route = meant.route
        /\ IF rivals({"identityfile"}) THEN ToSet(read.keys) = ToSet(meant.keys)
           ELSE read.keys = meant.keys

(* Two lines are left out: a second -J, which ssh refuses, and a login that  *)
(* looks like an option, for which the arguments end in an option and no    *)
(* destination.                                                              *)
SecondJump(words) ==
    LET walk == ReadOptions(words)
    IN  Cardinality({i \in DOMAIN walk.opts : walk.opts[i].flag = "J"}) > 1
LooksLikeOption(user) == user = "--" \/ IsOption(user)

(* The host saved from a line, at once or through the form, connects as the *)
(* line did: to the same place by the same route, with the same keys and    *)
(* options, whether or not sshelf answers for the user; so does every       *)
(* forward opened to it, which asks for its own and nothing else; and so    *)
(* does its exported block, flags apart (sshcmd.rs, ssh::build_args,        *)
(* build_forward_command, export.rs).  Options behind the destination are   *)
(* no exception, but for the rule of Meant.  Two things are not as the line *)
(* has them, and the property says what they become: a line that names no   *)
(* user connects as $USER, which for an alias goes over the User that       *)
(* ~/.ssh/config gives it, while the block leaves the user to ssh; and -p 22 *)
(* is not passed on, so that the port is again ssh's to find.                *)
MeaningKept ==
    phase = "saved" /\ line # <<>> =>
        LET words == IF line[1] = "ssh" THEN Tail(line) ELSE line
            h == WithSiteDefaults(saved.host, Sites)
            said == Meant(words) \o SiteSays(h)
            meant == Keeping(Reading(said))
            forwarded(spec) == [meant EXCEPT !.rest = @ \cup {ForwardSays(spec)}]
        IN  \/ SecondJump(words)
            \/ LooksLikeOption(h.user)
            \/ /\ \A askpass \in BOOLEAN :
                      /\ Conveys(Keeping(SshReads(BuildArgs(h, askpass))), meant, words, said,
                                 LocalUser)
                      /\ \A spec \in Tunnels :
                             Conveys(Keeping(SshReads(BuildForwardCommand(h, spec, askpass))),
                                     forwarded(spec), words, said, LocalUser)
               /\ Conveys(InBlock(Keeping(BlockReads(RenderHost(h)))), InBlock(meant), words, said,
                          None)

-----------------------------------------------------------------------------
(* An import changes nothing that was in the file, adds no name that is     *)
(* there or that it has added, and leaves each host with a site that is     *)
(* defined, in the spelling the file gives it (import.rs, apply_import).    *)
ImportIsWhole ==
    phase = "imported" =>
        /\ IsPrefix(before.hosts, file.hosts) /\ IsPrefix(before.sites, file.sites)
        /\ \A i, j \in DOMAIN file.sites : SameText(file.sites[i], file.sites[j]) => i = j
        /\ \A i \in Len(before.hosts) + 1 .. Len(file.hosts) :
               LET h == file.hosts[i] IN
               /\ h.site # None => h.site \in ToSet(file.sites)
               /\ \A j \in DOMAIN before.hosts : ~SameText(h.name, before.hosts[j].name)
               /\ \A j \in DOMAIN file.hosts : file.hosts[j].name = h.name => i = j
=============================================================================
