------------------------------ MODULE SshLine ------------------------------
(***************************************************************************)
(* ssh command lines, both ways: the line a user pastes read into a host   *)
(* (sshcmd.rs), and the arguments (ssh.rs) and the exported block          *)
(* (export.rs) a host is turned into.  SshReads and BlockReads say what    *)
(* ssh itself makes of a line and of a block, so that the two can be       *)
(* compared.                                                               *)
(*                                                                         *)
(* A line is a sequence of words.  What is inside a word, which the code   *)
(* finds character by character, is given by constants: a word or a value  *)
(* without an entry has nothing inside.                                    *)
(***************************************************************************)
EXTENDS Texts

CONSTANTS
    WordOf,      \* an option word as [flags, attached]
    OptionOf,    \* the argument of -o as [key, value]
    DestOf,      \* a destination as [user, host, port]
    ListOf,      \* a comma-separated text as a sequence
    PortTexts,   \* the texts that are a port from 1 to 65535
    AbsoluteOf,  \* a relative key path as an absolute one
    ProxyOf,     \* a jump host that can be constrained, as a ProxyCommand option
    Controls,    \* the texts with a control character
    LocalUser    \* $USER

BooleanFlags == {"4", "6", "A", "a", "C", "f", "G", "g", "K", "k", "M", "N", "n", "q",
                 "s", "T", "t", "V", "v", "X", "x", "Y", "y"}
ValueFlags == {"B", "b", "c", "D", "E", "e", "F", "I", "i", "J", "L", "l", "m", "O", "o",
               "P", "p", "Q", "R", "S", "W", "w"}
DroppedFlags == {"v", "q", "G", "V", "Q", "O", "S", "E", "M", "N", "f", "n", "g", "s"}

IsOption(w) == w \in DOMAIN WordOf
Option(text) == Lookup(OptionOf, text, [key |-> text, value |-> ""])
Destination(text) == Lookup(DestOf, text, [user |-> None, host |-> text, port |-> None])
List(text) == Lookup(ListOf, text, <<text>>)

(* A texts' list written with commas. *)
Commas(list) ==
    IF Len(list) = 1 THEN list[1] ELSE CHOOSE t \in DOMAIN ListOf : ListOf[t] = list

-----------------------------------------------------------------------------
(* Reading the words by ssh's getopt rules.  `wants` is the flag whose     *)
(* value is the next word; `seen` counts the options before the            *)
(* destination, which the program does not keep and ssh goes by.           *)

Unread == [opts |-> <<>>, dest |-> None, seen |-> 0, wants |-> None, ended |-> FALSE,
           error |-> None]

TakeFlag(walk, f, attached) ==
    CASE walk.error # None -> walk
      [] f \in BooleanFlags -> [walk EXCEPT !.opts = Append(@, [flag |-> f, value |-> None])]
      [] f \in ValueFlags /\ attached = None -> [walk EXCEPT !.wants = f]
      [] f \in ValueFlags /\ attached # None ->
             [walk EXCEPT !.opts = Append(@, [flag |-> f, value |-> attached])]
      [] OTHER -> [walk EXCEPT !.error = "UnknownFlag"]

TakeWord(walk, w) ==
    CASE walk.error # None -> walk
      [] walk.wants # None ->
             [walk EXCEPT !.opts = Append(@, [flag |-> walk.wants, value |-> w]), !.wants = None]
      [] ~walk.ended /\ w = "--" -> [walk EXCEPT !.ended = TRUE]
      [] ~walk.ended /\ IsOption(w) ->
             FoldLeft(LAMBDA r, f : TakeFlag(r, f, WordOf[w].attached), walk, WordOf[w].flags)
      [] walk.dest = None -> [walk EXCEPT !.dest = w, !.seen = Len(walk.opts)]
      [] OTHER -> [walk EXCEPT !.error = "RemoteCommand"]

ReadOptions(words) ==
    LET walk == FoldLeft(TakeWord, Unread, words)
    IN  IF walk.error = None /\ walk.wants # None THEN [walk EXCEPT !.error = "MissingValue"]
        ELSE walk

-----------------------------------------------------------------------------
(* The options mapped onto a host.  A hint is an -o that asks for password  *)
(* authentication: `password` and `preferred` are None until one is read.   *)

Unmapped == [user |-> None, port |-> None, keys |-> <<>>, jumps |-> <<>>, extras |-> <<>>,
             notes |-> {}, password |-> None, preferred |-> None, error |-> None]

Keep(acc, words, hint) == [acc EXCEPT !.extras = Append(@, [words |-> words, hint |-> hint])]

MapSetting(acc, text) ==
    LET o == Option(text)
        kept == Keep(acc, <<"-o", text>>,
                     o.key \in {"passwordauthentication", "preferredauthentications"})
    IN  CASE o.key = "stricthostkeychecking" -> [acc EXCEPT !.notes = @ \cup {<<"o", text>>}]
          [] o.key = "passwordauthentication" ->
                 [kept EXCEPT !.password = Else(@, o.value = "yes")]
          [] o.key = "preferredauthentications" ->
                 [kept EXCEPT !.preferred = Else(@, List(o.value)[1] = "password")]
          [] OTHER -> kept

MapOption(acc, o) ==
    CASE acc.error # None -> acc
      [] o.flag = "i" ->
             [acc EXCEPT !.keys = Append(@, Lookup(AbsoluteOf, o.value, o.value)),
                         !.notes = IF o.value \in DOMAIN AbsoluteOf
                                   THEN @ \cup {<<"i", o.value>>} ELSE @]
      [] o.flag = "l" -> [acc EXCEPT !.user = Else(@, o.value)]
      [] o.flag = "p" -> IF o.value \in PortTexts THEN [acc EXCEPT !.port = Else(@, o.value)]
                         ELSE [acc EXCEPT !.error = "BadPort"]
      [] o.flag = "J" -> [acc EXCEPT !.jumps = @ \o List(o.value)]
      [] o.flag = "o" -> MapSetting(acc, o.value)
      [] o.flag \in DroppedFlags -> [acc EXCEPT !.notes = @ \cup {<<o.flag, o.value>>}]
      [] OTHER -> Keep(acc, IF o.value = None THEN <<"-" \o o.flag>>
                            ELSE <<"-" \o o.flag, o.value>>, FALSE)

(* What is wrong with a destination, or None. *)
BadDestination(d) ==
    CASE d.port # None /\ d.port \notin PortTexts -> "BadPort"
      [] d.user = "" \/ d.host \in {"", "--"} \/ IsOption(d.host) -> "BadDestination"
      [] OTHER -> None

\* Mutant: the user of the destination is taken before the one of -l.
ParsedPlaceFirst(acc, d) ==
    LET auth == CASE acc.keys # <<>> -> "key"
                  [] acc.keys = <<>> /\ (acc.password = TRUE \/ acc.preferred = TRUE) -> "password"
                  [] OTHER -> "agent"
        extras == SelectSeq(acc.extras, LAMBDA e : ~(auth = "password" /\ e.hint))
    IN  [destination |-> d.host, user |-> Else(d.user, acc.user), port |-> Else(acc.port, d.port),
         auth |-> auth, keys |-> acc.keys, jumps |-> acc.jumps,
         extras |-> FlattenSeq([i \in DOMAIN extras |-> extras[i].words]),
         notes |-> acc.notes, error |-> None]
Parsed(acc, d) ==
    LET auth == CASE acc.keys # <<>> -> "key"
                  [] acc.keys = <<>> /\ (acc.password = TRUE \/ acc.preferred = TRUE) -> "password"
                  [] OTHER -> "agent"
        extras == SelectSeq(acc.extras, LAMBDA e : ~(auth = "password" /\ e.hint))
    IN  [destination |-> d.host, user |-> Else(acc.user, d.user), port |-> Else(acc.port, d.port),
         auth |-> auth, keys |-> acc.keys, jumps |-> acc.jumps,
         extras |-> FlattenSeq([i \in DOMAIN extras |-> extras[i].words]),
         notes |-> acc.notes, error |-> None]

Refused(why) == [error |-> why]

MapOptions(walk) ==
    LET d == Destination(walk.dest)
        acc == FoldLeft(MapOption, Unmapped, walk.opts)
    IN  CASE BadDestination(d) # None -> Refused(BadDestination(d))
          [] BadDestination(d) = None /\ acc.error # None -> Refused(acc.error)
          [] OTHER -> Parsed(acc, d)

(* A quote that is not closed is the word "'". *)
Unbalanced(words) == "'" \in ToSet(words)

Parse(words) ==
    LET named == words # <<>> /\ words[1] = "ssh"
        walk == ReadOptions(IF named THEN Tail(words) ELSE words)
    IN  CASE words = <<>> -> Refused("Empty")
          [] Unbalanced(words) -> Refused("Unbalanced")
          [] ToSet(words) \cap Controls # {} -> Refused("Control")
          [] ~named /\ ~IsOption(words[1]) -> Refused("NotSsh")
          [] walk.error # None -> Refused(walk.error)
          [] walk.dest = None -> Refused("NoDestination")
          [] OTHER -> MapOptions(walk)

(* The host of a line, with the flags `add` was given beside it. *)
IntoHost(parsed, given) ==
    [name |-> Else(given.name, parsed.destination), hostname |-> parsed.destination,
     user |-> parsed.user, port |-> parsed.port,
     auth |-> IF given.password /\ parsed.auth = "agent" THEN "password" ELSE parsed.auth,
     keys |-> parsed.keys, jumps |-> parsed.jumps, extra |-> parsed.extras,
     tags |-> given.tags, site |-> given.site, tfa |-> given.tfa,
     credential |-> given.credential]

-----------------------------------------------------------------------------
(* The other way: a host as the arguments of ssh, and as an exported block. *)

Defaulted(field, default, unset) == IF field = unset THEN default ELSE field

(* The site a host names, if it is defined, capitals apart. *)
FindSite(sites, name) == {s \in DOMAIN sites : SameText(s, name)}
WithSiteDefaults(h, sites) ==
    IF FindSite(sites, h.site) = {} THEN h
    ELSE LET s == sites[CHOOSE n \in FindSite(sites, h.site) : TRUE]
         IN  [h EXCEPT !.user = Defaulted(@, s.user, None), !.port = Defaulted(@, s.port, None),
                       !.jumps = Defaulted(@, s.jumps, <<>>), !.keys = Defaulted(@, s.keys, <<>>)]

Extra(h) == IF Unbalanced(h.extra) THEN <<>> ELSE h.extra

(* The user before the @, $USER for a host that names none. *)
EffectiveUser(h) == Else(h.user, LocalUser)
Endpoint(h) ==
    CHOOSE t \in DOMAIN DestOf :
        DestOf[t] = [user |-> EffectiveUser(h), host |-> h.hostname, port |-> None]

KeyArgs(h) ==
    IF h.auth = "key" THEN FlattenSeq([i \in DOMAIN h.keys |-> <<"-i", h.keys[i]>>]) ELSE <<>>
PortArgs(h) == IF h.port \in {None, "22"} THEN <<>> ELSE <<"-p", h.port>>
JumpArgs(h, askpass) ==
    CASE h.jumps = <<>> -> <<>>
      [] askpass /\ Len(h.jumps) = 1 /\ h.jumps[1] \in DOMAIN ProxyOf ->
             <<"-o", ProxyOf[h.jumps[1]]>>
      [] OTHER -> <<"-J", Commas(h.jumps)>>
KeyOnly(h) ==
    CASE h.auth = "key" /\ h.tfa ->
             <<"-o", "PreferredAuthentications=publickey,keyboard-interactive">>
      [] h.auth = "key" /\ ~h.tfa -> <<"-o", "PreferredAuthentications=publickey">>
      [] OTHER -> <<>>

BuildArgs(h, askpass) ==
    KeyArgs(h) \o PortArgs(h) \o JumpArgs(h, askpass)
        \o <<"-o", "StrictHostKeyChecking=accept-new">> \o KeyOnly(h) \o Extra(h)
        \o <<Endpoint(h)>>

(* A forward's arguments: what ssh does for it, then the host's own.        *)
Target(spec) ==
    IF spec.type = "dynamic" THEN ""
    ELSE ":" \o (IF spec.target = None THEN "localhost" ELSE spec.target) \o ":" \o spec.port
SpecString(spec) ==
    (IF spec.bind = None THEN "127.0.0.1" ELSE spec.bind) \o ":" \o spec.listen \o Target(spec)
ForwardArgs(spec) ==
    <<CASE spec.type = "local" -> "-L" [] spec.type = "remote" -> "-R" [] OTHER -> "-D",
      SpecString(spec)>>
NoPromptArgs(askpass) == IF askpass THEN <<>> ELSE <<"-o", "BatchMode=yes">>
BuildForwardCommand(h, spec, askpass) ==
    <<"-N", "-o", "ExitOnForwardFailure=yes">> \o ForwardArgs(spec) \o NoPromptArgs(askpass)
        \o BuildArgs(h, askpass)

(* The extra arguments in pairs: an -o and its value, apart or in one word, *)
(* becomes a line of the block, and anything else is named in a comment.    *)
Translate(h) ==
    LET take(acc, w) ==
            CASE acc.open -> [acc EXCEPT !.open = FALSE, !.options = Append(@, Option(w))]
              [] ~acc.open /\ w = "-o" -> [acc EXCEPT !.open = TRUE]
              [] ~acc.open /\ w # "-o" /\ IsOption(w) /\ WordOf[w].flags = <<"o">> ->
                     [acc EXCEPT !.options = Append(@, Option(WordOf[w].attached))]
              [] OTHER -> acc
    IN  SelectSeq(FoldLeft(take, [open |-> FALSE, options |-> <<>>], Extra(h)).options,
                  LAMBDA o : o.value # "")

RenderHost(h) ==
    <<[key |-> "hostname", value |-> h.hostname]>>
        \o (IF h.user = None THEN <<>> ELSE <<[key |-> "user", value |-> h.user]>>)
        \o (IF h.port \in {None, "22"} THEN <<>> ELSE <<[key |-> "port", value |-> h.port]>>)
        \o (IF h.auth = "key"
            THEN [i \in DOMAIN h.keys |-> [key |-> "identityfile", value |-> h.keys[i]]]
            ELSE <<>>)
        \o (IF h.jumps = <<>> THEN <<>>
            ELSE <<[key |-> "proxyjump", value |-> Commas(h.jumps)]>>)
        \o Translate(h)

-----------------------------------------------------------------------------
(* What ssh makes of settings in their order: the first value of a key is  *)
(* the one that counts, and only key files add up.  A user or a port that  *)
(* nothing names is None: ~/.ssh/config may give one, else ssh has its own. *)

Named == {"hostname", "user", "port", "identityfile", "proxyjump", "proxycommand"}
Values(settings, keys) == SelectSeq(settings, LAMBDA o : o.key \in keys)
First(settings, keys, otherwise) ==
    LET found == Values(settings, keys) IN IF found = <<>> THEN otherwise ELSE found[1].value

Route(settings) ==
    LET found == Values(settings, {"proxyjump", "proxycommand"})
    IN  CASE found = <<>> -> <<>>
          [] found # <<>> /\ found[1].key = "proxycommand" -> <<found[1].value>>
          [] OTHER -> List(found[1].value)

Reading(settings) ==
    [host |-> First(settings, {"hostname"}, None), user |-> First(settings, {"user"}, None),
     port |-> First(settings, {"port"}, None), route |-> Route(settings),
     keys |-> LET found == Values(settings, {"identityfile"})
              IN  [i \in DOMAIN found |-> found[i].value],
     rest |-> {o \in ToSet(settings) :
                   /\ o.key \notin Named
                   /\ First(settings, {o.key}, None) = o.value}]

Says(o) ==
    CASE o.flag = "l" -> [key |-> "user", value |-> o.value]
      [] o.flag = "p" -> [key |-> "port", value |-> o.value]
      [] o.flag = "i" -> [key |-> "identityfile", value |-> Lookup(AbsoluteOf, o.value, o.value)]
      [] o.flag = "J" -> [key |-> "proxyjump", value |-> o.value]
      [] o.flag = "o" -> Option(o.value)
      [] OTHER -> [key |-> "-" \o o.flag, value |-> IF o.value = None THEN "" ELSE o.value]

(* A destination counts where it stands: its user and port come after the  *)
(* options before it and before those behind it.                           *)
Place(d) ==
    <<[key |-> "hostname", value |-> d.host]>>
        \o (IF d.user = None THEN <<>> ELSE <<[key |-> "user", value |-> d.user]>>)
        \o (IF d.port = None THEN <<>> ELSE <<[key |-> "port", value |-> d.port]>>)
SaidAround(walk, at) ==
    LET said == [i \in DOMAIN walk.opts |-> Says(walk.opts[i])]
    IN  SubSeq(said, 1, at) \o Place(Destination(walk.dest)) \o SubSeq(said, at + 1, Len(said))
Said(words) == LET walk == ReadOptions(words) IN SaidAround(walk, walk.seen)

SshReads(words) == Reading(Said(words))
BlockReads(block) == Reading(block)
=============================================================================
