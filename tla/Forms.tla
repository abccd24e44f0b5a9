-------------------------------- MODULE Forms --------------------------------
(***************************************************************************)
(* The forms of the user interface: the host form, the forward, settings,  *)
(* bulk-secret and verification-code popups, a site's form, and the file   *)
(* browser the host form opens.  Each is a record of one shape: texts with *)
(* cursors, and picks, which go round a list of options.                   *)
(*                                                                         *)
(* A text is a sequence of pieces, a piece being what one key or one word  *)
(* of a filled-in value put there; " " and "," are pieces of their own.    *)
(***************************************************************************)
EXTENDS Texts

CONSTANTS
    Numbers,      \* the texts that are a port, "0" apart
    BadNames,     \* the texts that are no name of a credential
    Control,      \* a piece with a control character
    KeyFiles,     \* the private keys found in ~/.ssh, in order
    Dirs,         \* the directories the browser can show, each a sequence of entries
    StartDir,     \* the one it starts in
    PiecesOf      \* the entries of a list with blanks or commas inside, in pieces

-----------------------------------------------------------------------------
(* Texts.                                                                  *)

Piece(s) == IF s = None \/ s = "" THEN <<>> ELSE <<s>>
Between(texts, sep) ==
    FlattenSeq([i \in DOMAIN texts |-> IF i = 1 THEN texts[i] ELSE sep \o texts[i]])
Inside(entry) == Lookup(PiecesOf, entry, <<entry>>)
Listed(list) == Between([i \in DOMAIN list |-> Inside(list[i])], <<",", " ">>)
(* The extra arguments are one text of words; a blank inside one is quoted. *)
Worded(words) == Between([i \in DOMAIN words |-> <<words[i]>>], <<" ">>)

Inked(pieces) == {i \in DOMAIN pieces : pieces[i] # " "}
Trim(pieces) ==
    IF Inked(pieces) = {} THEN <<>>
    ELSE SubSeq(pieces, CHOOSE i \in Inked(pieces) : \A j \in Inked(pieces) : i <= j,
                        CHOOSE i \in Inked(pieces) : \A j \in Inked(pieces) : i >= j)
(* The pieces between separators, empty ones left out. *)
Split(pieces, seps) ==
    LET take(acc, p) == IF p \in seps THEN Append(acc, <<>>)
                        ELSE Append(Front(acc), Append(Last(acc), p))
        parts == FoldLeft(take, <<<<>>>>, pieces)
        kept == SelectSeq(parts, LAMBDA part : Trim(part) # <<>>)
    IN  [i \in DOMAIN kept |-> Written(Trim(kept[i]))]
Optional(pieces) == IF Trim(pieces) = <<>> THEN None ELSE Written(Trim(pieces))

Text(pieces) == [value |-> pieces, cursor |-> Len(pieces)]
Empty == Text(<<>>)

Chars == {"s", "c", "r", "n", "p", "x", " ", ",", Control}

Handle(text, code) ==
    CASE code \in Chars -> [value |-> InsertAt(text.value, text.cursor + 1, code),
                            cursor |-> text.cursor + 1]
      [] code = "backspace" /\ text.cursor > 0 ->
             [value |-> RemoveAt(text.value, text.cursor), cursor |-> text.cursor - 1]
      [] code = "left" /\ text.cursor > 0 -> [text EXCEPT !.cursor = @ - 1]
      [] code = "right" /\ text.cursor < Len(text.value) -> [text EXCEPT !.cursor = @ + 1]
      [] code = "home" -> [text EXCEPT !.cursor = 0]
      [] code = "end" -> [text EXCEPT !.cursor = Len(text.value)]
      [] OTHER -> text

-----------------------------------------------------------------------------
(* Picks.                                                                  *)

Pick(options, value) ==
    [options |-> options,
     at |-> IF \E i \in DOMAIN options : options[i] = value
            THEN CHOOSE i \in DOMAIN options :
                     options[i] = value /\ \A j \in 1 .. i - 1 : options[j] # value
            ELSE 1]
Picked(pick) == IF pick.options = <<>> THEN None ELSE pick.options[pick.at]
Turn(pick, by) ==
    IF pick.options = <<>> THEN pick
    ELSE [pick EXCEPT !.at = ((@ - 1 + Len(pick.options) + by) % Len(pick.options)) + 1]

\* Mutant: the picker shows the first key found, whatever the host uses.
KeyPickerFirst(key) == Pick(KeyFiles, None)
KeyPicker(key) ==
    IF key = None \/ key \in ToSet(KeyFiles) THEN Pick(KeyFiles, key)
    ELSE Pick(<<key>> \o KeyFiles, key)
SelectPath(pick, path) ==
    IF path \in ToSet(pick.options) THEN Pick(pick.options, path)
    ELSE Pick(Append(pick.options, path), path)
(* The first option that is the host's site, capitals apart; a site that is *)
(* not defined stays among the options.                                     *)
SitePicker(names, site) ==
    LET options == <<"(none)">> \o names
        fitting == SelectSeq(options, LAMBDA o : SameText(o, site))
    IN  CASE site = None -> Pick(options, None)
          [] site # None /\ fitting # <<>> -> Pick(options, fitting[1])
          [] OTHER -> Pick(Append(options, site), site)

Auths == <<"agent", "key", "password">>
Kinds == <<"local", "remote", "dynamic">>
Modes == <<"each", "shared", "unbind">>
OnOff == <<FALSE, TRUE>>
TmuxModes == <<"off", "window", "pane">>

-----------------------------------------------------------------------------
(* Opening each form.  `data` is what it carries and does not show.        *)

Form(kind, texts, picks, data) ==
    [kind |-> kind, texts |-> texts, picks |-> picks, data |-> data, focus |-> 1,
     error |-> FALSE, browser |-> None]

Fields(names) == [f \in names |-> Empty]

FromHost(h, sites, edit) ==
    Form("wizard",
         [name |-> Text(Piece(h.name)), hostname |-> Text(Piece(h.hostname)),
          user |-> Text(Piece(h.user)), port |-> Text(Piece(h.port)), secret |-> Empty,
          jumps |-> Text(Listed(h.jumps)),
          tags |-> Text(Listed(h.tags)), extra |-> Text(Worded(h.extra))],
         [auth |-> Pick(Auths, h.auth),
          keys |-> KeyPicker(IF h.keys = <<>> THEN None ELSE h.keys[1]),
          site |-> SitePicker(sites, h.site), tfa |-> Pick(OnOff, h.tfa)],
         [edit |-> edit, more |-> IF h.keys = <<>> THEN <<>> ELSE Tail(h.keys)])

ForwardPopup ==
    Form("forward", Fields({"bind", "listen", "target", "port"}),
         [type |-> Pick(Kinds, "local")], [none |-> None])
Settings(file, tmux) ==
    Form("settings", [file |-> Text(Piece(file))], [tmux |-> Pick(TmuxModes, tmux)], [none |-> None])
BulkSecret(targets) ==
    Form("bulk", Fields({"name", "secret"}), [mode |-> Pick(Modes, "each")],
         [targets |-> targets, replace |-> FALSE])
TwoFactor == Form("code", Fields({"code"}), <<>>, [none |-> None])
SiteForm(site, others) ==
    Form("site", [name |-> Text(Piece(site.name)), user |-> Text(Piece(site.user)),
                  port |-> Text(Piece(site.port)),
                  jumps |-> Text(Listed(site.jumps)),
                  keys |-> Text(Listed(site.keys))],
         <<>>, [others |-> others])

(* The fields a form shows, from top to bottom. *)
Shown(form) ==
    CASE form.kind = "wizard" ->
             <<"name", "hostname", "user", "port", "auth">>
                 \o (CASE Picked(form.picks.auth) = "key" -> <<"keys", "secret">>
                       [] Picked(form.picks.auth) = "password" -> <<"secret">>
                       [] OTHER -> <<>>)
                 \o <<"jumps", "tags", "site", "tfa", "extra">>
      [] form.kind = "forward" ->
             <<"type", "bind", "listen">>
                 \o (IF Picked(form.picks.type) = "dynamic" THEN <<>> ELSE <<"target", "port">>)
      [] form.kind = "settings" -> <<"file", "tmux">>
      [] form.kind = "bulk" ->
             (CASE Picked(form.picks.mode) = "each" -> <<"mode", "secret">>
                [] Picked(form.picks.mode) = "shared" -> <<"mode", "name", "secret">>
                [] OTHER -> <<"mode">>)
      [] form.kind = "code" -> <<"code">>
      [] OTHER -> <<"name", "user", "port", "jumps", "keys">>

Focused(form) == Shown(form)[form.focus]
AtLast(form) == form.focus >= Len(Shown(form))
FocusOn(form, field) ==
    IF field \in ToSet(Shown(form))
    THEN [form EXCEPT !.focus = CHOOSE i \in DOMAIN Shown(form) : Shown(form)[i] = field]
    ELSE form

(* The add form filled in from a host that is not saved yet. *)
Prefill(h, sites, secret) ==
    FocusOn([FromHost(h, sites, FALSE) EXCEPT !.texts.secret = Text(Piece(secret))],
            IF h.auth = "password" THEN "secret" ELSE "name")

-----------------------------------------------------------------------------
(* Saving: what is wrong first, else what the form makes.                  *)

Is(text, set) == Written(Trim(text.value)) \in set
Blank(text) == Trim(text.value) = <<>>
Bad(form, shown) ==
    {f \in (IF shown THEN ToSet(Shown(form)) ELSE DOMAIN form.texts) \cap DOMAIN form.texts :
        Control \in ToSet(form.texts[f].value)}
BadPort(text) == ~Blank(text) /\ ~Is(text, Numbers \cup {"0"})

(* The field that stops a form from being saved, "" where the form does not *)
(* say which, or None.                                                       *)
Fault(form) ==
    LET t == form.texts IN
    CASE form.kind = "wizard" ->
             (CASE Blank(t.name) -> "name"
                [] Blank(t.hostname) -> "hostname"
                [] Bad(form, TRUE) # {} ->
                       SelectSeq(Shown(form), LAMBDA f : f \in Bad(form, TRUE))[1]
                [] BadPort(t.port) -> "port"
                [] OTHER -> None)
      [] form.kind = "forward" ->
             (CASE ~Is(t.listen, Numbers) -> "listen"
                [] Picked(form.picks.type) # "dynamic" /\ ~Is(t.port, Numbers) -> "port"
                [] OTHER -> None)
      [] form.kind = "bulk" ->
             (CASE form.data.targets = 0 -> ""
                [] Picked(form.picks.mode) = "each" /\ t.secret.value = <<>> -> ""
                [] Picked(form.picks.mode) = "shared" /\ (Blank(t.name) \/ Is(t.name, BadNames)) ->
                       "name"
                [] OTHER -> None)
      [] form.kind = "code" -> IF Blank(t.code) THEN "" ELSE None
      [] form.kind = "site" ->
             IF Blank(t.name) \/ Bad(form, FALSE) # {} \/ BadPort(t.port)
                    \/ \E o \in form.data.others : SameText(o, Written(Trim(t.name.value)))
             THEN "" ELSE None
      [] OTHER -> None

Identities(form) ==
    LET first == Picked(form.picks.keys)
        ids == IF first = None THEN <<>> ELSE <<first>>
    IN  FoldLeft(LAMBDA acc, k : IF k \in ToSet(acc) THEN acc ELSE Append(acc, k), ids,
                 form.data.more)

HostOf(form) ==
    LET t == form.texts
        auth == Picked(form.picks.auth)
        site == Picked(form.picks.site)
    IN  [name |-> Written(Trim(t.name.value)), hostname |-> Written(Trim(t.hostname.value)),
         user |-> Optional(t.user.value), port |-> Optional(t.port.value), auth |-> auth,
         keys |-> IF auth = "key" THEN Identities(form) ELSE <<>>,
         jumps |-> Split(t.jumps.value, {","}), tags |-> Split(t.tags.value, {",", " "}),
         site |-> IF site = "(none)" THEN None ELSE site, tfa |-> Picked(form.picks.tfa),
         extra |-> Split(t.extra.value, {" "}), credential |-> None]

WizardMakes(form) ==
    [kind |-> "wizard", host |-> HostOf(form),
     secret |-> IF Picked(form.picks.auth) = "agent" THEN None
                ELSE Optional(form.texts.secret.value)]

ForwardMakes(form) ==
    LET t == form.texts
        aimed == Picked(form.picks.type) # "dynamic"
    IN  [kind |-> "forward", type |-> Picked(form.picks.type), bind |-> Optional(t.bind.value),
         listen |-> Optional(t.listen.value),
         target |-> IF aimed THEN Optional(t.target.value) ELSE None,
         port |-> IF aimed THEN Optional(t.port.value) ELSE None]

BulkMakes(form) ==
    LET mode == Picked(form.picks.mode)
        typed == form.texts.secret.value
    IN  [kind |-> "bulk", mode |-> mode,
         name |-> IF mode = "shared" THEN Lowered(Optional(form.texts.name.value)) ELSE None,
         secret |-> IF mode = "unbind" \/ typed = <<>> THEN None ELSE Written(typed),
         replace |-> mode # "unbind" /\ form.data.replace]

SiteMakes(form) ==
    LET t == form.texts
    IN  [kind |-> "site", name |-> Written(Trim(t.name.value)), user |-> Optional(t.user.value),
         port |-> Optional(t.port.value), jumps |-> Split(t.jumps.value, {","}),
         keys |-> Split(t.keys.value, {","})]

Makes(form) ==
    CASE form.kind = "wizard" -> WizardMakes(form)
      [] form.kind = "forward" -> ForwardMakes(form)
      [] form.kind = "settings" ->
             [kind |-> "settings", file |-> Optional(form.texts.file.value),
              tmux |-> Picked(form.picks.tmux)]
      [] form.kind = "bulk" -> BulkMakes(form)
      [] form.kind = "code" -> [kind |-> "code", code |-> Optional(form.texts.code.value)]
      [] OTHER -> SiteMakes(form)

Failed(form) ==
    IF form.kind \in {"wizard", "forward", "bulk"}
    THEN FocusOn([form EXCEPT !.error = TRUE], Fault(form))
    ELSE [form EXCEPT !.error = TRUE]

-----------------------------------------------------------------------------
(* The file browser over the host form.                                    *)

Browse(dir) == [dir |-> dir, query |-> <<>>, selected |-> 1]
(* An entry fits the letters it is found by; the best match first, which    *)
(* is left at the order of the listing.                                     *)
Visible(b) == SelectSeq(Dirs[b.dir], LAMBDA e : ToSet(b.query) \subseteq e.fits)
Up(b) == IF Dirs[b.dir] # <<>> /\ Dirs[b.dir][1].name = "../" THEN Browse(Dirs[b.dir][1].path)
         ELSE b

Browsing(form) == form.browser # None
Chooses(key) == key.code = "enter" \/ (key.code = "right" /\ key.mod # "ctrl")
Entered(b, key) ==
    IF Chooses(key) /\ b.selected <= Len(Visible(b)) THEN Visible(b)[b.selected] ELSE None

Browsed(b, key) ==
    LET n == Len(Visible(b))
        plain == key.mod # "ctrl"
        e == Entered(b, key)
    IN  CASE e # None -> Browse(e.path)
          [] key.code = "esc" -> [b EXCEPT !.query = <<>>, !.selected = 1]
          [] (key.code = "down" /\ plain) \/ (key.code = "n" /\ ~plain) ->
                 [b EXCEPT !.selected = IF b.selected < n THEN @ + 1 ELSE IF n = 0 THEN 1 ELSE n]
          [] (key.code = "up" /\ plain) \/ (key.code = "p" /\ ~plain) ->
                 [b EXCEPT !.selected = IF @ > 1 THEN @ - 1 ELSE 1]
          [] (key.code = "left" /\ plain) \/ (key.code = "backspace" /\ b.query = <<>>) -> Up(b)
          [] key.code = "backspace" /\ b.query # <<>> ->
                 [b EXCEPT !.query = Front(@), !.selected = 1]
          [] key.code \in Chars /\ plain ->
                 [b EXCEPT !.query = Append(@, key.code), !.selected = 1]
          [] OTHER -> b

BrowserKey(form, key) ==
    LET e == Entered(form.browser, key)
    IN  CASE key.code = "esc" /\ form.browser.query = <<>> -> [form EXCEPT !.browser = None]
          [] e # None /\ ~e.dir ->
                 [form EXCEPT !.browser = None, !.picks.keys = SelectPath(@, e.path)]
          [] OTHER -> [form EXCEPT !.browser = Browsed(@, key)]

-----------------------------------------------------------------------------
(* Keys.  A modified key is a command in most forms, and typed in the two   *)
(* that hold a secret.                                                      *)

Commands == {"wizard", "forward", "settings", "site"}
Is_s(key) == key.code = "s" /\ key.mod = "ctrl"
Plain(key) == key.mod = ""

Cancels(form, key) ==
    /\ ~Browsing(form)
    /\ \/ key.code = "esc" /\ (Plain(key) \/ form.kind \in {"site", "bulk", "code"})
       \/ key.code = "c" /\ key.mod = "ctrl" /\ form.kind \in {"bulk", "code"}

Submits(form, key) ==
    /\ ~Browsing(form)
    /\ \/ Is_s(key) /\ form.kind \in Commands
       \/ /\ key.code = "enter"
          /\ Plain(key) \/ form.kind \in {"site", "bulk", "code"}
          /\ \/ form.kind \in {"settings", "bulk", "code"}
             \/ AtLast(form) /\ Focused(form) # "keys"
             \/ AtLast(form) /\ form.kind = "site"

Ignored(form, key) == form.kind \in Commands /\ ~Plain(key)

Moves == {"tab", "down", "backtab", "up", "enter"}
\* Mutant: the focus does not come round at the last field.
MovedPast(form, key) ==
    IF form.kind = "wizard" /\ key.code = "enter" /\ Focused(form) = "keys"
    THEN [form EXCEPT !.browser = Browse(StartDir)]
    ELSE [form EXCEPT !.focus = IF key.code \in {"backtab", "up"} THEN @ - 1 ELSE @ + 1]
Moved(form, key) ==
    LET n == Len(Shown(form))
        by == IF key.code \in {"backtab", "up"} THEN n - 1 ELSE 1
    IN  IF form.kind = "wizard" /\ key.code = "enter" /\ Focused(form) = "keys"
        THEN [form EXCEPT !.browser = Browse(StartDir)]
        ELSE [form EXCEPT !.focus = ((@ - 1 + by) % n) + 1]

(* Left turns a pick back; the tmux pick has one direction. *)
TurnsBack(field, code) == code = "left" /\ field # "tmux"
TurnsOn(field, code) == code \in {"right", " ", "left"} /\ ~TurnsBack(field, code)
Turned(form, field, code) ==
    CASE TurnsBack(field, code) -> [form EXCEPT !.picks[field] = Turn(@, -1)]
      [] TurnsOn(field, code) -> [form EXCEPT !.picks[field] = Turn(@, 1)]
      [] OTHER -> form

InReach(form) ==
    [form EXCEPT !.focus = IF @ > Len(Shown(form)) THEN Len(Shown(form)) ELSE @]

Pressed(form, key) ==
    LET field == Focused(form)
        clear == IF form.kind = "bulk" THEN [form EXCEPT !.error = FALSE] ELSE form
    IN  CASE Browsing(form) -> BrowserKey(form, key)
          [] ~Browsing(form) /\ Ignored(form, key) -> form
          [] form.kind = "bulk" /\ key = [code |-> "r", mod |-> "ctrl"] ->
                 [form EXCEPT !.data.replace = ~@]
          [] key.code \in Moves -> Moved(clear, key)
          [] field \in DOMAIN form.picks -> InReach(Turned(clear, field, key.code))
          [] OTHER -> [clear EXCEPT !.texts[field] = Handle(@, key.code)]
=============================================================================
