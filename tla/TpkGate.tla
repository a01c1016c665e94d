-------------------------------- MODULE TpkGate --------------------------------
(***************************************************************************)
(* Texts and pages as they are put together mark by mark, and beside a     *)
(* page the browser that reads it.                                         *)
(***************************************************************************)
EXTENDS TpkScripts

CONSTANTS
    Pieces,   \* by subject ("path", "notes", "page", "links", "code"): what its texts are made of
    Loads,    \* by piece of code: "remote" if it loads from outside, "unread" if none can tell,
              \* "astray" if the walk of the lint does not follow it
    MaxLen,   \* by subject: bound on the pieces of a text
    MaxNotes  \* MAX_NOTES_LEN

Subjects == DOMAIN Pieces
Pages == {"page", "links"}  \* with scripts in them, and with other elements

VARIABLES subject, text, pieces, browser

gateVars == <<subject, text, pieces, browser>>

-----------------------------------------------------------------------------
(***************************************************************************)
(* The browser: the states of the HTML tokenizer that lead to a script, a  *)
(* frame or another page, and in "ran" what it ran or loaded from outside. *)
(***************************************************************************)
Idle == [mode |-> "data", tag |-> <<>>, attrs |-> <<>>, key |-> <<>>, val |-> <<>>,
         level |-> "plain", inline |-> FALSE, ran |-> {}]

Before(b) == [b EXCEPT !.mode = "before", !.key = <<>>, !.val = <<>>]
Opened(b, c) == [b EXCEPT !.mode = "name", !.tag = <<c>>, !.attrs = <<>>]
Keyed(b) == [b EXCEPT !.attrs = Append(@, <<b.key, b.val>>), !.key = <<>>, !.val = <<>>]

Has(b, name) == \E a \in Range(b.attrs) : a[1] = <<name>>
First(b, name) == b.attrs[SelectInSeq(b.attrs, LAMBDA a : a[1] = <<name>>)][2]

Leaves(url) ==
    \/ IsPrefix(<<"/", "/">>, Trim(url))
    \/ \E i \in DOMAIN url : url[i] = "far" /\ \A j \in 1 .. i - 1 : url[j] # "/"

\* What each element fetches and runs; a script in an SVG goes by its href.
Fetched == {<<"<script", "src">>, <<"<script", "href">>, <<"<iframe", "src">>, <<"<object", "data">>}

Does(b) ==
    {"load" : f \in {g \in Fetched : b.tag = <<g[1]>> /\ Has(b, g[2]) /\ Leaves(First(b, g[2]))}}
    \cup {"frame" : n \in {m \in {"srcdoc"} : b.tag = <<"<iframe">> /\ Has(b, m)}}
    \cup {"rebase" : n \in {m \in {"href"} : b.tag = <<"<base">> /\ Has(b, m)}}
    \cup {"refresh" : n \in {m \in {"http-equiv"} :
              b.tag = <<"<meta">> /\ Has(b, m) /\ Trim(First(b, m)) = <<"refresh">>}}

\* At the end of a tag.
Ended(b) ==
    IF b.tag[1] = "</script" THEN [b EXCEPT !.mode = "data"]
    ELSE [b EXCEPT !.mode = IF b.tag = <<"<script">> THEN "script" ELSE "data",
                   !.level = "plain",
                   !.inline = /\ ~Has(b, "src") /\ ~Has(b, "href")
                              /\ Has(b, "type") => Trim(First(b, "type")) # <<"json">>,
                   !.ran = @ \cup Does(b)]

\* The text of a script; scripts within a comment in it come in pairs.
ScriptText(b, c) ==
    LET read == IF c # " " /\ b.inline THEN [b EXCEPT !.ran = @ \cup {"inline"}] ELSE b
    IN  CASE c = "</script" -> [b EXCEPT !.mode = "closing"]
          [] c = "<!--" /\ b.level = "plain" -> [read EXCEPT !.level = "escaped"]
          [] c = "-->" -> [read EXCEPT !.level = "plain"]
          [] c = "<script" /\ b.level = "escaped" -> [read EXCEPT !.mode = "nesting"]
          [] OTHER -> read

Read(b, c) ==
    LET ends == c \in {" ", "/", ">"}
        Append1(field) == [b EXCEPT ![field] = Append(@, c)]
    IN  CASE b.mode = "data" ->
                IF c \in TagStarts \cup {"</script"} THEN Opened(b, c)
                ELSE IF c = "<!--" THEN [b EXCEPT !.mode = "comment"] ELSE b
          [] b.mode = "comment" -> IF c = "-->" THEN [b EXCEPT !.mode = "data"] ELSE b
          [] b.mode = "name" ->
                IF c = ">" THEN Ended(b) ELSE IF ends THEN Before(b) ELSE Append1("tag")
          [] b.mode \in {"before", "quotedEnd"} ->
                IF c = ">" THEN Ended(b) ELSE IF ends THEN Before(b)
                ELSE [Before(b) EXCEPT !.mode = "key", !.key = <<c>>]
          [] b.mode = "key" ->
                CASE c = ">" -> Ended(Keyed(b))
                  [] c = "/" -> Before(Keyed(b))
                  [] c = " " -> [b EXCEPT !.mode = "keyEnd"]
                  [] c = "=" -> [b EXCEPT !.mode = "equals"]
                  [] OTHER -> Append1("key")
          [] b.mode = "keyEnd" ->
                CASE c = ">" -> Ended(Keyed(b))
                  [] c = "/" -> Before(Keyed(b))
                  [] c = " " -> b
                  [] c = "=" -> [b EXCEPT !.mode = "equals"]
                  [] OTHER -> [Keyed(b) EXCEPT !.mode = "key", !.key = <<c>>]
          [] b.mode = "equals" ->
                CASE c = ">" -> Ended(Keyed(b))
                  [] c = " " -> b
                  [] c = "'" -> [b EXCEPT !.mode = "quoted"]
                  [] OTHER -> [b EXCEPT !.mode = "value", !.val = <<c>>]
          [] b.mode = "value" ->
                IF c = ">" THEN Ended(Keyed(b)) ELSE IF c = " " THEN Before(Keyed(b))
                ELSE Append1("val")
          [] b.mode = "quoted" ->
                IF c = "'" THEN [Keyed(b) EXCEPT !.mode = "quotedEnd"] ELSE Append1("val")
          [] b.mode = "script" -> ScriptText(b, c)
          [] b.mode = "closing" ->
                IF ~ends THEN ScriptText(ScriptText([b EXCEPT !.mode = "script"], "x"), c)
                ELSE IF b.level = "double"
                THEN [b EXCEPT !.mode = "script", !.level = "escaped"]
                ELSE IF c = ">" THEN [b EXCEPT !.mode = "data"]
                ELSE Before([b EXCEPT !.tag = <<"</script">>])
          [] b.mode = "nesting" ->
                IF ends THEN [b EXCEPT !.mode = "script", !.level = "double"]
                ELSE ScriptText([b EXCEPT !.mode = "script"], c)

-----------------------------------------------------------------------------
GateInit ==
    /\ subject \in Subjects
    /\ text = <<>> /\ pieces = 0
    /\ browser = Idle

\* A text goes on with one more piece.
Write(piece) ==
    /\ pieces < MaxLen[subject]
    /\ piece \in Pieces[subject]
    /\ text' = text \o piece
    /\ pieces' = pieces + 1
    /\ browser' = CASE subject \in Pages -> FoldLeft(Read, browser, piece)
                   [] subject = "code" /\ "astray" \notin browser.ran ->
                        [browser EXCEPT !.ran = @ \cup Loads[piece]]
                   [] OTHER -> browser
    /\ UNCHANGED subject

GateNext == \E piece \in UNION {Pieces[s] : s \in Subjects} : Write(piece)


-----------------------------------------------------------------------------
\* The gate of "tpk pack" hides no tag: of a page that passes, the browser
\* runs no inline script, loads nothing from outside, and leaves for nowhere,
\* whatever is comment, text or attribute to it.  Character references are
\* not among the marks (a URL with one is never local to the code; the value
\* of http-equiv is compared as it is written).
PagesStayInThePack == subject \in Pages /\ Passes(text) => browser.ran = {}

\* The lint of "tpk pack" follows a script as far as html_policy.rs:49-58
\* says it does, up to the first slash it misjudges or the first nested
\* template: what is before that is refused if it loads from outside by a
\* call or an import, and reported if it cannot be read, whatever comes
\* after; and a script without any is refused for nothing else, whatever
\* strings, comments, divisions and regular expressions it is made of.
CodeIsJudged ==
    subject = "code" =>
        /\ "remote" \in browser.ran => Judged(text).refused
        /\ "unread" \in browser.ran => Judged(text).reported
        /\ Judged(text).refused => browser.ran \cap {"remote", "astray"} # {}

\* The directories a path leads through from the root, "." and ".." followed.
Walk(path) ==
    FoldLeft(LAMBDA at, step : IF step \in {<<>>, <<".">>} THEN at
                               ELSE IF step = <<".", ".">> THEN (IF at = <<>> THEN at ELSE Front(at))
                               ELSE Append(at, step),
             <<>>, Split(path, "/"))

\* Accepted paths are names: one spelling for one file, so that no two
\* entries of a pack name the same and none lies elsewhere than it says.  A
\* web view finds a file under every key it may ask for it by, with or
\* without the slash and in any normal form, and a key names nothing else.
PathsAreNames ==
    subject = "path" =>
        LET path == Nfc(text)
            key == NormalizeAssetKey(text)
        IN  /\ IsPath(text) => Walk(text) = Tail(Split(text, "/"))
            /\ IsPath(path) => key = path /\ NormalizeAssetKey(Tail(text)) = path
            /\ key # NoPath => IsPath(key) /\ NormalizeAssetKey(key) = key

Visible(c) == c \notin Controls \cup {" ", "<", ">", "bidi"}

\* What a reader would see of a note: what no tag encloses.
Outside(note) ==
    {i \in DOMAIN note : LET marks == {j \in 1 .. i : note[j] \in {"<", ">"}}
                         IN  marks = {} \/ note[Max(marks)] = ">"}

\* Notes carry no markup, no control and nothing that reorders text to a
\* user, and lose nothing else of what fits.
NotesAreWhatIsSeen ==
    subject = "notes" =>
        LET notes == Notes(text, MaxNotes)
            seen == Cardinality({i \in Outside(text) : Visible(text[i])})
        IN  /\ Range(notes) \cap ({"<", ">", "bidi"} \cup Controls) = {}
            /\ Len(notes) <= MaxNotes
            /\ Len(notes) < MaxNotes =>
                   Cardinality({i \in DOMAIN notes : Visible(notes[i])}) = seen
================================================================================
