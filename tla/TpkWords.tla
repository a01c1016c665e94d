-------------------------------- MODULE TpkWords -------------------------------
(***************************************************************************)
(* What tpk-format makes of single texts: entry paths and asset keys       *)
(* (path.rs), and release notes (channel.rs).  A text is a sequence of     *)
(* marks:                                                                  *)
(*   "/" "." ":" "\\" "<" ">" " "   themselves                             *)
(*   "a"          any letter, and anything else that plays no role         *)
(*   "tauri"      that word; "__tauri" as well                             *)
(*   "e'"         a letter and its accent as one character                 *)
(*   "e+'"        the same as two, which is not normal form C              *)
(*   "nul" "lf" "cr"                                                       *)
(*   "bidi"       a character that hides or reorders text                  *)
(***************************************************************************)
EXTENDS Integers, SequencesExt

Split(text, mark) ==
    FoldLeft(LAMBDA parts, c : IF c = mark THEN Append(parts, <<>>)
                               ELSE [parts EXCEPT ![Len(parts)] = Append(@, c)],
             <<<<>>>>, text)

-----------------------------------------------------------------------------
(***************************************************************************)
(* path.rs                                                                 *)
(***************************************************************************)
ReservedPrefixes == {<<"/", ".", "tauri">>, <<"/", "__tauri">>}

Nfc(text) == [i \in DOMAIN text |-> IF text[i] = "e+'" THEN "e'" ELSE text[i]]

IsDriveLetter(segment) == segment = <<"a", ":">>

\* Mutant: empty segments are let in.
IsSegmentOrEmpty(segment) == segment \notin {<<".">>, <<".", ".">>} /\ ~IsDriveLetter(segment)

IsSegment(segment) ==
    segment \notin {<<>>, <<".">>, <<".", ".">>} /\ ~IsDriveLetter(segment)

\* PackPath::parse accepts the text, as it is.
IsPath(text) ==
    /\ text # <<>> /\ text[1] = "/"
    /\ {"\\", "nul"} \cap Range(text) = {}
    /\ Nfc(text) = text
    /\ \A segment \in Range(Split(Tail(text), "/")) : IsSegment(segment)
    /\ \A r \in ReservedPrefixes : text # r /\ ~IsPrefix(Append(r, "/"), text)

NoPath == <<>>

Trimmed(key) ==
    LET first == SelectInSeq(key, LAMBDA c : c # "/")
    IN  IF first = 0 THEN <<>> ELSE SubSeq(key, first, Len(key))

\* normalize_asset_key: keys come without the slash, in any normal form.
NormalizeAssetKey(key) ==
    LET path == <<"/">> \o Nfc(Trimmed(key))
    IN  IF Trimmed(key) # <<>> /\ IsPath(path) THEN path ELSE NoPath

-----------------------------------------------------------------------------
(***************************************************************************)
(* channel.rs                                                              *)
(***************************************************************************)
Controls == {"nul", "lf", "cr"}

IsInvisibleFormat(c) == c = "bidi"

Trim(text) ==
    LET kept == {i \in DOMAIN text : text[i] # " "}
    IN  IF kept = {} THEN <<>> ELSE SubSeq(text, Min(kept), Max(kept))

\* strip_markup: tags, also unclosed ones, and what hides text; a run of
\* controls is one space.
StripMarkup(text) ==
    LET Step(s, c) ==
            IF c \in {"<", ">"} THEN [s EXCEPT !.inTag = (c = "<")]
            ELSE IF s.inTag \/ IsInvisibleFormat(c) THEN s
            ELSE IF c \notin Controls THEN [s EXCEPT !.out = Append(@, c)]
            ELSE IF s.out # <<>> /\ Last(s.out) = " " THEN s
            ELSE [s EXCEPT !.out = Append(@, " ")]
    IN  Trim(FoldLeft(Step, [inTag |-> FALSE, out |-> <<>>], text).out)

Truncate(text, max) == IF Len(text) > max THEN SubSeq(text, 1, max) ELSE text

\* Mutant: the note is cut before it is stripped.
NotesCutFirst(text, max) == StripMarkup(Truncate(text, max))

\* The note that ChannelManifest::parse leaves; none if it is empty.
Notes(text, max) == Truncate(StripMarkup(text), max)

================================================================================
