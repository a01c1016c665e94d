-------------------------------- MODULE TpkHtml --------------------------------
(***************************************************************************)
(* crates/tpk-cli/src/html_policy.rs, check_html: which pages may go into  *)
(* a pack.  A page is a sequence of marks:                                 *)
(*   "<script" "<iframe" "<base" "<object" "<meta" "</script"              *)
(*               the beginnings of tags                                    *)
(*   "<!--" "-->" ">" "/" " " "=" "'"                   themselves         *)
(*   "src" "data" "srcdoc" "href" "type" "http-equiv"   attribute names    *)
(*   "json"      application/json or application/ld+json                   *)
(*   "refresh"   that word                                                 *)
(*   "far"       the beginning of a URL with a scheme                      *)
(*   "x"         any other text                                            *)
(***************************************************************************)
EXTENDS TpkWords

TagStarts == {"<script", "<iframe", "<base", "<object", "<meta"}

\* The first index from "from" on whose mark is in a set; past the end if none is.
NextIn(page, from, marks) ==
    LET found == {i \in from .. Len(page) : page[i] \in marks}
    IN  IF found = {} THEN Len(page) + 1 ELSE Min(found)

NextNotIn(page, from, marks) ==
    LET found == {i \in from .. Len(page) : page[i] \notin marks}
    IN  IF found = {} THEN Len(page) + 1 ELSE Min(found)

\* The value of an attribute that starts at "from", and where the tag goes on.
ValueAt(page, from) ==
    IF from <= Len(page) /\ page[from] = "'"
    THEN LET close == NextIn(page, from + 1, {"'"})
         IN  [value |-> SubSeq(page, from + 1, close - 1), next |-> close + 1]
    ELSE LET close == NextIn(page, from, {" ", ">"})
         IN  [value |-> SubSeq(page, from, close - 1), next |-> close]

\* The attributes of parse_tag from "from" on, and the index past the tag's
\* end, 0 if the page ends first.
Attributes(page, from) ==
    LET rest[i \in 1 .. Len(page) + 2] ==
        LET start == NextNotIn(page, i, {" ", "/"})
            ends == NextIn(page, start + 1, {" ", "/", ">", "="})
            equals == NextNotIn(page, ends, {" "})
            value == ValueAt(page, NextNotIn(page, equals + 1, {" "}))
            With(key, val, tail) == [tail EXCEPT !.attrs = <<<<key, val>>>> \o @]
            key == SubSeq(page, start, ends - 1)
        IN  IF start > Len(page) THEN [attrs |-> <<>>, end |-> 0]
            ELSE IF page[start] = ">" THEN [attrs |-> <<>>, end |-> start + 1]
            ELSE IF equals > Len(page) \/ page[equals] # "="
            THEN With(key, <<>>, rest[ends])
            ELSE With(key, value.value, rest[value.next])
    IN  rest[from]

\* parse_tag: a name goes on to a space, a slash or the end.
Tag(page, start) ==
    LET nameEnds == NextIn(page, start + 1, {" ", "/", ">"})
        parsed == Attributes(page, nameEnds)
    IN  [name |-> SubSeq(page, start, nameEnds - 1), attrs |-> parsed.attrs, end |-> parsed.end]

Values(tag, name) ==
    LET named == SelectSeq(tag.attrs, LAMBDA a : a[1] = <<name>>)
    IN  [i \in DOMAIN named |-> named[i][2]]

-----------------------------------------------------------------------------
\* What loads something, by the element's name.
Loaders(name) ==
    CASE name = <<"<script">> -> {"src", "href"}
      [] name = <<"<iframe">> -> {"src"}
      [] name = <<"<object">> -> {"data"}
      [] OTHER -> {}

\* is_local_url: no scheme before the first slash, and not two slashes first.
IsLocal(value) ==
    LET url == Trim(value)
        first == SelectInSeq(url, LAMBDA c : c \in {"/", "far"})
    IN  /\ ~IsPrefix(<<"/", "/">>, url)
        /\ first # 0 => url[first] = "/"

\* Mutant: any end tag whose name begins with "script" ends a script.
BodyEndEarly(page, from) == NextIn(page, from, {"</script"})

\* Where a script's text ends: </script has to be all of the name.
BodyEnd(page, from) ==
    LET ends == {i \in from .. Len(page) :
                    page[i] = "</script" /\ (i = Len(page) \/ page[i + 1] \in {" ", "/", ">"})}
    IN  IF ends = {} THEN Len(page) + 1 ELSE Min(ends)

\* Browsers know the first of attributes with the same name.
IsDataBlock(tag) ==
    LET types == Values(tag, "type")
    IN  types # <<>> /\ Trim(types[1]) = <<"json">>

\* check_tag
TagPasses(page, start) ==
    LET tag == Tag(page, start)
        Is(name) == tag.name = <<name>>
        body == SubSeq(page, tag.end, BodyEnd(page, tag.end) - 1)
    IN  /\ \A a \in Loaders(tag.name) : \A url \in Range(Values(tag, a)) : IsLocal(url)
        /\ Is("<script") => tag.end # 0 /\ (IsDataBlock(tag) \/ Range(body) \subseteq {" "})
        /\ Is("<iframe") => Values(tag, "srcdoc") = <<>>
        /\ Is("<base") => Values(tag, "href") = <<>>
        /\ Is("<meta") => <<"refresh">> \notin {Trim(v) : v \in Range(Values(tag, "http-equiv"))}

\* check_html: whatever looks like a tag is one.
Passes(page) == \A i \in DOMAIN page : page[i] \in TagStarts => TagPasses(page, i)
================================================================================
