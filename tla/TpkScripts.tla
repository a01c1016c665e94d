------------------------------- MODULE TpkScripts ------------------------------
(***************************************************************************)
(* crates/tpk-cli/src/html_policy.rs, check_worker_sources: which modules  *)
(* and workers the scripts of a pack load.  A script is a sequence of      *)
(* marks:                                                                  *)
(*   "new" "Worker" "URL" "import" "importScripts" "export" "from" "meta"  *)
(*   "url" "serviceWorker" "register"                   these names        *)
(*   "x"                                                any other name     *)
(*   "'" "template" "\\" "${" "}"                       of strings         *)
(*   "//" "lf" "/*" "*/" " "                            between tokens     *)
(*   "/" "[" "]"                                        of expressions     *)
(*   "." "," "(" ")" ";"                                themselves         *)
(*   "far"                              as in TpkHtml, within strings only *)
(***************************************************************************)
EXTENDS TpkHtml

Identifiers == {"new", "Worker", "URL", "import", "importScripts", "export", "from", "meta", "url",
          "serviceWorker", "register", "x"}
Quotes == {"'", "template"}
MaxWrappers == 4
Window == 128

At(s, i) == IF i \in DOMAIN s THEN s[i] ELSE "eof"

\* skip_trivia: white space and comments.
Skip(s, from) ==
    LET skip[i \in 1 .. Len(s) + 2] ==
            CASE At(s, i) \in {" ", "lf"} -> skip[i + 1]
              [] At(s, i) = "//" -> skip[NextIn(s, i + 1, {"lf"})]
              [] At(s, i) = "/*" -> skip[NextIn(s, i + 1, {"*/"}) + 1]
              [] OTHER -> i
    IN  skip[from]

SkipString(s, from) ==
    LET skip[i \in 1 .. Len(s) + 2] ==
            IF i > Len(s) THEN Len(s) + 1
            ELSE IF s[i] = "\\" THEN skip[i + 2]
            ELSE IF s[i] = s[from] THEN i + 1 ELSE skip[i + 1]
    IN  skip[from + 1]

\* Regular expressions end at a line, and not within a class.
SkipRegex(s, from) ==
    LET skip[i \in 1 .. Len(s) + 2, class \in BOOLEAN] ==
            IF i > Len(s) THEN Len(s) + 1
            ELSE CASE s[i] = "\\" -> skip[i + 2, class]
                   [] s[i] = "/" /\ ~class -> i + 1
                   [] s[i] = "lf" -> i
                   [] s[i] \in {"[", "]"} -> skip[i + 1, s[i] = "["]
                   [] OTHER -> skip[i + 1, class]
    IN  skip[from + 1, FALSE]

\* The body of the literal at "i", if it is one that can be read.
Literal(s, i) ==
    LET end == SkipString(s, i)
        body == SubSeq(s, i + 1, end - 2)
    IN  IF \/ At(s, i) \notin Quotes
           \/ end - 1 <= i \/ At(s, end - 1) # s[i]
           \/ s[i] = "template" /\ "${" \in Range(body)
        THEN {} ELSE {body}

-----------------------------------------------------------------------------
\* Mutant: after a parenthesis a slash begins a regular expression.
NamesEndOperands(mark) == mark \in Identifiers \cup {"string"}

EndsOperand(mark) == mark \in Identifiers \cup {")", "]", "string"}

\* The tokens of the walk, with their places.
Tokens(s) ==
    LET from[i \in 1 .. Len(s) + 2, operand \in BOOLEAN] ==
            LET at == Skip(s, i)
                Then(mark, next) ==
                    <<[at |-> at, mark |-> mark]>> \o from[next, EndsOperand(mark)]
            IN  IF at > Len(s) THEN <<>>
                ELSE IF s[at] \in Quotes THEN Then("string", SkipString(s, at))
                ELSE IF s[at] = "/" /\ ~operand THEN Then("regex", SkipRegex(s, at))
                ELSE Then(s[at], at + 1)
    IN  from[1, FALSE]

\* Past these marks, with trivia between them; 0 if they are not there.
Past(s, i, marks) ==
    FoldLeft(LAMBDA at, mark : IF at # 0 /\ At(s, Skip(s, at)) = mark THEN Skip(s, at) + 1 ELSE 0,
             i, marks)

EndsArgument(s, i) == At(s, Skip(s, i)) \in {",", ")"}

\* first_arg_url: a literal, or new URL(literal, import.meta.url).
FirstArgument(s, from) ==
    LET i == Skip(s, from)
        url == Past(s, i, <<"new", "URL", "(">>)
        j == Skip(s, url)
        base == Past(s, SkipString(s, j), <<",", "import", ".", "meta", ".", "url", ")">>)
    IN  IF Literal(s, i) # {}
        THEN (IF EndsArgument(s, SkipString(s, i)) THEN Literal(s, i) ELSE {})
        ELSE IF url = 0 \/ Literal(s, j) = {} \/ base = 0 THEN {}
        ELSE IF EndsArgument(s, base) THEN Literal(s, j) ELSE {}

\* What a call loads, and whether some of it cannot be read.
NoCall == [urls |-> {}, unread |-> FALSE]
Single(urls) == [urls |-> urls, unread |-> urls = {}]

LiteralArguments(s, paren) ==
    LET from[i \in 1 .. Len(s) + 2] ==
            LET next == Skip(s, SkipString(s, i))
            IN  IF At(s, i) = ")" THEN NoCall
                ELSE IF Literal(s, i) = {} THEN [NoCall EXCEPT !.unread = TRUE]
                ELSE CASE At(s, next) = "," ->
                              [from[Skip(s, next + 1)] EXCEPT !.urls = @ \cup Literal(s, i)]
                       [] At(s, next) = ")" -> [NoCall EXCEPT !.urls = Literal(s, i)]
                       [] OTHER -> [urls |-> Literal(s, i), unread |-> TRUE]
    IN  from[Skip(s, paren + 1)]

\* new_callee: the last name of a chain, in parentheses or not.
Computed == [name |-> "computed", paren |-> 0]
NoConstruction == [name |-> "plain", paren |-> 0]

NewCallee(s, from) ==
    LET open[i \in 1 .. Len(s) + 2, n \in 0 .. MaxWrappers] ==
            IF At(s, i) = "(" /\ n < MaxWrappers THEN open[Skip(s, i + 1), n + 1] ELSE <<i, n>>
        close[i \in 1 .. Len(s) + 2, n \in 0 .. MaxWrappers] ==
            IF n = 0 THEN i ELSE IF At(s, i) = ")" THEN close[Skip(s, i + 1), n - 1] ELSE 0
        last[i \in 1 .. Len(s) + 2] ==
            LET dot == Skip(s, i + 1)
                next == Skip(s, dot + 1)
            IN  IF At(s, dot) # "." THEN i ELSE IF At(s, next) \in Identifiers THEN last[next] ELSE 0
        opened == open[Skip(s, from), 0]
        name == last[opened[1]]
        end == Skip(s, name + 1)
        paren == close[end, opened[2]]
    IN  IF At(s, opened[1]) = "." THEN NoConstruction
        ELSE IF At(s, opened[1]) \notin Identifiers \/ name = 0 THEN Computed
        ELSE IF At(s, end) = "[" \/ paren = 0 THEN Computed
        ELSE IF At(s, paren) = "(" THEN [name |-> s[name], paren |-> paren] ELSE NoConstruction

\* What the token with the number "k" loads.
Call(s, tokens, k) ==
    LET at == tokens[k].at
        paren == Skip(s, at + 1)
        Follows(mark, n) == k > n /\ tokens[k - n].mark = mark
        callee == NewCallee(s, at + 1)
    IN  CASE tokens[k].mark = "new" ->
                IF callee.name = "Worker" THEN Single(FirstArgument(s, callee.paren + 1))
                ELSE IF callee = Computed /\ {"Worker", "serviceWorker"} \cap
                            Range(SubSeq(s, at, Min({at + Window, Len(s)}))) # {}
                THEN Single({}) ELSE NoCall
          [] tokens[k].mark = "importScripts" /\ At(s, paren) = "(" -> LiteralArguments(s, paren)
          [] At(s, paren) = "("
                /\ \/ tokens[k].mark = "import"
                   \/ tokens[k].mark = "register" /\ Follows(".", 1) /\ Follows("serviceWorker", 2) ->
                Single(FirstArgument(s, paren + 1))
          [] tokens[k].mark = "string" /\ s[at] # "template" /\ (Follows("from", 1) \/ Follows("import", 1)) ->
                [NoCall EXCEPT !.urls = Literal(s, at)]
          [] OTHER -> NoCall

Judged(s) ==
    LET tokens == Tokens(s)
        calls == {Call(s, tokens, k) : k \in DOMAIN tokens}
    IN  IF {"Worker", "serviceWorker", "import", "importScripts", "export"} \cap Range(s) = {}
        THEN [refused |-> FALSE, reported |-> FALSE]
        ELSE [refused  |-> \E c \in calls : \E url \in c.urls : ~IsLocal(url),
              reported |-> \/ \E c \in calls : c.unread
                           \/ \E k \in DOMAIN tokens : tokens[k].mark = "regex"]
================================================================================
