------------------------------- MODULE MCTpkGate -------------------------------
(***************************************************************************)
(* Instances of TpkGate for TLC.                                           *)
(***************************************************************************)
EXTENDS TpkGate

Attribute(name, value) == <<" ", name, "=", value>>

\* Statements of a bundle: what they load is their second part.
Arguments == {<<"'", "x", "'">>, <<"'", "far", "'">>}
Statement(before, argument, after) ==
    <<before \o argument \o after \o <<";">>, IF "far" \in Range(argument) THEN {"remote"} ELSE {}>>
Calls ==
    UNION {{Statement(<<"new", " ", "Worker", "(">>, a, <<")">>),
            Statement(<<"new", "(", "x", ".", "Worker", ")", "(">>, a, <<",", "x", ")">>),
            Statement(<<"new", " ", "Worker", "(", "new", " ", "URL", "(">>, a,
                      <<",", "import", ".", "meta", ".", "url", ")", ")">>),
            Statement(<<"x", ".", "serviceWorker", ".", "register", "(", " ">>, a, <<")">>),
            Statement(<<"importScripts", "(", "'", "'", ",">>, a, <<")">>),
            Statement(<<"import", "(", "/*", ")", "*/">>, a, <<")">>),
            Statement(<<"export", " ", "x", " ", "from">>, a, <<>>),
            Statement(<<"import">>, a, <<>>)} : a \in Arguments}
Unread ==
    {<<s, {"unread"}>> : s \in {<<"import", "(", "x", ")", ";">>, <<"new", " ", "x", "[", "'", "Worker", "'", "]", "(", ")", ";">>,
                                 <<"import", "(", "template", "far", "${", "template", ")", ";">>}}
Others ==
    {<<s, {}>> : s \in {<<"//", "'", "import", "'", "far", "'", "lf">>, <<"/*", "'", "*/">>,
                         <<"x", "/", "x", ";">>, <<"(", "x", ")", "/", "x", ";">>,
                         <<"/", "[", "/", "]", "'", "/", ";">>, <<"'", "/*", "\\", "'", "'", ";">>,
                         <<"template", "import", "(", "'", "far", "'", ")", "template", ";">>,
                         <<"x", "(", "'", "far", "'", ")", ";">>}}
\* A regular expression after a condition, and a template in a template.
Astray ==
    {<<s, {"astray"}>> : s \in {<<"(", "x", ")", "/", "'", "/", ";">>,
                                 <<"template", "${", "template", "'", "template", "}", "template", ";">>}}
Statements == Calls \cup Unread \cup Others \cup Astray
MCLoads == [s \in {c[1] : c \in Statements} |-> UNION {c[2] : c \in {d \in Statements : d[1] = s}}]

MCPieces ==
    [s \in {"path", "notes", "page", "links", "code", "release"} |->
        CASE s = "path" -> {<<c>> : c \in {"/", ".", "a", ":", "\\", "e'", "e+'", "tauri"}}
          [] s = "notes" -> {<<c>> : c \in {"<", ">", "a", " ", "lf", "bidi"}}
          [] s = "page" ->
                {<<c>> : c \in {"<script", "</script", "<!--", "-->", ">", " ", "x", "'"}}
                \cup {Attribute("type", "json"), Attribute("type", "x"), Attribute("src", "far"),
                      Attribute("src", "'"), <<"<iframe", " ", "srcdoc">>}
          [] s = "links" ->
                {<<c>> : c \in {"<base", "<object", "/", " ", ">", "'", "far", "refresh"}}
                \cup {<<"<meta", " ", "http-equiv", "=">>, <<"<iframe", " ", "src", "=">>,
                      Attribute("href", "'"), Attribute("data", "/")}
          [] s = "code" -> DOMAIN MCLoads
          [] s = "release" -> {}]

MCMaxLen ==
    [s \in Subjects |-> CASE s = "path" -> 5 [] s = "notes" -> 6
                            [] s \in {"page", "links"} -> 5 [] s = "code" -> 3 [] s = "release" -> 0]
================================================================================
