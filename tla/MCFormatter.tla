------------------------------ MODULE MCFormatter ------------------------------
(* Sources for Formatter: all short texts over a few pieces, and a program  *)
(* for each layout of the printer with one piece put in anywhere.           *)
EXTENDS Formatter

Pieces == {<<"(", " ">>, <<")", " ">>, <<"{", " ">>, <<"}", " ">>, <<"'">>, <<"~", " ">>, <<"@">>,
           <<"#_">>, <<"a", " ">>, <<"?", " ">>, <<";c", "\n">>, <<"\n", ";d", "\n">>}

ShortTexts == UNION {{FlattenSeq(s) : s \in [1..n -> Pieces]} : n \in 0..4}

Programs == {
    <<"(", "f", "a", "(", "g", "b", ")", "#{", "a", "}", ")">>,
    <<"(", "f", "'", "a", "~", "@", "b", "qq", "(", "a", ")", ")">>,
    <<"#_", "#_", "(", "a", ")", "(", "b", ")", "(", ")">>,
    <<"(", "defn", "f", "[", "a", "]", "(", "g", "a", ")", "b", ")">>,
    <<"(", "defn", "f", "s", "[", "a", "]", "b", ")">>,
    <<"(", "fn", "[", "a", "]", "(", "g", "a", ")", ")">>,
    <<"(", "defmacro", "f", "[", "a", "]", "(", "b", ")", ")">>,
    <<"(", "deftest", "s", "{", ":k", "1", "}", "(", "f", ")", ")">>,
    <<"(", "each", "a", "(", "f", ")", "(", "g", "a", ")", ")">>,
    <<"(", "do", "(", "f", ")", "a", ")">>,
    <<"(", "let", "[", "a", "1", "]", "a", ")">>,
    <<"(", "let", "[", "a", "1", "b", "(", "f", ")", "]", "a", "b", ")">>,
    <<"(", "let", "[", "mut", "a", "1", "b", "1", "f", "]", "a", ")">>,
    <<"(", "let", "[", "a", "b", "|", "(", "f", ")", "b", "1", "]", "a", ")">>,
    <<"(", "let", "[", "mut", "a", "b", "|", "1", "]", "a", ")">>,
    <<"(", "loop", "a", "b", ")">>,
    <<"(", "if", "a", "(", "f", ")", "b", ")">>,
    <<"(", "cond", "a", "(", "f", ")", "b", "1", ")">>,
    <<"(", "cond", "a", "b", "(", "f", ")", "b", "1", ")">>,
    <<"(", "match", "a", "1", "(", "f", ")", "b", "b", ")">>,
    <<"(", "match", "a", "1", "b", "1", "b", "f", ")">>,
    <<"(", "match", ")">>,
    <<"(", "module", "a", ":k", "[", "b", "]", ":k", ")">>,
    <<"(", "deftype", "a", "|", "b", "|", "(", "f", "a", ")", ")">>,
    <<"(", "deftype", "a", "{", ":k", "a", ":k", "b", "}", ")">>,
    <<"(", "deftype", ")">>,
    <<"[", ":k", "{", ":k", "a", "}", "[", ":k", "b", "]", "]">>,
    <<"{", ":k", "(", "?", "(", "f", ")", ")", ":k", "a", "}">>,
    <<"(", "f", ")", "?", "?">>,
    <<"(", "defn", "f", "multi", "[", "a", "]", "(", "f", "multi", ")", ")">>,
    <<"(", "match", "a", "1", "(", "f", "multi", ")", "b", "multi", ")">>,
    <<"(", "f", "multi", "tag", ")">>,
    <<"{", ":k", "multi", ":k", "s", "}">>,
    <<"(", "f", "raw", ")">>,
    <<"[", "indented", "a", "]">>,
    <<"(", "do", "blank", "(", "f", ")", ")">>,
    <<"(", "f", "'", "hole", ")">>,
    <<"(", "f", "(", "regex", "pattern", ")", ")">>}

MCInside ==
    "s" :> {} @@ "multi" :> {"newline"} @@ "raw" :> {"newline", "markup"}
        @@ "indented" :> {"newline", "indented"} @@ "blank" :> {"newline", "blank"}
        @@ "hole" :> {"hole"} @@ "tag" :> {"markup"} @@ "pattern" :> {"brace"}

Added == {<<>>, <<"?">>, <<"#_">>, <<"|">>, <<"'">>, <<"a">>, <<"}">>, <<";c", "\n">>, <<"\n", ";d", "\n">>}

(* The lexemes with a space after each, and x put in after the i-th.        *)
PutIn(p, x, i) ==
    FlattenSeq([j \in 1..i |-> <<p[j], " ">>]) \o x \o <<" ">>
        \o FlattenSeq([j \in 1 .. Len(p) - i |-> <<p[i + j], " ">>])

MCSources == ShortTexts \cup UNION {{PutIn(p, x, i) : x \in Added, i \in DOMAIN p} : p \in Programs}
================================================================================
