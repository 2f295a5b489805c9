-------------------------------- MODULE Printer --------------------------------
(***************************************************************************)
(* Printing nodes (crates/nexl-ast/src/printer.rs).  A node is written on  *)
(* one line when it may be and fits, and otherwise in the layout of its    *)
(* form, item by item.  Widths are not modelled: whatever may be written   *)
(* on one line sometimes fits and sometimes does not.  Neither is          *)
(* indentation, nor the padding of aligned columns: after a line break     *)
(* spaces mean nothing to the reader.                                      *)
(*                                                                         *)
(* A layout is a sequence of lexemes and of nodes that are still to be     *)
(* laid out.                                                               *)
(***************************************************************************)
EXTENDS Reader

CONSTANTS
    Strings,  \* the literals that are strings
    Inside,   \* what there is in the value of each of them, of StringParts
    Misread   \* a literal for a value that is not the one of a source, or none

(* A line break; outside the interpolations a backslash or three quotes;    *)
(* spaces that all lines start with; lines with nothing but spaces; an      *)
(* interpolation with a backslash, a quote, a tab or a return in it; and a  *)
(* brace without a partner, which only a pattern #"..." has.                *)
StringParts == {"newline", "markup", "indented", "blank", "hole", "brace"}

ASSUME StringsAreLiterals ==
    /\ Strings \subseteq Literals /\ Misread \in Literals \ Strings
    /\ Inside \in [Strings -> SUBSET StringParts]

PrefixText == [kind \in {"quote", "deref", "discard", "quasiquote", "unquote"} |->
                  CHOOSE x \in DOMAIN PrefixKind : PrefixKind[x] = kind]
Marks(kind) == IF kind = "splice" THEN <<"~", "@">> ELSE <<PrefixText[kind]>>
Open(kind) == CHOOSE o \in DOMAIN Bracketed : Bracketed[o] = kind
IsBracketed(node) == node.kind \in {"list", "vector", "map", "set"}
IsMarked(node) == ~IsBracketed(node) /\ node.kind # "atom"

HeadIs(items, S) == items # <<>> /\ \E s \in S : IsSymbol(items[1], <<s>>)
IsPipe(node) == IsSymbol(node, <<"|">>)
as_postfix_question(node) ==
    node.kind = "list" /\ Len(node.items) = 2 /\ IsSymbol(node.items[1], Question)
From(items, i) == SubSeq(items, i, Len(items))
KindAt(items, i, kind) == i <= Len(items) /\ items[i].kind = kind

-----------------------------------------------------------------------------
(* Strings, as they are read again.  Without a newline they are written     *)
(* with escapes, in an interpolation too, where they are read as they       *)
(* stand.  With one they are written between triple quotes, raw and         *)
(* padded: escapes are resolved in what is read, the lines lose all the     *)
(* spaces they have in common, and the padding of blank lines, which do not *)
(* count, only if there is another line.                                    *)

IsString(node) == node.kind = "atom" /\ node.v[1] \in Strings
IsMultiline(node) == IsString(node) /\ "newline" \in Inside[node.v[1]]

write_str(s) == IF Inside[s] \cap {"hole", "brace"} = {} THEN s ELSE Misread

write_multiline_str(s, padded) ==
    LET lost == {"markup", "indented", "brace"} \cup (IF padded THEN {"blank"} ELSE {})
    IN IF Inside[s] \cap lost = {} THEN s ELSE Misread

(* The other atoms are written as they were read.                           *)
write_atom(node, padded) ==
    IF IsMultiline(node) THEN <<write_multiline_str(node.v[1], padded)>>
    ELSE IF IsString(node) THEN <<write_str(node.v[1])>>
    ELSE node.v

-----------------------------------------------------------------------------
(* On one line.                                                             *)

Intersperse(seqs, sep) ==
    FlattenSeq([i \in DOMAIN seqs |-> IF i = 1 THEN seqs[i] ELSE sep \o seqs[i]])

LeadText(node) == FlattenSeq([i \in DOMAIN node.lead |-> Append(node.lead[i], "\n")])
TrailText(node) == IF node.trail = <<>> THEN <<>> ELSE <<" ">> \o node.trail[1]

RECURSIVE write_node(_), write_kind(_)
write_node(node) == LeadText(node) \o write_kind(node) \o TrailText(node)

write_kind(node) ==
    LET items == node.items
        Spaced == Intersperse([i \in DOMAIN items |-> write_node(items[i])], <<" ">>)
    IN  CASE node.kind = "atom" -> write_atom(node, FALSE)
          [] as_postfix_question(node) -> Append(write_node(items[2]), "?")
          [] IsBracketed(node) /\ ~as_postfix_question(node) ->
                 <<Open(node.kind)>> \o Spaced \o <<Closer[Open(node.kind)]>>
          [] IsMarked(node) -> Marks(node.kind) \o write_node(items[1])

BodyForms == {"defn", "fn", "def", "do", "when", "unless", "deftype", "defeffect", "defprotocol",
              "defmacro", "handle", "import", "try", "each", "times", "for", "describe", "deftest"}

(* How many items of a body form stay with its head.                        *)
body_form_leading_count(items) ==
    LET Upto(n) == IF n < Len(items) THEN n ELSE Len(items)
        Plus(n, kind) == IF KindAt(items, n + 1, kind) THEN n + 1 ELSE n
        Docstring == Len(items) >= 3 /\ IsString(items[3])
    IN  CASE HeadIs(items, {"defn"}) -> Upto(IF Docstring THEN 2 ELSE Plus(2, "vector"))
          [] HeadIs(items, {"defmacro"}) -> Upto(Plus(2, "vector"))
          [] HeadIs(items, {"fn"}) -> Plus(1, "vector")
          [] HeadIs(items, {"deftest"}) -> Upto(Plus(2, "map"))
          [] HeadIs(items, {"each", "times"}) -> Upto(3)
          [] HeadIs(items, {"def", "deftype", "defeffect", "defprotocol", "describe"}) -> Upto(2)
          [] OTHER -> Upto(1)

needs_multiline_list(items) ==
    LET Compound(S) == \E i \in DOMAIN S : IsBracketed(S[i])
    IN  CASE HeadIs(items, {"let", "loop"}) ->
                 KindAt(items, 2, "vector") /\ Len(items[2].items) >= 4
          [] HeadIs(items, {"deftype"}) ->
                 \/ Len(items) = 1  \* measuring it panics
                 \/ Compound(From(items, 3))
                 \/ \E i \in 3..Len(items) : IsPipe(items[i])
          [] HeadIs(items, BodyForms \ {"deftype"}) ->
                 Compound(From(items, body_form_leading_count(items) + 1))
          [] HeadIs(items, {"module"}) -> Len(items) > 2
          [] HeadIs(items, {"if", "cond", "match"}) -> Compound(From(items, 3))
          [] OTHER -> FALSE

(* Whether a node, or its kind whatever comments it has, must be broken:    *)
(* its width on one line is usize::MAX.                                     *)
RECURSIVE MustBreak(_), KindMustBreak(_)
MustBreak(node) == node.lead # <<>> \/ KindMustBreak(node)
KindMustBreak(node) ==
    CASE node.kind = "atom" -> IsMultiline(node)
      [] as_postfix_question(node) -> MustBreak(node.items[2])
      [] OTHER ->
             \/ \E i \in DOMAIN node.items : MustBreak(node.items[i])
             \/ node.kind = "list" /\ needs_multiline_list(node.items)
             \/ node.kind = "map" /\ Len(node.items) >= 4

-----------------------------------------------------------------------------
(* Broken into lines.                                                       *)

Lexemes(s) == [i \in DOMAIN s |-> [lexeme |-> s[i]]]
Sub(node) == <<[node |-> node]>>
Blank == Lexemes(<<" ">>)
Newline == Lexemes(<<"\n">>)
Parens(layout) == Lexemes(<<"(">>) \o layout \o Lexemes(<<")">>)
Subs(items, sep) == Intersperse([i \in DOMAIN items |-> Sub(items[i])], sep)
Lines(items) == FlattenSeq([i \in DOMAIN items |-> Newline \o Sub(items[i])])
FirstLine(items) == Subs(SubSeq(items, 1, IF Len(items) > 1 THEN 2 ELSE Len(items)), Blank)

write_call_form(items) == Parens(FirstLine(items) \o Lines(From(items, 3)))
write_if_form(items) == Parens(FirstLine(items) \o Lines(From(items, 3)))

write_body_form(items) ==
    LET n == body_form_leading_count(items)
    IN Parens(Subs(SubSeq(items, 1, n), Blank) \o Lines(From(items, n + 1)))

(* The groups of a binding vector from index i on: an optional `mut', which *)
(* no group keeps, a pattern, a value and a fallback after a `|'.           *)
RECURSIVE collect_let_binding_groups(_, _)
collect_let_binding_groups(bs, i) ==
    IF i > Len(bs) THEN <<>>
    ELSE LET p == IF IsSymbol(bs[i], <<"mut">>) THEN i + 1 ELSE i
             piped == p + 2 <= Len(bs) /\ IsPipe(bs[p + 2])
         IN  IF p + 1 > Len(bs) THEN <<>>
             ELSE <<[pattern |-> bs[p], value |-> bs[p + 1],
                     fallback |-> IF piped /\ p + 3 <= Len(bs) THEN <<bs[p + 3]>> ELSE <<>>]>>
                  \o collect_let_binding_groups(bs, IF piped THEN p + 4 ELSE p + 2)

write_let_else_bindings(bs) ==
    LET groups == collect_let_binding_groups(bs, 1)
        Group(g) == Sub(g.pattern) \o Blank \o Sub(g.value) \o
                        (IF g.fallback = <<>> THEN <<>>
                         ELSE Lexemes(<<" ", "|", " ">> \o write_node(g.fallback[1])))
    IN Lexemes(<<"[">>) \o Intersperse([i \in DOMAIN groups |-> Group(groups[i])], Newline)
           \o Lexemes(<<"]">>)

(* Items two by two, the last one alone if their number is odd.             *)
ExactPairs(items) ==
    [i \in 1 .. Len(items) \div 2 |-> SubSeq(items, 2 * i - 1, 2 * i)]

Pairs(items) ==
    [i \in 1 .. (Len(items) + 1) \div 2 |->
        SubSeq(items, 2 * i - 1, IF 2 * i <= Len(items) THEN 2 * i ELSE Len(items))]

PairLines(items) ==
    LET pairs == Pairs(items)
    IN Intersperse([i \in DOMAIN pairs |-> Subs(pairs[i], Blank)], Newline)

Bindings(node, align) ==
    IF node.kind # "vector" THEN Sub(node)
    ELSE IF \E i \in DOMAIN node.items : IsPipe(node.items[i])
         THEN write_let_else_bindings(node.items)
    ELSE IF align /\ Len(node.items) >= 4 /\ Len(node.items) % 2 = 0
         THEN Lexemes(<<"[">>) \o PairLines(node.items) \o Lexemes(<<"]">>)
    ELSE Sub(node)

write_let_form(items, align) ==
    Parens(Sub(items[1]) \o (IF Len(items) > 1 THEN Blank \o Bindings(items[2], align) ELSE <<>>)
             \o Lines(From(items, 3)))

(* The clauses of cond and match.  A bracketed result that does not fit     *)
(* beside its test goes to a line of its own; when columns are aligned, a   *)
(* last test without a result is filtered out.                              *)
Clauses(items, align) ==
    LET aligned == align /\ Len(items) >= 4
        pairs == IF aligned THEN SelectSeq(Pairs(items), LAMBDA p : Len(p) = 2) ELSE Pairs(items)
        Fits(p) == IF Len(p) = 1 \/ ~IsBracketed(p[2]) THEN {" "}
                   ELSE IF MustBreak(p[2]) THEN {"\n"} ELSE {" ", "\n"}
        Line(p, sep) == Newline \o Subs(p, Lexemes(<<sep>>))
    IN  {FlattenSeq([i \in DOMAIN pairs |-> Line(pairs[i], sep[i])]) :
            sep \in {f \in [DOMAIN pairs -> {" ", "\n"}] : \A i \in DOMAIN pairs : f[i] \in Fits(pairs[i])}}

write_cond_form(items, align) ==
    {Parens(Sub(items[1]) \o c) : c \in Clauses(From(items, 2), align)}

write_match_form(items, align) ==
    {Parens(FirstLine(items) \o c) : c \in Clauses(From(items, 3), align)}

write_module_form(items) ==
    LET pairs == Pairs(From(items, 3))
    IN Parens(FirstLine(items) \o FlattenSeq([i \in DOMAIN pairs |-> Newline \o Subs(pairs[i], Blank)]))

(* The record type's map is written without the comments that are on it.    *)
write_map_always_aligned(node) == Lexemes(<<"{">>) \o PairLines(node.items) \o Lexemes(<<"}">>)

write_deftype_form(items) ==
    LET body == From(items, 3)
        piped == \E i \in DOMAIN body : IsPipe(body[i])
        Variant[i \in 1..Len(body)] ==  \* on the line of the `|' before it
            i > 1 /\ IsPipe(body[i - 1]) /\ ~Variant[i - 1]
        Item(i) == IF ~piped
                   THEN Newline \o (IF body[i].kind = "map" THEN write_map_always_aligned(body[i])
                                    ELSE Sub(body[i]))
                   ELSE IF Variant[i] THEN Sub(body[i])
                   ELSE Newline \o (IF IsPipe(body[i]) THEN Lexemes(<<"|", " ">>) ELSE Sub(body[i]))
    IN Parens(FirstLine(items) \o FlattenSeq([i \in DOMAIN body |-> Item(i)]))

(* A vector that starts with a keyword, as in markup, keeps it and a map of *)
(* attributes on the first line.                                            *)
write_collection_indented(node) ==
    LET items == node.items
        tagged == /\ node.kind = "vector" /\ KindAt(items, 1, "atom") /\ items[1].v[1] \in Keys
        n == IF KindAt(items, 2, "map") THEN 2 ELSE 1
        first == Intersperse([i \in 1..n |-> write_node(items[i])], <<" ">>)
    IN  Lexemes(<<Open(node.kind)>>)
          \o (IF tagged /\ Len(items) > n THEN Lexemes(first) \o Lines(From(items, n + 1))
              ELSE Subs(items, Newline))
          \o Lexemes(<<Closer[Open(node.kind)]>>)

write_list_indented(items, align) ==
    CASE HeadIs(items, {"deftype"}) -> {write_deftype_form(items)}
      [] HeadIs(items, BodyForms \ {"deftype"}) -> {write_body_form(items)}
      [] HeadIs(items, {"let", "loop"}) -> {write_let_form(items, align)}
      [] HeadIs(items, {"if"}) -> {write_if_form(items)}
      [] HeadIs(items, {"cond"}) -> write_cond_form(items, align)
      [] HeadIs(items, {"match"}) -> write_match_form(items, align)
      [] HeadIs(items, {"module"}) -> {write_module_form(items)}
      [] OTHER -> {write_call_form(items)}

write_kind_indented(node, align) ==
    CASE node.kind = "atom" -> {Lexemes(write_atom(node, padded)) : padded \in BOOLEAN}
      [] as_postfix_question(node) -> {Append(Sub(node.items[2]), [lexeme |-> "?"])}
      [] node.kind = "list" /\ ~as_postfix_question(node) ->
             IF node.items = <<>> THEN {Lexemes(<<"(", ")">>)}
             ELSE write_list_indented(node.items, align)
      [] node.kind \in {"vector", "set"} -> {write_collection_indented(node)}
      [] node.kind = "map" -> {Lexemes(<<"{">>) \o PairLines(node.items) \o Lexemes(<<"}">>)}
      [] OTHER -> {Lexemes(Marks(node.kind)) \o Sub(node.items[1])}

Untrailed_write_node_indented(node, align) ==
    {Lexemes(LeadText(node)) \o layout : layout \in write_kind_indented(node, align)}
        \cup (IF KindMustBreak(node) THEN {} ELSE {Lexemes(write_node(node))})

write_node_indented(node, align) ==
    {Lexemes(LeadText(node)) \o layout \o Lexemes(TrailText(node)) :
        layout \in write_kind_indented(node, align)
                       \cup (IF KindMustBreak(node) THEN {} ELSE {Lexemes(write_kind(node))})}

print_file(nodes) ==
    FlattenSeq([i \in DOMAIN nodes |->
        (IF i > 1 THEN Newline ELSE <<>>) \o Sub(nodes[i]) \o Newline])
================================================================================
