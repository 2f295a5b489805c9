-------------------------------- MODULE Expander --------------------------------
(***************************************************************************)
(* Macro expansion, crates/nexl-macros/src/expand.rs, and the commands     *)
(* that run it over the sources of a program (crates/nexl-cli/src/main.rs).*)
(*                                                                         *)
(* A node is a tree of symbols, keywords, literals and collections.  The   *)
(* name of a symbol is <<base, n>>: n = 0 as written, n = -1 for `base#',  *)
(* n > 0 for `base__n__auto__'.  The mark of a symbol is the number of the *)
(* expansion whose template or transformer wrote it, 0 for the program's   *)
(* own; the code has no such mark and nothing below decides by it, only    *)
(* the properties do.  Left out: spans, syntax-str, and the scope sets,    *)
(* which are computed and then dropped.                                    *)
(***************************************************************************)
EXTENDS Integers, Sequences, SequencesExt, FiniteSets

CONSTANTS
    Programs,  \* the programs: sequences of sources, each a sequence of nodes
    MaxDepth   \* bound: expansions of one another's results the stack can hold

VARIABLES
    program,   \* the program that is expanded
    unread,    \* its sources that are not expanded yet, the first one in part
    macros,    \* Expander::macros
    count,     \* expansions done
    expanded,  \* pairs of a form and what it was expanded to, oldest first
    status     \* "running", "done", "error" or "overflow"

vars == <<program, unread, macros, count, expanded, status>>

-----------------------------------------------------------------------------
(* Nodes.                                                                  *)

Leaf(kind, base, n, mark) ==
    [kind |-> kind, name |-> <<base, n>>, mark |-> mark, items |-> <<>>]
Branch(kind, items) == [kind |-> kind, name |-> <<"", 0>>, mark |-> 0, items |-> items]

Symbol(base) == Leaf("symbol", base, 0, 0)
Auto(base) == Leaf("symbol", base, -1, 0)
Keyword(base) == Leaf("keyword", base, 0, 0)
Literal(base) == Leaf("literal", base, 0, 0)
List(items) == Branch("list", items)
Vector(items) == Branch("vector", items)
Quasiquote(node) == Branch("quasiquote", <<node>>)
Unquote(node) == Branch("unquote", <<node>>)
UnquoteSplice(node) == Branch("unquote-splice", <<node>>)
Deref(node) == Branch("deref", <<node>>)

ListsOnly == {"list", "vector", "set"}

(* A map is the sequence of its keys and values.                           *)
Collections == {"list", "vector", "set", "map"}

Args(node) == Tail(node.items)
IsSymbol(node, base) == node.kind = "symbol" /\ node.name = <<base, 0>>
IsForm(node, base) ==
    node.kind = "list" /\ node.items # <<>> /\ IsSymbol(Head(node.items), base)

RECURSIVE SubNodes(_)
SubNodes(node) == {node} \cup UNION {SubNodes(node.items[i]) : i \in DOMAIN node.items}

RECURSIVE Marked(_, _)
Marked(node, k) ==
    [node EXCEPT !.mark = IF node.kind = "symbol" THEN k ELSE 0,
                 !.items = [i \in DOMAIN @ |-> Marked(@[i], k)]]

(* What a transformer returns: nodes, or no more than that it failed.      *)
Made(nodes) == [ok |-> TRUE, nodes |-> nodes]
Failed == [ok |-> FALSE, nodes |-> <<>>]

-----------------------------------------------------------------------------
(* Macro definitions.                                                      *)

Definers == {"defmacro", "defmacro-elab", "defreader-text", "defmacro-syntax"}

Defines(node) == \E base \in Definers : IsForm(node, base)

(* Parameters without their types, `x : T', and what follows `&'.          *)
RECURSIVE Untyped(_)
Untyped(items) ==
    IF items = <<>> THEN <<>>
    ELSE IF IsSymbol(Head(items), ":") THEN Untyped(SubSeq(items, 3, Len(items)))
    ELSE <<Head(items)>> \o Untyped(Tail(items))

parse_params(items) ==
    LET split == SelectInSeq(items, LAMBDA p : IsSymbol(p, "&")) IN
    IF split = 0 THEN [params |-> items, rest |-> <<>>]
    ELSE [params |-> SubSeq(items, 1, split - 1), rest |-> <<items[split + 1].name>>]

make_do(forms) == List(<<Symbol("do")>> \o forms)

(* Several body forms become a do, which is not a template; `& form' as a  *)
(* body stands for the call itself.                                        *)
MacroBody(forms) ==
    IF Len(forms) = 1 THEN forms[1]
    ELSE IF Len(forms) = 2 /\ IsSymbol(forms[1], "&") /\ IsSymbol(forms[2], "form")
         THEN Symbol("&form")
    ELSE make_do(forms)

RECURSIVE parse_pattern_node(_)
parse_pattern_node(node) ==
    IF IsSymbol(node, "_") THEN Branch("wildcard", <<>>)
    ELSE [node EXCEPT !.items = [i \in DOMAIN @ |-> parse_pattern_node(@[i])]]

parse_syntax_pattern(pattern) ==
    LET tail == Args(parse_pattern_node(pattern)) IN
    IF Len(tail) >= 2 /\ IsSymbol(Last(tail), "...")
    THEN [params |-> SubSeq(tail, 1, Len(tail) - 2), rest |-> <<tail[Len(tail) - 1].name>>]
    ELSE [params |-> tail, rest |-> <<>>]

Clause(sig, template) == [params |-> sig.params, rest |-> sig.rest, template |-> template]
Macro(kind, clauses) == [kind |-> kind, clauses |-> clauses]

(* A procedural macro is one clause whose patterns are its parameters.     *)
parse_defmacro(node) ==
    LET items == node.items
        typed == ~IsForm(node, "defmacro")
        start == IF IsForm(node, "defmacro-elab") /\ Len(items) >= 6 /\ IsSymbol(items[4], "->")
                 THEN 6 ELSE 4
    IN Macro("proc", <<Clause(parse_params(IF typed THEN Untyped(items[3].items)
                                                    ELSE items[3].items),
                              MacroBody(SubSeq(items, start, Len(items))))>>)

parse_defmacro_syntax(node) ==
    LET start == IF node.items[3].kind = "literal" THEN 4 ELSE 3
        clauses == SubSeq(node.items, start, Len(node.items))
    IN Macro("syntax", [i \in DOMAIN clauses |->
                 Clause(parse_syntax_pattern(clauses[i].items[1]), clauses[i].items[2])])

Parsed(node) ==
    IF IsForm(node, "defmacro-syntax") THEN parse_defmacro_syntax(node) ELSE parse_defmacro(node)

-----------------------------------------------------------------------------
(* Templates.                                                              *)

(* The `base#' symbols of a template in the order they are expanded.       *)
RECURSIVE AutoBases(_, _)
AutoBases(node, depth) ==
    IF node.kind = "symbol" THEN IF node.name[2] = -1 THEN <<node.name[1]>> ELSE <<>>
    ELSE IF node.kind \in {"unquote", "unquote-splice"} /\ depth = 1 THEN <<>>
    ELSE LET inner == depth + (CASE node.kind = "quasiquote" -> 1
                                 [] node.kind \in {"unquote", "unquote-splice"} -> -1
                                 [] OTHER -> 0)
         IN FlattenSeq([i \in DOMAIN node.items |-> AutoBases(node.items[i], inner)])

PlainGensym(base, bases, k) == Leaf("symbol", base, 0, k)

(* The counter starts anew with every expansion.                           *)
gensym(base, bases, k) ==
    LET first == SelectInSeq(bases, LAMBDA b : b = base)
    IN Leaf("symbol", base, Cardinality(ToSet(SubSeq(bases, 1, first))), k)

(* A binding is one node or, for a rest parameter, many.                   *)
One(node) == [many |-> FALSE, nodes |-> <<node>>]
Many(nodes) == [many |-> TRUE, nodes |-> nodes]

eval_unquote(node, bindings) ==
    IF node.kind = "symbol" /\ node.name \in DOMAIN bindings /\ ~bindings[node.name].many
    THEN Made(bindings[node.name].nodes) ELSE Failed

eval_unquote_splice(node, bindings) ==
    IF node.kind # "symbol" \/ node.name \notin DOMAIN bindings THEN Failed
    ELSE LET bound == bindings[node.name] IN
         IF bound.many THEN Made(bound.nodes)
         ELSE IF bound.nodes[1].kind = "list" THEN Made(bound.nodes[1].items)
         ELSE Failed

RECURSIVE expand_quasiquote(_, _, _, _, _)
expand_quasiquote(node, depth, bindings, bases, k) ==
    IF depth = 1 /\ node.kind = "unquote" THEN eval_unquote(node.items[1], bindings)
    ELSE IF depth = 1 /\ node.kind = "unquote-splice"
         THEN eval_unquote_splice(node.items[1], bindings)
    ELSE IF node.kind = "symbol"
         THEN Made(<<IF node.name[2] = -1 THEN gensym(node.name[1], bases, k)
                                          ELSE Marked(node, k)>>)
    ELSE LET inner == depth + (CASE node.kind = "quasiquote" -> 1
                                 [] node.kind \in {"unquote", "unquote-splice"} -> -1
                                 [] OTHER -> 0)
             parts == <<>> \o [i \in DOMAIN node.items |->
                         expand_quasiquote(node.items[i], inner, bindings, bases, k)]
             spliced == \E i \in DOMAIN parts :
                            inner = 1 /\ node.items[i].kind = "unquote-splice"
         IN IF (\A i \in DOMAIN parts : parts[i].ok)
               /\ (spliced => node.kind \in {"list", "vector"})
            THEN Made(<<[node EXCEPT !.items =
                           FlattenSeq([i \in DOMAIN parts |-> parts[i].nodes])]>>)
            ELSE Failed

SplicingBody(body, bindings, k) ==
    IF body.kind = "quasiquote"
    THEN expand_quasiquote(body.items[1], 1, bindings, AutoBases(body.items[1], 1), k)
    ELSE IF body.kind = "symbol" /\ body.name \in DOMAIN bindings
         THEN eval_unquote(body, bindings)
    ELSE Made(<<Marked(body, k)>>)

(* The body of a macro is a template, a parameter or a constant.           *)
eval_macro_body(body, bindings, k) ==
    IF body.kind = "quasiquote"
    THEN IF body.items[1].kind = "unquote-splice" THEN Failed
         ELSE expand_quasiquote(body.items[1], 1, bindings, AutoBases(body.items[1], 1), k)
    ELSE IF body.kind = "symbol" /\ body.name \in DOMAIN bindings
         THEN eval_unquote(body, bindings)
    ELSE Made(<<Marked(body, k)>>)

-----------------------------------------------------------------------------
(* Patterns.                                                               *)

NoBindings == [n \in {} |-> One(Literal("unit"))]
Bind(name, binding) == [n \in {name} |-> binding]

(* Later bindings of a name replace earlier ones.                          *)
Extend(f, g) == [n \in DOMAIN f \cup DOMAIN g |-> IF n \in DOMAIN g THEN g[n] ELSE f[n]]

RECURSIVE Matches(_, _)
Matches(pattern, node) ==
    CASE pattern.kind \in {"wildcard", "symbol"} -> TRUE
      [] pattern.kind \in {"literal", "keyword"} ->
            node.kind = pattern.kind /\ node.name = pattern.name
      [] pattern.kind \in {"list", "vector"} ->
            /\ node.kind = pattern.kind
            /\ Len(node.items) = Len(pattern.items)
            /\ \A i \in DOMAIN pattern.items : Matches(pattern.items[i], node.items[i])
      [] pattern.kind = "map" -> node.kind = "map"

RECURSIVE BoundBy(_, _)
BoundBy(pattern, node) ==
    CASE pattern.kind = "symbol" -> Bind(pattern.name, One(node))
      [] pattern.kind \in {"list", "vector"} ->
            FoldLeft(Extend, NoBindings,
                     [i \in DOMAIN pattern.items |-> BoundBy(pattern.items[i], node.items[i])])
      [] pattern.kind = "map" -> Bind(pattern.items[2].name, One(node))
      [] OTHER -> NoBindings

Accepts(clause, args) ==
    /\ IF clause.rest = <<>> THEN Len(args) = Len(clause.params)
                             ELSE Len(args) >= Len(clause.params)
    /\ \A i \in DOMAIN clause.params : Matches(clause.params[i], args[i])

Bindings(clause, call) ==
    LET args == Args(call)
        n == Len(clause.params)
        fixed == BoundBy(List(clause.params), List(SubSeq(args, 1, n)))
        rest == IF clause.rest = <<>> THEN NoBindings
                ELSE Bind(clause.rest[1], Many(SubSeq(args, n + 1, Len(args))))
    IN Extend(Extend(fixed, rest), Bind(<<"&form", 0>>, One(call)))

(* The first clause that accepts the arguments makes the result.           *)
expand_syntax_macro(macro, call, k) ==
    LET i == SelectInSeq(macro.clauses, LAMBDA c : Accepts(c, Args(call))) IN
    IF i = 0 THEN Failed
    ELSE eval_macro_body(macro.clauses[i].template, Bindings(macro.clauses[i], call), k)

-----------------------------------------------------------------------------
(* The built-in macros.                                                    *)

OptionThreads == {"some->", "some->>"}
ResultThreads == {"ok->", "ok->>"}
CondThreads == {"cond->", "cond->>"}
Chains == OptionThreads \cup ResultThreads \cup CondThreads
Threads == {"->", "->>"} \cup Chains
Builtins == {"when", "unless", "cond", "and", "or"} \cup Threads

ThreadFirst == {"->", "some->", "ok->", "cond->"}

If(k, cond, then, else) == List(<<Leaf("symbol", "if", 0, k), cond, then, else>>)
Let(k, bindings, body) == List(<<Leaf("symbol", "let", 0, k), Vector(bindings), body>>)

DoOrUnit(k, body) ==
    IF body = <<>> THEN Literal("unit") ELSE List(<<Leaf("symbol", "do", 0, k)>> \o body)

expand_when(args, k) == If(k, args[1], DoOrUnit(k, Tail(args)), Literal("unit"))

expand_unless(args, k) ==
    If(k, List(<<Leaf("symbol", "not", 0, k), args[1]>>), DoOrUnit(k, Tail(args)),
       Literal("unit"))

IsElse(node) == node.kind = "keyword" /\ node.name = <<"else", 0>>

RECURSIVE expand_cond_pairs(_, _)
expand_cond_pairs(args, k) ==
    IF args = <<>> THEN Literal("unit")
    ELSE IF IsElse(args[1]) THEN args[2]
    ELSE If(k, args[1], args[2], expand_cond_pairs(SubSeq(args, 3, Len(args)), k))

thread_step(acc, step, first) ==
    IF step.kind # "list" THEN List(<<step, acc>>)
    ELSE IF first THEN List(<<Head(step.items), acc>> \o Tail(step.items))
    ELSE List(step.items \o <<acc>>)

expand_thread(args, first) ==
    FoldLeft(LAMBDA acc, step : thread_step(acc, step, first), args[1], Tail(args))

(* The bindings of a chain all have the one fresh name.                    *)
Chain(k, base, init, steps) ==
    LET v == Leaf("symbol", base, 1, k)
    IN Let(k, <<v, init>> \o FlattenSeq([i \in DOMAIN steps |-> <<v, steps[i]>>]), v)

CtorPattern(k, name, args) == List(<<Leaf("symbol", name, 0, k)>> \o args)

MatchThread(k, base, stop, go, args, first) ==
    LET v == Leaf("symbol", base, 1, k)
        step(i) == List(<<Leaf("symbol", "match", 0, k), v, stop, v, go,
                          thread_step(v, args[i + 1], first)>>)
    IN Chain(k, base, args[1], [i \in 1 .. Len(args) - 1 |-> step(i)])

expand_option_thread(args, first, k) ==
    MatchThread(k, "__sv", CtorPattern(k, "None", <<>>),
                CtorPattern(k, "Some", <<Symbol("_")>>), args, first)

expand_result_thread(args, first, k) ==
    MatchThread(k, "__rv", CtorPattern(k, "Err", <<Symbol("_")>>),
                CtorPattern(k, "Ok", <<Symbol("_")>>), args, first)

expand_cond_thread(args, first, k) ==
    LET v == Leaf("symbol", "__cv", 1, k)
        step(i) == If(k, args[2 * i], thread_step(v, args[2 * i + 1], first), v)
    IN Chain(k, "__cv", args[1], [i \in 1 .. Len(args) \div 2 |-> step(i)])

RECURSIVE expand_and(_, _, _)
expand_and(args, i, k) ==
    IF args = <<>> THEN Literal("true")
    ELSE IF Len(args) = 1 THEN args[1]
    ELSE LET tmp == Leaf("symbol", "tmp", i, k)
         IN Let(k, <<tmp, args[1]>>,
                If(k, tmp, expand_and(Tail(args), i + 1, k), Literal("false")))

RECURSIVE TwiceEvaluatingOr(_, _, _)
TwiceEvaluatingOr(args, i, k) ==
    IF args = <<>> THEN Literal("false")
    ELSE IF Len(args) = 1 THEN args[1]
    ELSE If(k, args[1], args[1], TwiceEvaluatingOr(Tail(args), i + 1, k))

RECURSIVE expand_or(_, _, _)
expand_or(args, i, k) ==
    IF args = <<>> THEN Literal("false")
    ELSE IF Len(args) = 1 THEN args[1]
    ELSE LET tmp == Leaf("symbol", "tmp", i, k)
         IN Let(k, <<tmp, args[1]>>, If(k, tmp, tmp, expand_or(Tail(args), i + 1, k)))

(* An :else in front of another clause is an error, as are a macro without *)
(* its first argument, an odd number of clauses and an empty step.         *)
WellFormedCall(name, args) ==
    /\ name \notin {"and", "or", "cond"} => args # <<>>
    /\ name = "cond" =>
          /\ Len(args) % 2 = 0
          /\ \A i \in 1 .. Len(args) - 2 : i % 2 = 1 => ~IsElse(args[i])
    /\ name \in CondThreads => Len(args) % 2 = 1
    /\ name \in Threads =>
          \A i \in 2 .. Len(args) :
              args[i] = List(<<>>) => name \in CondThreads /\ i % 2 = 0

expand_builtin_macro(name, call, k) ==
    LET args == Args(call)
        first == name \in ThreadFirst
    IN IF ~WellFormedCall(name, args) THEN Failed
       ELSE Made(<<
         CASE name = "when" -> expand_when(args, k)
           [] name = "unless" -> expand_unless(args, k)
           [] name = "cond" /\ args = <<>> ->
                 List(<<Leaf("symbol", "panic", 0, k), Literal("message")>>)
           [] name = "cond" /\ args # <<>> -> expand_cond_pairs(args, k)
           [] name \in {"->", "->>"} -> expand_thread(args, first)
           [] name \in OptionThreads -> expand_option_thread(args, first, k)
           [] name \in ResultThreads -> expand_result_thread(args, first, k)
           [] name \in CondThreads -> expand_cond_thread(args, first, k)
           [] name = "and" -> expand_and(args, 1, k)
           [] name = "or" -> expand_or(args, 1, k)>>)

-----------------------------------------------------------------------------
(* expand_node                                                             *)

Named(node) == Head(node.items).name

IsCall(node, ms) ==
    /\ node.kind = "list" /\ node.items # <<>>
    /\ Head(node.items).kind = "symbol" /\ Named(node) \in DOMAIN ms

ExpandCall(node, ms, k) ==
    LET macro == ms[Named(node)] IN
    IF macro.kind = "builtin" THEN expand_builtin_macro(Named(node)[1], node, k)
    ELSE expand_syntax_macro(macro, node, k)

(* The expander on its way through a form: what is expanded, the macros    *)
(* known, the expansions done and "running" or what it stopped with.       *)
At(out, ms, k, s) == [out |-> out, macros |-> ms, count |-> k, status |-> s]

(* Templates and dereferences (`@x') outside of macros stay as they are,   *)
(* macro calls in them included.                                           *)
RECURSIVE expand_node(_, _, _, _)
expand_node(node, ms, k, depth) ==
    IF Defines(node)
    THEN At(<<>>, Extend(ms, [n \in {node.items[2].name} |-> Parsed(node)]), k, "running")
    ELSE IF IsForm(node, "quote") \/ (node.kind \notin Collections)
    THEN At(<<node>>, ms, k, "running")
    ELSE
      LET call == IsCall(node, ms)
          made == IF call THEN ExpandCall(node, ms, k + 1) ELSE Made(node.items)
          Visit(acc, item) ==
              IF acc.status # "running" THEN acc
              ELSE LET r == expand_node(item, acc.macros, acc.count,
                                        IF call THEN depth - 1 ELSE depth)
                   IN [r EXCEPT !.out = acc.out \o @,
                                !.status = IF @ = "running" /\ r.out = <<>> /\ node.kind = "map"
                                           THEN "error" ELSE @]
          visited == FoldLeft(Visit, At(<<>>, ms, IF call THEN k + 1 ELSE k, "running"), made.nodes)
      IN IF ~made.ok THEN At(<<>>, ms, k, "error")
         ELSE IF call /\ depth = 0 THEN At(<<>>, ms, k, "overflow")
         ELSE IF call THEN visited
         ELSE [visited EXCEPT !.out = <<[node EXCEPT !.items = visited.out]>>]

-----------------------------------------------------------------------------
(* The commands: one expander goes through all sources of the program, the *)
(* prelude's or the entry module's first.                                  *)

NewExpander == [n \in {<<b, 0>> : b \in Builtins} |-> Macro("builtin", <<>>)]

Init ==
    /\ program \in Programs
    /\ unread = program
    /\ macros = NewExpander
    /\ count = 0
    /\ expanded = <<>>
    /\ status = "running"

ExpandForm ==
    /\ status = "running" /\ unread # <<>> /\ Head(unread) # <<>>
    /\ LET form == Head(Head(unread))
           r == expand_node(form, macros, count, MaxDepth)
       IN /\ macros' = r.macros
          /\ count' = r.count
          /\ status' = r.status
          /\ expanded' = IF r.status = "running"
                         THEN Append(expanded, [form |-> form, out |-> r.out, known |-> macros])
                         ELSE expanded
          /\ unread' = <<Tail(Head(unread))>> \o Tail(unread)
    /\ UNCHANGED program

NextSource ==
    /\ status = "running" /\ unread # <<>> /\ Head(unread) = <<>>
    /\ unread' = Tail(unread)
    /\ UNCHANGED <<program, macros, count, expanded, status>>

Finish ==
    /\ status = "running" /\ unread = <<>>
    /\ status' = "done"
    /\ UNCHANGED <<program, unread, macros, count, expanded>>

Next == ExpandForm \/ NextSource \/ Finish

Spec == Init /\ [][Next]_vars
=============================================================================
