------------------------------ MODULE MacroMeaning ------------------------------
(***************************************************************************)
(* What the forms that macros expand to, and the macros' own forms, mean   *)
(* to the evaluator (crates/nexl-eval/src/eval.rs), and the properties of  *)
(* Expander that are about meaning.                                        *)
(*                                                                         *)
(* A value is a kind, which decides tests and matches, and the sequence of *)
(* strings that writes down how it was computed.  A world gives the kind   *)
(* of every global and of what calling it returns.  A variable is looked   *)
(* up by its spelling, as the evaluator does, or hygienically: by spelling *)
(* and mark, so that a symbol only sees bindings written with it.          *)
(***************************************************************************)
EXTENDS Expander

CONSTANTS
    Functions,  \* the names of the global functions, `not' aside
    Worlds      \* functions from the names of variables and functions to kinds

Flags == {"true", "false"}
Value(kind, what) ==
    [kind |-> kind, what |-> IF kind \in {"true", "false", "none", "unit"} THEN <<>> ELSE what]

(* The outcome of an evaluation: a value or an error, and the calls made.  *)
Outcome(value, calls) == [ok |-> TRUE, value |-> value, calls |-> calls]
Wrong == [ok |-> FALSE, value |-> Value("unit", <<>>), calls |-> <<>>]

AndThen(r, K(_)) ==
    IF ~r.ok THEN Wrong
    ELSE LET s == K(r.value) IN IF s.ok THEN [s EXCEPT !.calls = r.calls \o @] ELSE Wrong

Lookup(node, env, world, hygienic) ==
    LET Bound(i) == env[i].name = node.name /\ (hygienic => env[i].mark = node.mark)
        S == {i \in DOMAIN env : Bound(i)}
    IN IF S # {} THEN env[CHOOSE i \in S : \A j \in S : j <= i].value
       ELSE IF node.name[1] \in DOMAIN world \ Functions THEN Value(world[node.name[1]], <<node.name[1]>>)
       ELSE Value("function", <<node.name[1]>>)

With(env, node, value) ==
    Append(env, [name |-> node.name, mark |-> node.mark, value |-> value])

Negated(value) == Value(IF value.kind = "true" THEN "false" ELSE "true", <<>>)

(* Calling `not' needs a truth value; calling anything else is observed.   *)
Call(f, args, world) ==
    IF f.what = <<"not">>
    THEN IF Len(args) = 1 /\ args[1].kind \in Flags THEN Outcome(Negated(args[1]), <<>>) ELSE Wrong
    ELSE IF f.what = <<>> THEN Wrong
    ELSE LET what == <<"(">> \o f.what \o FlattenSeq([i \in DOMAIN args |->
                         <<args[i].kind>> \o args[i].what]) \o <<")">>
             g == SelectSeq(f.what, LAMBDA s : s # "(")[1]
         IN Outcome(Value(IF g \in Functions THEN world[g] ELSE "other", what), <<what>>)

(* A symbol of its own for each place a chain is evaluated in.             *)
Hole(env) == Leaf("symbol", "hole", 1, -1 - Len(env))

Patterns(kind) ==
    CASE kind = "none" -> "None" [] kind = "some" -> "Some"
      [] kind = "err" -> "Err" [] kind = "ok" -> "Ok" [] OTHER -> ""

RECURSIVE Evaluate(_, _, _, _)
Evaluate(node, env, world, hygienic) ==
    LET Ev(n) == Evaluate(n, env, world, hygienic)
        args == Args(node)
        Is(base) == IsForm(node, base)
        All(nodes) == FoldLeft(LAMBDA acc, n : AndThen(acc, LAMBDA vs :
                                  AndThen(Ev(n), LAMBDA v : Outcome(Append(vs, v), <<>>))),
                               Outcome(<<>>, <<>>), nodes)
        Do(nodes) == FoldLeft(LAMBDA acc, n : AndThen(acc, LAMBDA v : Ev(n)),
                              Outcome(Value("unit", <<>>), <<>>), nodes)
        Test(cond, K(_)) == AndThen(Ev(cond), LAMBDA v :
                                IF v.kind \in Flags THEN K(v.kind = "true") ELSE Wrong)
        Stop(kind) == IF node.items[1].name[1] \in OptionThreads THEN kind = "none" ELSE kind = "err"
        Go(kind) == IF node.items[1].name[1] \in OptionThreads THEN kind = "some" ELSE kind = "ok"
        first == node.items[1].name[1] \in ThreadFirst
        Step(v, step) == Evaluate(thread_step(Hole(env), step, first), With(env, Hole(env), v),
                                  world, hygienic)
    IN
    CASE node.kind \in {"literal", "keyword"} -> Outcome(Value(node.name[1], <<>>), <<>>)
      [] node.kind = "symbol" -> Outcome(Lookup(node, env, world, hygienic), <<>>)
      [] node.kind \in {"vector", "set", "map"} ->
            AndThen(All(node.items), LAMBDA vs :
                Outcome(Value("data", FlattenSeq([i \in DOMAIN vs |-> vs[i].what])), <<>>))
      [] node.kind \notin {"literal", "keyword", "symbol", "vector", "set", "map", "list"}
            \/ node = List(<<>>) \/ Is("panic") -> Wrong
      [] Is("quote") -> Outcome(Value("data", <<>>), <<>>)
      [] Is("if") -> Test(args[1], LAMBDA b : IF b THEN Ev(args[2]) ELSE Ev(args[3]))
      [] Is("do") -> Do(args)
      [] Is("let") ->
            LET binds == args[1].items
                Add(acc, i) == IF ~acc.ok THEN acc ELSE
                    LET r == Evaluate(binds[2 * i], acc.env, world, hygienic) IN
                    IF ~r.ok THEN [acc EXCEPT !.ok = FALSE]
                    ELSE [ok |-> TRUE, env |-> With(acc.env, binds[2 * i - 1], r.value),
                          calls |-> acc.calls \o r.calls]
                scope == FoldLeft(Add, [ok |-> TRUE, env |-> env, calls |-> <<>>],
                                  [i \in 1 .. Len(binds) \div 2 |-> i])
                body == Evaluate(args[2], scope.env, world, hygienic)
            IN IF scope.ok /\ body.ok THEN [body EXCEPT !.calls = scope.calls \o @] ELSE Wrong
      [] Is("match") ->
            AndThen(Ev(args[1]), LAMBDA v :
                LET i == SelectInSeq(args, LAMBDA p : IsForm(p, Patterns(v.kind)))
                IN IF i = 0 THEN Wrong ELSE Ev(args[i + 1]))
      [] Is("and") ->
            IF args = <<>> THEN Wrong ELSE
            FoldLeft(LAMBDA acc, n : AndThen(acc, LAMBDA v :
                        IF v.kind = "false" THEN Outcome(v, <<>>)
                        ELSE Test(n, LAMBDA b : Ev(Literal(IF b THEN "true" ELSE "false")))),
                     Outcome(Value("true", <<>>), <<>>), args)
      [] Is("or") ->
            IF args = <<>> THEN Wrong ELSE
            FoldLeft(LAMBDA acc, n : AndThen(acc, LAMBDA v :
                        IF v.kind = "true" THEN Outcome(v, <<>>)
                        ELSE Test(n, LAMBDA b : Ev(Literal(IF b THEN "true" ELSE "false")))),
                     Outcome(Value("false", <<>>), <<>>), args)
      [] Is("cond") ->
            IF args = <<>> \/ Len(args) % 2 = 1 THEN Wrong
            ELSE IF IsElse(args[1]) THEN Ev(args[2])
            ELSE Test(args[1], LAMBDA b :
                     IF b THEN Ev(args[2])
                     ELSE IF Len(args) = 2 THEN Outcome(Value("unit", <<>>), <<>>)
                     ELSE Ev(List(<<Symbol("cond")>> \o SubSeq(args, 3, Len(args)))))
      [] Is("when") -> Test(args[1], LAMBDA b : Do(IF b THEN Tail(args) ELSE <<>>))
      [] Is("unless") -> Test(args[1], LAMBDA b : Do(IF b THEN <<>> ELSE Tail(args)))
      [] Is("->") \/ Is("->>") ->
            FoldLeft(LAMBDA acc, s : AndThen(acc, LAMBDA v : Step(v, s)), Ev(args[1]), Tail(args))
      [] \E base \in OptionThreads \cup ResultThreads : Is(base) ->
            FoldLeft(LAMBDA acc, s : AndThen(acc, LAMBDA v :
                         IF Stop(v.kind) THEN Outcome(v, <<>>)
                         ELSE IF Go(v.kind) THEN Step(v, s) ELSE Wrong),
                     Ev(args[1]), Tail(args))
      [] \E base \in CondThreads : Is(base) ->
            FoldLeft(LAMBDA acc, i : AndThen(acc, LAMBDA v :
                         Test(args[2 * i], LAMBDA b : IF b THEN Step(v, args[2 * i + 1])
                                                          ELSE Outcome(v, <<>>))),
                     Ev(args[1]), [i \in 1 .. Len(args) \div 2 |-> i])
      [] OTHER -> AndThen(All(node.items), LAMBDA vs : Call(vs[1], Tail(vs), world))

-----------------------------------------------------------------------------
(* What the program says about itself.                                     *)

Forms == UNION {ToSet(program[i]) : i \in DOMAIN program}

(* The nodes of a template that are its own.                               *)
RECURSIVE WrittenIn(_)
WrittenIn(node) ==
    {node} \cup (IF node.kind \in {"unquote", "unquote-splice"} THEN {}
                 ELSE UNION {WrittenIn(node.items[i]) : i \in DOMAIN node.items})

Definitions == {n \in UNION {SubNodes(f) : f \in Forms} : Defines(n)}

Templates ==
    UNION {{c.template : c \in ToSet(Parsed(d).clauses)} : d \in Definitions}

OfTemplates == UNION {WrittenIn(t) : t \in Templates}

Source == UNION {SubNodes(f) : f \in {g \in Forms : ~Defines(g)}}

Binders(nodes) ==
    UNION {{n.items[2].items[i] : i \in {j \in DOMAIN n.items[2].items : j % 2 = 1}} :
              n \in {m \in nodes : IsForm(m, "let")}}

IsAuto(node) == node.kind = "symbol" /\ node.name[2] # 0

HeadedBy(node, heads) == \E base \in heads : IsForm(node, base)

(* Templates bind fresh names only.                                        *)
TemplatesBindFresh == \A n \in Binders(OfTemplates) : n.kind = "symbol" => IsAuto(n)

(* The program binds no name that a template or a built-in macro means as  *)
(* a global.                                                               *)
GlobalsUnshadowed ==
    \A n \in Binders(Source) :
        ~IsSymbol(n, "not") /\ \A m \in OfTemplates : m.kind = "symbol" => m.name # n.name

(* No template hands a fresh name of its own to a macro that makes some.   *)
FreshNamesStay ==
    LET makers == (Builtins \ {"when", "unless", "cond"}) \cup {d.items[2].name[1] : d \in Definitions}
    IN \A n \in OfTemplates :
          n.kind = "list" /\ n.items # <<>>
            /\ (HeadedBy(n, makers) \/ Head(n.items).kind \in {"unquote", "unquote-splice"})
            => \A m \in SubNodes(n) : ~IsAuto(m)

(* No chain is a step of another one, written or threaded.                 *)
ChainsUnthreaded ==
    \A n \in {m \in Source \cup OfTemplates : HeadedBy(m, Threads)} :
        /\ \A i \in 2 .. Len(n.items) : \A m \in SubNodes(n.items[i]) : ~HeadedBy(m, Chains)
        /\ \A i \in 3 .. Len(n.items) :
              \A m \in SubNodes(n.items[i]) : m.kind \notin {"unquote", "unquote-splice"}

-----------------------------------------------------------------------------
(* Properties.                                                             *)

Latest == expanded[Len(expanded)]
JustExpanded == expanded # <<>> /\ Latest.out # <<>>

(* Where a macro call is expanded: not in quoted code, in templates or     *)
(* under a dereference.                                                    *)
RECURSIVE Live(_)
Live(node) ==
    {node} \cup (IF IsForm(node, "quote") \/ node.kind \in {"quasiquote", "deref"} THEN {}
                 ELSE UNION {Live(node.items[i]) : i \in DOMAIN node.items})

(* The registry, the counter and the outcome keep their types; expansions  *)
(* are numbered, so that no symbol claims a later one than any made.       *)
TypeOK ==
    /\ status \in {"running", "done", "error", "overflow"}
    /\ \A name \in DOMAIN macros : macros[name].kind \in {"builtin", "proc", "syntax"}
    /\ \A i \in DOMAIN expanded :
          /\ Len(expanded[i].out) <= 1
          /\ \A o \in ToSet(expanded[i].out), n \in UNION {SubNodes(p) : p \in ToSet(expanded[i].out)} :
                n.mark \in 0 .. count /\ n.name[2] \in Int

(* Nothing of a macro is left behind: no definition, and no call of a      *)
(* macro known when the form was read, in whatever a macro expanded to and *)
(* however calls were nested.                                              *)
FullyExpanded ==
    JustExpanded => \A n \in Live(Latest.out[1]) : ~Defines(n) /\ ~IsCall(n, Latest.known)

(* What the macros expand to computes what their forms promise, with the   *)
(* same calls in the same order, each argument evaluated at most once and  *)
(* only when its turn comes: for and, or and cond the evaluator's own      *)
(* special forms, which evaluate code that was not expanded.               *)
BuiltinsKeepTheirMeaning ==
    JustExpanded /\ (\A n \in SubNodes(Latest.form) :
                        IsCall(n, Latest.known) => Latest.known[Named(n)].kind = "builtin")
        => \A world \in Worlds :
              LET meant == Evaluate(Latest.form, <<>>, world, TRUE)
              IN meant.ok => Evaluate(Latest.out[1], <<>>, world, TRUE) = meant

(* "`v#' in a template expands to a unique symbol that cannot clash with   *)
(* user-defined names" (nexl-spec.md, 7.3): a program whose templates bind *)
(* only such names, that does not shadow what they mean as globals, and    *)
(* that keeps a fresh name from the macros that make the same ones, means  *)
(* the same by spelling alone as with perfect hygiene.                     *)
NoCapture ==
    JustExpanded /\ TemplatesBindFresh /\ GlobalsUnshadowed /\ FreshNamesStay /\ ChainsUnthreaded
        => \A world \in Worlds :
              Evaluate(Latest.out[1], <<>>, world, FALSE)
                  = Evaluate(Latest.out[1], <<>>, world, TRUE)
=============================================================================
