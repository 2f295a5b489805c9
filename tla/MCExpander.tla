------------------------------- MODULE MCExpander -------------------------------
(* Programs for Expander: the built-in macros nested in one another, and    *)
(* two user macros in every combination with small uses.                    *)
EXTENDS MacroMeaning

a == Symbol("a")
b == Symbol("b")
o == Symbol("o")
r == Symbol("r")
v == Symbol("v")
f == Symbol("f")
g == Symbol("g")
Apply(head, args) == List(<<Symbol(head)>> \o args)
F(x) == Apply("f", <<x>>)
G(x) == Apply("g", <<x>>)
LetV(x, body) == Apply("let", <<Vector(<<v, x>>), body>>)

(* Tests and options with and without calls and macros in them.             *)
Tests == {a, F(b), Apply("and", <<F(a), b>>), Apply("or", <<a, F(b), b>>)}
Options == {o, F(o), Apply("some->", <<o, f>>)}
Results == {r, Apply("ok->", <<r, F(a)>>)}

BuiltinForms ==
    {Apply(m, <<t, G(a)>>) : m \in {"when", "unless", "and", "or"}, t \in Tests}
        \cup {Apply(m, args) : m \in {"and", "or", "cond"}, args \in {<<>>, <<a>>}}
        \cup {Apply(m, <<a, s, t>>) : m \in {"and", "or"}, s, t \in Tests}
        \cup {Apply("cond", <<s, G(a), t, G(b)>>) : s \in Tests, t \in Tests \cup {Keyword("else")}}
        \cup {Apply("cond", <<Keyword("else"), a, b, o>>)}
        \cup {Apply(m, <<x, s, G(a)>>) : m \in OptionThreads, x \in Options, s \in {f, F(b)}}
        \cup {Apply(m, <<x, s, g>>) : m \in ResultThreads, x \in Results, s \in {f, F(b)}}
        \cup {Apply(m, <<o, s, F(a), t, g>>) : m \in CondThreads, s, t \in Tests}
        \cup {Apply(m, <<x, F(b), g>>) : m \in {"->", "->>"}, x \in {a, F(a)}}
        \cup {Apply("->", <<o, Apply("some->", <<f>>)>>), Apply("some->", <<o, List(<<>>)>>),
              Apply("some->>", <<o, Apply("some->", <<o, f>>)>>), Apply("unless", <<>>)}
        \cup {Branch("map", <<a, Apply("when", <<b, G(a)>>)>>),
              Apply("quote", <<Apply("when", <<a, b>>)>>), Deref(Apply("when", <<a, b>>)),
              Apply("when", <<Deref(a), Deref(Apply("and", <<a, b>>))>>)}

X == Symbol("x")
Y == Symbol("y")
Defmacro(name, params, body) == Apply("defmacro", <<Symbol(name), Vector(params), body>>)
Template(name, node) == Defmacro(name, <<X, Y>>, Quasiquote(node))
VAuto == Auto("v")
UX == Unquote(X)
UY == Unquote(Y)

(* Definitions of m, of two arguments.                                      *)
MacrosM == {
    Template("m", Apply("let", <<Vector(<<VAuto, UX>>), Apply("if", <<VAuto, VAuto, UY>>)>>)),
    Template("m", LetV(UX, Apply("if", <<v, v, UY>>))),
    Template("m", Apply("let", <<Vector(<<VAuto, UY, Auto("w"), UX>>),
                                 Apply("g", <<Auto("w"), VAuto, UX>>)>>)),
    Template("m", Apply("let", <<Vector(<<Auto("tmp"), UX>>), Apply("or", <<UY, Auto("tmp")>>)>>)),
    Template("m", Apply("unless", <<UX, G(UY)>>)),
    Template("m", Apply("n", <<UY, UX>>)),
    Template("m", Apply("do", <<Defmacro("k", <<X>>, Symbol("x")), Apply("k", <<UX>>)>>)),
    Defmacro("m", <<X, Y>>, Symbol("x")),
    Apply("defmacro", <<Symbol("m"), Vector(<<X, Y>>), Symbol("&"), Symbol("form")>>),
    Apply("defmacro-elab", <<Symbol("m"), Vector(<<X, Symbol(":"), Symbol("Bool"), Y>>),
        Symbol("->"), Symbol("Bool"), Quasiquote(Apply("if", <<UX, UY, a>>))>>)}

(* Definitions of n, of two arguments or more.                              *)
Rest == Symbol("rest")
MacrosN == {
    Defmacro("n", <<X, Symbol("&"), Rest>>, Quasiquote(List(<<g, UnquoteSplice(Rest), UX>>))),
    Template("n", Apply("let", <<Vector(<<VAuto, UY>>), Apply("if", <<UX, VAuto, b>>)>>)),
    Template("n", Apply("m", <<UX, UY>>)),
    Defmacro("n", <<X, Symbol("&"), Rest>>, Quasiquote(UnquoteSplice(Rest))),
    Template("n", Apply("quote", <<Quasiquote(List(<<g, Unquote(Unquote(X))>>))>>)),
    Template("n", Branch("set", <<UnquoteSplice(X), UY>>)),
    Template("n", Apply("let", <<Vector(<<VAuto, UX>>), Apply("m", <<UY, VAuto>>)>>)),
    Apply("defmacro-syntax", <<Symbol("n"),
        Vector(<<Apply("n", <<X>>), X>>),
        Vector(<<Apply("n", <<Literal("true"), X, Rest, Symbol("...")>>), Quasiquote(Apply("n", <<UX>>))>>),
        Vector(<<Apply("n", <<Apply("f", <<Symbol("_")>>), X>>), X>>),
        Vector(<<Apply("_", <<X, Rest, Symbol("...")>>),
                 Quasiquote(Apply("let", <<Vector(<<VAuto, UX>>),
                     Apply("if", <<VAuto, Apply("n", <<UnquoteSplice(Rest)>>), Literal("false")>>)>>))>>)>>)}

Uses == {
    Apply("m", <<a, b>>), Apply("n", <<a, b>>), Apply("m", <<F(a), Apply("n", <<a, F(b)>>)>>),
    Apply("n", <<Literal("true"), Apply("m", <<b, a>>)>>), LetV(b, Apply("m", <<a, v>>)),
    LetV(F(a), Apply("n", <<v, Apply("m", <<v, b>>)>>)), Apply("n", <<F(a), b>>),
    Apply("or", <<Apply("m", <<a, b>>), b>>),
    Apply("let", <<Vector(<<Symbol("not"), f>>), Apply("m", <<a, b>>)>>),
    Apply("m", <<a, v>>), Apply("m", <<a>>), Apply("n", <<a, b, F(a)>>)}

MCPrograms ==
    {<<<<form>>>> : form \in BuiltinForms}
        \cup {<<<<m>>, <<n, use>>>> : m \in MacrosM, n \in MacrosN, use \in Uses}
        \cup {<<<<use, m>>, <<use>>>> : m \in MacrosM, use \in Uses}

MCWorlds ==
    {("a" :> p) @@ ("b" :> q) @@ ("o" :> s[1]) @@ ("r" :> s[2]) @@ ("f" :> t) @@ ("g" :> "true") :
        p, q \in Flags, s \in {<<"some", "ok">>, <<"none", "err">>},
        t \in {"true", "false", "some", "err"}}
=============================================================================
