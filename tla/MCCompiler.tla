------------------------------- MODULE MCCompiler -------------------------------
(* Small programs for Compiler: a main and one or two functions. *)
EXTENDS Compiler

One == Literal(IntLit(1))
True == Literal(Bool(1))
False == Literal(Bool(0))
A == Symbol("a")
B == Symbol("b")
X == Symbol("x")
Some(e) == CtorForm("Some", <<e>>)
F(p, q) == CallForm(Symbol("f"), <<p, q>>)
G(p) == CallForm(Symbol("g"), <<p>>)
Let(e, body) == LetForm(<<"x">>, <<e>>, body)
Unwrap(e) == MatchForm(e, <<Pattern("Some", <<"y">>), Pattern("_", <<>>)>>, <<Symbol("y"), One>>)
Swap(i, j, result) == LoopForm(<<"x", "y">>, <<i, j>>,
                               IfForm(X, RecurForm(<<Symbol("y"), X>>), result))
Shift(i, j, result) == LoopForm(<<"x", "y">>, <<i, j>>,
                                IfForm(X, RecurForm(<<Symbol("y"), False>>), result))

(* Bodies of g, over a. *)
BodiesG == {A, One, Some(A), IfForm(A, One, False), Let(Some(A), Unwrap(X)), G(A)}

(* Bodies of f, over a and b. *)
BodiesF == {A, One, Some(B), IfForm(A, B, One), Unwrap(B), Let(B, Some(X)), G(B), Let(G(A), X),
            Let(G(B), IfForm(A, X, G(X))), Swap(A, B, Symbol("y")), Shift(A, B, Some(Symbol("y"))),
            Let(FnForm(<<"q">>, CtorForm("Pair", <<Symbol("q"), B>>)), CallForm(X, <<A>>)),
            FnForm(<<"q">>, A), IfForm(A, F(False, B), B), DoForm(<<G(A), F(False, A)>>),
            LoopForm(<<"x", "y">>, <<A, Some(X)>>, Symbol("y")),
            LoopForm(<<"x", "y">>, <<A, X>>, Symbol("y"))}

Args == {True, False, Some(One)}

BodiesMain ==
    {F(p, q) : p \in {True, False}, q \in Args}
        \union {Let(F(p, q), e) : p \in {True, False}, q \in Args,
                   e \in {X, Some(X), Unwrap(X), F(True, X), Let(F(False, X), X)}}
        \union {Let(Symbol("f"), CallForm(X, <<p, True>>)) : p \in {True, False}}
        \union {IfForm(p, Let(F(q, p), Some(X)), One) : p, q \in {True, False}}
        \union {Unwrap(F(True, q)) : q \in Args}
        \union {Let(FnForm(<<"q">>, FnForm(<<"r">>, Symbol("q"))), CallForm(CallForm(X, <<One>>), <<True>>))}

MCPrograms ==
    {<<Defn("g", <<"a">>, g), Defn("f", <<"a", "b">>, f), Defn("main", <<>>, m)>> :
        g \in BodiesG, f \in BodiesF, m \in BodiesMain}
    \union {<<Defn("f", <<"a", "b">>, f), Defn("f", <<"a", "b">>, h), Defn("main", <<>>, m)>> :
        f, h \in {A, B, IfForm(A, B, One)}, m \in {F(True, False), Let(F(True, True), Some(X))}}
=============================================================================
