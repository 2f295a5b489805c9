-------------------------------- MODULE Lowering --------------------------------
(***************************************************************************)
(* ANF lowering, crates/nexl-ir/src/lower.rs: source functions to an IR    *)
(* module, and what the evaluator (crates/nexl-eval/src/eval.rs) makes of  *)
(* the same source.                                                        *)
(*                                                                         *)
(* A node is a form with an atom or a name, bound names, items and         *)
(* patterns.  The forms are those lower.rs knows, well-formed: how it      *)
(* rejects a malformed one is left out.  A program is a sequence of defns. *)
(***************************************************************************)
EXTENDS IR

Node(form, name, names, items, pats) ==
    [form |-> form, atom |-> None, name |-> name, names |-> names, items |-> items, pats |-> pats]

Literal(atom) == [Node("literal", "", <<>>, <<>>, <<>>) EXCEPT !.atom = atom]
Symbol(name) == Node("symbol", name, <<>>, <<>>, <<>>)
IfForm(cond, then, else) == Node("if", "", <<>>, <<cond, then, else>>, <<>>)
LetForm(names, inits, body) == Node("let", "", names, Append(inits, body), <<>>)
LoopForm(names, inits, body) == Node("loop", "", names, Append(inits, body), <<>>)
RecurForm(args) == Node("recur", "", <<>>, args, <<>>)
DoForm(exprs) == Node("do", "", <<>>, exprs, <<>>)
FnForm(params, body) == Node("fn", "", params, <<body>>, <<>>)
CallForm(func, args) == Node("call", "", <<>>, <<func>> \o args, <<>>)
CtorForm(name, args) == Node("ctor", name, <<>>, args, <<>>)
MatchForm(scrutinee, pats, bodies) == Node("match", "", <<>>, <<scrutinee>> \o bodies, pats)
Pattern(ctor, names) == [ctor |-> ctor, names |-> names]

Defn(name, params, body) == [name |-> name, params |-> params, body |-> body]

Final(node) == node.items[Len(node.items)]

(* The FuncId of a name: a later defn of the same name takes it over.      *)
Global(program, name) ==
    LET at == {i \in 1 .. Len(program) : program[i].name = name} IN
    IF at = {} THEN <<>> ELSE <<CHOOSE i \in at : \A j \in at : j <= i>>

-----------------------------------------------------------------------------
(* Lowering.  A lowered part is the bindings before it, its atom (or tail) *)
(* and the functions lifted out of it; a part that cannot be lowered is    *)
(* marked.  An environment maps the names in scope to variables.           *)
Lowered(ok, binds, at, funcs) == [ok |-> ok, binds |-> binds, at |-> at, funcs |-> funcs]

Atomic(atom) == Lowered(TRUE, <<>>, atom, <<>>)

UnboundVariable == Lowered(FALSE, <<>>, Unit, <<>>)

(* Parts, one after the other.                                             *)
Joined(parts, at) ==
    Lowered(\A i \in 1 .. Len(parts) : parts[i].ok,
            FlattenSeq([i \in 1 .. Len(parts) |-> parts[i].binds]), at,
            FlattenSeq([i \in 1 .. Len(parts) |-> parts[i].funcs]))

AtomsOf(parts) == [i \in 1 .. Len(parts) |-> parts[i].at]

(* Parts in front of the blocks of a tail.                                 *)
Branched(before, branches, at) ==
    LET all == Joined(before \o branches, at) IN [all EXCEPT !.binds = Joined(before, at).binds]

BlocksOf(parts) == [i \in 1 .. Len(parts) |-> Block(parts[i].binds, parts[i].at)]

(* The value of `rhs' under a fresh name.                                  *)
Named(parts, path, rhs) ==
    LET all == Joined(parts, Var(path)) IN [all EXCEPT !.binds = Append(@, Bind(path, rhs))]

RECURSIVE FreeNames(_)

(* collect_free_vars: every symbol mentioned, bindings inside the body     *)
(* notwithstanding, except those in a nested fn.                           *)
FreeNames(node) ==
    CASE node.form = "symbol" -> {node.name}
      [] node.form = "fn" -> {}
      [] OTHER -> UNION {FreeNames(node.items[i]) : i \in 1 .. Len(node.items)}
                     \union ToSet(node.names)
                     \union UNION {ToSet(node.pats[i].names) : i \in 1 .. Len(node.pats)}

(* Lambda lifting: what the body of a fn mentions and the place of the fn  *)
(* knows becomes a parameter in front of the others.                       *)
Captured(node, env) ==
    SetToSeq((FreeNames(Final(node)) \intersect DOMAIN env) \ ToSet(node.names))

(* The variables of a let, a loop or the parameters of a fn, and of arm i. *)
NameVars(path, names) == [i \in 1 .. Len(names) |-> path \o <<-1, i>>]
FieldVars(path, i, names) == [j \in 1 .. Len(names) |-> path \o <<i + 1, -1, j>>]

(* The scope of item i of a node: the names of a let or a loop one after   *)
(* the other, the fields of a match in their arm, the parameters of a fn   *)
(* instead of everything else.                                             *)
ScopeOf(node, i, env, path) ==
    CASE node.form \in {"let", "loop"} ->
            LET names == SubSeq(node.names, 1, i - 1)
            IN  Binding(names, NameVars(path, names)) @@ env
      [] node.form = "match" /\ i > 1 ->
            Binding(node.pats[i - 1].names, FieldVars(path, i - 1, node.pats[i - 1].names)) @@ env
      [] node.form = "fn" ->
            LET names == Captured(node, env) \o node.names
            IN  Binding(names, NameVars(path, names))
      [] OTHER -> env

(* An if, a match, a loop and a do are known in tail position only, a let  *)
(* in both.                                                                *)
PositionOf(node, i, position) ==
    IF \/ node.form = "fn"
       \/ /\ position = "tail"
          /\ \/ node.form \in {"if", "match"} /\ i > 1
             \/ node.form \in {"let", "loop", "do"} /\ i = Len(node.items)
    THEN "tail" ELSE "expr"

LowerSymbol(program, name, env) ==
    IF name \in DOMAIN env THEN Atomic(Var(env[name]))
    ELSE IF Global(program, name) # <<>> THEN Atomic(FuncRef(Global(program, name)))
    ELSE UnboundVariable

LowerFn(node, env, path, body) ==
    LET captured == Captured(node, env)
        params == NameVars(path, captured \o node.names)
    IN  Lowered(body.ok,
                <<Bind(path, MakeClosure(path, [i \in 1 .. Len(captured) |-> Var(env[captured[i]])]))>>,
                Var(path),
                Append(body.funcs, FuncDef(path, FALSE, params, Block(body.binds, body.at))))

(* Each name is bound to the atom its init has become.                     *)
LowerLet(node, path, parts) ==
    LET vars == NameVars(path, node.names)
        bound == [i \in 1 .. Len(parts) |->
                     IF i <= Len(vars)
                     THEN [parts[i] EXCEPT !.binds = Append(@, Bind(vars[i], AtomRhs(parts[i].at)))]
                     ELSE parts[i]]
    IN  Joined(bound, parts[Len(parts)].at)

(* lower_expr: an if, a match, a loop, a do or a recur is not expected     *)
(* here and ends up as a call of an unbound symbol.                        *)
LowerExpr(program, node, env, path, parts) ==
    CASE node.form = "literal" -> Atomic(node.atom)
      [] node.form = "symbol" -> LowerSymbol(program, node.name, env)
      [] node.form = "ctor" -> Named(parts, path, MakeTuple(node.name, AtomsOf(parts)))
      [] node.form = "fn" -> LowerFn(node, env, path, parts[1])
      [] node.form = "let" -> LowerLet(node, path, parts)
      [] node.form = "call" -> Named(parts, path, Call(parts[1].at, Tail(AtomsOf(parts))))
      [] OTHER -> UnboundVariable

(* A call of a known function is a tail call; any other is made here and   *)
(* its result returned.                                                    *)
ReturnOf(node, part) ==
    LET last == part.binds[Len(part.binds)].rhs IN
    IF node.form = "call" /\ part.ok /\ IsFuncRef(last.head)
    THEN [part EXCEPT !.binds = SubSeq(@, 1, Len(@) - 1), !.at = TailCall(last.head, last.args)]
    ELSE [part EXCEPT !.at = Return(@)]

(* lower_tail.  The bindings that compute the inits of a loop all go       *)
(* before the loop.                                                        *)
LowerTail(program, node, env, path, parts) ==
    LET n == Len(parts) IN
    CASE node.form = "if" ->
            Branched(<<parts[1]>>, Tail(parts),
                     If(parts[1].at, BlocksOf(parts)[2], BlocksOf(parts)[3]))
      [] node.form = "match" ->
            Branched(<<parts[1]>>, Tail(parts),
                     Match(parts[1].at,
                           [i \in 1 .. Len(node.pats) |->
                               [ctor |-> node.pats[i].ctor,
                                binds |-> FieldVars(path, i, node.pats[i].names)]],
                           Tail(BlocksOf(parts))))
      [] node.form = "loop" ->
            Branched(Front(parts), <<parts[n]>>,
                     Loop(NameVars(path, node.names), AtomsOf(Front(parts)), BlocksOf(parts)[n]))
      [] node.form = "let" -> LowerLet(node, path, parts)
      [] node.form = "do" -> Joined(parts, parts[n].at)
      [] node.form = "recur" -> Joined(parts, Recur(AtomsOf(parts)))
      [] OTHER -> ReturnOf(node, LowerExpr(program, node, env, path, parts))

(* The parts are concatenated to make TLC compute each of them once.       *)
RECURSIVE LowerNode(_, _, _, _, _)
LowerNode(program, node, env, path, position) ==
    LET parts == <<>> \o [i \in 1 .. Len(node.items) |->
                     LowerNode(program, node.items[i], ScopeOf(node, i, env, path),
                               Append(path, i), PositionOf(node, i, position))]
    IN  IF position = "tail" THEN LowerTail(program, node, env, path, parts)
        ELSE LowerExpr(program, node, env, path, parts)

LowerDefn(program, i) ==
    LET defn == program[i]
        params == [j \in 1 .. Len(defn.params) |-> <<i, 0, j>>]
        body == LowerNode(program, defn.body, Binding(defn.params, params), <<i, 1>>, "tail")
    IN  [ok |-> body.ok,
         funcs |-> <<FuncDef(Global(program, defn.name), TRUE, params, Block(body.binds, body.at))>>,
         lifted |-> body.funcs]

(* lower_module: the functions by id, those of the source before the       *)
(* lifted ones; of two with one name the later is kept.                    *)
LowerModule(program) ==
    LET defns == [i \in 1 .. Len(program) |-> LowerDefn(program, i)]
        kept == SelectSeq([i \in 1 .. Len(program) |-> i],
                          LAMBDA i : Global(program, program[i].name) = <<i>>)
    IN  [ok |-> \A i \in 1 .. Len(program) : defns[i].ok,
         funcs |-> FlattenSeq([i \in 1 .. Len(kept) |-> defns[kept[i]].funcs])
                       \o FlattenSeq([i \in 1 .. Len(program) |-> defns[i].lifted])]

-----------------------------------------------------------------------------
(* The evaluator.  A result may also be a recur on its way to its loop.    *)
RECURSIVE Eval(_, _, _, _), EvalSeq(_, _, _, _, _), EvalBindings(_, _, _, _, _), EvalLoop(_, _, _, _),
          EvalArm(_, _, _, _, _, _), EvalApply(_, _, _, _)

IsRecur(r) == r[1] = "recur"

(* Operands, left to right; a recur among them is an error.                *)
EvalSeq(program, nodes, env, fuel, values) ==
    IF nodes = <<>> THEN <<"values", values>>
    ELSE LET r == Eval(program, Head(nodes), env, fuel) IN
         CASE Failed(r) -> r
           [] IsRecur(r) -> Stuck
           [] OTHER -> EvalSeq(program, Tail(nodes), env, fuel, Append(values, r))

EvalBindings(program, node, env, fuel, i) ==
    IF i > Len(node.names) THEN <<"env", env>>
    ELSE LET r == Eval(program, node.items[i], env, fuel) IN
         IF Failed(r) THEN r ELSE IF IsRecur(r) THEN Stuck
         ELSE EvalBindings(program, node, (node.names[i] :> r) @@ env, fuel, i + 1)

EvalLoop(program, node, env, fuel) ==
    LET r == Eval(program, Final(node), env, fuel) IN
    IF ~IsRecur(r) THEN r
    ELSE IF fuel = 0 THEN Timeout
    ELSE IF Len(r[2]) # Len(node.names) THEN Stuck
    ELSE EvalLoop(program, node, Binding(node.names, r[2]) @@ env, fuel - 1)

(* A constructor pattern on a value that is not built by a constructor is  *)
(* a program the type checker refuses, not one with a meaning.             *)
EvalArm(program, node, value, env, fuel, i) ==
    IF i > Len(node.pats) THEN Stuck
    ELSE LET pat == node.pats[i] IN
         IF pat.ctor = "_" THEN Eval(program, node.items[i + 1], env, fuel)
         ELSE IF value[1] # "data" THEN Stuck
         ELSE IF value[2] = pat.ctor /\ Len(value[3]) = Len(pat.names)
         THEN Eval(program, node.items[i + 1], Binding(pat.names, value[3]) @@ env, fuel)
         ELSE EvalArm(program, node, value, env, fuel, i + 1)

EvalApply(program, func, args, fuel) ==
    IF func[1] # "closure" THEN Stuck
    ELSE IF fuel = 0 THEN Timeout
    ELSE LET names == func[2].names IN
         IF Len(names) # Len(args) THEN Stuck
         ELSE LET r == Eval(program, Final(func[2]), Binding(names, args) @@ func[3], fuel - 1)
              IN  IF IsRecur(r) THEN Stuck ELSE r

Eval(program, node, env, fuel) ==
    CASE node.form = "literal" -> node.atom
      [] node.form = "symbol" ->
            IF node.name \in DOMAIN env THEN env[node.name]
            ELSE LET g == Global(program, node.name) IN
                 IF g = <<>> THEN Stuck
                 ELSE Closure(FnForm(program[g[1]].params, program[g[1]].body), <<>>)
      [] node.form = "fn" -> Closure(node, env)
      [] node.form = "if" ->
            LET c == Eval(program, node.items[1], env, fuel) IN
            IF Failed(c) THEN c
            ELSE IF c[1] # "bool" THEN Stuck
            ELSE Eval(program, node.items[IF c = Bool(1) THEN 2 ELSE 3], env, fuel)
      [] node.form \in {"let", "loop"} ->
            LET b == EvalBindings(program, node, env, fuel, 1) IN
            IF Failed(b) THEN b
            ELSE IF node.form = "let" THEN Eval(program, Final(node), b[2], fuel)
            ELSE EvalLoop(program, node, b[2], fuel)
      [] node.form = "do" ->
            LET before == EvalSeq(program, SubSeq(node.items, 1, Len(node.items) - 1), env, fuel, <<>>)
            IN  IF Failed(before) THEN before ELSE Eval(program, Final(node), env, fuel)
      [] node.form = "match" ->
            LET v == Eval(program, node.items[1], env, fuel) IN
            IF Failed(v) THEN v ELSE IF IsRecur(v) THEN Stuck
            ELSE EvalArm(program, node, v, env, fuel, 1)
      [] OTHER ->                                     \* call, ctor, recur
            LET r == EvalSeq(program, node.items, env, fuel, <<>>) IN
            CASE Failed(r) -> r
              [] node.form = "recur" -> <<"recur", r[2]>>
              [] node.form = "ctor" -> Data(node.name, r[2])
              [] OTHER -> EvalApply(program, Head(r[2]), Tail(r[2]), fuel)

(* What a call of the function `name' without arguments computes.          *)
Evaluate(program, name, fuel) ==
    Shown(Eval(program, CallForm(Symbol(name), <<>>), <<>>, fuel))
=============================================================================
