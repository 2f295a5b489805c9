----------------------------------- MODULE IR -----------------------------------
(***************************************************************************)
(* The intermediate representation of the compiler, crates/nexl-ir/src/    *)
(* lib.rs, and what a program in it computes.                              *)
(*                                                                         *)
(* An atom is a pair <<kind, payload>>.  A fresh VarId or FuncId is named  *)
(* by the place that asks for it, a sequence of numbers, instead of by a   *)
(* counter.  Right-hand sides and tails have one record shape each, with   *)
(* the fields a kind does not use left empty.  Not modelled: floats,       *)
(* strings, Project and Panic, which no source form is lowered to.         *)
(***************************************************************************)
EXTENDS Integers, Sequences, SequencesExt, TLC

IntLit(n) == <<"int", n>>
Bool(b) == <<"bool", b>>                       \* 1 or 0
Unit == <<"unit", 0>>
Var(v) == <<"var", v>>
FuncRef(f) == <<"func", f>>

IsVar(atom) == atom[1] = "var"
IsFuncRef(atom) == atom[1] = "func"

(* Right-hand sides.                                                       *)
None == <<"none", 0>>
AtomRhs(atom) == [op |-> "atom", head |-> None, args |-> <<atom>>]
Call(func, args) == [op |-> "call", head |-> func, args |-> args]
MakeClosure(id, captures) == [op |-> "closure", head |-> FuncRef(id), args |-> captures]
MakeTuple(ctor, fields) == [op |-> "tuple", head |-> <<"ctor", ctor>>, args |-> fields]

Bind(var, rhs) == [var |-> var, rhs |-> rhs]
Block(binds, tail) == [binds |-> binds, tail |-> tail]

(* Tails.  A loop binds its variables like a match arm its fields.         *)
TailOf(kind, head, atoms, arms, blocks) ==
    [kind |-> kind, head |-> head, atoms |-> atoms, arms |-> arms, blocks |-> blocks]

Return(atom) == TailOf("return", None, <<atom>>, <<>>, <<>>)
If(cond, then, else) == TailOf("if", None, <<cond>>, <<>>, <<then, else>>)
TailCall(func, args) == TailOf("tailcall", func, args, <<>>, <<>>)
Match(scrutinee, arms, bodies) == TailOf("match", None, <<scrutinee>>, arms, bodies)
Loop(vars, inits, body) ==
    TailOf("loop", None, inits, <<[ctor |-> "loop", binds |-> vars]>>, <<body>>)
Recur(args) == TailOf("recur", None, args, <<>>, <<>>)

(* A module: its functions in the order of their ids.                      *)
FuncDef(id, named, params, body) ==
    [id |-> id, named |-> named, params |-> params, body |-> body]

FuncWith(module, id) == SelectSeq(module, LAMBDA f : f.id = id)
HasFunc(module, id) == \E i \in 1 .. Len(module) : module[i].id = id
FuncOf(module, id) == FuncWith(module, id)[1]

-----------------------------------------------------------------------------
(* What blocks mention.                                                    *)
VarsOf(atoms) == {atoms[i][2] : i \in {j \in 1 .. Len(atoms) : IsVar(atoms[j])}}

RhsVars(rhs) == VarsOf(Append(rhs.args, rhs.head))

RECURSIVE BlockVars(_), BlockBinders(_), BlockRhss(_), BlockTails(_)

(* The variables referenced in a block.                                    *)
TailVars(tail) ==
    VarsOf(Append(tail.atoms, tail.head))
        \union UNION {BlockVars(tail.blocks[i]) : i \in 1 .. Len(tail.blocks)}

BlockVars(block) ==
    TailVars(block.tail)
        \union UNION {RhsVars(block.binds[i].rhs) : i \in 1 .. Len(block.binds)}

(* The variables bound in a block, one entry for each binder.              *)
BlockBinders(block) ==
    [i \in 1 .. Len(block.binds) |-> block.binds[i].var]
        \o FlattenSeq([i \in 1 .. Len(block.tail.arms) |-> block.tail.arms[i].binds])
        \o FlattenSeq([i \in 1 .. Len(block.tail.blocks) |-> BlockBinders(block.tail.blocks[i])])

(* All right-hand sides and all tails of a block, those inside it included.*)
BlockRhss(block) ==
    {block.binds[i].rhs : i \in 1 .. Len(block.binds)}
        \union UNION {BlockRhss(block.tail.blocks[i]) : i \in 1 .. Len(block.tail.blocks)}

BlockTails(block) ==
    {block.tail} \union UNION {BlockTails(block.tail.blocks[i]) : i \in 1 .. Len(block.tail.blocks)}

(* Every variable is bound before it is used, on every path.               *)
RECURSIVE WellScoped(_, _)
WellScoped(block, scope) ==
    LET n == Len(block.binds)
        At(i) == scope \union {block.binds[j].var : j \in 1 .. i - 1}
        tail == block.tail
    IN  /\ \A i \in 1 .. n : RhsVars(block.binds[i].rhs) \subseteq At(i)
        /\ VarsOf(Append(tail.atoms, tail.head)) \subseteq
               (IF tail.kind = "loop"           \* inits see the variables before them
                THEN At(n + 1) \union ToSet(tail.arms[1].binds)
                ELSE At(n + 1))
        /\ \A i \in 1 .. Len(tail.blocks) :
              WellScoped(tail.blocks[i],
                         At(n + 1) \union (IF tail.arms = <<>> THEN {} ELSE ToSet(tail.arms[i].binds)))

ModuleWellScoped(module) ==
    \A i \in 1 .. Len(module) : WellScoped(module[i].body, ToSet(module[i].params))

-----------------------------------------------------------------------------
(* What a module computes.  A result is a value, Stuck (an error of the    *)
(* program) or Timeout (out of fuel, the bound on calls and iterations).   *)
Stuck == <<"stuck", 0>>
Timeout == <<"timeout", 0>>
Failed(r) == r[1] \in {"stuck", "timeout"}

Closure(id, captured) == <<"closure", id, captured>>
Data(ctor, fields) == <<"data", ctor, fields>>

ValueOf(atom, env) ==
    CASE IsVar(atom) -> IF atom[2] \in DOMAIN env THEN env[atom[2]] ELSE Stuck
      [] IsFuncRef(atom) -> Closure(atom[2], <<>>)
      [] OTHER -> atom

ValuesOf(atoms, env) == [i \in 1 .. Len(atoms) |-> ValueOf(atoms[i], env)]

Binding(vars, values) == [v \in ToSet(vars) |-> values[CHOOSE i \in 1 .. Len(vars) : vars[i] = v]]

RECURSIVE Run(_, _, _, _, _), Apply(_, _, _, _), RunTail(_, _, _, _, _), Arm(_, _, _, _, _, _)

(* `loop' is the innermost loop around the block, or <<>>.                 *)
Run(module, block, env, loop, fuel) ==
    IF block.binds = <<>> THEN RunTail(module, block.tail, env, loop, fuel)
    ELSE LET bind == Head(block.binds)
             args == ValuesOf(bind.rhs.args, env)
             value == CASE Stuck \in ToSet(args) -> Stuck
                        [] bind.rhs.op = "atom" -> args[1]
                        [] bind.rhs.op = "tuple" -> Data(bind.rhs.head[2], args)
                        [] bind.rhs.op = "closure" -> Closure(bind.rhs.head[2], args)
                        [] bind.rhs.op = "call" ->
                              Apply(module, ValueOf(bind.rhs.head, env), args, fuel)
         IN  IF Failed(value) THEN value
             ELSE Run(module, Block(Tail(block.binds), block.tail),
                      (bind.var :> value) @@ env, loop, fuel)

Apply(module, func, args, fuel) ==
    IF fuel = 0 THEN Timeout
    ELSE IF func[1] # "closure" \/ ~HasFunc(module, func[2]) THEN Stuck
    ELSE LET f == FuncOf(module, func[2])
             all == func[3] \o args
         IN  IF Len(all) # Len(f.params) THEN Stuck
             ELSE Run(module, f.body, Binding(f.params, all), <<>>, fuel - 1)

RunTail(module, tail, env, loop, fuel) ==
    LET atoms == ValuesOf(tail.atoms, env) IN
    CASE tail.kind = "return" -> atoms[1]
      [] tail.kind = "if" ->
            IF atoms[1][1] # "bool" THEN Stuck
            ELSE Run(module, tail.blocks[IF atoms[1] = Bool(1) THEN 1 ELSE 2], env, loop, fuel)
      [] tail.kind = "tailcall" ->
            IF Stuck \in ToSet(atoms) THEN Stuck
            ELSE Apply(module, ValueOf(tail.head, env), atoms, fuel)
      [] tail.kind = "match" -> Arm(module, tail, 1, env, loop, fuel)
      [] tail.kind = "loop" ->                \* the initial values one after the other
            LET vars == tail.arms[1].binds
                Set(e, i) == (vars[i] :> ValueOf(tail.atoms[i], e)) @@ e
                start == FoldLeft(Set, env, [i \in 1 .. Len(vars) |-> i])
            IN  IF \E i \in 1 .. Len(vars) : start[vars[i]] = Stuck THEN Stuck
                ELSE Run(module, tail.blocks[1], start, tail, fuel)
      [] tail.kind = "recur" ->               \* the new values all at once
            IF fuel = 0 THEN Timeout
            ELSE IF loop = <<>> \/ Stuck \in ToSet(atoms) THEN Stuck
            ELSE IF Len(atoms) # Len(loop.arms[1].binds) THEN Stuck
            ELSE Run(module, loop.blocks[1], Binding(loop.arms[1].binds, atoms) @@ env, loop, fuel - 1)

(* The first arm that has the scrutinee's constructor, or none in particular. *)
Arm(module, tail, i, env, loop, fuel) ==
    LET value == ValueOf(tail.atoms[1], env) IN
    IF i > Len(tail.arms) \/ Failed(value) THEN Stuck
    ELSE IF tail.arms[i].ctor = "_" THEN Run(module, tail.blocks[i], env, loop, fuel)
    ELSE IF value[1] # "data" THEN Stuck
    ELSE IF value[2] = tail.arms[i].ctor
    THEN IF Len(value[3]) # Len(tail.arms[i].binds) THEN Stuck
         ELSE Run(module, tail.blocks[i], Binding(tail.arms[i].binds, value[3]) @@ env, loop, fuel)
    ELSE Arm(module, tail, i + 1, env, loop, fuel)

(* The value without the identity of the functions in it.                  *)
RECURSIVE Shown(_)
Shown(value) ==
    CASE value[1] = "data" -> Data(value[2], [i \in 1 .. Len(value[3]) |-> Shown(value[3][i])])
      [] value[1] = "closure" -> <<"function", 0>>
      [] OTHER -> value

Main(module, id, fuel) == Shown(Apply(module, Closure(id, <<>>), <<>>, fuel))
=============================================================================
