-------------------------------- MODULE Optimizer --------------------------------
(***************************************************************************)
(* The optimization passes, crates/nexl-ir/src/optimize/: inlining,        *)
(* constant folding, dead code elimination and specialization.  Each is a  *)
(* function from modules to modules.                                       *)
(***************************************************************************)
EXTENDS IR, FiniteSetsExt

CONSTANT INLINE_COST_THRESHOLD  \* 10 in the code

MapBodies(module, Pass(_)) ==
    [i \in 1 .. Len(module) |-> [module[i] EXCEPT !.body = Pass(@)]]

FuncRefs(atoms) == {atoms[i][2] : i \in {j \in 1 .. Len(atoms) : IsFuncRef(atoms[j])}}

(* The functions that are the value of an atom, called or made a closure.  *)
CalledIn(block) ==
    UNION {FuncRefs(<<r.head>>) : r \in BlockRhss(block)}
        \union UNION {FuncRefs(<<t.head>>) : t \in BlockTails(block)}

MentionedIn(block) ==
    CalledIn(block) \union UNION {FuncRefs(r.args) : r \in BlockRhss(block)}
        \union UNION {FuncRefs(t.atoms) : t \in BlockTails(block)}

-----------------------------------------------------------------------------
(* Inlining.                                                               *)
RhsCost(rhs) == CASE rhs.op = "atom" -> 0 [] rhs.op = "call" -> 2 [] rhs.op = "closure" -> 3
                  [] rhs.op = "tuple" -> 1

TailCost(kind) == CASE kind = "return" -> 0 [] kind \in {"if", "match", "recur"} -> 1
                    [] kind \in {"tailcall", "loop"} -> 2

RECURSIVE Cost(_)
Cost(block) ==
    SumFunction([i \in 1 .. Len(block.binds) |-> 1 + RhsCost(block.binds[i].rhs)])
        + TailCost(block.tail.kind)
        + SumFunction([i \in 1 .. Len(block.tail.blocks) |-> Cost(block.tail.blocks[i])])

ClosureFuncs(module) ==
    UNION {{r.head[2] : r \in {s \in BlockRhss(module[i].body) : s.op = "closure"}}
             : i \in 1 .. Len(module)}

find_inlinable(module) ==
    {module[i].id : i \in {j \in 1 .. Len(module) :
        /\ module[j].id \notin ClosureFuncs(module)
        /\ Cost(module[j].body) <= INLINE_COST_THRESHOLD
        /\ module[j].id \notin CalledIn(module[j].body)}}

(* A fresh copy of a variable of the callee for one call site.             *)
Fresh(site, var) == site \o <<-2>> \o var

RenameAtom(site, atom) == IF IsVar(atom) THEN Var(Fresh(site, atom[2])) ELSE atom

RenameAtoms(site, atoms) == [i \in 1 .. Len(atoms) |-> RenameAtom(site, atoms[i])]

RenameRhs(site, rhs) ==
    [rhs EXCEPT !.head = RenameAtom(site, @), !.args = RenameAtoms(site, @)]

RECURSIVE RenameBlock(_, _)
RenameBlock(site, block) ==
    Block([i \in 1 .. Len(block.binds) |->
              Bind(Fresh(site, block.binds[i].var), RenameRhs(site, block.binds[i].rhs))],
          [block.tail EXCEPT
              !.head = RenameAtom(site, @),
              !.atoms = RenameAtoms(site, @),
              !.arms = [i \in 1 .. Len(@) |->
                           [@[i] EXCEPT !.binds = [j \in 1 .. Len(@) |-> Fresh(site, @[j])]]],
              !.blocks = [i \in 1 .. Len(@) |-> RenameBlock(site, @[i])]])

(* Inlining without fresh names for the callee's variables.                *)
CapturingSplice(callee, bind) ==
    LET params == [i \in 1 .. Len(callee.params) |->
                      Bind(callee.params[i], AtomRhs(bind.rhs.args[i]))]
        result == IF callee.body.tail.kind = "return"
                  THEN Bind(bind.var, AtomRhs(callee.body.tail.atoms[1]))
                  ELSE bind
    IN  Append(params \o callee.body.binds, result)

(* A call in a binding becomes the parameters, the callee's bindings and   *)
(* its result; when the callee does not end in a return, the call is kept  *)
(* behind them.                                                            *)
Splice(callee, bind) ==
    LET body == RenameBlock(bind.var, callee.body)
        params == [i \in 1 .. Len(callee.params) |->
                      Bind(Fresh(bind.var, callee.params[i]), AtomRhs(bind.rhs.args[i]))]
        result == IF body.tail.kind = "return" THEN Bind(bind.var, AtomRhs(body.tail.atoms[1]))
                  ELSE bind
    IN  Append(params \o body.binds, result)

InlineBind(module, eligible, bind) ==
    IF bind.rhs.op = "call" /\ IsFuncRef(bind.rhs.head) /\ bind.rhs.head[2] \in eligible
    THEN Splice(FuncOf(module, bind.rhs.head[2]), bind)
    ELSE <<bind>>

(* A tail call of a function that returns an atom becomes a return of that *)
(* atom, with nothing that binds what the atom mentions.                   *)
InlineTailCall(callee, tail) ==
    IF callee.body.tail.kind = "return"
    THEN Return(RenameAtom(<<-3>>, callee.body.tail.atoms[1]))
    ELSE tail

RECURSIVE InlineBlock(_, _, _)
InlineBlock(module, eligible, block) ==
    Block(FlattenSeq([i \in 1 .. Len(block.binds) |-> InlineBind(module, eligible, block.binds[i])]),
          IF block.tail.kind = "tailcall" /\ IsFuncRef(block.tail.head) /\ block.tail.head[2] \in eligible
          THEN InlineTailCall(FuncOf(module, block.tail.head[2]), block.tail)
          ELSE [block.tail EXCEPT
                   !.blocks = [i \in 1 .. Len(@) |-> InlineBlock(module, eligible, @[i])]])

inline_calls(module) ==
    LET eligible == find_inlinable(module)
        Inlined(block) == InlineBlock(module, eligible, block)
    IN  MapBodies(module, Inlined)

-----------------------------------------------------------------------------
(* Substitution of atoms for variables.                                    *)
SubstAtom(s, atom) == IF IsVar(atom) /\ atom[2] \in DOMAIN s THEN s[atom[2]] ELSE atom

SubstAtoms(s, atoms) == [i \in 1 .. Len(atoms) |-> SubstAtom(s, atoms[i])]

SubstRhs(s, rhs) == [rhs EXCEPT !.head = SubstAtom(s, @), !.args = SubstAtoms(s, @)]

SubstHere(s, tail) == [tail EXCEPT !.head = SubstAtom(s, @), !.atoms = SubstAtoms(s, @)]

-----------------------------------------------------------------------------
(* Constant folding.  A binding of an atom is dropped and the atom put in  *)
(* its place; a conditional on a constant loses the other branch.          *)
RECURSIVE FoldBlock(_, _), FoldTail(_)

(* Copy propagation that does not look through earlier copies.             *)
ShallowPropagate(binds, s) ==
    LET Step(acc, bind) ==
            IF bind.rhs.op = "atom" THEN [acc EXCEPT !.s = (bind.var :> bind.rhs.args[1]) @@ @]
            ELSE [acc EXCEPT !.binds = Append(@, Bind(bind.var, SubstRhs(acc.s, bind.rhs)))]
    IN  FoldLeft(Step, [s |-> s, binds |-> <<>>], binds)

Propagate(binds, s) ==
    LET Step(acc, bind) ==
            LET rhs == SubstRhs(acc.s, bind.rhs) IN
            IF rhs.op = "atom" THEN [acc EXCEPT !.s = (bind.var :> rhs.args[1]) @@ @]
            ELSE [acc EXCEPT !.binds = Append(@, Bind(bind.var, rhs))]
    IN  FoldLeft(Step, [s |-> s, binds |-> <<>>], binds)

FoldBlock(block, s) ==
    LET p == Propagate(block.binds, s)
    IN  Block(p.binds,
              FoldTail([SubstHere(p.s, block.tail) EXCEPT
                           !.blocks = [i \in 1 .. Len(@) |-> FoldBlock(@[i], p.s)]]))

ReturnUnit == Block(<<>>, Return(Unit))

FoldTail(tail) ==
    LET folded == [i \in 1 .. Len(tail.blocks) |-> FoldBlock(tail.blocks[i], <<>>)]
        taken == IF tail.kind # "if" THEN 0
                 ELSE CASE tail.atoms[1] = Bool(1) -> 1 [] tail.atoms[1] = Bool(0) -> 2 [] OTHER -> 0
    IN  IF taken = 0 THEN [tail EXCEPT !.blocks = folded]
        ELSE IF folded[taken].binds = <<>> THEN folded[taken].tail
        ELSE [tail EXCEPT !.blocks = [folded EXCEPT ![3 - taken] = ReturnUnit]]

fold_constants(module) ==
    LET Folded(block) == FoldBlock(block, <<>>) IN MapBodies(module, Folded)

-----------------------------------------------------------------------------
(* Dead code elimination.                                                  *)
RECURSIVE Reached(_, _)
Reached(module, ids) ==
    LET more == ids \union UNION {MentionedIn(module[i].body) :
                                     i \in {j \in 1 .. Len(module) : module[j].id \in ids}}
    IN  IF more = ids THEN ids ELSE Reached(module, more)

eliminate_dead_funcs(module) ==
    LET named == {module[i].id : i \in {j \in 1 .. Len(module) : module[j].named}}
        reachable == Reached(module, named)
    IN  SelectSeq(module, LAMBDA f : f.id \in reachable)

RECURSIVE DropDeadBinds(_)
DropDeadBinds(block) ==
    LET tail == [block.tail EXCEPT !.blocks = [i \in 1 .. Len(@) |-> DropDeadBinds(@[i])]]
        Step(bind, acc) ==
            IF bind.var \in acc.used \/ bind.rhs.op = "call"
            THEN [used |-> acc.used \union RhsVars(bind.rhs), kept |-> <<bind>> \o acc.kept]
            ELSE acc
        kept == FoldRight(Step, block.binds, [used |-> TailVars(tail), kept |-> <<>>]).kept
    IN  Block(kept, tail)

eliminate_dead_code(module) == MapBodies(eliminate_dead_funcs(module), DropDeadBinds)

-----------------------------------------------------------------------------
(* Specialization: a copy of a function for the arguments that are the     *)
(* same constant at every call of it.                                      *)
CallsOf(module, id) ==
    UNION {{r.args : r \in {s \in BlockRhss(module[i].body) : s.op = "call" /\ s.head = FuncRef(id)}}
             \union {t.atoms : t \in {u \in BlockTails(module[i].body) :
                                         u.kind = "tailcall" /\ u.head = FuncRef(id)}}
             : i \in 1 .. Len(module)}

IsConstant(atom) == atom[1] \in {"int", "bool", "unit"}

(* ... judged by one call alone.                                           *)
HastyConstantArgs(module, f) ==
    LET calls == CallsOf(module, f.id) IN
    {i \in 1 .. Len(f.params) : \E c \in calls : i <= Len(c) /\ IsConstant(c[i])}

(* The positions of the parameters of `f' that are constant.               *)
ConstantArgs(module, f) ==
    LET calls == CallsOf(module, f.id) IN
    {i \in 1 .. Len(f.params) :
        calls # {} /\ \A c, d \in calls : i <= Len(c) /\ i <= Len(d) /\ IsConstant(c[i]) /\ c[i] = d[i]}

find_specializable(module) ==
    {module[i].id : i \in {j \in 1 .. Len(module) : ConstantArgs(module, module[j]) # {}}}

SpecId(id) == <<0>> \o id

Others(seq, positions) ==
    LET at == SelectSeq([i \in 1 .. Len(seq) |-> i], LAMBDA i : i \notin positions)
    IN  [i \in 1 .. Len(at) |-> seq[at[i]]]

RECURSIVE SubstBlock(_, _), RewriteBlock(_, _)
SubstBlock(s, block) ==
    Block([i \in 1 .. Len(block.binds) |-> Bind(block.binds[i].var, SubstRhs(s, block.binds[i].rhs))],
          [SubstHere(s, block.tail) EXCEPT
              !.blocks = [i \in 1 .. Len(@) |-> SubstBlock(s, @[i])]])

(* `constants' gives the constant positions of each specialized function.  *)
RewriteBlock(constants, block) ==
    LET Rewritten(head) == IsFuncRef(head) /\ head[2] \in DOMAIN constants
        Rhs(r) == IF r.op = "call" /\ Rewritten(r.head)
                  THEN Call(FuncRef(SpecId(r.head[2])), Others(r.args, constants[r.head[2]]))
                  ELSE r
        tail == [block.tail EXCEPT !.blocks = [i \in 1 .. Len(@) |-> RewriteBlock(constants, @[i])]]
    IN  Block([i \in 1 .. Len(block.binds) |-> Bind(block.binds[i].var, Rhs(block.binds[i].rhs))],
              IF tail.kind = "tailcall" /\ Rewritten(tail.head)
              THEN TailCall(FuncRef(SpecId(tail.head[2])), Others(tail.atoms, constants[tail.head[2]]))
              ELSE tail)

SpecialCopy(module, f) ==
    LET at == ConstantArgs(module, f)
        args == CHOOSE c \in CallsOf(module, f.id) : TRUE
        s == [v \in {f.params[i] : i \in at} |-> args[CHOOSE i \in at : f.params[i] = v]]
    IN  FuncDef(SpecId(f.id), f.named, Others(f.params, at), SubstBlock(s, f.body))

specialize(module) ==
    LET ids == find_specializable(module)
        constants == [id \in ids |-> ConstantArgs(module, FuncOf(module, id))]
        originals == SelectSeq(module, LAMBDA f : f.id \in ids)
        Rewritten(block) == RewriteBlock(constants, block)
    IN  MapBodies(module, Rewritten)
            \o [i \in 1 .. Len(originals) |-> SpecialCopy(module, originals[i])]
=============================================================================
