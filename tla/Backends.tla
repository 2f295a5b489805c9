-------------------------------- MODULE Backends --------------------------------
(***************************************************************************)
(* The two backends of `nexl build': the WebAssembly emitter               *)
(* (crates/nexl-wasm/src/emit.rs) and the Cranelift backend                *)
(* (crates/nexl-native/src/compile.rs).  Instructions are abstracted to    *)
(* what they do to the locals of a function; heap objects are immutable    *)
(* once built, so a pointer is modelled by what it points to.              *)
(***************************************************************************)
EXTENDS IR

(* The atoms of a block in value position, where a FuncRef is no value.    *)
Operands(block) ==
    UNION {ToSet(r.args) : r \in BlockRhss(block)} \union UNION {ToSet(t.atoms) : t \in BlockTails(block)}

(* A recur needs a loop around it in its function.                         *)
RECURSIVE RecursInLoops(_, _)
RecursInLoops(block, inLoop) ==
    /\ block.tail.kind = "recur" => inLoop
    /\ \A i \in 1 .. Len(block.tail.blocks) :
          RecursInLoops(block.tail.blocks[i], inLoop \/ block.tail.kind = "loop")

Locals(f) == ToSet(f.params) \union ToSet(BlockBinders(f.body))

(* The emitter's errors: a function as a value, a call that is not direct, *)
(* a variable that no binding of the function has, a recur outside a loop. *)
EmitOk(module) ==
    \A i \in 1 .. Len(module) :
        LET body == module[i].body IN
        /\ \A atom \in Operands(body) : ~IsFuncRef(atom)
        /\ \A r \in BlockRhss(body) : r.op = "call" => IsFuncRef(r.head)
        /\ \A t \in BlockTails(body) : t.kind = "tailcall" => IsFuncRef(t.head)
        /\ BlockVars(body) \subseteq Locals(module[i])
        /\ RecursInLoops(body, FALSE)

-----------------------------------------------------------------------------
(* Running the emitted code.  Booleans and unit are numbers; a local that  *)
(* was not set is 0.                                                       *)
I64(n) == <<"int", n>>

RECURSIVE Encoded(_)
Encoded(value) ==
    CASE value[1] \in {"bool", "unit"} -> I64(value[2])
      [] value[1] = "data" -> Data(value[2], [i \in 1 .. Len(value[3]) |-> Encoded(value[3][i])])
      [] OTHER -> value

Load(atom, locals) == IF IsVar(atom) THEN locals[atom[2]] ELSE Encoded(atom)

(* Indices that count from zero where the module's count from one.         *)
ShiftedIndex(module, id) == IF Len(id) = 1 /\ id[1] < Len(module) THEN id[1] + 1 ELSE 0

(* `call n' calls the n-th function of the module.                         *)
CallsIndex(module, id) == IF Len(id) = 1 /\ id[1] <= Len(module) THEN id[1] ELSE 0

(* local.set, one variable after the other.                                *)
SetLocals(locals, vars, atoms) ==
    LET Set(l, i) == [l EXCEPT ![vars[i]] = Load(atoms[i], l)]
    IN  FoldLeft(Set, locals, [i \in 1 .. Len(vars) |-> i])

RECURSIVE Exec(_, _, _, _, _), ExecTail(_, _, _, _, _), ExecCall(_, _, _, _), ExecArms(_, _, _, _, _, _)

Exec(module, block, locals, loop, fuel) ==
    IF block.binds = <<>> THEN ExecTail(module, block.tail, locals, loop, fuel)
    ELSE LET bind == Head(block.binds)
             args == [i \in 1 .. Len(bind.rhs.args) |-> Load(bind.rhs.args[i], locals)]
             value == CASE bind.rhs.op = "atom" -> args[1]
                        [] bind.rhs.op = "tuple" -> Data(bind.rhs.head[2], args)
                        [] bind.rhs.op = "closure" -> Closure(bind.rhs.head[2], args)
                        [] bind.rhs.op = "call" -> ExecCall(module, bind.rhs.head[2], args, fuel)
         IN  IF Failed(value) THEN value
             ELSE Exec(module, Block(Tail(block.binds), block.tail),
                       [locals EXCEPT ![bind.var] = value], loop, fuel)

ExecCall(module, id, args, fuel) ==
    LET n == CallsIndex(module, id) IN
    IF fuel = 0 THEN Timeout
    ELSE IF n = 0 THEN Stuck
    ELSE IF Len(args) # Len(module[n].params) THEN Stuck
    ELSE LET zeros == [v \in Locals(module[n]) |-> I64(0)]
         IN  Exec(module, module[n].body, Binding(module[n].params, args) @@ zeros, <<>>, fuel - 1)

ExecTail(module, tail, locals, loop, fuel) ==
    CASE tail.kind = "return" -> Load(tail.atoms[1], locals)
      [] tail.kind = "if" ->
            LET cond == Load(tail.atoms[1], locals)
            IN  Exec(module, tail.blocks[IF cond = I64(0) THEN 2 ELSE 1], locals, loop, fuel)
      [] tail.kind = "tailcall" ->
            ExecCall(module, tail.head[2],
                     [i \in 1 .. Len(tail.atoms) |-> Load(tail.atoms[i], locals)], fuel)
      [] tail.kind = "match" -> ExecArms(module, tail, 1, locals, loop, fuel)
      [] tail.kind = "loop" ->
            Exec(module, tail.blocks[1], SetLocals(locals, tail.arms[1].binds, tail.atoms), tail, fuel)
      [] tail.kind = "recur" ->
            IF fuel = 0 THEN Timeout
            ELSE Exec(module, loop.blocks[1], SetLocals(locals, loop.arms[1].binds, tail.atoms),
                      loop, fuel - 1)

(* Compare the tag, load the fields; past the last arm the code traps.     *)
ExecArms(module, tail, i, locals, loop, fuel) ==
    LET value == Load(tail.atoms[1], locals) IN
    IF i > Len(tail.arms) THEN Stuck
    ELSE LET arm == tail.arms[i] IN
         IF arm.ctor = "_" THEN Exec(module, tail.blocks[i], locals, loop, fuel)
         ELSE IF value[1] # "data" THEN Stuck
         ELSE IF value[2] = arm.ctor
         THEN IF Len(arm.binds) > Len(value[3]) THEN Stuck
              ELSE Exec(module, tail.blocks[i], Binding(arm.binds, value[3]) @@ locals, loop, fuel)
         ELSE ExecArms(module, tail, i + 1, locals, loop, fuel)

RunWasm(module, id, fuel) == Shown(ExecCall(module, id, <<>>, fuel))

-----------------------------------------------------------------------------
(* The native backend.  A value is a tagged word: integers, booleans and   *)
(* unit are apart from one another and from the addresses.                 *)
Null == <<"word", <<>>>>
Word(id) == <<"word", id>>        \* the address of a closure, or the number of a function

(* What is translated of a block: a constructor becomes a zero, a match    *)
(* returns one without a look at its arms, and only a recur that is the    *)
(* whole tail of its loop jumps, one under an if is a trap.                *)
RECURSIVE NativeBlock(_, _)
NativeBlock(block, loopBody) ==
    LET tail == block.tail
        rhs(r) == IF r.op = "tuple" THEN AtomRhs(Null) ELSE r
    IN  Block([i \in 1 .. Len(block.binds) |-> Bind(block.binds[i].var, rhs(block.binds[i].rhs))],
              CASE tail.kind = "match" -> Return(Null)
                [] tail.kind = "recur" /\ ~loopBody -> TailOf("trap", None, <<>>, <<>>, <<>>)
                [] OTHER -> [tail EXCEPT
                     !.blocks = [i \in 1 .. Len(@) |-> NativeBlock(@[i], tail.kind = "loop")]])

(* The uses and the bindings of variables in the order of translation:     *)
(* initial values of a loop one after the other, an if with its then first.*)
Step(atoms, vars) == <<[uses |-> VarsOf(atoms), binds |-> vars]>>

RECURSIVE Steps(_)
Steps(block) ==
    LET tail == block.tail IN
    FlattenSeq([i \in 1 .. Len(block.binds) |->
                   LET b == block.binds[i] IN Step(Append(b.rhs.args, b.rhs.head), {b.var})])
        \o (IF tail.kind = "loop"
            THEN FlattenSeq([i \in 1 .. Len(tail.atoms) |->
                                Step(<<tail.atoms[i]>>, {tail.arms[1].binds[i]})])
            ELSE Step(Append(tail.atoms, tail.head), {}))
        \o FlattenSeq([i \in 1 .. Len(tail.blocks) |-> Steps(tail.blocks[i])])

(* The compiler panics at a variable it has not met yet; Cranelift's       *)
(* verifier refuses a call of a function of the module with another number *)
(* of arguments, and a tail call through a value, whose signature has not  *)
(* the calling convention of tail calls.                                   *)
TranslatedInOrder(params, steps) ==
    \A i \in 1 .. Len(steps) :
        steps[i].uses \subseteq ToSet(params) \union UNION {steps[j].binds : j \in 1 .. i - 1}

CallsFit(module, head, args) ==
    HasFunc(module, head[2]) /\ Len(args) = Len(FuncOf(module, head[2]).params)

NativeOk(module) ==
    \A i \in 1 .. Len(module) :
        LET body == NativeBlock(module[i].body, FALSE) IN
        /\ TranslatedInOrder(module[i].params, Steps(body))
        /\ \A r \in BlockRhss(body) :
              r.op = "call" /\ IsFuncRef(r.head) => CallsFit(module, r.head, r.args)
        /\ \A t \in BlockTails(body) :
              t.kind = "tailcall" => IsFuncRef(t.head) /\ CallsFit(module, t.head, t.atoms)

(* A recur that leaves its loop by a return.                               *)
ReturnsInstead == Unit

(* A trap stops the program, and so does a jump to a word, which is no     *)
(* address of code.                                                        *)
Trap == Stuck

NativeAtom(atom, locals) ==
    CASE IsVar(atom) -> locals[atom[2]]
      [] IsFuncRef(atom) -> Word(atom[2])
      [] OTHER -> atom

RECURSIVE NativeExec(_, _, _, _, _), NativeTail(_, _, _, _, _), NativeCall(_, _, _, _)

(* `loop' is the loop whose whole body the block is, or <<>>.              *)
NativeExec(module, block, locals, loop, fuel) ==
    IF block.binds = <<>> THEN NativeTail(module, block.tail, locals, loop, fuel)
    ELSE LET rhs == Head(block.binds).rhs
             args == [i \in 1 .. Len(rhs.args) |-> NativeAtom(rhs.args[i], locals)]
             value == CASE rhs.op = "atom" -> args[1]
                        [] rhs.op = "closure" -> Word(rhs.head[2])
                        [] rhs.op = "call" -> NativeCall(module, rhs.head, args, fuel)
         IN  IF Failed(value) THEN value
             ELSE NativeExec(module, Block(Tail(block.binds), block.tail),
                             [locals EXCEPT ![Head(block.binds).var] = value], loop, fuel)

(* A variable that another path binds is zero on this one.                 *)
NativeCall(module, func, args, fuel) ==
    IF fuel = 0 THEN Timeout
    ELSE IF ~IsFuncRef(func) THEN Trap
    ELSE LET f == FuncOf(module, func[2])
             zeros == [v \in Locals(f) |-> Null]
         IN  NativeExec(module, NativeBlock(f.body, FALSE), Binding(f.params, args) @@ zeros, <<>>, fuel - 1)

NativeTail(module, tail, locals, loop, fuel) ==
    LET args == [i \in 1 .. Len(tail.atoms) |-> NativeAtom(tail.atoms[i], locals)] IN
    CASE tail.kind = "return" -> args[1]
      [] tail.kind = "if" ->                  \* whatever is not true is false
            NativeExec(module, tail.blocks[IF args[1] = Bool(1) THEN 1 ELSE 2], locals, <<>>, fuel)
      [] tail.kind = "tailcall" -> NativeCall(module, tail.head, args, fuel)
      [] tail.kind = "loop" ->
            LET vars == tail.arms[1].binds
                Set(l, i) == [l EXCEPT ![vars[i]] = NativeAtom(tail.atoms[i], l)]
            IN  NativeExec(module, tail.blocks[1],
                           FoldLeft(Set, locals, [i \in 1 .. Len(vars) |-> i]), tail, fuel)
      [] tail.kind = "recur" ->               \* the new values all at once
            LET all == loop.arms[1].binds
                vars == SubSeq(all, 1, Min({Len(args), Len(all)}))
            IN  IF fuel = 0 THEN Timeout
                ELSE NativeExec(module, loop.blocks[1], Binding(vars, args) @@ locals, loop, fuel - 1)
      [] tail.kind = "trap" -> Trap

RunNative(module, id, fuel) == NativeCall(module, FuncRef(id), <<>>, fuel)

(* The backend has code for everything in the module: there is no          *)
(* constructor, match or closure in it, no call of a value and no function *)
(* as a value, for which it emits a placeholder.                           *)
NativeComplete(module) ==
    \A i \in 1 .. Len(module) :
        LET body == module[i].body IN
        /\ \A atom \in Operands(body) : ~IsFuncRef(atom)
        /\ \A r \in BlockRhss(body) : r.op = "atom" \/ (r.op = "call" /\ IsFuncRef(r.head))
        /\ \A t \in BlockTails(body) : t.kind # "match"
=============================================================================
