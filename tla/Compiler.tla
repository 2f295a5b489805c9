-------------------------------- MODULE Compiler --------------------------------
(***************************************************************************)
(* `nexl build' (crates/nexl-cli/src/main.rs command_build): a source is   *)
(* lowered, optimized unless --no-opt is given, and handed to one of       *)
(* the backends.  Specialization is a pass of the library that optimize()  *)
(* does not run.  Every stage is compared with what the evaluator, which   *)
(* `nexl run' uses, makes of the source.                                   *)
(***************************************************************************)
EXTENDS Lowering, Optimizer, Backends

CONSTANTS
    Programs,  \* the sources to compile; each has a function main without parameters
    Fuel       \* bound of the model: calls and iterations of one path of a run

ASSUME CompilerConstants ==
    /\ INLINE_COST_THRESHOLD \in Nat
    /\ Fuel \in Nat
    /\ \A p \in Programs : \E i \in 1 .. Len(p) : p[i].name = "main" /\ p[i].params = <<>>

VARIABLES
    program,  \* the source
    stage,    \* what was done with it last
    module    \* the IR module

vars == <<program, stage, module>>

main == Global(program, "main")

NoRepeat(seq) == \A i, j \in 1 .. Len(seq) : seq[i] = seq[j] => i = j

DistinctNames == NoRepeat([i \in 1 .. Len(program) |-> program[i].name])

Init ==
    /\ program \in Programs
    /\ stage = "source"
    /\ module = <<>>

Lower ==
    /\ stage = "source"
    /\ LET lowered == LowerModule(program)
       IN  /\ stage' = IF lowered.ok THEN "lowered" ELSE "refused"
           /\ module' = IF lowered.ok THEN lowered.funcs ELSE <<>>
    /\ UNCHANGED program

(* optimize(): three passes in this order.                                 *)
Inline ==
    /\ stage = "lowered"
    /\ stage' = "inlined"
    /\ module' = inline_calls(module)
    /\ UNCHANGED program

FoldConstants ==
    /\ stage = "inlined"
    /\ stage' = "folded"
    /\ module' = fold_constants(module)
    /\ UNCHANGED program

EliminateDeadCode ==
    /\ stage = "folded"
    /\ stage' = "optimized"
    /\ module' = eliminate_dead_code(module)
    /\ UNCHANGED program

Specialize ==
    /\ stage = "lowered"
    /\ stage' = "specialized"
    /\ module' = specialize(module)
    /\ UNCHANGED program

EmitWasm ==
    /\ stage \in {"lowered", "optimized"}
    /\ stage' = IF EmitOk(module) THEN "wasm" ELSE "refused"
    /\ UNCHANGED <<program, module>>

(* The object file takes every name once.                                  *)
CompileNative ==
    /\ stage \in {"lowered", "optimized"}
    /\ stage' = IF DistinctNames /\ NativeOk(module) THEN "native" ELSE "refused"
    /\ UNCHANGED <<program, module>>

Next ==
    \/ Lower \/ Inline \/ FoldConstants \/ EliminateDeadCode \/ Specialize
    \/ EmitWasm \/ CompileNative

Spec == Init /\ [][Next]_vars

-----------------------------------------------------------------------------
(* Every function has an id of its own and every variable of a function    *)
(* one binder (VarId and FuncId: "unique identifier").  Substitution       *)
(* without shadowing and one local for each variable depend on it.         *)
TypeOK ==
    /\ stage \in {"source", "lowered", "inlined", "folded", "optimized", "specialized",
                  "wasm", "native", "refused"}
    /\ NoRepeat([i \in 1 .. Len(module) |-> module[i].id])
    /\ \A i \in 1 .. Len(module) : NoRepeat(module[i].params \o BlockBinders(module[i].body))

-----------------------------------------------------------------------------
Expected == Evaluate(program, "main", Fuel)

InIR == {"lowered", "inlined", "folded", "optimized", "specialized"}

(* Lowering and every pass preserve the meaning of the program: whatever   *)
(* value the evaluator computes, the module at this stage computes, if     *)
(* every variable of it is still bound where it is used.                   *)
MeaningPreserved ==
    stage \in InIR /\ ~Failed(Expected) /\ ModuleWellScoped(module)
        => Main(module, main, 2 * Fuel) = Expected

(* Of the passes only inlining may leave a variable without a binding in   *)
(* front of its use: what the emitter then refuses was not lost by folding *)
(* or by the removal of dead code.                                         *)
OnlyInliningUnbinds ==
    [][stage' \in {"folded", "optimized", "specialized"} /\ ModuleWellScoped(module)
           => ModuleWellScoped(module')]_vars

(* The lowered loops compute their initial values from outside.            *)
LoopsStartFromOutside ==
    LET lowered == LowerModule(program) IN lowered.ok => ModuleWellScoped(lowered.funcs)

(* No recur passes a loop variable to a later one of its loop.             *)
RECURSIVE RecursDoNotSwap(_, _)
RecursDoNotSwap(block, loopVars) ==
    LET inner == IF block.tail.kind = "loop" THEN block.tail.arms[1].binds ELSE loopVars IN
    /\ block.tail.kind = "recur" =>
          \A i, j \in 1 .. Len(loopVars) : i < j => block.tail.atoms[j] # Var(loopVars[i])
    /\ \A i \in 1 .. Len(block.tail.blocks) : RecursDoNotSwap(block.tail.blocks[i], inner)

EmittedMeansSource ==
    stage = "wasm" /\ ~Failed(Expected) => RunWasm(module, main, 2 * Fuel) = Encoded(Expected)

(* A program the emitter accepts computes what the evaluator computes:     *)
(* what inlining breaks does not get past the emitter.  Three kinds of     *)
(* program are left out, each compiled to something else: a name defined   *)
(* twice, an initial value of a loop that uses another variable of the     *)
(* loop, and a recur that hands one loop variable on to the next.          *)
EmittedIsRight ==
    /\ DistinctNames
    /\ LoopsStartFromOutside
    /\ \A i \in 1 .. Len(module) : RecursDoNotSwap(module[i].body, <<>>)
    => EmittedMeansSource

(* Native code either computes what the evaluator computes or traps, if    *)
(* the backend has code for everything in the module: what it accepts is   *)
(* more, and for constructors, matches, closures and functions as values   *)
(* it emits zeros and numbers in their place.                              *)
NativeNeverWrong ==
    stage = "native" /\ NativeComplete(module) /\ ~Failed(Expected)
        => RunNative(module, main, 2 * Fuel) \in {Expected, Stuck}
=============================================================================
