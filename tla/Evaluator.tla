------------------------------ MODULE Evaluator ------------------------------
(***************************************************************************)
(* Control flow of the tree-walking evaluator, crates/nexl-eval/src/eval.rs*)
(*                                                                         *)
(* The evaluator is a family of mutually recursive Rust functions, one per *)
(* special form, that return Ok(Value), Ok(Recur) or Err(e).  Here the     *)
(* Rust call stack is explicit: one frame per form that is waiting for a   *)
(* subexpression.  A frame records WHERE in the form the subexpression     *)
(* stands (`at'), because that alone decides                               *)
(*   - which loop_state the subexpression is given (the form's own, a new  *)
(*     LoopFrame, or None),                                                *)
(*   - what a Recur coming out of it becomes (forwarded, InvalidRecur, or  *)
(*     another iteration), and                                             *)
(*   - what an error coming out of it becomes (propagated, wrapped, or     *)
(*     turned into a value).                                               *)
(* The program is arbitrary: whenever an expression is to be evaluated,    *)
(* any form may be found there, and a value is whatever the next guard     *)
(* needs.  Values, names and environments are abstracted away.             *)
(***************************************************************************)
EXTENDS Naturals, Sequences, FiniteSets

CONSTANTS
    MaxDepth,   \* MAX_CALL_DEPTH (10 000 in the code)
    MaxStack,   \* bound of the model: nesting of unfinished forms
    MaxNames    \* bound of the model: names a `loop' binds

ASSUME MaxDepthAssumption == MaxDepth \in Nat
ASSUME MaxStackAssumption == MaxStack \in Nat
ASSUME MaxNamesAssumption == MaxNames \in Nat

VARIABLES
    stack,  \* the waiting forms, outermost first
    ctl,    \* what the evaluator is doing: about to eval, or handing back ...
    err,    \* ... the EvalError handed back, when ctl = "error"
    jump,   \* ... the Recur handed back, when ctl = "recur"
    depth   \* thread-local CALL_DEPTH

vars == <<stack, ctl, err, jump, depth>>

(***************************************************************************)
(* The EvalErrors some position treats differently from the rest.  "Other" *)
(* stands for UnboundSymbol, InvalidCallable, InvalidBindingTarget and     *)
(* InvalidConditionType, which no position tells apart.                    *)
(***************************************************************************)
EvalError == {"Arity", "InvalidRecur", "NativeError", "Panic", "EarlyReturn",
              "StackOverflow", "Other"}

(***************************************************************************)
(* Positions that hand their form's own loop_state to the subexpression.   *)
(***************************************************************************)
ForwardsRecur == {"callee", "args", "params", "body", "seq", "tail", "test", "scrutinee",
                  "recur_arg", "try_body", "catch_body"}

(* ... and of those, the ones that answer a Recur with InvalidRecur.       *)
RejectsRecur == {"item", "assert", "message", "question"}

PassesLoop == ForwardsRecur \union RejectsRecur

(***************************************************************************)
(* Positions evaluated with loop_state = None, by eval() or explicitly.    *)
(***************************************************************************)
Isolated == {"requires", "ensures", "cb_requires", "cb_body", "cb_ensures", "native",
             "closure", "interp", "value", "let_value", "loop_init", "each_coll",
             "each_body", "times_count", "times_body", "for_bind", "for_body",
             "handler_arg", "handler_expr", "load", "example"}

Position == PassesLoop \union Isolated \union {"loop_body"}

(***************************************************************************)
(* Positions inside the scope of a CallDepthGuard.                         *)
(***************************************************************************)
Guarded == {"params", "requires", "body", "ensures", "cb_requires", "cb_body", "cb_ensures"}

(* Positions whose EarlyReturn becomes the value of the whole form.        *)
CatchesEarly == {"body", "cb_body", "try_body", "catch_body"}

(***************************************************************************)
(* Positions that turn every error into a NativeError: `each' bodies,      *)
(* handler operations (and doctests), callbacks of natives, and the        *)
(* handler expression of `handle', whose error is dropped and replaced by  *)
(* the parse error of the inline form.                                     *)
(***************************************************************************)
WrapsError == {"each_body", "closure", "native", "handler_expr"}

Frame == [at : Position, n : Nat, ls : Nat]

NoError == "none"
NoJump == [n |-> 0, target |-> 0]

-----------------------------------------------------------------------------
Height == Len(stack)

At == IF Height = 0 THEN "toplevel" ELSE stack[Height].at

(* The loop_state given to an expression evaluated at height k: the height *)
(* of the `loop' frame whose LoopFrame it refers to, 0 for None.           *)
LoopStateAt(k) == IF k = 0 THEN 0 ELSE stack[k].ls

(* The frame that stands at height k while its form waits at position at.  *)
StaleFrameFor(at, n, k) ==
    [at |-> at, n |-> n,
     ls |-> CASE at = "loop_body" -> k
              [] at = "ensures"   -> LoopStateAt(k - 1)
              [] at \in PassesLoop -> LoopStateAt(k - 1)
              [] OTHER             -> 0]

FrameFor(at, n, k) ==
    [at |-> at, n |-> n,
     ls |-> CASE at = "loop_body"  -> k
              [] at \in PassesLoop -> LoopStateAt(k - 1)
              [] OTHER             -> 0]

(* Drop for CallDepthGuard: runs on every way out of the guarded scope.    *)
DepthAfterPop ==
    IF At \in Guarded THEN (IF depth = 0 THEN 0 ELSE depth - 1) ELSE depth

Popped == SubSeq(stack, 1, Height - 1)

-----------------------------------------------------------------------------
(* The ways control moves.  Every form below is put together from these.   *)

(* A form without subexpressions yields a value.                           *)
Yield ==
    /\ ctl = "eval"
    /\ ctl' = "value"
    /\ UNCHANGED <<stack, err, jump, depth>>

(* A form fails before it evaluates anything: a shape check of its items.  *)
Throw(e) ==
    /\ ctl = "eval"
    /\ ctl' = "error"
    /\ err' = e
    /\ UNCHANGED <<stack, jump, depth>>

(* A form starts to evaluate its first subexpression.                      *)
Begin(at) ==
    /\ ctl = "eval"
    /\ Height < MaxStack
    /\ stack' = Append(stack, FrameFor(at, 0, Height + 1))
    /\ UNCHANGED <<ctl, err, jump, depth>>

(* The form on top has the value it waited for and evaluates the next one. *)
Continue(from, to, n) ==
    /\ ctl = "value"
    /\ At = from
    /\ stack' = [stack EXCEPT ![Height] = FrameFor(to, n, Height)]
    /\ ctl' = "eval"
    /\ UNCHANGED <<err, jump, depth>>

Then(from, to) == Continue(from, to, 0)

(* The form on top is finished and hands a value to the one below.         *)
Return(from) ==
    /\ ctl = "value"
    /\ At = from
    /\ stack' = Popped
    /\ depth' = DepthAfterPop
    /\ UNCHANGED <<ctl, err, jump>>

(* The form on top fails because of the value it was given.                *)
Fail(from, e) ==
    /\ ctl = "value"
    /\ At = from
    /\ stack' = Popped
    /\ depth' = DepthAfterPop
    /\ ctl' = "error"
    /\ err' = e
    /\ UNCHANGED jump

-----------------------------------------------------------------------------
(* Atoms and string interpolation.                                         *)
EvalAtom ==
    \/ Yield
    \/ Throw("Other")          \* unbound symbol
    \/ Throw("NativeError")    \* unhandled effect
    \/ Begin("interp")
    \/ Then("interp", "interp")
    \/ Return("interp")

(* Vector, map and set literals.                                           *)
EvalCollection ==
    \/ Begin("item")
    \/ Then("item", "item")
    \/ Return("item")

(* A form whose items do not have the shape its evaluator asks for.        *)
MalformedForm == \E e \in {"Arity", "Other", "NativeError"} : Throw(e)

(* fn, defn, deftype, defhandler evaluate nothing, except that in test     *)
(* mode defn evaluates the :in and :out of its :examples; submodule is     *)
(* skipped outside test mode.                                              *)
EvalDeclaration ==
    \/ Yield
    \/ Begin("example")
    \/ Then("example", "example")
    \/ Return("example")

(* def, set!, call-log: one operand, evaluated by eval().                  *)
EvalOperand ==
    \/ Begin("value")
    \/ Return("value")
    \/ Fail("value", "Other")         \* set! of an unbound name
    \/ Fail("value", "NativeError")   \* call-log of something else

(* let and let-else: bindings one by one, then the body, or the fallback.  *)
EvalLet ==
    \/ Begin("let_value")
    \/ Begin("seq")                       \* no bindings
    \/ Then("let_value", "let_value")
    \/ Then("let_value", "tail")          \* pattern failed, fallback
    \/ Fail("let_value", "NativeError")   \* pattern failed, no fallback
    \/ Fail("let_value", "Arity")         \* a binding further on without a value
    \/ Then("let_value", "seq")

(* do, and the bodies of let, handle and submodule test.                   *)
EvalDo ==
    \/ Begin("seq")
    \/ Then("seq", "seq")
    \/ Return("seq")

EvalIf ==
    \/ Begin("test")
    \/ Then("test", "tail")
    \/ Fail("test", "Other")
    \/ Return("tail")

EvalMatch ==
    \/ Begin("scrutinee")
    \/ Then("scrutinee", "tail")
    \/ Fail("scrutinee", "NativeError")

(* and, or, cond: tests in order; a test decides or the last one falls     *)
(* through.  cond goes on to a body in tail position.                      *)
EvalTests ==
    \/ Begin("test")
    \/ Then("test", "test")
    \/ Return("test")
    \/ Fail("test", "Other")
    \/ Then("test", "tail")
    \/ Begin("tail")           \* cond whose first clause is :else

-----------------------------------------------------------------------------
(* handle: the handler vector is resolved, then the body runs.  Named and  *)
(* inline handlers evaluate nothing; a parameterised one evaluates its     *)
(* arguments; any other single expression must evaluate to a handler.      *)
EvalHandle ==
    \/ Begin("seq")
    \/ Begin("handler_arg")
    \/ Then("handler_arg", "handler_arg")
    \/ Then("handler_arg", "seq")
    \/ Begin("handler_expr")
    \/ Then("handler_expr", "seq")
    \/ Fail("handler_expr", "NativeError")

-----------------------------------------------------------------------------
(* loop: n counts the names bound so far.  The body's frame is its own     *)
(* loop_state.                                                             *)
EvalLoop ==
    \/ Begin("loop_init")
    \/ Begin("loop_body")                 \* no bindings
    \/ /\ At = "loop_init"
       /\ \/ /\ stack[Height].n + 1 < MaxNames
             /\ Continue("loop_init", "loop_init", stack[Height].n + 1)
          \/ Fail("loop_init", "Other")     \* the next target is no symbol
          \/ Continue("loop_init", "loop_body", stack[Height].n + 1)
    \/ /\ At = "loop_body"
       /\ Continue("loop_body", "loop_body", stack[Height].n)
    \/ Return("loop_body")

(* recur hands back the values it collected: n of them.                    *)
HandBackRecur(n, t) ==
    /\ ctl' = "recur"
    /\ jump' = [n |-> n, target |-> t]
    /\ UNCHANGED err

UncheckedEvalRecur ==
    LET ls == LoopStateAt(Height) IN
    \/ /\ ctl = "eval"
       /\ ls # 0
       /\ HandBackRecur(0, ls)
       /\ UNCHANGED <<stack, depth>>
    \/ /\ ls # 0
       /\ Begin("recur_arg")
    \/ /\ At = "recur_arg"
       /\ ctl = "value"
       /\ stack' = Popped
       /\ HandBackRecur(stack[Height].n + 1, stack[Height].ls)
       /\ UNCHANGED depth

(* n of a recur frame counts the arguments evaluated so far.  Their number *)
(* is compared with the loop's names before the first one is evaluated.    *)
EvalRecur ==
    LET ls == LoopStateAt(Height)
        given == stack[Height].n + 1
        expected == stack[stack[Height].ls].n
    IN
    \/ ls = 0 /\ Throw("InvalidRecur")
    \/ ls # 0 /\ Throw("Arity")
    \/ /\ ctl = "eval"
       /\ ls # 0
       /\ stack[ls].n = 0
       /\ HandBackRecur(0, ls)
       /\ UNCHANGED <<stack, depth>>
    \/ /\ ls # 0
       /\ stack[ls].n > 0
       /\ Begin("recur_arg")
    \/ /\ At = "recur_arg"
       /\ given < expected
       /\ Continue("recur_arg", "recur_arg", given)
    \/ /\ At = "recur_arg"
       /\ ctl = "value"
       /\ given = expected
       /\ stack' = Popped
       /\ HandBackRecur(given, stack[Height].ls)
       /\ UNCHANGED depth

(* A Recur arrives at the form on top.                                     *)
ReceiveRecur ==
    /\ ctl = "recur"
    /\ CASE At = "loop_body" ->
              /\ IF jump.n = stack[Height].n
                 THEN /\ ctl' = "eval"       \* rebinds the names, next iteration
                      /\ UNCHANGED <<stack, err>>
                 ELSE /\ stack' = Popped
                      /\ ctl' = "error"
                      /\ err' = "Arity"
              /\ jump' = NoJump
              /\ UNCHANGED depth
         [] At \in ForwardsRecur ->
              /\ stack' = Popped
              /\ depth' = DepthAfterPop
              /\ UNCHANGED <<ctl, err, jump>>
         [] OTHER ->
              /\ stack' = IF Height = 0 THEN stack ELSE Popped
              /\ depth' = IF Height = 0 THEN depth ELSE DepthAfterPop
              /\ ctl' = "error"
              /\ err' = "InvalidRecur"
              /\ jump' = NoJump

-----------------------------------------------------------------------------
(* The comprehensions and iteration forms, all with loop_state None.       *)
EvalEach ==
    \/ Begin("each_coll")
    \/ Then("each_coll", "each_body")
    \/ Return("each_coll")                 \* nothing to iterate over
    \/ Fail("each_coll", "NativeError")    \* not a collection, or row mismatch
    \/ Then("each_body", "each_body")
    \/ Return("each_body")
    \/ Fail("each_body", "NativeError")    \* the next row does not match

EvalTimes ==
    \/ Begin("times_count")
    \/ Then("times_count", "times_body")
    \/ Return("times_count")
    \/ Fail("times_count", "NativeError")
    \/ Then("times_body", "times_body")
    \/ Return("times_body")

(* for and for!: generators, :when, :while and :let nest; after a body the *)
(* innermost unfinished generator goes on.                                 *)
EvalFor ==
    \/ Begin("for_bind")
    \/ Begin("for_body")
    \/ Then("for_bind", "for_bind")
    \/ Then("for_bind", "for_body")
    \/ Return("for_bind")
    \/ Fail("for_bind", "NativeError")
    \/ Fail("for_bind", "Arity")           \* a malformed clause further in
    \/ Fail("for_bind", "Other")
    \/ Then("for_body", "for_body")
    \/ Then("for_body", "for_bind")
    \/ Return("for_body")

-----------------------------------------------------------------------------
(* Contract clauses: a false one panics, a non-Bool one is an error.       *)
Clause(at) ==
    \/ Then(at, at)
    \/ Fail(at, "Panic")
    \/ Fail(at, "Other")

LateGuardEnter(at, to) ==
    /\ ctl = "value"
    /\ At = at
    /\ depth <= MaxDepth
    /\ depth' = depth + 1
    /\ stack' = [stack EXCEPT ![Height] = FrameFor(to, 0, Height)]
    /\ ctl' = "eval"
    /\ UNCHANGED <<err, jump>>

(* CallDepthGuard::enter succeeds and the call moves into guarded scope.   *)
GuardEnter(at, to) ==
    /\ ctl = "value"
    /\ At = at
    /\ depth < MaxDepth
    /\ depth' = depth + 1
    /\ stack' = [stack EXCEPT ![Height] = FrameFor(to, 0, Height)]
    /\ ctl' = "eval"
    /\ UNCHANGED <<err, jump>>

(* eval_apply up to the call: the callee, then the arguments.  The guard   *)
(* of a function call is taken before its arguments are evaluated.         *)
EvalApply ==
    \/ Begin("callee")
    \/ Then("callee", "args")                       \* native, closure, keyword
    \/ Fail("callee", "Arity")
    \/ Fail("callee", "Other")                      \* InvalidCallable
    \/ depth >= MaxDepth /\ Fail("callee", "StackOverflow")
    \/ \E to \in {"params", "requires", "body"} : GuardEnter("callee", to)
    \/ Then("args", "args")
    \/ Return("args")                               \* keyword lookup
    \/ Fail("args", "NativeError")
    \/ \E from \in {"callee", "args"} : Then(from, "closure")
    \/ \E to \in {"params", "requires", "body"} : Then("params", to)
    \/ Clause("requires")
    \/ Then("requires", "body")
    \/ Then("body", "body")
    \/ Then("body", "ensures")
    \/ Return("body")                               \* no postconditions
    \/ Clause("ensures")
    \/ Return("ensures")

(* A native function is in control when its frame is on top and ctl =      *)
(* "value"; it may call back any number of times.                          *)
RunNative ==
    \/ /\ ctl = "value"
       /\ At \in {"callee", "args"}
       /\ stack' = [stack EXCEPT ![Height] = FrameFor("native", 0, Height)]
       /\ UNCHANGED <<ctl, err, jump, depth>>
    \/ Return("native")
    \/ Fail("native", "NativeError")

(* apply_value: a native calls a function value back.                      *)
ApplyValue ==
    \/ /\ ctl = "value"
       /\ At = "native"
       /\ Height < MaxStack
       /\ depth < MaxDepth
       /\ depth' = depth + 1
       /\ \E at \in {"cb_requires", "cb_body"} :
             stack' = Append(stack, FrameFor(at, 0, Height + 1))
       /\ ctl' = "eval"
       /\ UNCHANGED <<err, jump>>
    \/ /\ ctl = "value"
       /\ At = "native"
       /\ \E e \in {"Arity", "Other", "StackOverflow"} :
             /\ e = "StackOverflow" => depth >= MaxDepth
             /\ err' = e
       /\ ctl' = "error"
       /\ UNCHANGED <<stack, jump, depth>>
    \/ Clause("cb_requires")
    \/ Then("cb_requires", "cb_body")
    \/ Then("cb_body", "cb_body")
    \/ Then("cb_body", "cb_ensures")
    \/ Return("cb_body")
    \/ Clause("cb_ensures")
    \/ Return("cb_ensures")

(* A NativeClosure that evaluates program text itself: a handler operation *)
(* or a doctest.  Called by eval_apply (above) or back from a native.      *)
RunClosure ==
    \/ /\ ctl = "value"
       /\ At = "native"
       /\ Height < MaxStack
       /\ stack' = Append(stack, FrameFor("closure", 0, Height + 1))
       /\ ctl' = "eval"
       /\ UNCHANGED <<err, jump, depth>>
    \/ Then("closure", "closure")
    \/ Return("closure")
    \/ Fail("closure", "NativeError")

-----------------------------------------------------------------------------
(* panic, assert!, assert-unreachable!                                     *)
EvalPanic ==
    \/ Throw("Panic")                   \* assert-unreachable! without message
    \/ Begin("message")
    \/ Fail("message", "Panic")

EvalAssert ==
    \/ Begin("assert")
    \/ Return("assert")
    \/ Then("assert", "message")
    \/ Fail("assert", "Panic")
    \/ Fail("assert", "Other")

EvalQuestion ==
    \/ Begin("question")
    \/ Return("question")
    \/ Fail("question", "EarlyReturn")
    \/ Fail("question", "NativeError")

EvalTry ==
    \/ Begin("try_body")
    \/ Then("try_body", "try_body")
    \/ Return("try_body")                  \* (Ok v)
    \/ Then("try_body", "catch_body")      \* (Err e)
    \/ Fail("try_body", "NativeError")     \* not a Result
    \/ Then("catch_body", "catch_body")
    \/ Return("catch_body")

EvalLoad ==
    \/ Begin("load")
    \/ Then("load", "load")
    \/ Return("load")
    \/ Fail("load", "NativeError")

-----------------------------------------------------------------------------
(* An error arrives at the form on top.                                    *)

CatchAnyError ==
    /\ ctl = "error"
    /\ At \in CatchesEarly
    /\ stack' = Popped
    /\ depth' = DepthAfterPop
    /\ ctl' = "value"
    /\ err' = NoError
    /\ UNCHANGED jump

CatchEarlyReturn ==
    /\ ctl = "error"
    /\ err = "EarlyReturn"
    /\ At \in CatchesEarly
    /\ stack' = Popped
    /\ depth' = DepthAfterPop
    /\ ctl' = "value"
    /\ err' = NoError
    /\ UNCHANGED jump

WrapError ==
    /\ ctl = "error"
    /\ At \in WrapsError
    /\ stack' = Popped
    /\ err' = "NativeError"
    /\ UNCHANGED <<ctl, jump, depth>>

(* Natives that look at a callback's error and go on: test/try-call!, the  *)
(* cleanup of async/defer, generators.                                     *)
NativeDropsError ==
    /\ ctl = "error"
    /\ At = "native"
    /\ ctl' = "value"
    /\ err' = NoError
    /\ UNCHANGED <<stack, jump, depth>>

LeakyPropagateError ==
    /\ ctl = "error"
    /\ Height > 0
    /\ At \notin WrapsError
    /\ ~(err = "EarlyReturn" /\ At \in CatchesEarly)
    /\ stack' = Popped
    /\ UNCHANGED <<ctl, err, jump, depth>>

PropagateError ==
    /\ ctl = "error"
    /\ Height > 0
    /\ At \notin WrapsError
    /\ ~(err = "EarlyReturn" /\ At \in CatchesEarly)
    /\ stack' = Popped
    /\ depth' = DepthAfterPop
    /\ UNCHANGED <<ctl, err, jump>>

(* The driver (REPL, test runner, script) has the result of one form and   *)
(* evaluates the next one on the same thread.                              *)
NextForm ==
    /\ Height = 0
    /\ ctl \in {"value", "error"}
    /\ ctl' = "eval"
    /\ err' = NoError
    /\ UNCHANGED <<stack, jump, depth>>

-----------------------------------------------------------------------------
Init ==
    /\ stack = <<>>
    /\ ctl = "eval"
    /\ err = NoError
    /\ jump = NoJump
    /\ depth = 0

Next ==
    \/ EvalAtom \/ EvalCollection \/ MalformedForm \/ EvalDeclaration \/ EvalOperand
    \/ EvalLet \/ EvalDo \/ EvalIf \/ EvalMatch \/ EvalTests \/ EvalHandle
    \/ EvalLoop \/ EvalRecur \/ ReceiveRecur
    \/ EvalEach \/ EvalTimes \/ EvalFor
    \/ EvalApply \/ RunNative \/ ApplyValue \/ RunClosure
    \/ EvalPanic \/ EvalAssert \/ EvalQuestion \/ EvalTry \/ EvalLoad
    \/ CatchEarlyReturn \/ WrapError \/ NativeDropsError \/ PropagateError
    \/ NextForm

Spec == Init /\ [][Next]_vars

-----------------------------------------------------------------------------
(* The machine's state is well formed and CALL_DEPTH stays within its limit.*)
TypeOK ==
    /\ stack \in Seq(Frame)
    /\ Height <= MaxStack
    /\ ctl \in {"eval", "value", "recur", "error"}
    /\ err \in EvalError \union {NoError}
    /\ jump \in [n : Nat, target : Nat]
    /\ depth \in 0 .. MaxDepth

(* The thread-local CALL_DEPTH equals the number of calls whose guard is   *)
(* alive: no early return, panic, recur or wrapped error that unwinds      *)
(* through a call leaves the counter too high (spurious StackOverflow in   *)
(* the next REPL form) or too low.                                         *)
GuardsHeld == {i \in 1 .. Height : stack[i].at \in Guarded}
CallDepthBalanced == depth = Cardinality(GuardsHeld)

(* Every loop_state in use refers to a `loop' that is still running, and   *)
(* everything between that loop and the form using it hands a Recur on; a  *)
(* recur form that is collecting its arguments has such a loop.            *)
LoopStateLiveAt(i) ==
    /\ stack[i].at \in Isolated => stack[i].ls = 0
    /\ stack[i].at \in PassesLoop => stack[i].ls = LoopStateAt(i - 1)
    /\ stack[i].at = "recur_arg" => stack[i].ls # 0
    /\ stack[i].ls # 0 =>
          /\ stack[i].ls \in 1 .. i
          /\ stack[stack[i].ls].at = "loop_body"
          /\ \A j \in (stack[i].ls + 1) .. i : stack[j].at \in PassesLoop

LoopStateLive == \A i \in 1 .. Height : LoopStateLiveAt(i)

(* A Recur on its way up meets no form that would restart a different      *)
(* loop, it never reaches the top level, and it carries as many values as  *)
(* the loop it reaches has names: the Arity branch of eval_loop and the    *)
(* InvalidRecur branch of eval() are dead code.                            *)
RecurReachesItsLoop ==
    ctl = "recur" =>
        /\ jump.target \in 1 .. Height
        /\ stack[jump.target].at = "loop_body"
        /\ stack[jump.target].n = jump.n
        /\ \A j \in (jump.target + 1) .. Height : stack[j].at \in PassesLoop

(* A panic, a stack overflow or any other error becomes a value only       *)
(* inside a native that inspects its callback, never in `try', `?' or a    *)
(* function boundary; those stop an EarlyReturn and nothing else.          *)
ErrorsStopOnlyWhereCaught ==
    [][ctl = "error" /\ ctl' = "value"
         => \/ At = "native" /\ Height' = Height
            \/ err = "EarlyReturn" /\ At \in CatchesEarly]_vars

(* nexl-spec.md section 4.10: recur jumps back to the nearest loop or      *)
(* function boundary, so it never leaves the function it is written in.    *)
RecurStaysInFunction ==
    ctl = "recur" =>
        \A j \in (jump.target + 1) .. Height : stack[j].at # "body"
=============================================================================
