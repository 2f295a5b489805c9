------------------------------- MODULE Inference -------------------------------
(***************************************************************************)
(* Control flow of the type inference engine, crates/nexl-infer/src/       *)
(* infer.rs, and of the programs that drive it: `nexl check', the REPL and *)
(* the language server.                                                    *)
(*                                                                         *)
(* synth() and the functions behind it thread one InferState through the   *)
(* whole program.  Four of its fields are scoped: a form sets or pushes    *)
(* them, infers a part of itself and has to put them back, and the part    *)
(* may end in Ok or Err.  As in Evaluator, the Rust call stack is explicit *)
(* and a frame says where in its form the part being inferred stands.  The *)
(* program is arbitrary; types, names, environments and substitutions are  *)
(* abstracted away, and with them the reason why an inference step fails:  *)
(* an error is no more than the kind that the drivers look at.             *)
(***************************************************************************)
EXTENDS Naturals, Sequences, FiniteSets

CONSTANTS
    ERROR_LIMIT,  \* errors an InferState records (20 in the code)
    ErrorKind,    \* TypeErrorKind: MalformedForm, UnboundVariable and the others
    MaxStack,     \* bound of the model: nesting of unfinished forms
    MaxAbandoned  \* bound of the model: handle bodies given up, per session

ASSUME InferenceConstants ==
    /\ ERROR_LIMIT \in Nat \ {0}
    /\ MaxStack \in Nat
    /\ MaxAbandoned \in Nat

ASSUME ErrorKinds ==
    /\ {"malformed", "unbound"} \subseteq ErrorKind
    /\ ErrorKind \intersect {"top", "form", "type", "done", "deftype"} = {}

VARIABLES
    stack,              \* the waiting forms, outermost first
    ctl,                \* what the engine is doing
    errors,             \* state.errors: the kinds of those recorded
    recur_types,        \* height of the loop body that set it, 0 for None
    return_type_stack,  \* height of the function body that pushed each entry
    effect_stack,       \* height of the body that pushed each scope
    driver,             \* the program that owns the InferState
    verdict,            \* what it told the user about the source
    raised,             \* history: the kinds of errors the source had
    abandoned           \* history: handle bodies given up because of an error

vars == <<stack, ctl, errors, recur_types, return_type_stack, effect_stack,
          driver, verdict, raised, abandoned>>

scopes == <<recur_types, return_type_stack, effect_stack, abandoned>>

(***************************************************************************)
(* Positions that record the error of their part, give the part a fresh    *)
(* type variable and go on.                                                *)
(***************************************************************************)
Recovering == {"body", "args", "op_args", "item", "let_value", "fallback", "handler_op",
               "defhandler_op", "defn_body"}

(* ... and those that hand it to the form around them (the `?' of Rust).   *)
Propagating == {"deref", "loop_init", "loop_body", "recur_arg", "coll", "clause", "test",
                "branch", "operand", "question", "callee", "field", "scrutinee", "guard",
                "arm", "fn_body", "handle_body", "def_value", "requires", "ensures",
                "method"}

Position == Recovering \union Propagating

FunctionBody == {"fn_body", "defn_body"}             \* own a return type
ScopedBody == FunctionBody \union {"handle_body"}    \* own an effect scope

Frame == [at : Position, saved : Nat]

(* A deftype that does not parse is no TypeError of the engine's.          *)
Fault == ErrorKind \union {"deftype"}

-----------------------------------------------------------------------------
Height == Len(stack)

At == IF Height = 0 THEN "toplevel" ELSE stack[Height].at

Popped == SubSeq(stack, 1, Height - 1)

Waiting(at) == [at |-> at, saved |-> 0]

(* Where the frames that wait at one of these positions stand.             *)
Heights(S) == {i \in 1 .. Height : stack[i].at \in S}

Front(s) == SubSeq(s, 1, Len(s) - 1)

(* An error is on its way up; `ctl' is its kind.                           *)
InError == ctl \in ErrorKind

unlimited_push_error(es, e) == Append(es, e)

(* InferState::push_error *)
push_error(es, e) == IF Len(es) < ERROR_LIMIT THEN Append(es, e) ELSE es

Recorded(k) == \E i \in 1 .. Len(errors) : errors[i] = k

(* pop_effect_scope: an empty stack yields an empty row.                   *)
pop_scope(s) == IF s = <<>> THEN s ELSE Front(s)

-----------------------------------------------------------------------------
(* The ways control moves.                                                 *)

Raising ==
    /\ ctl' \in ErrorKind
    /\ raised' = raised \union {ctl'}

Yield ==
    /\ ctl = "form"
    /\ ctl' = "type"
    /\ UNCHANGED <<stack, errors, scopes, driver, verdict, raised>>

Throw ==
    /\ ctl = "form"
    /\ Raising
    /\ UNCHANGED <<stack, errors, scopes, driver, verdict>>

Begin(at) ==
    /\ ctl = "form"
    /\ Height < MaxStack
    /\ stack' = Append(stack, Waiting(at))
    /\ UNCHANGED <<ctl, errors, scopes, driver, verdict, raised>>

Then(from, to) ==
    /\ ctl = "type"
    /\ At = from
    /\ stack' = [stack EXCEPT ![Height] = Waiting(to)]
    /\ ctl' = "form"
    /\ UNCHANGED <<errors, scopes, driver, verdict, raised>>

Return(from) ==
    /\ ctl = "type"
    /\ At = from
    /\ stack' = Popped
    /\ UNCHANGED <<ctl, errors, scopes, driver, verdict, raised>>

(* The types of the parts do not fit together, or the rest of the form is  *)
(* malformed.                                                              *)
Fail(from) ==
    /\ ctl = "type"
    /\ At = from
    /\ stack' = Popped
    /\ Raising
    /\ UNCHANGED <<errors, scopes, driver, verdict>>

-----------------------------------------------------------------------------
(* Literals and variables.                                                 *)
SynthAtom == Yield \/ Throw

(* A form whose items do not have the shape its function asks for.         *)
MalformedForm == Throw

(* Vector and set literals; empty ones have nothing to infer.              *)
SynthVecLiteral ==
    \/ Yield
    \/ Begin("item")
    \/ Then("item", "item")
    \/ Return("item")
    \/ Fail("item")

SynthTupleLiteral == Throw \/ Begin("item") \/ Then("item", "item") \/ Return("item")

SynthMapLiteral == SynthVecLiteral

SynthDeref == Begin("deref") \/ Return("deref") \/ Fail("deref")

(* par-let becomes a let over fork and join, go a call of fork.            *)
SynthParLet == Throw \/ Begin("let_value") \/ Begin("body")

SynthGo == Throw \/ Begin("callee") \/ Begin("op_args")

(* do, and the last expressions of let, each, times, for.                  *)
SynthDo == Throw \/ Begin("body") \/ Then("body", "body") \/ Return("body")

SynthIf ==
    \/ Throw
    \/ Begin("test")
    \/ Then("test", "branch")
    \/ Fail("test")
    \/ Then("branch", "branch")
    \/ Return("branch")
    \/ Fail("branch")

(* panic, as-any, assert-unreachable! infer an operand and keep nothing.   *)
SynthPanic == Throw \/ Yield \/ Begin("operand") \/ Return("operand")

SynthAssert == Throw \/ Begin("test") \/ Fail("test") \/ Then("test", "operand") \/ Return("test")

(* The operand is inferred before the annotation is parsed.                *)
SynthAssertType == Throw \/ Begin("operand") \/ Return("operand") \/ Fail("operand")

-----------------------------------------------------------------------------
(* A call.  A head that is a symbol without a binding is first tried as a  *)
(* collection operation, with its arguments already inferred; when it is   *)
(* none, inferring the head as a variable cannot succeed.                  *)
SynthCollectionOp ==
    \/ Begin("op_args")
    \/ Then("op_args", "op_args")
    \/ Return("op_args")
    \/ Fail("op_args")

SynthApplication ==
    \/ Throw
    \/ Begin("callee")
    \/ Then("callee", "args")
    \/ Return("callee")
    \/ Fail("callee")
    \/ Then("args", "args")
    \/ Return("args")
    \/ Fail("args")

SynthRecordConstructor ==
    \/ Throw
    \/ Begin("field")
    \/ Then("field", "field")
    \/ Return("field")
    \/ Fail("field")

SynthKeywordAccess == Throw \/ Begin("operand") \/ Return("operand") \/ Fail("operand")

-----------------------------------------------------------------------------
(* let: a pattern with a fallback infers the fallback before the value.    *)
SynthLet ==
    \/ Throw
    \/ \E at \in {"let_value", "fallback", "body"} : Begin(at)
    \/ Then("fallback", "let_value")
    \/ \E to \in {"let_value", "fallback", "body"} : Then("let_value", to)
    \/ Fail("let_value")

SynthEach ==
    \/ Throw
    \/ Begin("coll")
    \/ Then("coll", "body")
    \/ Fail("coll")

SynthTimes == SynthEach

(* for: collections, :when and :while propagate, the values of :let do not.*)
SynthFor ==
    \/ Throw
    \/ \E at \in {"coll", "clause", "let_value", "body"} : Begin(at)
    \/ \E from \in {"coll", "clause", "let_value"}, to \in {"coll", "clause", "let_value", "body"} :
          Then(from, to)
    \/ \E from \in {"coll", "clause", "let_value"} : Fail(from)

SynthMatch ==
    \/ Throw
    \/ Begin("scrutinee")
    \/ \E from \in {"scrutinee", "arm"}, to \in {"guard", "arm"} : Then(from, to)
    \/ Then("guard", "arm")
    \/ \E from \in {"scrutinee", "guard", "arm"} : Fail(from)
    \/ Return("arm")

-----------------------------------------------------------------------------
(* loop: the body runs with recur_types set; the outer value is saved in   *)
(* the frame.                                                              *)
EnterLoopBody ==
    LET h == IF ctl = "form" THEN Height + 1 ELSE Height IN
    /\ \/ ctl = "form" /\ Height < MaxStack          \* no bindings
       \/ ctl = "type" /\ At = "loop_init"
    /\ stack' = Append(SubSeq(stack, 1, h - 1), [at |-> "loop_body", saved |-> recur_types])
    /\ recur_types' = h
    /\ ctl' = "form"
    /\ UNCHANGED <<errors, return_type_stack, effect_stack, driver, verdict, raised, abandoned>>

SynthLoop ==
    \/ Throw
    \/ Begin("loop_init")
    \/ Then("loop_init", "loop_init")
    \/ Fail("loop_init")
    \/ EnterLoopBody
    \/ /\ ctl = "type"
       /\ At = "loop_body"
       /\ stack' = Popped
       /\ recur_types' = stack[Height].saved
       /\ UNCHANGED <<ctl, errors, return_type_stack, effect_stack, driver, verdict, raised,
                      abandoned>>

SynthRecur ==
    \/ recur_types = 0 /\ Throw
    \/ recur_types # 0 /\ Throw                      \* ArityMismatch
    \/ recur_types # 0 /\ Yield                      \* a loop without variables
    \/ recur_types # 0 /\ Begin("recur_arg")
    \/ Then("recur_arg", "recur_arg")
    \/ Return("recur_arg")
    \/ Fail("recur_arg")

(* `?' reads the innermost return type before it infers its operand.       *)
SynthQuestion ==
    \/ return_type_stack = <<>> /\ Throw
    \/ return_type_stack # <<>> /\ Begin("question")
    \/ Return("question")
    \/ Fail("question")

-----------------------------------------------------------------------------
(* fn: both scopes are popped before the result of the body is looked at.  *)
EnterFn ==
    /\ ctl = "form"
    /\ Height < MaxStack
    /\ stack' = Append(stack, Waiting("fn_body"))
    /\ return_type_stack' = Append(return_type_stack, Height + 1)
    /\ effect_stack' = Append(effect_stack, Height + 1)
    /\ UNCHANGED <<ctl, errors, recur_types, driver, verdict, raised, abandoned>>

SynthFn ==
    \/ Throw
    \/ EnterFn
    \/ /\ ctl = "type"
       /\ At = "fn_body"
       /\ stack' = Popped
       /\ return_type_stack' = Front(return_type_stack)
       /\ effect_stack' = pop_scope(effect_stack)
       /\ UNCHANGED <<ctl, errors, recur_types, driver, verdict, raised, abandoned>>

(* handle: the operations of its handlers, then the body in a scope of its *)
(* own, whose residual effects are added to the scope around it.           *)
EnterHandleBody ==
    LET h == IF ctl = "form" THEN Height + 1 ELSE Height IN
    /\ \/ ctl = "form" /\ Height < MaxStack
       \/ ctl = "type" /\ At = "handler_op"
    /\ abandoned + Cardinality(Heights({"handle_body"})) < MaxAbandoned
    /\ stack' = Append(SubSeq(stack, 1, h - 1), Waiting("handle_body"))
    /\ effect_stack' = Append(effect_stack, h)
    /\ ctl' = "form"
    /\ UNCHANGED <<errors, recur_types, return_type_stack, driver, verdict, raised, abandoned>>

SynthHandle ==
    \/ Throw
    \/ Begin("handler_op")
    \/ Then("handler_op", "handler_op")
    \/ EnterHandleBody
    \/ Then("handle_body", "handle_body")
    \/ /\ ctl = "type"
       /\ At = "handle_body"
       /\ stack' = Popped
       /\ effect_stack' = pop_scope(effect_stack)
       /\ UNCHANGED <<ctl, errors, recur_types, return_type_stack, driver, verdict, raised,
                      abandoned>>

-----------------------------------------------------------------------------
(* Top-level forms.                                                        *)
AtTopLevel == ctl = "top" /\ Height = 0

TopBegin(at) ==
    /\ AtTopLevel
    /\ MaxStack > 0
    /\ stack' = <<Waiting(at)>>
    /\ ctl' = "form"
    /\ UNCHANGED <<errors, scopes, driver, verdict, raised>>

TopThrow ==
    /\ AtTopLevel
    /\ Raising
    /\ UNCHANGED <<stack, errors, scopes, driver, verdict>>

InferDef == TopThrow \/ TopBegin("def_value") \/ Return("def_value") \/ Fail("def_value")

(* defn: the preconditions are checked outside the scopes of the function, *)
(* the body inside, the postconditions outside again.                      *)
EnterDefnBody ==
    /\ \/ AtTopLevel /\ MaxStack > 0
       \/ ctl = "type" /\ At = "requires"
    /\ stack' = <<Waiting("defn_body")>>
    /\ return_type_stack' = Append(return_type_stack, 1)
    /\ effect_stack' = Append(effect_stack, 1)
    /\ ctl' = "form"
    /\ UNCHANGED <<errors, recur_types, driver, verdict, raised, abandoned>>

HastyLeaveDefnBody ==
    /\ ctl = "type"
    /\ At = "defn_body"
    /\ return_type_stack' = Front(return_type_stack)
    /\ \/ /\ stack' = <<Waiting("ensures")>>
          /\ effect_stack' = pop_scope(effect_stack)
          /\ ctl' = "form"
          /\ UNCHANGED raised
       \/ /\ stack' = <<>>
          /\ Raising
          /\ UNCHANGED effect_stack
    /\ UNCHANGED <<errors, recur_types, driver, verdict, abandoned>>

LeaveDefnBody ==
    /\ ctl = "type"
    /\ At = "defn_body"
    /\ return_type_stack' = Front(return_type_stack)
    /\ effect_stack' = pop_scope(effect_stack)
    /\ \/ /\ stack' = <<Waiting("ensures")>>
          /\ ctl' = "form"
          /\ UNCHANGED raised
       \/ /\ stack' = <<>>
          /\ UNCHANGED <<ctl, raised>>
       \/ /\ stack' = <<>>                  \* the annotated return type differs
          /\ Raising
    /\ UNCHANGED <<errors, recur_types, driver, verdict, abandoned>>

InferDefn ==
    \/ TopThrow
    \/ TopBegin("requires")
    \/ Then("requires", "requires")
    \/ Fail("requires")
    \/ EnterDefnBody
    \/ Then("defn_body", "defn_body")
    \/ LeaveDefnBody
    \/ Then("ensures", "ensures")
    \/ Return("ensures")
    \/ Fail("ensures")

(* impl: each method is inferred as a fn; defhandler: each operation.      *)
InferImpl ==
    /\ At \in {"toplevel", "method"}
    /\ \/ driver = "repl" /\ (TopThrow \/ TopBegin("method"))
       \/ Then("method", "method")
       \/ Return("method")
       \/ Fail("method")

InferDefhandler ==
    \/ driver = "lsp" /\ (TopThrow \/ TopBegin("defhandler_op"))
    \/ Then("defhandler_op", "defhandler_op")
    \/ Return("defhandler_op")

(* The language server registers a deftype, or passes over it in silence.  *)
RegisterDeftype ==
    /\ AtTopLevel
    /\ driver = "lsp"
    /\ raised' = raised \union {"deftype"}
    /\ UNCHANGED <<stack, ctl, errors, scopes, driver, verdict>>

(* Any other form is an expression; the REPL does not infer it at all, nor *)
(* does any driver infer a declaration it only registers.                  *)
TopExpression ==
    /\ AtTopLevel
    /\ driver # "repl"
    /\ ctl' = "form"
    /\ UNCHANGED <<stack, errors, scopes, driver, verdict, raised>>

-----------------------------------------------------------------------------
(* An error arrives at the form on top.                                    *)
ForgetfulRecoverError ==
    /\ InError
    /\ At \in Recovering
    /\ errors' = IF At = "fallback" THEN errors ELSE push_error(errors, ctl)
    /\ ctl' = "type"
    /\ UNCHANGED <<stack, scopes, driver, verdict, raised>>

RecoverError ==
    /\ InError
    /\ At \in Recovering
    /\ errors' = push_error(errors, ctl)
    /\ ctl' = "type"
    /\ UNCHANGED <<stack, scopes, driver, verdict, raised>>

UnrestoredPropagateError ==
    /\ InError
    /\ At \in Propagating
    /\ stack' = Popped
    /\ return_type_stack' = IF At = "fn_body" THEN Front(return_type_stack) ELSE return_type_stack
    /\ effect_stack' = IF At = "fn_body" THEN pop_scope(effect_stack) ELSE effect_stack
    /\ abandoned' = IF At = "handle_body" THEN abandoned + 1 ELSE abandoned
    /\ UNCHANGED <<ctl, errors, recur_types, driver, verdict, raised>>

PropagateError ==
    /\ InError
    /\ At \in Propagating
    /\ stack' = Popped
    /\ recur_types' = IF At = "loop_body" THEN stack[Height].saved ELSE recur_types
    /\ return_type_stack' = IF At = "fn_body" THEN Front(return_type_stack) ELSE return_type_stack
    /\ effect_stack' = IF At = "fn_body" THEN pop_scope(effect_stack) ELSE effect_stack
    /\ abandoned' = IF At = "handle_body" THEN abandoned + 1 ELSE abandoned
    /\ UNCHANGED <<ctl, errors, driver, verdict, raised>>

-----------------------------------------------------------------------------
(* The drivers, between two top-level forms.                               *)
FormInferred ==
    /\ ctl = "type"
    /\ Height = 0
    /\ ctl' = "top"
    /\ UNCHANGED <<stack, errors, scopes, driver, verdict, raised>>

(* command_check stops with the error; update_repl_type_env puts it on its *)
(* own list; type_check_diagnostics records it with the others.            *)
FormInError ==
    /\ InError
    /\ Height = 0
    /\ ctl' = IF driver = "check" THEN "done" ELSE "top"
    /\ verdict' = IF driver = "lsp" THEN verdict ELSE "errors"
    /\ errors' = IF driver = "lsp" THEN push_error(errors, ctl) ELSE errors
    /\ UNCHANGED <<stack, scopes, driver, raised>>

(* The language server does not know the types of the standard library: as *)
(* soon as one variable is unbound it only shows malformed forms.          *)
Shown(k) == Recorded(k) /\ (driver = "lsp" /\ Recorded("unbound") => k = "malformed")

(* The recorded errors are reported; the REPL drains them.                 *)
EndOfSource ==
    /\ AtTopLevel
    /\ ctl' = "done"
    /\ verdict' = IF verdict = "errors" \/ \E k \in ErrorKind : Shown(k) THEN "errors" ELSE "ok"
    /\ errors' = IF driver = "repl" THEN <<>> ELSE errors
    /\ UNCHANGED <<stack, scopes, driver, raised>>

(* The REPL keeps its InferState for the next input; the others make one.  *)
NextSource ==
    /\ ctl = "done"
    /\ ctl' = "top"
    /\ verdict' = "none"
    /\ raised' = {}
    /\ IF driver = "repl"
       THEN UNCHANGED <<errors, scopes>>
       ELSE /\ errors' = <<>>
            /\ recur_types' = 0
            /\ return_type_stack' = <<>>
            /\ effect_stack' = <<>>
            /\ abandoned' = 0
    /\ UNCHANGED <<stack, driver>>

-----------------------------------------------------------------------------
Init ==
    /\ stack = <<>>
    /\ ctl = "top"
    /\ errors = <<>>
    /\ recur_types = 0
    /\ return_type_stack = <<>>
    /\ effect_stack = <<>>
    /\ driver \in {"check", "repl", "lsp"}
    /\ verdict = "none"
    /\ raised = {}
    /\ abandoned = 0

Next ==
    \/ SynthAtom \/ MalformedForm \/ SynthVecLiteral \/ SynthTupleLiteral \/ SynthMapLiteral
    \/ SynthDeref \/ SynthParLet \/ SynthGo \/ SynthDo \/ SynthIf \/ SynthPanic
    \/ SynthAssert \/ SynthAssertType
    \/ SynthCollectionOp \/ SynthApplication \/ SynthRecordConstructor \/ SynthKeywordAccess
    \/ SynthLet \/ SynthEach \/ SynthTimes \/ SynthFor \/ SynthMatch
    \/ SynthLoop \/ SynthRecur \/ SynthQuestion \/ SynthFn \/ SynthHandle
    \/ InferDef \/ InferDefn \/ InferImpl \/ InferDefhandler \/ RegisterDeftype \/ TopExpression
    \/ RecoverError \/ PropagateError
    \/ FormInferred \/ FormInError \/ EndOfSource \/ NextSource

Spec == Init /\ [][Next]_vars

-----------------------------------------------------------------------------
(* The engine's state is well formed; the list of errors respects its      *)
(* limit.                                                                  *)
TypeOK ==
    /\ stack \in Seq(Frame)
    /\ Height <= MaxStack
    /\ ctl \in {"top", "form", "type", "done"} \union ErrorKind
    /\ errors \in Seq(ErrorKind)
    /\ Len(errors) <= ERROR_LIMIT
    /\ recur_types \in Nat
    /\ return_type_stack \in Seq(Nat)
    /\ effect_stack \in Seq(Nat)
    /\ driver \in {"check", "repl", "lsp"}
    /\ verdict \in {"none", "ok", "errors"}
    /\ raised \subseteq Fault
    /\ abandoned \in 0 .. MaxAbandoned

(* The entries of s are the heights in S, outermost first.                 *)
Lists(s, S) ==
    /\ {s[i] : i \in 1 .. Len(s)} = S
    /\ \A i, j \in 1 .. Len(s) : i < j => s[i] < s[j]

(* recur is checked against the innermost loop being inferred, and outside *)
(* of every loop it is an error: whatever ends in between, with a type or  *)
(* with an error, no loop's types outlive its body or hide an outer loop's.*)
RecurTypesFollowLoops ==
    LET loops == Heights({"loop_body"}) IN
    /\ recur_types = 0 <=> loops = {}
    /\ recur_types # 0 => recur_types \in loops /\ \A h \in loops : h <= recur_types

(* `?' is checked against the function it is written in: the stack of      *)
(* return types names exactly the functions whose bodies are being         *)
(* inferred, also after an error inside one of them.                       *)
ReturnTypesFollowFunctions == Lists(return_type_stack, Heights(FunctionBody))

(* So recur and `?' are both checked against what encloses them.           *)
ContextFollowsForms == RecurTypesFollowLoops /\ ReturnTypesFollowFunctions

(* Effect scopes are lost or left behind in one way only, a handle body    *)
(* that ends in an error; until then every effect goes to the innermost    *)
(* body being inferred, and no pop ever finds the stack empty.             *)
EffectScopesAccounted ==
    /\ Len(effect_stack) = Cardinality(Heights(ScopedBody)) + abandoned
    /\ abandoned = 0 => Lists(effect_stack, Heights(ScopedBody))

(* No error is swallowed on its way to the user: a source in which some    *)
(* form was in error is not accepted, however many errors were recorded,   *)
(* recovered from or suppressed by the limit.  The language server does    *)
(* accept some: deftypes that do not parse, and, beside an unbound         *)
(* variable, whatever is not a malformed form; one of these it can only    *)
(* miss when others filled the list before it.                             *)
ErrorNeverAccepted ==
    verdict = "ok" =>
        \/ raised = {}
        \/ /\ driver = "lsp"
           /\ \/ raised = {"deftype"}
              \/ /\ "unbound" \in raised
                 /\ "malformed" \in raised => Len(errors) = ERROR_LIMIT
=============================================================================
