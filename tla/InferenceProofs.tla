---------------------------- MODULE InferenceProofs ----------------------------
(***************************************************************************)
(* Proofs about Inference for every limit of errors and every bound of the *)
(* model.  A step changes the stack together with the scoped fields in one *)
(* of eleven ways (StackShape), and what the engine and its driver do in   *)
(* one of eight (ControlShape); StepShape shows it for each action, and    *)
(* the invariants are shown to survive the shapes.                         *)
(***************************************************************************)
EXTENDS Inference, FiniteSetTheorems, SequenceTheorems, TLAPS

(* Positions that own no scope, and those only a top-level form has.       *)
Plain == Position \ (ScopedBody \union {"loop_body"})
TopForms == {"def_value", "requires", "defn_body", "ensures", "method", "defhandler_op"}

(* Frame f comes to stand at height h: on top of the stack, or in the      *)
(* place of a top frame that owns no scope.                                *)
Opens(h, f) ==
    /\ \/ h = Height + 1 /\ Height < MaxStack
       \/ h = Height /\ Height > 0 /\ At \in Plain
    /\ f.at \in TopForms => h = 1
    /\ stack' = Append(SubSeq(stack, 1, h - 1), f)

(* The top frame, of a form `at', is dropped.                              *)
Leaves(at) == Height > 0 /\ At = at /\ stack' = Popped

(* The shapes of steps, by what they do to the stack and the scoped        *)
(* fields: nothing, opening a plain frame, going on with a body, closing a *)
(* frame, entering and leaving loops, function bodies and handle bodies,   *)
(* and starting afresh on a new source.                                    *)
Keep == stack' = stack /\ UNCHANGED scopes

Open == \E at \in Plain : \E h \in Nat : Opens(h, Waiting(at)) /\ UNCHANGED scopes

Repeat ==
    /\ Height > 0
    /\ At \in ScopedBody
    /\ stack' = [stack EXCEPT ![Height] = Waiting(At)]
    /\ UNCHANGED scopes

Close == \E at \in Plain : Leaves(at) /\ UNCHANGED scopes

EnterLoop ==
    \E h \in Nat :
       /\ Opens(h, [at |-> "loop_body", saved |-> recur_types])
       /\ recur_types' = h
       /\ UNCHANGED <<return_type_stack, effect_stack, abandoned>>

LeaveLoop ==
    /\ Leaves("loop_body")
    /\ recur_types' = stack[Height].saved
    /\ UNCHANGED <<return_type_stack, effect_stack, abandoned>>

EnterBody ==
    \E at \in FunctionBody : \E h \in Nat :
       /\ Opens(h, Waiting(at))
       /\ return_type_stack' = Append(return_type_stack, h)
       /\ effect_stack' = Append(effect_stack, h)
       /\ UNCHANGED <<recur_types, abandoned>>

LeaveBody ==
    /\ \/ \E at \in FunctionBody : Leaves(at)
       \/ Height = 1 /\ At = "defn_body" /\ stack' = <<Waiting("ensures")>>
    /\ return_type_stack' = Front(return_type_stack)
    /\ effect_stack' = pop_scope(effect_stack)
    /\ UNCHANGED <<recur_types, abandoned>>

EnterHandle ==
    \E h \in Nat :
       /\ Opens(h, Waiting("handle_body"))
       /\ abandoned + Cardinality(Heights({"handle_body"})) < MaxAbandoned
       /\ effect_stack' = Append(effect_stack, h)
       /\ UNCHANGED <<recur_types, return_type_stack, abandoned>>

LeaveHandle ==
    /\ Leaves("handle_body")
    /\ \/ effect_stack' = pop_scope(effect_stack) /\ abandoned' = abandoned
       \/ effect_stack' = effect_stack /\ abandoned' = abandoned + 1
    /\ UNCHANGED <<recur_types, return_type_stack>>

Fresh ==
    /\ Height = 0
    /\ stack' = stack
    /\ recur_types' = 0
    /\ return_type_stack' = <<>>
    /\ effect_stack' = <<>>
    /\ abandoned' = 0

StackShape ==
    \/ Keep \/ Open \/ Repeat \/ Close \/ EnterLoop \/ LeaveLoop
    \/ EnterBody \/ LeaveBody \/ EnterHandle \/ LeaveHandle \/ Fresh

(* What happens to control.  An inference step goes on with a part or a    *)
(* type, raises an error, or hands one on; the rest are the drivers.       *)
Working == {"top", "form", "type"}

Calm ==
    /\ ctl \in Working
    /\ ctl' \in Working
    /\ ctl' = "top" => stack' = <<>>
    /\ UNCHANGED <<errors, verdict, raised>>

Raise ==
    /\ ctl \in Working
    /\ Raising
    /\ UNCHANGED <<errors, verdict>>

HandOn == InError /\ UNCHANGED <<ctl, errors, verdict, raised>>

Stutter == UNCHANGED <<stack, ctl, errors, verdict, raised>>

(* The kinds of errors are no other word for what the engine is doing.     *)
LEMMA KindsApart ==
  /\ ErrorKind \intersect (Working \union {"done", "deftype"}) = {}
  /\ {"malformed", "unbound"} \subseteq ErrorKind
  BY ErrorKinds DEF Working

(* A step works on, raises an error, hands one on, leaves control alone,   *)
(* or is a step of the driver that ends a form or a source.                *)
ControlShape ==
    /\ driver' = driver
    /\ \/ Calm \/ Raise \/ HandOn \/ Stutter
       \/ RegisterDeftype \/ RecoverError \/ FormInError \/ EndOfSource \/ NextSource

(* Top-level forms stand at the bottom of the stack, and between two of    *)
(* them nothing is left on it.                                             *)
Placed ==
    /\ \A i \in 1 .. Height : stack[i].at \in TopForms => i = 1
    /\ ctl \in {"top", "done"} => stack = <<>>

-----------------------------------------------------------------------------
(* The form on top of a stack that is not empty.                           *)
LEMMA TopFrame ==
  ASSUME TypeOK, Height > 0
  PROVE  /\ Height \in Nat
         /\ stack[Height] \in Frame
         /\ At = stack[Height].at
  BY DEF TypeOK, Height, At

(* Only the top level has an empty stack.                                  *)
LEMMA AtKnown ==
  ASSUME TypeOK
  PROVE  /\ Height \in Nat
         /\ At \in Position => Height > 0
         /\ Height > 0 => At \in Position
         /\ Height = 0 <=> stack = <<>>
  <1>1. Height \in Nat /\ (Height = 0 <=> stack = <<>>)
    BY DEF TypeOK, Height
  <1>2. Height > 0 => At \in Position
    BY <1>1, TopFrame DEF Frame
  <1>3. Height = 0 => At \notin Position
    BY DEF At, Position, Recovering, Propagating
  <1> QED
    BY <1>1, <1>2, <1>3

(* A top-level position is only ever found at height 1.                    *)
LEMMA TopFormAt ==
  ASSUME TypeOK, Placed, At \in TopForms
  PROVE  Height = 1
  <1>1. At \in Position
    BY DEF TopForms, Position, Recovering, Propagating
  <1> QED
    BY <1>1, AtKnown, TopFrame DEF Placed

(* A prefix of a sequence is a sequence, element by element.               *)
LEMMA Prefix ==
  ASSUME NEW S, NEW s \in Seq(S), NEW k \in 0 .. Len(s), NEW t, t = SubSeq(s, 1, k)
  PROVE  t \in Seq(S) /\ Len(t) = k /\ \A i \in 1 .. k : t[i] = s[i]
  OBVIOUS

(* Replacing the last element is dropping it and appending another.        *)
LEMMA ReplaceLast ==
  ASSUME NEW S, NEW s \in Seq(S), NEW n \in Nat \ {0}, Len(s) = n, NEW f \in S,
         NEW t, t = SubSeq(s, 1, n - 1), NEW u, u = Append(t, f),
         NEW v, v = [s EXCEPT ![n] = f]
  PROVE  u = v
  <1>1. u \in Seq(S) /\ v \in Seq(S) /\ Len(v) = n
    OBVIOUS
  <1>2. Len(u) = n
    OBVIOUS
  <1>3. \A i \in 1 .. n : u[i] = v[i]
    OBVIOUS
  <1> QED
    BY <1>1, <1>2, <1>3

(* Yielding a type leaves the stack alone and works on.                    *)
LEMMA YieldShape ==
  ASSUME TypeOK, Yield
  PROVE  StackShape /\ ControlShape
  BY DEF Yield, StackShape, Keep, ControlShape, Calm, Working

(* A form in error leaves the stack alone.                                 *)
LEMMA ThrowShape ==
  ASSUME TypeOK, Throw
  PROVE  StackShape /\ ControlShape
  BY DEF Throw, StackShape, Keep, ControlShape, Raise, Working

(* Beginning a part opens its frame one higher.                            *)
LEMMA BeginShape ==
  ASSUME TypeOK, NEW at \in Plain \ TopForms, Begin(at)
  PROVE  StackShape /\ ControlShape
  <1>1. Opens(Height + 1, Waiting(at)) /\ UNCHANGED scopes
    BY AtKnown DEF Begin, Opens, TypeOK, Height, Waiting
  <1>2. Open
    BY <1>1, AtKnown DEF Open
  <1>3. Calm
    BY DEF Begin, Calm, Working
  <1> QED
    BY <1>2, <1>3 DEF Begin, StackShape, ControlShape

(* Going on to the next part puts its frame in the place of the last.      *)
LEMMA ThenShape ==
  ASSUME TypeOK, Placed, NEW from \in Plain, NEW to \in Plain, Then(from, to),
         to \in TopForms => from \in TopForms
  PROVE  StackShape /\ ControlShape
  <1>1. Height > 0 /\ Height \in Nat
    BY AtKnown DEF Then, Plain
  <1>2. Waiting(to) \in Frame
    BY DEF Waiting, Frame, Plain
  <1>3. stack' = Append(SubSeq(stack, 1, Height - 1), Waiting(to))
    <2>1. stack \in Seq(Frame) /\ Len(stack) = Height /\ Height \in Nat \ {0}
      BY <1>1 DEF TypeOK, Height
    <2>2. stack' = [stack EXCEPT ![Height] = Waiting(to)]
      BY DEF Then
    <2> QED
      BY <1>2, <2>1, <2>2, ReplaceLast
  <1>4. Opens(Height, Waiting(to)) /\ UNCHANGED scopes
    BY <1>1, <1>3, TopFormAt DEF Then, Opens, Waiting
  <1>5. Open
    BY <1>1, <1>4 DEF Open
  <1>6. Calm
    BY DEF Then, Calm, Working
  <1> QED
    BY <1>5, <1>6 DEF Then, StackShape, ControlShape

(* The next form of a body that owns a scope.                              *)
LEMMA RepeatShape ==
  ASSUME TypeOK, NEW at \in ScopedBody, Then(at, at)
  PROVE  StackShape /\ ControlShape
  <1>1. at \in Position
    BY DEF ScopedBody, FunctionBody, Position, Recovering, Propagating
  <1>2. Repeat
    BY <1>1, AtKnown DEF Then, Repeat
  <1>3. Calm
    BY DEF Then, Calm, Working
  <1> QED
    BY <1>2, <1>3 DEF Then, StackShape, ControlShape

(* Handing back a type closes the frame.                                   *)
LEMMA ReturnShape ==
  ASSUME TypeOK, NEW at \in Plain, Return(at)
  PROVE  StackShape /\ ControlShape
  <1>1. Close
    BY AtKnown DEF Return, Close, Leaves, Plain
  <1>2. Calm
    BY DEF Return, Calm, Working
  <1> QED
    BY <1>1, <1>2 DEF Return, StackShape, ControlShape

(* Failing with an error closes the frame of the form that fails, too.     *)
LEMMA FailShape ==
  ASSUME TypeOK, NEW at \in Plain, Fail(at)
  PROVE  StackShape /\ ControlShape
  <1>1. Close
    BY AtKnown DEF Fail, Close, Leaves, Plain
  <1>2. Raise
    BY DEF Fail, Raise, Working
  <1> QED
    BY <1>1, <1>2 DEF Fail, StackShape, ControlShape

(* A top-level form begins with its first frame at height 1.               *)
LEMMA TopBeginShape ==
  ASSUME TypeOK, NEW at \in Plain, TopBegin(at)
  PROVE  StackShape /\ ControlShape
  <1>1. Height = 0 /\ stack = <<>>
    BY AtKnown DEF TopBegin, AtTopLevel
  <1>2. Opens(1, Waiting(at)) /\ UNCHANGED scopes
    BY <1>1 DEF TopBegin, Opens, Waiting, Height
  <1>3. Open
    BY <1>2 DEF Open
  <1>4. Calm
    BY DEF TopBegin, AtTopLevel, Calm, Working
  <1> QED
    BY <1>3, <1>4 DEF TopBegin, StackShape, ControlShape

(* A malformed top-level form raises an error and opens nothing.           *)
LEMMA TopThrowShape ==
  ASSUME TypeOK, TopThrow
  PROVE  StackShape /\ ControlShape
  BY DEF TopThrow, AtTopLevel, StackShape, Keep, ControlShape, Raise, Working

(* The actions that enter and leave the bodies that own a scope.           *)
LEMMA EnterLoopShape ==
  ASSUME TypeOK, EnterLoopBody
  PROVE  StackShape /\ ControlShape
  <1>1. "loop_init" \in Plain /\ "loop_init" \in Position
    BY DEF Plain, Position, Recovering, Propagating, ScopedBody, FunctionBody
  <1> DEFINE h == IF ctl = "form" THEN Height + 1 ELSE Height
             f == [at |-> "loop_body", saved |-> recur_types]
  <1>2. h \in Nat /\ recur_types' = h
    BY AtKnown DEF EnterLoopBody
  <1>3. Opens(h, f)
    BY <1>1, AtKnown DEF EnterLoopBody, Opens, TopForms
  <1>4. EnterLoop
    BY <1>2, <1>3 DEF EnterLoopBody, EnterLoop
  <1>5. Calm
    BY DEF EnterLoopBody, Calm, Working
  <1> QED
    BY <1>4, <1>5 DEF EnterLoopBody, StackShape, ControlShape

(* Going into and out of the body of an fn enters and leaves a function    *)
(* body.                                                                   *)
LEMMA EnterFnShape ==
  ASSUME TypeOK, EnterFn
  PROVE  StackShape /\ ControlShape
  <1>1. stack' = Append(SubSeq(stack, 1, Height + 1 - 1), Waiting("fn_body"))
    BY AtKnown DEF EnterFn, TypeOK, Height
  <1>2. Opens(Height + 1, Waiting("fn_body"))
    <2>1. Waiting("fn_body").at \notin TopForms
      BY DEF Waiting, TopForms
    <2> QED
      BY <1>1, <2>1, AtKnown DEF EnterFn, Opens
  <1>3. EnterBody
    BY <1>2, AtKnown DEF EnterFn, EnterBody, FunctionBody
  <1>4. Calm
    BY DEF EnterFn, Calm, Working
  <1> QED
    BY <1>3, <1>4 DEF EnterFn, StackShape, ControlShape

(* Going into and out of the body of a handle enters and leaves a handle   *)
(* body; an error leaves its effect scope behind.                          *)
LEMMA EnterHandleShape ==
  ASSUME TypeOK, EnterHandleBody
  PROVE  StackShape /\ ControlShape
  <1>1. "handler_op" \in Plain /\ "handler_op" \in Position
    BY DEF Plain, Position, Recovering, Propagating, ScopedBody, FunctionBody
  <1> DEFINE h == IF ctl = "form" THEN Height + 1 ELSE Height
  <1>2. h \in Nat /\ effect_stack' = Append(effect_stack, h)
    BY AtKnown DEF EnterHandleBody
  <1>3. Opens(h, Waiting("handle_body"))
    BY <1>1, AtKnown DEF EnterHandleBody, Opens, TopForms, Waiting
  <1>4. EnterHandle
    BY <1>2, <1>3 DEF EnterHandleBody, EnterHandle
  <1>5. Calm
    BY DEF EnterHandleBody, Calm, Working
  <1> QED
    BY <1>4, <1>5 DEF EnterHandleBody, StackShape, ControlShape

(* The body of a defn is entered after its preconditions or at once.       *)
LEMMA EnterDefnShape ==
  ASSUME TypeOK, Placed, EnterDefnBody
  PROVE  StackShape /\ ControlShape
  <1>1. "requires" \in Plain /\ "requires" \in TopForms
    BY DEF Plain, Position, Recovering, Propagating, ScopedBody, FunctionBody, TopForms
  <1>2. \/ Height = 0 /\ Height < MaxStack
        \/ Height = 1 /\ At \in Plain
    BY <1>1, TopFormAt, AtKnown DEF EnterDefnBody, AtTopLevel
  <1>3. stack' = Append(SubSeq(stack, 1, 1 - 1), Waiting("defn_body"))
    <2>1. SubSeq(stack, 1, 1 - 1) = <<>>
      BY SubSeqEmpty
    <2> QED
      BY <2>1 DEF EnterDefnBody
  <1>4. Opens(1, Waiting("defn_body"))
    BY <1>2, <1>3 DEF Opens, Waiting
  <1>5. EnterBody
    BY <1>4 DEF EnterDefnBody, EnterBody, FunctionBody
  <1>6. Calm
    BY DEF EnterDefnBody, AtTopLevel, Calm, Working
  <1> QED
    BY <1>5, <1>6 DEF EnterDefnBody, StackShape, ControlShape

(* It is left with a type or a mismatch, or on to the postconditions.      *)
LEMMA LeaveDefnShape ==
  ASSUME TypeOK, Placed, LeaveDefnBody
  PROVE  StackShape /\ ControlShape
  <1>1. Height = 1 /\ At = "defn_body"
    BY TopFormAt, "defn_body" \in TopForms DEF LeaveDefnBody, TopForms
  <1>2. Popped = <<>>
    BY <1>1, SubSeqEmpty DEF Popped
  <1>3. LeaveBody
    BY <1>1, <1>2 DEF LeaveDefnBody, LeaveBody, Leaves, FunctionBody
  <1>4. Calm \/ Raise
    BY DEF LeaveDefnBody, Calm, Raise, Working
  <1> QED
    BY <1>3, <1>4 DEF LeaveDefnBody, StackShape, ControlShape

(* An error on its way to the form around it closes the frame it leaves.   *)
LEMMA PropagateShape ==
  ASSUME TypeOK, PropagateError
  PROVE  StackShape /\ ControlShape
  <1>1. Height > 0 /\ Leaves(At)
    BY AtKnown DEF PropagateError, Leaves, Position
  <1>2. HandOn
    BY DEF PropagateError, HandOn
  <1>3. ASSUME At = "loop_body" PROVE LeaveLoop
    BY <1>1, <1>3 DEF PropagateError, LeaveLoop
  <1>4. ASSUME At = "fn_body" PROVE LeaveBody
    BY <1>1, <1>4 DEF PropagateError, LeaveBody, FunctionBody
  <1>5. ASSUME At = "handle_body" PROVE LeaveHandle
    BY <1>1, <1>5 DEF PropagateError, LeaveHandle
  <1>6. ASSUME At \notin {"loop_body", "fn_body", "handle_body"} PROVE Close
    <2>1. At \in Plain
      BY <1>6 DEF PropagateError, Plain, Position, ScopedBody, FunctionBody, Propagating
    <2> QED
      BY <1>1, <1>6, <2>1 DEF PropagateError, Close, scopes
  <1> QED
    BY <1>2, <1>3, <1>4, <1>5, <1>6 DEF PropagateError, StackShape, ControlShape

(* Every step of the engine and its drivers has one shape of each kind.    *)
LEMMA StepShape ==
  ASSUME TypeOK, Placed, [Next]_vars
  PROVE  StackShape /\ ControlShape
  <1> USE YieldShape, ThrowShape, BeginShape, ThenShape, ReturnShape, FailShape
  <1>a. Plain = (Recovering \ {"defn_body"}) \union
                (Propagating \ {"loop_body", "fn_body", "handle_body"})
    BY DEF Plain, Position, ScopedBody, FunctionBody, Recovering, Propagating
  <1>b. "handle_body" \in ScopedBody /\ "defn_body" \in ScopedBody
    BY DEF ScopedBody, FunctionBody
  <1>1. CASE SynthAtom
    BY <1>1, <1>a DEF SynthAtom, Recovering, Propagating, TopForms
  <1>2. CASE MalformedForm
    BY <1>2, <1>a DEF MalformedForm, Recovering, Propagating, TopForms
  <1>3. CASE SynthVecLiteral
    BY <1>3, <1>a DEF SynthVecLiteral, Recovering, Propagating, TopForms
  <1>4. CASE SynthTupleLiteral
    BY <1>4, <1>a DEF SynthTupleLiteral, Recovering, Propagating, TopForms
  <1>5. CASE SynthMapLiteral
    BY <1>5, <1>a DEF SynthMapLiteral, SynthVecLiteral, Recovering, Propagating, TopForms
  <1>6. CASE SynthDeref
    BY <1>6, <1>a DEF SynthDeref, Recovering, Propagating, TopForms
  <1>7. CASE SynthParLet
    BY <1>7, <1>a DEF SynthParLet, Recovering, Propagating, TopForms
  <1>8. CASE SynthGo
    BY <1>8, <1>a DEF SynthGo, Recovering, Propagating, TopForms
  <1>9. CASE SynthDo
    BY <1>9, <1>a DEF SynthDo, Recovering, Propagating, TopForms
  <1>10. CASE SynthIf
    BY <1>10, <1>a DEF SynthIf, Recovering, Propagating, TopForms
  <1>11. CASE SynthPanic
    BY <1>11, <1>a DEF SynthPanic, Recovering, Propagating, TopForms
  <1>12. CASE SynthAssert
    BY <1>12, <1>a DEF SynthAssert, Recovering, Propagating, TopForms
  <1>13. CASE SynthAssertType
    BY <1>13, <1>a DEF SynthAssertType, Recovering, Propagating, TopForms
  <1>14. CASE SynthCollectionOp
    BY <1>14, <1>a DEF SynthCollectionOp, Recovering, Propagating, TopForms
  <1>15. CASE SynthApplication
    BY <1>15, <1>a DEF SynthApplication, Recovering, Propagating, TopForms
  <1>16. CASE SynthRecordConstructor
    BY <1>16, <1>a DEF SynthRecordConstructor, Recovering, Propagating, TopForms
  <1>17. CASE SynthKeywordAccess
    BY <1>17, <1>a DEF SynthKeywordAccess, Recovering, Propagating, TopForms
  <1>18. CASE SynthLet
    BY <1>18, <1>a DEF SynthLet, Recovering, Propagating, TopForms
  <1>19. CASE SynthEach
    BY <1>19, <1>a DEF SynthEach, Recovering, Propagating, TopForms
  <1>20. CASE SynthTimes
    BY <1>20, <1>a DEF SynthTimes, SynthEach, Recovering, Propagating, TopForms
  <1>21. CASE SynthFor
    BY <1>21, <1>a DEF SynthFor, Recovering, Propagating, TopForms
  <1>22. CASE SynthMatch
    BY <1>22, <1>a DEF SynthMatch, Recovering, Propagating, TopForms
  <1>23. CASE SynthRecur
    BY <1>23, <1>a DEF SynthRecur, Recovering, Propagating, TopForms
  <1>24. CASE SynthQuestion
    BY <1>24, <1>a DEF SynthQuestion, Recovering, Propagating, TopForms
  <1>25. CASE SynthLoop
    <2>1. CASE /\ ctl = "type"
               /\ At = "loop_body"
               /\ stack' = Popped
               /\ recur_types' = stack[Height].saved
               /\ UNCHANGED <<ctl, errors, return_type_stack, effect_stack, driver, verdict,
                              raised, abandoned>>
      <3>1. Height > 0
        BY <2>1, AtKnown DEF Position, Propagating
      <3>2. LeaveLoop
        BY <2>1, <3>1 DEF LeaveLoop, Leaves
      <3>3. Calm
        BY <2>1 DEF Calm, Working
      <3> QED
        BY <2>1, <3>2, <3>3 DEF StackShape, ControlShape
    <2>2. CASE EnterLoopBody
      BY <2>2, EnterLoopShape
    <2> QED
      BY <1>25, <2>1, <2>2, <1>a DEF SynthLoop, Recovering, Propagating, TopForms
  <1>26. CASE SynthFn
    <2>1. CASE /\ ctl = "type"
               /\ At = "fn_body"
               /\ stack' = Popped
               /\ return_type_stack' = Front(return_type_stack)
               /\ effect_stack' = pop_scope(effect_stack)
               /\ UNCHANGED <<ctl, errors, recur_types, driver, verdict, raised, abandoned>>
      <3>1. Height > 0
        BY <2>1, AtKnown DEF Position, Propagating
      <3>2. LeaveBody
        BY <2>1, <3>1 DEF LeaveBody, Leaves, FunctionBody
      <3>3. Calm
        BY <2>1 DEF Calm, Working
      <3> QED
        BY <2>1, <3>2, <3>3 DEF StackShape, ControlShape
    <2> QED
      BY <1>26, <2>1, EnterFnShape DEF SynthFn
  <1>27. CASE SynthHandle
    <2>1. CASE /\ ctl = "type"
               /\ At = "handle_body"
               /\ stack' = Popped
               /\ effect_stack' = pop_scope(effect_stack)
               /\ UNCHANGED <<ctl, errors, recur_types, return_type_stack, driver, verdict,
                              raised, abandoned>>
      <3>1. Height > 0
        BY <2>1, AtKnown DEF Position, Propagating
      <3>2. LeaveHandle
        BY <2>1, <3>1 DEF LeaveHandle, Leaves
      <3>3. Calm
        BY <2>1 DEF Calm, Working
      <3> QED
        BY <2>1, <3>2, <3>3 DEF StackShape, ControlShape
    <2>2. CASE Then("handle_body", "handle_body")
      BY <2>2, <1>b, RepeatShape
    <2> QED
      BY <1>27, <2>1, <2>2, <1>a, EnterHandleShape
         DEF SynthHandle, Recovering, Propagating, TopForms
  <1>28. CASE InferDef
    BY <1>28, <1>a, TopThrowShape, TopBeginShape DEF InferDef, Recovering, Propagating
  <1>29. CASE InferDefn
    <2>1. CASE Then("defn_body", "defn_body")
      BY <2>1, <1>b, RepeatShape
    <2> QED
      BY <1>29, <2>1, <1>a, TopThrowShape, TopBeginShape, EnterDefnShape, LeaveDefnShape
         DEF InferDefn, Recovering, Propagating
  <1>30. CASE InferImpl
    BY <1>30, <1>a, TopThrowShape, TopBeginShape DEF InferImpl, Recovering, Propagating
  <1>31. CASE InferDefhandler
    BY <1>31, <1>a, TopThrowShape, TopBeginShape DEF InferDefhandler, Recovering, Propagating
  <1>32. CASE TopExpression
    <2>1. Keep /\ Calm
      BY <1>32 DEF TopExpression, AtTopLevel, Keep, Calm, Working
    <2> QED
      BY <1>32, <2>1 DEF TopExpression, StackShape, ControlShape
  <1>33. CASE RecoverError
    BY <1>33 DEF RecoverError, StackShape, Keep, ControlShape
  <1>34. CASE PropagateError
    BY <1>34, PropagateShape
  <1>35. CASE FormInferred
    <2>1. Keep /\ Calm
      BY <1>35, AtKnown DEF FormInferred, Keep, Calm, Working
    <2> QED
      BY <1>35, <2>1 DEF FormInferred, StackShape, ControlShape
  <1>36. CASE FormInError
    BY <1>36 DEF FormInError, StackShape, Keep, ControlShape
  <1>37. CASE EndOfSource
    BY <1>37 DEF EndOfSource, StackShape, Keep, ControlShape
  <1>38. CASE NextSource
    <2>1. Height = 0
      BY <1>38 DEF NextSource, Placed, Height
    <2>2. Keep \/ Fresh
      BY <1>38, <2>1 DEF NextSource, Keep, Fresh, scopes
    <2> QED
      BY <1>38, <2>2 DEF NextSource, StackShape, ControlShape
  <1>40. CASE RegisterDeftype
    <2>1. Keep
      BY <1>40 DEF RegisterDeftype, Keep, scopes
    <2>2. driver' = driver
      BY <1>40 DEF RegisterDeftype
    <2> QED
      BY <1>40, <2>1, <2>2 DEF StackShape, ControlShape
  <1>39. CASE UNCHANGED vars
    BY <1>39 DEF vars, scopes, StackShape, Keep, ControlShape, Stutter
  <1> QED
    BY <1>1, <1>2, <1>3, <1>4, <1>5, <1>6, <1>7, <1>8, <1>9, <1>10, <1>11, <1>12, <1>13, <1>14, <1>15, <1>16, <1>17, <1>18, <1>19, <1>20, <1>21, <1>22, <1>23, <1>24, <1>25, <1>26, <1>27, <1>28, <1>29, <1>30, <1>31, <1>32, <1>33, <1>34, <1>35, <1>36, <1>37, <1>38, <1>39, <1>40 DEF Next

-----------------------------------------------------------------------------
(* What opening and leaving a frame do to the stack ...                    *)
LEMMA OpensStack ==
  ASSUME TypeOK, NEW h \in Nat, NEW f \in Frame, Opens(h, f)
  PROVE  /\ h \in 1 .. Height + 1
         /\ h <= MaxStack
         /\ stack' \in Seq(Frame)
         /\ Height' = h
         /\ \A i \in 1 .. h - 1 : stack'[i] = stack[i]
         /\ stack'[h] = f
         /\ h <= Height => h = Height /\ stack[h].at \in Plain
  <1>1. Height \in Nat /\ Len(stack) = Height /\ Height <= MaxStack /\ stack \in Seq(Frame)
    BY DEF TypeOK, Height
  <1>2. h \in 1 .. Height + 1 /\ h <= MaxStack
    BY <1>1, InferenceConstants DEF Opens
  <1> DEFINE k == h - 1
             t == SubSeq(stack, 1, k)
  <1>3. k \in 0 .. Len(stack)
    BY <1>1, <1>2
  <1> HIDE DEF k
  <1>4. t \in Seq(Frame) /\ Len(t) = k /\ \A i \in 1 .. k : t[i] = stack[i]
    BY <1>1, <1>3, Prefix
  <1>5. stack' = Append(t, f)
    BY DEF Opens, k
  <1> HIDE DEF t
  <1>6. /\ stack' \in Seq(Frame)
        /\ Len(stack') = k + 1
        /\ \A i \in 1 .. k : stack'[i] = stack[i]
        /\ stack'[k + 1] = f
    BY <1>3, <1>4, <1>5
  <1>7. k + 1 = h
    BY <1>2 DEF k
  <1>8. h <= Height => h = Height /\ stack[h].at \in Plain
    BY <1>1, <1>2, TopFrame DEF Opens
  <1> QED
    BY <1>2, <1>6, <1>7, <1>8 DEF Height, k

(* The frame that is left was on top, and the heights below it keep their  *)
(* frames.                                                                 *)
LEMMA LeavesStack ==
  ASSUME TypeOK, NEW at, Leaves(at)
  PROVE  /\ Height \in Nat \ {0}
         /\ stack[Height].at = at
         /\ stack' \in Seq(Frame)
         /\ Height' = Height - 1
         /\ \A i \in 1 .. Height - 1 : stack'[i] = stack[i]
  <1>1. Height \in Nat \ {0} /\ Len(stack) = Height /\ stack \in Seq(Frame)
    BY DEF TypeOK, Height, Leaves
  <1> DEFINE k == Height - 1
  <1>2. k \in 0 .. Len(stack)
    BY <1>1
  <1>3. stack' = SubSeq(stack, 1, k)
    BY DEF Leaves, Popped
  <1> HIDE DEF k
  <1>4. stack' \in Seq(Frame) /\ Len(stack') = k /\ \A i \in 1 .. k : stack'[i] = stack[i]
    BY <1>1, <1>2, <1>3, Prefix
  <1>5. stack[Height].at = at
    BY <1>1, TopFrame DEF Leaves
  <1> QED
    BY <1>1, <1>4, <1>5 DEF Height, k

(* The next form of a body takes the place of the last: no height changes  *)
(* its kind.                                                               *)
LEMMA RepeatStack ==
  ASSUME TypeOK, Repeat
  PROVE  /\ stack' \in Seq(Frame)
         /\ Height' = Height
         /\ \A i \in 1 .. Height : stack'[i].at = stack[i].at
         /\ \A i \in 1 .. Height : stack[i].at = "loop_body" => stack'[i] = stack[i]
  <1>1. Height \in Nat \ {0} /\ Len(stack) = Height /\ stack \in Seq(Frame)
    BY DEF TypeOK, Height, Repeat
  <1>2. Waiting(At) \in Frame /\ Waiting(At).at = stack[Height].at
    BY <1>1, TopFrame, AtKnown DEF Waiting, Frame
  <1>3. stack[Height].at # "loop_body"
    BY <1>1, TopFrame DEF Repeat, ScopedBody, FunctionBody
  <1>4. /\ stack' \in Seq(Frame)
        /\ Len(stack') = Height
        /\ \A i \in 1 .. Height : stack'[i] = IF i = Height THEN Waiting(At) ELSE stack[i]
    BY <1>1, <1>2 DEF Repeat
  <1> QED
    BY <1>1, <1>2, <1>3, <1>4 DEF Height

(* What that does to the heights at which the forms of a kind wait.        *)
LEMMA OpensMarks ==
  ASSUME TypeOK, NEW S, S \intersect Plain = {},
         NEW h \in Nat, NEW f \in Frame, Opens(h, f)
  PROVE  /\ Heights(S)' = Heights(S) \union (IF f.at \in S THEN {h} ELSE {})
         /\ \A x \in Heights(S) : x < h
  <1>1. Height \in Nat
    BY AtKnown
  <1>2. \A i \in 1 .. Height : stack[i].at \in S => i < h
    BY <1>1, OpensStack
  <1>3. Heights(S)' = {i \in 1 .. h : stack'[i].at \in S}
    BY OpensStack DEF Heights
  <1> QED
    BY <1>1, <1>2, <1>3, OpensStack DEF Heights

(* Leaving takes the height of the frame off.                              *)
LEMMA LeavesMarks ==
  ASSUME TypeOK, NEW S, NEW at, Leaves(at)
  PROVE  /\ Heights(S)' = Heights(S) \ {Height}
         /\ Height \in Heights(S) <=> at \in S
         /\ \A x \in Heights(S) : x <= Height
  <1>1. Heights(S)' = {i \in 1 .. Height - 1 : stack'[i].at \in S}
    BY LeavesStack DEF Heights
  <1> QED
    BY <1>1, LeavesStack DEF Heights

(* Nothing moves when a body goes on.                                      *)
LEMMA RepeatMarks ==
  ASSUME TypeOK, NEW S, Repeat
  PROVE  Heights(S)' = Heights(S)
  BY RepeatStack DEF Heights

(* Nor when the stack stays.                                               *)
LEMMA SameMarks ==
  ASSUME NEW S, stack' = stack
  PROVE  Heights(S)' = Heights(S)
  BY DEF Heights, Height

(* The heights of the forms of a kind are finitely many.                   *)
LEMMA HeightsFinite ==
  ASSUME TypeOK, NEW S
  PROVE  /\ IsFiniteSet(Heights(S))
         /\ Cardinality(Heights(S)) \in Nat
         /\ Heights(S) \subseteq 1 .. Height
  <1>1. Height \in Nat /\ Heights(S) \subseteq 1 .. Height
    BY AtKnown DEF Heights
  <1>2. IsFiniteSet(1 .. Height)
    BY <1>1, FS_Interval
  <1> QED
    BY <1>1, <1>2, FS_Subset, FS_CardinalityType

-----------------------------------------------------------------------------
(* The bound of the model on handle bodies given up also counts those that *)
(* may still be.                                                           *)
HandlesBounded == abandoned + Cardinality(Heights({"handle_body"})) <= MaxAbandoned

(* The invariant the others rest on: types, top-level forms at the bottom, *)
(* and the handle bodies given up within their bound.                      *)
WellFormed == TypeOK /\ Placed /\ HandlesBounded

(* r is the innermost of the loops at the heights in L, 0 if there is none.*)
Latest(r, L) ==
    /\ r = 0 <=> L = {}
    /\ r # 0 => r \in L /\ \A h \in L : h <= r

(* The heights of the loop bodies being inferred.                          *)
Loops == Heights({"loop_body"})

(* What a loop body has put aside is the loop around it.                   *)
LoopsNested ==
    /\ Latest(recur_types, Loops)
    /\ \A h \in Loops : Latest(stack[h].saved, {i \in Loops : i < h})

(* The user knows of the errors that were raised or will be told: one of   *)
(* kind k is pending, recorded, told, or found the list full.              *)
Known(k) ==
    \/ ctl = k
    \/ Recorded(k)
    \/ Len(errors) = ERROR_LIMIT
    \/ verdict = "errors"

(* A deftype is only passed over by the language server, and where a       *)
(* verdict accepts a source, its list of errors is what it was then.       *)
ErrorsKnown ==
    /\ \A k \in raised \ {"deftype"} : Known(k)
    /\ "deftype" \in raised => driver = "lsp"
    /\ \A k \in ErrorKind : ctl = k \/ Recorded(k) => k \in raised
    /\ ctl = "done" /\ driver = "repl" => errors = <<>>
    /\ verdict = "ok" => ctl = "done" /\ ErrorNeverAccepted
    /\ ctl = "done" => verdict # "none"

(* Waiting frames are frames.                                              *)
LEMMA WaitingFrame ==
  ASSUME NEW at \in Position
  PROVE  Waiting(at) \in Frame /\ Waiting(at).at = at
  BY DEF Waiting, Frame

(* The positions that own scopes are positions, and not plain ones.        *)
LEMMA Kinds ==
  /\ FunctionBody \subseteq ScopedBody
  /\ ScopedBody \subseteq Position
  /\ Plain \subseteq Position
  /\ "loop_body" \in Position /\ "ensures" \in Plain
  /\ "handle_body" \in ScopedBody /\ "handle_body" \notin FunctionBody
  /\ "loop_body" \notin ScopedBody
  /\ ScopedBody \intersect Plain = {}
  /\ FunctionBody \intersect Plain = {}
  /\ {"loop_body"} \intersect Plain = {}
  /\ {"handle_body"} \intersect Plain = {}
  <1>1. /\ FunctionBody \subseteq ScopedBody
        /\ "handle_body" \in ScopedBody /\ "handle_body" \notin FunctionBody
        /\ "loop_body" \notin ScopedBody
    BY DEF ScopedBody, FunctionBody
  <1>2. ScopedBody \subseteq Position /\ "loop_body" \in Position /\ "ensures" \in Position
    BY DEF Position, ScopedBody, FunctionBody, Recovering, Propagating
  <1>3. "ensures" \notin ScopedBody
    BY DEF ScopedBody, FunctionBody
  <1> QED
    BY <1>1, <1>2, <1>3 DEF Plain

(* What one step does to the heights of a kind of forms that owns scopes.  *)
Opened(S, h) ==
    /\ h \in 1 .. MaxStack
    /\ Heights(S)' = Heights(S) \union {h}
    /\ \A x \in Heights(S) : x < h

Closed(S) ==
    /\ Height \in Heights(S)
    /\ Heights(S)' = Heights(S) \ {Height}
    /\ \A x \in Heights(S) : x <= Height

(* Opening a frame of the kind, or of another one.                         *)
LEMMA OpensKind ==
  ASSUME TypeOK, NEW S, S \intersect Plain = {},
         NEW h \in Nat, NEW f \in Frame, Opens(h, f)
  PROVE  IF f.at \in S THEN Opened(S, h) ELSE Heights(S)' = Heights(S)
  <1>1. h \in 1 .. MaxStack
    BY OpensStack, AtKnown, InferenceConstants
  <1>2. /\ Heights(S)' = Heights(S) \union (IF f.at \in S THEN {h} ELSE {})
        /\ \A x \in Heights(S) : x < h
    BY OpensMarks
  <1>3. CASE f.at \in S
    BY <1>1, <1>2, <1>3 DEF Opened
  <1>4. CASE f.at \notin S
    BY <1>2, <1>4
  <1> QED
    BY <1>3, <1>4

(* Leaving a frame of the kind, or of another one.                         *)
LEMMA LeavesKind ==
  ASSUME TypeOK, NEW S, NEW at, Leaves(at)
  PROVE  IF at \in S THEN Closed(S) ELSE Heights(S)' = Heights(S)
  BY LeavesMarks DEF Closed

(* Going on from the body of a defn to its postconditions leaves it, too.  *)
LEMMA EnsuresKind ==
  ASSUME TypeOK, NEW S, S \intersect Plain = {}, Height = 1, At = "defn_body",
         stack' = <<Waiting("ensures")>>
  PROVE  IF "defn_body" \in S THEN Closed(S) ELSE Heights(S)' = Heights(S)
  <1>1. stack[1].at = "defn_body"
    BY TopFrame
  <1>2. Len(stack') = 1 /\ stack'[1].at = "ensures"
    BY DEF Waiting
  <1>3. "ensures" \notin S
    BY Kinds
  <1>4. Heights(S)' = {}
    BY <1>2, <1>3 DEF Heights, Height
  <1>5. Heights(S) = IF "defn_body" \in S THEN {1} ELSE {}
    BY <1>1 DEF Heights
  <1> QED
    BY <1>4, <1>5 DEF Closed

(* The heights of the forms of a kind are one more, or one less.           *)
LEMMA KindCount ==
  ASSUME TypeOK, NEW S
  PROVE  /\ \A h : Opened(S, h) => Cardinality(Heights(S)') = Cardinality(Heights(S)) + 1
         /\ Closed(S) => Cardinality(Heights(S)') = Cardinality(Heights(S)) - 1
         /\ Heights(S)' = Heights(S) => Cardinality(Heights(S)') = Cardinality(Heights(S))
         /\ Closed(S) => Cardinality(Heights(S)) > 0
  <1>1. IsFiniteSet(Heights(S)) /\ Cardinality(Heights(S)) \in Nat /\ Heights(S) \subseteq Nat
    BY HeightsFinite, AtKnown
  <1>2. ASSUME NEW h, Opened(S, h)
        PROVE  Cardinality(Heights(S)') = Cardinality(Heights(S)) + 1
    <2>1. h \notin Heights(S)
      BY <1>1, <1>2 DEF Opened
    <2> QED
      BY <1>1, <1>2, <2>1, FS_AddElement DEF Opened
  <1>3. ASSUME Closed(S)
        PROVE  /\ Cardinality(Heights(S)') = Cardinality(Heights(S)) - 1
               /\ Cardinality(Heights(S)) > 0
    <2>1. Cardinality(Heights(S)) # 0
      BY <1>1, <1>3, FS_EmptySet DEF Closed
    <2>2. Cardinality(Heights(S) \ {Height}) = Cardinality(Heights(S)) - 1
      BY <1>1, <1>3, FS_RemoveElement DEF Closed
    <2> QED
      BY <1>1, <1>3, <2>1, <2>2 DEF Closed
  <1> QED
    BY <1>2, <1>3

(* A step that leaves the scoped fields alone leaves every kind of scoped  *)
(* forms where it was.                                                     *)
LEMMA QuietKinds ==
  ASSUME TypeOK, Keep \/ Open \/ Repeat \/ Close,
         NEW S, S \intersect Plain = {}
  PROVE  Heights(S)' = Heights(S) /\ UNCHANGED scopes
  <1>1. CASE Keep
    BY <1>1, SameMarks DEF Keep
  <1>2. CASE Open
    <2>1. PICK at \in Plain, h \in Nat : Opens(h, Waiting(at)) /\ UNCHANGED scopes
      BY <1>2 DEF Open
    <2>2. Waiting(at) \in Frame /\ Waiting(at).at \notin S
      BY WaitingFrame, Kinds
    <2> QED
      BY <2>1, <2>2, OpensKind
  <1>3. CASE Repeat
    BY <1>3, RepeatMarks DEF Repeat
  <1>4. CASE Close
    <2>1. PICK at \in Plain : Leaves(at) /\ UNCHANGED scopes
      BY <1>4 DEF Close
    <2>2. at \notin S
      OBVIOUS
    <2> QED
      BY <2>1, <2>2, LeavesKind
  <1> QED
    BY <1>1, <1>2, <1>3, <1>4

(* The frame of a loop opens at the height that becomes the innermost one. *)
LEMMA EnterLoopKinds ==
  ASSUME TypeOK, EnterLoop, NEW S, S \intersect Plain = {}
  PROVE  /\ UNCHANGED <<return_type_stack, effect_stack, abandoned>>
         /\ "loop_body" \in S => Opened(S, recur_types')
         /\ "loop_body" \notin S => Heights(S)' = Heights(S)
         /\ recur_types' \in Nat
  <1> DEFINE f == [at |-> "loop_body", saved |-> recur_types]
  <1>1. f \in Frame /\ f.at = "loop_body"
    BY Kinds DEF TypeOK, Frame
  <1>2. PICK h \in Nat : Opens(h, f) /\ recur_types' = h
    BY DEF EnterLoop
  <1> HIDE DEF f
  <1> QED
    BY <1>1, <1>2, OpensKind DEF EnterLoop

(* The body of a function begins at a height of its own.                   *)
LEMMA EnterBodyKinds ==
  ASSUME TypeOK, EnterBody, NEW S, S \intersect Plain = {},
         FunctionBody \subseteq S \/ FunctionBody \intersect S = {}
  PROVE  /\ UNCHANGED <<recur_types, abandoned>>
         /\ \E h \in Nat : /\ return_type_stack' = Append(return_type_stack, h)
                           /\ effect_stack' = Append(effect_stack, h)
                           /\ FunctionBody \subseteq S => Opened(S, h)
         /\ FunctionBody \intersect S = {} => Heights(S)' = Heights(S)
  <1>1. PICK at \in FunctionBody, h \in Nat :
             /\ Opens(h, Waiting(at))
             /\ return_type_stack' = Append(return_type_stack, h)
             /\ effect_stack' = Append(effect_stack, h)
    BY DEF EnterBody
  <1>2. Waiting(at) \in Frame /\ Waiting(at).at = at
    BY WaitingFrame, Kinds
  <1>3. IF at \in S THEN Opened(S, h) ELSE Heights(S)' = Heights(S)
    BY <1>1, <1>2, OpensKind
  <1> QED
    BY <1>1, <1>3 DEF EnterBody

(* The body of a function that ends is taken off its height.               *)
LEMMA LeaveBodyKinds ==
  ASSUME TypeOK, LeaveBody, NEW S, S \intersect Plain = {},
         FunctionBody \subseteq S \/ FunctionBody \intersect S = {}
  PROVE  /\ FunctionBody \subseteq S => Closed(S)
         /\ FunctionBody \intersect S = {} => Heights(S)' = Heights(S)
  <1>1. CASE \E at \in FunctionBody : Leaves(at)
    BY <1>1, LeavesKind
  <1>2. CASE Height = 1 /\ At = "defn_body" /\ stack' = <<Waiting("ensures")>>
    BY <1>2, EnsuresKind DEF FunctionBody
  <1> QED
    BY <1>1, <1>2 DEF LeaveBody

(* The body of a handle begins at a height of its own.                     *)
LEMMA EnterHandleKinds ==
  ASSUME TypeOK, EnterHandle, NEW S, S \intersect Plain = {}
  PROVE  /\ UNCHANGED <<recur_types, return_type_stack, abandoned>>
         /\ abandoned + Cardinality(Heights({"handle_body"})) < MaxAbandoned
         /\ \E h \in Nat : /\ effect_stack' = Append(effect_stack, h)
                           /\ "handle_body" \in S => Opened(S, h)
         /\ "handle_body" \notin S => Heights(S)' = Heights(S)
  <1>1. PICK h \in Nat : Opens(h, Waiting("handle_body")) /\ effect_stack' = Append(effect_stack, h)
    BY DEF EnterHandle
  <1>2. Waiting("handle_body") \in Frame /\ Waiting("handle_body").at = "handle_body"
    BY WaitingFrame, Kinds
  <1>3. IF "handle_body" \in S THEN Opened(S, h) ELSE Heights(S)' = Heights(S)
    BY <1>1, <1>2, OpensKind
  <1> QED
    BY <1>1, <1>3 DEF EnterHandle

(* Before the next source, no form of any kind is left.                    *)
LEMMA FreshKinds ==
  ASSUME Fresh, NEW S
  PROVE  Heights(S)' = {}
  BY DEF Fresh, Heights, Height

-----------------------------------------------------------------------------
(* What a step does to the functions being inferred and to the return types*)
LEMMA FunctionsStep ==
  ASSUME TypeOK, StackShape
  PROVE  \/ Heights(FunctionBody)' = Heights(FunctionBody) /\ UNCHANGED return_type_stack
         \/ \E h \in Nat : /\ Opened(FunctionBody, h)
                           /\ return_type_stack' = Append(return_type_stack, h)
         \/ Closed(FunctionBody) /\ return_type_stack' = Front(return_type_stack)
         \/ Heights(FunctionBody)' = {} /\ return_type_stack' = <<>>
  <1> USE Kinds
  <1>1. CASE Keep \/ Open \/ Repeat \/ Close
    BY <1>1, QuietKinds DEF scopes
  <1>2. CASE EnterLoop
    BY <1>2, EnterLoopKinds
  <1>3. CASE LeaveLoop
    BY <1>3, LeavesKind DEF LeaveLoop
  <1>4. CASE EnterBody
    BY <1>4, EnterBodyKinds
  <1>5. CASE LeaveBody
    BY <1>5, LeaveBodyKinds DEF LeaveBody
  <1>6. CASE EnterHandle
    BY <1>6, EnterHandleKinds
  <1>7. CASE LeaveHandle
    BY <1>7, LeavesKind DEF LeaveHandle
  <1>8. CASE Fresh
    BY <1>8, FreshKinds DEF Fresh
  <1> QED
    BY <1>1, <1>2, <1>3, <1>4, <1>5, <1>6, <1>7, <1>8 DEF StackShape

(* ... to the bodies that own an effect scope, and to the scopes ...       *)
LEMMA ScopesStep ==
  ASSUME TypeOK, StackShape
  PROVE  \/ Heights(ScopedBody)' = Heights(ScopedBody) /\ UNCHANGED <<effect_stack, abandoned>>
         \/ /\ \E h \in Nat : /\ Opened(ScopedBody, h)
                              /\ effect_stack' = Append(effect_stack, h)
            /\ UNCHANGED abandoned
         \/ /\ Closed(ScopedBody)
            /\ \/ effect_stack' = pop_scope(effect_stack) /\ abandoned' = abandoned
               \/ effect_stack' = effect_stack /\ abandoned' = abandoned + 1
         \/ Heights(ScopedBody)' = {} /\ effect_stack' = <<>> /\ abandoned' = 0
  <1> USE Kinds
  <1>1. CASE Keep \/ Open \/ Repeat \/ Close
    BY <1>1, QuietKinds DEF scopes
  <1>2. CASE EnterLoop
    BY <1>2, EnterLoopKinds
  <1>3. CASE LeaveLoop
    BY <1>3, LeavesKind DEF LeaveLoop
  <1>4. CASE EnterBody
    BY <1>4, EnterBodyKinds
  <1>5. CASE LeaveBody
    BY <1>5, LeaveBodyKinds DEF LeaveBody
  <1>6. CASE EnterHandle
    BY <1>6, EnterHandleKinds
  <1>7. CASE LeaveHandle
    BY <1>7, LeavesKind DEF LeaveHandle
  <1>8. CASE Fresh
    BY <1>8, FreshKinds DEF Fresh
  <1> QED
    BY <1>1, <1>2, <1>3, <1>4, <1>5, <1>6, <1>7, <1>8 DEF StackShape

(* ... and to the handle bodies among them.                                *)
LEMMA HandlesStep ==
  ASSUME TypeOK, StackShape
  PROVE  LET H == {"handle_body"} IN
         \/ Heights(H)' = Heights(H) /\ UNCHANGED abandoned
         \/ /\ \E h \in Nat : Opened(H, h)
            /\ abandoned + Cardinality(Heights(H)) < MaxAbandoned
            /\ UNCHANGED abandoned
         \/ Closed(H) /\ abandoned' \in {abandoned, abandoned + 1}
         \/ Heights(H)' = {} /\ abandoned' = 0
  <1> DEFINE H == {"handle_body"}
  <1>0. /\ H \intersect Plain = {} /\ FunctionBody \intersect H = {}
        /\ "handle_body" \in H /\ "loop_body" \notin H
    BY Kinds
  <1> HIDE DEF H
  <1>1. CASE Keep \/ Open \/ Repeat \/ Close
    BY <1>0, <1>1, QuietKinds DEF scopes, H
  <1>2. CASE EnterLoop
    BY <1>0, <1>2, EnterLoopKinds DEF H
  <1>3. CASE LeaveLoop
    BY <1>0, <1>3, LeavesKind DEF LeaveLoop, H
  <1>4. CASE EnterBody
    BY <1>0, <1>4, EnterBodyKinds DEF H
  <1>5. CASE LeaveBody
    BY <1>0, <1>5, LeaveBodyKinds DEF LeaveBody, H
  <1>6. CASE EnterHandle
    BY <1>0, <1>6, EnterHandleKinds DEF H
  <1>7. CASE LeaveHandle
    BY <1>0, <1>7, LeavesKind DEF LeaveHandle, H
  <1>8. CASE Fresh
    BY <1>8, FreshKinds DEF Fresh, H
  <1> QED
    BY <1>1, <1>2, <1>3, <1>4, <1>5, <1>6, <1>7, <1>8 DEF StackShape, H

-----------------------------------------------------------------------------
(* The stack stays a stack of frames within its bound.                     *)
LEMMA StackTyped ==
  ASSUME TypeOK, StackShape
  PROVE  stack' \in Seq(Frame) /\ Height' <= MaxStack
  <1>1. stack \in Seq(Frame) /\ Height \in Nat /\ Height <= MaxStack
    BY AtKnown DEF TypeOK
  <1>2. CASE stack' = stack
    BY <1>1, <1>2 DEF Height
  <1>3. ASSUME NEW h \in Nat, NEW f \in Frame, Opens(h, f)
        PROVE  stack' \in Seq(Frame) /\ Height' <= MaxStack
    BY <1>3, OpensStack
  <1>4. ASSUME NEW at, Leaves(at)
        PROVE  stack' \in Seq(Frame) /\ Height' <= MaxStack
    BY <1>1, <1>4, LeavesStack, InferenceConstants
  <1>5. CASE Repeat
    BY <1>1, <1>5, RepeatStack
  <1>6. CASE Height = 1 /\ stack' = <<Waiting("ensures")>>
    BY <1>1, <1>6, WaitingFrame, Kinds DEF Height
  <1>7. [at |-> "loop_body", saved |-> recur_types] \in Frame
    BY Kinds DEF Frame, TypeOK
  <1>8. \A at \in Plain \union ScopedBody : Waiting(at) \in Frame
    BY WaitingFrame, Kinds
  <1>9. CASE Open \/ Close \/ EnterLoop \/ LeaveLoop
    BY <1>3, <1>4, <1>7, <1>8, <1>9 DEF Open, Close, EnterLoop, LeaveLoop
  <1>10. CASE EnterBody \/ LeaveBody \/ EnterHandle \/ LeaveHandle
    BY <1>3, <1>4, <1>6, <1>8, <1>10, Kinds DEF EnterBody, LeaveBody, EnterHandle, LeaveHandle
  <1>11. CASE Keep \/ Fresh
    BY <1>2, <1>11 DEF Keep, Fresh
  <1> QED
    BY <1>5, <1>9, <1>10, <1>11 DEF StackShape

(* The scoped fields keep their types.                                     *)
LEMMA ScopesTyped ==
  ASSUME TypeOK, StackShape
  PROVE  recur_types' \in Nat /\ return_type_stack' \in Seq(Nat) /\ effect_stack' \in Seq(Nat)
  <1>1. /\ recur_types \in Nat
        /\ return_type_stack \in Seq(Nat)
        /\ effect_stack \in Seq(Nat)
    BY DEF TypeOK
  <1>2. /\ \A s \in Seq(Nat) : Front(s) \in Seq(Nat) /\ pop_scope(s) \in Seq(Nat)
        /\ \A s \in Seq(Nat), h \in Nat : Append(s, h) \in Seq(Nat)
        /\ <<>> \in Seq(Nat)
    BY DEF Front, pop_scope
  <1>3. return_type_stack' \in Seq(Nat)
    BY <1>1, <1>2, FunctionsStep
  <1>4. effect_stack' \in Seq(Nat)
    BY <1>1, <1>2, ScopesStep
  <1>5. recur_types' \in Nat
    <2>1. CASE LeaveLoop
      BY <2>1, TopFrame DEF LeaveLoop, Leaves, Frame
    <2>2. CASE EnterLoop
      BY <2>2 DEF EnterLoop
    <2>3. CASE EnterBody \/ LeaveBody \/ EnterHandle \/ LeaveHandle \/ Fresh
      BY <1>1, <2>3 DEF EnterBody, LeaveBody, EnterHandle, LeaveHandle, Fresh
    <2>4. CASE Keep \/ Open \/ Repeat \/ Close
      BY <1>1, <2>4 DEF Keep, Open, Repeat, Close, scopes
    <2> QED
      BY <2>1, <2>2, <2>3, <2>4 DEF StackShape
  <1> QED
    BY <1>3, <1>4, <1>5

(* The bound on handle bodies given up, in its inductive form.             *)
LEMMA HandlesKept ==
  ASSUME TypeOK, HandlesBounded, StackShape
  PROVE  HandlesBounded' /\ abandoned' \in 0 .. MaxAbandoned
  <1> DEFINE H == {"handle_body"}
             c == Cardinality(Heights(H))
  <1>1. abandoned \in Nat /\ abandoned + c <= MaxAbandoned /\ c \in Nat
    BY HeightsFinite DEF TypeOK, HandlesBounded
  <1>2. MaxAbandoned \in Nat
    BY InferenceConstants
  <1>3. CASE Heights(H)' = Heights(H) /\ UNCHANGED abandoned
    BY <1>1, <1>2, <1>3, KindCount DEF HandlesBounded
  <1>4. CASE /\ \E h \in Nat : Opened(H, h)
             /\ abandoned + c < MaxAbandoned
             /\ UNCHANGED abandoned
    <2>1. Cardinality(Heights(H)') = c + 1
      BY <1>4, KindCount
    <2> QED
      BY <1>1, <1>2, <1>4, <2>1 DEF HandlesBounded
  <1>5. CASE Closed(H) /\ abandoned' \in {abandoned, abandoned + 1}
    <2>1. Cardinality(Heights(H)') = c - 1 /\ c > 0
      BY <1>5, KindCount
    <2> QED
      BY <1>1, <1>2, <1>5, <2>1 DEF HandlesBounded
  <1>6. CASE Heights(H)' = {} /\ abandoned' = 0
    <2>1. Cardinality(Heights(H)') = 0
      BY <1>6, FS_EmptySet
    <2> QED
      BY <1>2, <1>6, <2>1 DEF HandlesBounded
  <1> QED
    BY <1>3, <1>4, <1>5, <1>6, HandlesStep

(* The fields of the engine and the driver keep their types.               *)
LEMMA ControlTyped ==
  ASSUME TypeOK, ControlShape
  PROVE  /\ ctl' \in {"top", "form", "type", "done"} \union ErrorKind
         /\ errors' \in Seq(ErrorKind) /\ Len(errors') <= ERROR_LIMIT
         /\ driver' \in {"check", "repl", "lsp"}
         /\ verdict' \in {"none", "ok", "errors"}
         /\ raised' \subseteq Fault
  <1>1. /\ ctl \in {"top", "form", "type", "done"} \union ErrorKind
        /\ errors \in Seq(ErrorKind) /\ Len(errors) <= ERROR_LIMIT
        /\ verdict \in {"none", "ok", "errors"}
        /\ raised \subseteq Fault
        /\ driver' \in {"check", "repl", "lsp"}
    BY DEF TypeOK, ControlShape
  <1>2. \A k \in ErrorKind : /\ push_error(errors, k) \in Seq(ErrorKind)
                              /\ Len(push_error(errors, k)) <= ERROR_LIMIT
    BY <1>1, InferenceConstants DEF push_error
  <1>3. CASE Calm
    BY <1>1, <1>3 DEF Calm, Working
  <1>4. CASE Raise
    BY <1>1, <1>4 DEF Raise, Raising, Fault
  <1>8. CASE HandOn \/ Stutter
    BY <1>1, <1>8 DEF HandOn, Stutter
  <1>5. CASE RecoverError
    BY <1>1, <1>2, <1>5 DEF RecoverError, InError
  <1>9. CASE FormInError
    BY <1>1, <1>2, <1>9 DEF FormInError, InError
  <1>6. CASE EndOfSource \/ NextSource
    <2>1. errors' = errors \/ errors' = <<>>
      BY <1>6 DEF EndOfSource, NextSource
    <2>2. errors' \in Seq(ErrorKind) /\ Len(errors') <= ERROR_LIMIT
      <3>1. CASE errors' = errors
        BY <1>1, <3>1
      <3>2. CASE errors' = <<>>
        BY <3>2, InferenceConstants
      <3> QED
        BY <2>1, <3>1, <3>2
    <2>3. CASE EndOfSource
      BY <1>1, <2>2, <2>3 DEF EndOfSource
    <2>4. CASE NextSource
      BY <1>1, <2>2, <2>4 DEF NextSource
    <2> QED
      BY <1>6, <2>3, <2>4
  <1>7. CASE RegisterDeftype
    BY <1>1, <1>7 DEF RegisterDeftype, Fault
  <1> QED
    BY <1>1, <1>3, <1>4, <1>5, <1>6, <1>7, <1>8, <1>9 DEF ControlShape

(* Top-level forms stay at the bottom.                                     *)
LEMMA PlacedKept ==
  ASSUME TypeOK, Placed, StackShape, ControlShape
  PROVE  Placed'
  <1> DEFINE P(s) == \A i \in 1 .. Len(s) : s[i].at \in TopForms => i = 1
  <1>0. P(stack) /\ Height \in Nat
    BY AtKnown DEF Placed, Height
  <1>1. ASSUME stack' = stack PROVE P(stack')
    BY <1>0, <1>1
  <1>2. ASSUME NEW h \in Nat, NEW f \in Frame, Opens(h, f)
        PROVE  P(stack')
    <2>1. f.at \in TopForms => h = 1
      BY <1>2 DEF Opens
    <2> QED
      BY <1>0, <1>2, <2>1, OpensStack DEF Height
  <1>3. ASSUME NEW at, Leaves(at)
        PROVE  P(stack')
    BY <1>0, <1>3, LeavesStack DEF Height
  <1>4. ASSUME Repeat PROVE P(stack')
    BY <1>0, <1>4, RepeatStack DEF Height
  <1>5. ASSUME stack' = <<Waiting("ensures")>> PROVE P(stack')
    BY <1>5
  <1>6. [at |-> "loop_body", saved |-> recur_types] \in Frame
    BY Kinds DEF Frame, TypeOK
  <1>7. \A at \in Plain \union ScopedBody : Waiting(at) \in Frame
    BY WaitingFrame, Kinds
  <1> HIDE DEF P
  <1>8. ASSUME Open \/ Close \/ EnterLoop \/ LeaveLoop
        PROVE  P(stack')
    BY <1>2, <1>3, <1>6, <1>7, <1>8 DEF Open, Close, EnterLoop, LeaveLoop
  <1>9. ASSUME EnterBody \/ LeaveBody \/ EnterHandle \/ LeaveHandle
        PROVE  P(stack')
    BY <1>2, <1>3, <1>5, <1>7, <1>9, Kinds DEF EnterBody, LeaveBody, EnterHandle, LeaveHandle
  <1>10. ASSUME Keep \/ Fresh
        PROVE  P(stack')
    BY <1>1, <1>10 DEF Keep, Fresh
  <1>11. P(stack')
    BY <1>4, <1>8, <1>9, <1>10 DEF StackShape
  <1>12. ctl' \in {"top", "done"} => stack' = <<>>
    <2>1. ASSUME Calm \/ Raise \/ HandOn \/ Stutter, ctl' \in {"top", "done"}
          PROVE  stack' = <<>>
      BY <2>1, KindsApart DEF Calm, Raise, Raising, HandOn, InError, Stutter, Placed, Working
    <2>2. ASSUME RecoverError \/ FormInError, ctl' \in {"top", "done"}
          PROVE  stack' = <<>>
      BY <2>2, AtKnown DEF RecoverError, FormInError
    <2>3. ASSUME EndOfSource \/ NextSource \/ RegisterDeftype
          PROVE  stack' = <<>>
      BY <2>3 DEF EndOfSource, NextSource, RegisterDeftype, AtTopLevel, Placed
    <2> QED
      BY <2>1, <2>2, <2>3 DEF ControlShape
  <1> QED
    BY <1>11, <1>12 DEF Placed, P, Height

(* The inductive invariant the others rest on.                             *)
LEMMA WellFormedInv == Spec => []WellFormed
  <1>1. Init => WellFormed
    <2> SUFFICES ASSUME Init
                 PROVE  WellFormed
      OBVIOUS
    <2>1. stack = <<>> /\ Height = 0
      BY DEF Init, Height
    <2>2. Heights({"handle_body"}) = {}
      BY <2>1 DEF Heights
    <2>3. HandlesBounded
      BY <2>2, FS_EmptySet, InferenceConstants DEF Init, HandlesBounded
    <2>4. Placed
      BY <2>1 DEF Placed
    <2>5. stack \in Seq(Frame) /\ return_type_stack \in Seq(Nat) /\ effect_stack \in Seq(Nat)
      BY <2>1 DEF Init
    <2>6. Len(errors) <= ERROR_LIMIT /\ abandoned \in 0 .. MaxAbandoned /\ Height <= MaxStack
      BY <2>1, InferenceConstants DEF Init
    <2>7. TypeOK
      BY <2>5, <2>6 DEF Init, TypeOK, Fault
    <2> QED
      BY <2>3, <2>4, <2>7 DEF WellFormed
  <1>2. WellFormed /\ [Next]_vars => WellFormed'
    <2> SUFFICES ASSUME WellFormed, [Next]_vars
                 PROVE  WellFormed'
      OBVIOUS
    <2>1. TypeOK /\ Placed /\ HandlesBounded /\ StackShape /\ ControlShape
      BY StepShape DEF WellFormed
    <2>2. TypeOK'
      BY <2>1, StackTyped, ScopesTyped, HandlesKept, ControlTyped DEF TypeOK
    <2> QED
      BY <2>1, <2>2, HandlesKept, PlacedKept DEF WellFormed
  <1> QED
    BY <1>1, <1>2, PTL DEF Spec

(* The engine's state keeps its types, the stack, the errors and the given *)
(* up handle bodies their bounds.                                          *)
THEOREM TypeCorrect == Spec => []TypeOK
  BY WellFormedInv, PTL DEF WellFormed

-----------------------------------------------------------------------------
(* recur.                                                                  *)

(* A frame of a loop that a step leaves on the stack keeps what it saved.  *)
LEMMA SavedKept ==
  ASSUME TypeOK, StackShape, NEW h \in Heights({"loop_body"}), h \in Heights({"loop_body"})'
  PROVE  stack'[h] = stack[h]
  <1> DEFINE L == {"loop_body"}
  <1>0. h \in 1 .. Height /\ h \in 1 .. Height' /\ Height \in Nat /\ L \intersect Plain = {}
    BY AtKnown, Kinds DEF Heights
  <1>1. ASSUME NEW k \in Nat, NEW f \in Frame, Opens(k, f)
        PROVE  stack'[h] = stack[h]
    <2>1. h < k
      BY <1>0, <1>1, OpensMarks
    <2>2. \A i \in 1 .. k - 1 : stack'[i] = stack[i]
      BY <1>1, OpensStack
    <2> QED
      BY <1>0, <2>1, <2>2
  <1>2. ASSUME NEW at, Leaves(at)
        PROVE  stack'[h] = stack[h]
    BY <1>0, <1>2, LeavesStack
  <1>3. CASE Repeat
    BY <1>0, <1>3, RepeatStack DEF Heights
  <1>4. CASE Height = 1 /\ At = "defn_body" /\ stack' = <<Waiting("ensures")>>
    BY <1>0, <1>4, TopFrame DEF Heights
  <1>5. [at |-> "loop_body", saved |-> recur_types] \in Frame
    BY Kinds DEF Frame, TypeOK
  <1>6. \A at \in Plain \union ScopedBody : Waiting(at) \in Frame
    BY WaitingFrame, Kinds
  <1>7. CASE Open \/ Close \/ EnterLoop \/ LeaveLoop
    BY <1>1, <1>2, <1>5, <1>6, <1>7 DEF Open, Close, EnterLoop, LeaveLoop
  <1>8. CASE EnterBody \/ LeaveBody \/ EnterHandle \/ LeaveHandle
    BY <1>1, <1>2, <1>4, <1>6, <1>8, Kinds DEF EnterBody, LeaveBody, EnterHandle, LeaveHandle
  <1>9. CASE Keep \/ Fresh
    BY <1>9 DEF Keep, Fresh
  <1> QED
    BY <1>3, <1>7, <1>8, <1>9 DEF StackShape

(* What a step does to the loops and to recur_types.                       *)
LEMMA LoopsStep ==
  ASSUME TypeOK, StackShape
  PROVE  \/ Loops' = Loops /\ UNCHANGED recur_types
         \/ Opened({"loop_body"}, recur_types') /\ stack'[recur_types'].saved = recur_types
         \/ Closed({"loop_body"}) /\ recur_types' = stack[Height].saved
         \/ Loops' = {} /\ recur_types' = 0
  <1> DEFINE L == {"loop_body"}
  <1>0. /\ L \intersect Plain = {} /\ FunctionBody \intersect L = {}
        /\ "loop_body" \in L /\ "handle_body" \notin L
    BY Kinds
  <1> HIDE DEF L
  <1>1. CASE Keep \/ Open \/ Repeat \/ Close
    BY <1>0, <1>1, QuietKinds DEF scopes, L, Loops
  <1>2. CASE EnterLoop
    <2> DEFINE f == [at |-> "loop_body", saved |-> recur_types]
    <2>1. f \in Frame /\ f.saved = recur_types
      BY Kinds DEF Frame, TypeOK
    <2>2. PICK h \in Nat : Opens(h, f) /\ recur_types' = h
      BY <1>2 DEF EnterLoop
    <2> HIDE DEF f
    <2>3. stack'[recur_types'].saved = recur_types
      BY <2>1, <2>2, OpensStack
    <2> QED
      BY <1>0, <1>2, <2>3, EnterLoopKinds DEF L
  <1>3. CASE LeaveLoop
    BY <1>0, <1>3, LeavesKind DEF LeaveLoop, L
  <1>4. CASE EnterBody
    BY <1>0, <1>4, EnterBodyKinds DEF L, Loops
  <1>5. CASE LeaveBody
    BY <1>0, <1>5, LeaveBodyKinds DEF LeaveBody, L, Loops
  <1>6. CASE EnterHandle
    BY <1>0, <1>6, EnterHandleKinds DEF L, Loops
  <1>7. CASE LeaveHandle
    BY <1>0, <1>7, LeavesKind DEF LeaveHandle, L, Loops
  <1>8. CASE Fresh
    BY <1>8, FreshKinds DEF Fresh, L, Loops
  <1> QED
    BY <1>1, <1>2, <1>3, <1>4, <1>5, <1>6, <1>7, <1>8 DEF StackShape, L

(* Loops stay nested: what a loop body has put aside is what it restores.  *)
LEMMA LoopsNestedKept ==
  ASSUME TypeOK, LoopsNested, StackShape
  PROVE  LoopsNested'
  <1>0. Loops \subseteq Nat \ {0} /\ recur_types \in Nat
    BY HeightsFinite, AtKnown DEF Loops, TypeOK
  <1>1. \A h \in Loops : h \in Loops' => stack'[h] = stack[h]
    BY SavedKept DEF Loops
  <1>2. CASE Loops' = Loops /\ UNCHANGED recur_types
    BY <1>1, <1>2 DEF LoopsNested, Latest
  <1>3. CASE Opened({"loop_body"}, recur_types') /\ stack'[recur_types'].saved = recur_types
    <2> DEFINE r == recur_types'
    <2>1. r \in Nat \ {0} /\ Loops' = Loops \union {r} /\ \A x \in Loops : x < r
      BY <1>3, InferenceConstants DEF Opened, Loops
    <2>2. Latest(r, Loops')
      BY <1>0, <2>1 DEF Latest
    <2>3. ASSUME NEW h \in Loops
          PROVE  Latest(stack'[h].saved, {i \in Loops' : i < h})
      <3>1. {i \in Loops' : i < h} = {i \in Loops : i < h}
        BY <1>0, <2>1
      <3> QED
        BY <1>1, <2>1, <3>1 DEF LoopsNested
    <2>4. Latest(stack'[r].saved, {i \in Loops' : i < r})
      <3>1. {i \in Loops' : i < r} = Loops
        <4>1. \A i \in Loops' : i < r <=> i \in Loops
          BY <1>0, <2>1
        <4> QED
          BY <2>1, <4>1
      <3> QED
        BY <1>3, <3>1 DEF LoopsNested
    <2> QED
      BY <2>1, <2>2, <2>3, <2>4 DEF LoopsNested, Latest
  <1>4. CASE Closed({"loop_body"}) /\ recur_types' = stack[Height].saved
    <2>1. Height \in Loops /\ Loops' = Loops \ {Height} /\ \A x \in Loops : x <= Height
      BY <1>4 DEF Closed, Loops
    <2>2. Latest(recur_types', Loops')
      <3>1. {i \in Loops : i < Height} = Loops'
        <4>1. \A i \in Loops : i < Height <=> i \in Loops'
          BY <1>0, <2>1
        <4> QED
          BY <2>1, <4>1
      <3> QED
        BY <1>4, <2>1, <3>1 DEF LoopsNested
    <2>3. ASSUME NEW h \in Loops'
          PROVE  Latest(stack'[h].saved, {i \in Loops' : i < h})
      <3>1. {i \in Loops' : i < h} = {i \in Loops : i < h}
        BY <1>0, <2>1
      <3> QED
        BY <1>1, <2>1, <3>1 DEF LoopsNested
    <2> QED
      BY <2>2, <2>3 DEF LoopsNested, Latest
  <1>5. CASE Loops' = {} /\ recur_types' = 0
    BY <1>5 DEF LoopsNested, Latest
  <1> QED
    BY <1>2, <1>3, <1>4, <1>5, LoopsStep

-----------------------------------------------------------------------------
(* The two stacks of scopes.                                               *)

(* Pushing the height of a body that has just begun.                       *)
LEMMA ListsPush ==
  ASSUME NEW s \in Seq(Nat), NEW S, Lists(s, S), NEW h \in Nat, \A x \in S : x < h
  PROVE  Lists(Append(s, h), S \union {h})
  <1> DEFINE t == Append(s, h)
  <1>1. /\ Len(s) \in Nat
        /\ Len(t) = Len(s) + 1
        /\ \A i \in 1 .. Len(s) : t[i] = s[i] /\ s[i] \in S /\ s[i] \in Nat
        /\ t[Len(s) + 1] = h
    BY DEF Lists
  <1> HIDE DEF t
  <1>2. {t[i] : i \in 1 .. Len(t)} = {s[i] : i \in 1 .. Len(s)} \union {h}
    BY <1>1
  <1>3. \A i, j \in 1 .. Len(t) : i < j => t[i] < t[j]
    <2>1. SUFFICES ASSUME NEW i \in 1 .. Len(t), NEW j \in 1 .. Len(t), i < j
                   PROVE  t[i] < t[j]
      OBVIOUS
    <2>2. i \in 1 .. Len(s) /\ (j \in 1 .. Len(s) \/ j = Len(s) + 1)
      BY <1>1, <2>1
    <2> QED
      BY <1>1, <2>1, <2>2 DEF Lists
  <1> QED
    BY <1>2, <1>3 DEF Lists, t

(* Popping the height of the innermost body.                               *)
LEMMA ListsPop ==
  ASSUME NEW s \in Seq(Nat), NEW S, Lists(s, S), NEW h \in S, \A x \in S : x <= h
  PROVE  s # <<>> /\ Lists(Front(s), S \ {h})
  <1> DEFINE n == Len(s)
             k == n - 1
             t == SubSeq(s, 1, k)
  <1>1. n \in Nat /\ \A i \in 1 .. n : s[i] \in S /\ s[i] \in Nat
    BY DEF Lists
  <1>2. PICK m \in 1 .. n : s[m] = h
    BY DEF Lists
  <1>3. m = n
    <2>1. SUFFICES ASSUME m < n
                   PROVE  FALSE
      BY <1>1, <1>2
    <2>2. n \in 1 .. n
      BY <1>1, <1>2
    <2>3. \A i, j \in 1 .. n : i < j => s[i] < s[j]
      BY DEF Lists
    <2>4. s[m] < s[n] /\ s[n] <= h
      BY <1>1, <1>2, <2>1, <2>2, <2>3
    <2> QED
      BY <1>1, <1>2, <2>2, <2>4
  <1>4. k \in 0 .. Len(s) /\ k + 1 = n /\ Len(s) = n
    BY <1>1, <1>2
  <1> HIDE DEF k, n
  <1>5. Len(t) = k /\ \A i \in 1 .. k : t[i] = s[i]
    BY <1>4, Prefix
  <1> HIDE DEF t
  <1>6. \A i, j \in 1 .. Len(t) : i < j => t[i] < t[j]
    BY <1>4, <1>5 DEF Lists
  <1>7. \A i \in 1 .. k : s[i] \in S \ {h}
    BY <1>1, <1>2, <1>3, <1>4 DEF Lists
  <1>8. \A x \in S \ {h} : \E i \in 1 .. k : s[i] = x
    <2>1. SUFFICES ASSUME NEW x \in S \ {h}
                   PROVE  \E i \in 1 .. k : s[i] = x
      OBVIOUS
    <2>2. PICK i \in 1 .. n : s[i] = x
      BY <1>4 DEF Lists
    <2>3. i # n
      BY <1>2, <1>3, <2>2
    <2> QED
      BY <1>1, <1>4, <2>2, <2>3
  <1>9. {t[i] : i \in 1 .. Len(t)} = S \ {h}
    <2>1. \A i \in 1 .. Len(t) : t[i] \in S \ {h}
      BY <1>5, <1>7
    <2>2. \A x \in S \ {h} : \E i \in 1 .. Len(t) : t[i] = x
      BY <1>5, <1>8
    <2> QED
      BY <2>1, <2>2
  <1>10. s # <<>> /\ Front(s) = t
    BY <1>1, <1>2 DEF Front, t, k, n
  <1> QED
    BY <1>6, <1>9, <1>10 DEF Lists

(* An empty stack of scopes lists no body.                                 *)
LEMMA ListsEmpty == Lists(<<>>, {})
  BY DEF Lists

(* The return types keep naming the functions whose bodies are inferred.   *)
LEMMA ReturnTypesKept ==
  ASSUME TypeOK, ReturnTypesFollowFunctions, StackShape
  PROVE  ReturnTypesFollowFunctions'
  <1>0. return_type_stack \in Seq(Nat) /\ Lists(return_type_stack, Heights(FunctionBody))
    BY DEF TypeOK, ReturnTypesFollowFunctions
  <1>1. CASE Heights(FunctionBody)' = Heights(FunctionBody) /\ UNCHANGED return_type_stack
    BY <1>0, <1>1 DEF ReturnTypesFollowFunctions, Lists
  <1>2. CASE \E h \in Nat : /\ Opened(FunctionBody, h)
                            /\ return_type_stack' = Append(return_type_stack, h)
    <2>1. PICK h \in Nat : /\ Opened(FunctionBody, h)
                           /\ return_type_stack' = Append(return_type_stack, h)
      BY <1>2
    <2>2. Lists(return_type_stack', Heights(FunctionBody)')
      BY <1>0, <2>1, ListsPush DEF Opened
    <2> QED
      BY <2>2 DEF ReturnTypesFollowFunctions, Lists
  <1>3. CASE Closed(FunctionBody) /\ return_type_stack' = Front(return_type_stack)
    <2>1. Lists(return_type_stack', Heights(FunctionBody)')
      BY <1>0, <1>3, ListsPop DEF Closed
    <2> QED
      BY <2>1 DEF ReturnTypesFollowFunctions, Lists
  <1>4. CASE Heights(FunctionBody)' = {} /\ return_type_stack' = <<>>
    BY <1>4, ListsEmpty DEF ReturnTypesFollowFunctions, Lists
  <1> QED
    BY <1>1, <1>2, <1>3, <1>4, FunctionsStep

(* recur is checked against the innermost loop, and `?' against the        *)
(* function it is written in, also after errors inside of them: both       *)
(* fields of InferState follow the forms being inferred.                   *)
THEOREM ContextFollows == Spec => []ContextFollowsForms
  <1> DEFINE Inv == LoopsNested /\ ReturnTypesFollowFunctions
  <1>1. Init => Inv
    <2> SUFFICES ASSUME Init
                 PROVE  Inv
      OBVIOUS
    <2>1. stack = <<>> /\ recur_types = 0 /\ return_type_stack = <<>>
      BY DEF Init
    <2>2. \A S : Heights(S) = {}
      BY <2>1 DEF Heights, Height
    <2> QED
      BY <2>1, <2>2, ListsEmpty DEF LoopsNested, Latest, Loops, ReturnTypesFollowFunctions
  <1>2. WellFormed /\ Inv /\ [Next]_vars => Inv'
    BY StepShape, LoopsNestedKept, ReturnTypesKept DEF WellFormed
  <1>3. Inv => ContextFollowsForms
    BY DEF LoopsNested, Latest, Loops, ContextFollowsForms, RecurTypesFollowLoops
  <1> QED
    BY <1>1, <1>2, <1>3, WellFormedInv, PTL DEF Spec

(* Effect scopes stay accounted for: one per body being inferred and one   *)
(* per handle body given up, and until then in the order of the bodies.    *)
LEMMA EffectScopesKept ==
  ASSUME TypeOK, EffectScopesAccounted, StackShape
  PROVE  EffectScopesAccounted'
  <1> DEFINE B == Heights(ScopedBody)
             c == Cardinality(B)
  <1>0. /\ effect_stack \in Seq(Nat)
        /\ abandoned \in Nat
        /\ c \in Nat
        /\ Len(effect_stack) = c + abandoned
        /\ abandoned = 0 => Lists(effect_stack, B)
    BY HeightsFinite DEF TypeOK, EffectScopesAccounted
  <1>1. CASE B' = B /\ UNCHANGED <<effect_stack, abandoned>>
    BY <1>0, <1>1 DEF EffectScopesAccounted, Lists
  <1>2. CASE /\ \E h \in Nat : /\ Opened(ScopedBody, h)
                               /\ effect_stack' = Append(effect_stack, h)
             /\ UNCHANGED abandoned
    <2>1. PICK h \in Nat : Opened(ScopedBody, h) /\ effect_stack' = Append(effect_stack, h)
      BY <1>2
    <2>2. Len(effect_stack') = Cardinality(B') + abandoned'
      <3>1. Cardinality(B') = c + 1
        BY <2>1, KindCount
      <3>2. Len(effect_stack') = Len(effect_stack) + 1
        BY <1>0, <2>1
      <3> QED
        BY <1>0, <1>2, <3>1, <3>2
    <2>3. abandoned' = 0 => Lists(effect_stack', B')
      BY <1>0, <1>2, <2>1, ListsPush DEF Opened
    <2> QED
      BY <2>2, <2>3 DEF EffectScopesAccounted, Lists
  <1>3. ASSUME Closed(ScopedBody), effect_stack' = pop_scope(effect_stack), abandoned' = abandoned
        PROVE  EffectScopesAccounted'
    <2>1. effect_stack # <<>> /\ Cardinality(B') = c - 1 /\ c > 0
      BY <1>0, <1>3, KindCount
    <2>2. effect_stack' = Front(effect_stack)
      BY <1>3, <2>1 DEF pop_scope
    <2>3. Len(effect_stack') = Cardinality(B') + abandoned'
      BY <1>0, <1>3, <2>1, <2>2 DEF Front
    <2>4. abandoned' = 0 => Lists(effect_stack', B')
      BY <1>0, <1>3, <2>2, ListsPop DEF Closed
    <2> QED
      BY <2>3, <2>4 DEF EffectScopesAccounted, Lists
  <1>4. ASSUME Closed(ScopedBody), effect_stack' = effect_stack, abandoned' = abandoned + 1
        PROVE  EffectScopesAccounted'
    <2>1. Len(effect_stack') = Cardinality(B') + abandoned' /\ abandoned' # 0
      BY <1>0, <1>4, KindCount
    <2> QED
      BY <2>1 DEF EffectScopesAccounted
  <1>5. CASE B' = {} /\ effect_stack' = <<>> /\ abandoned' = 0
    BY <1>5, ListsEmpty, FS_EmptySet DEF EffectScopesAccounted, Lists
  <1> QED
    BY <1>1, <1>2, <1>3, <1>4, <1>5, ScopesStep

(* The one way to lose track of an effect scope is a handle body that ends *)
(* in an error; no pop finds the stack empty.                              *)
THEOREM EffectsAccounted == Spec => []EffectScopesAccounted
  <1>1. Init => EffectScopesAccounted
    <2> SUFFICES ASSUME Init
                 PROVE  EffectScopesAccounted
      OBVIOUS
    <2>1. Heights(ScopedBody) = {} /\ effect_stack = <<>> /\ abandoned = 0
      BY DEF Init, Heights, Height
    <2> QED
      BY <2>1, ListsEmpty, FS_EmptySet DEF EffectScopesAccounted
  <1>2. WellFormed /\ EffectScopesAccounted /\ [Next]_vars => EffectScopesAccounted'
    BY StepShape, EffectScopesKept DEF WellFormed
  <1> QED
    BY <1>1, <1>2, WellFormedInv, PTL DEF Spec

-----------------------------------------------------------------------------
(* One more error in the list, or the list is full.                        *)
LEMMA PushKnown ==
  ASSUME TypeOK, NEW k \in ErrorKind, errors' = push_error(errors, k)
  PROVE  /\ \A j \in ErrorKind : Recorded(j) => Recorded(j)'
         /\ \A j \in ErrorKind : Recorded(j)' => Recorded(j) \/ j = k
         /\ Recorded(k)' \/ Len(errors') = ERROR_LIMIT
         /\ Len(errors) = ERROR_LIMIT => Len(errors') = ERROR_LIMIT
  <1>1. errors \in Seq(ErrorKind) /\ Len(errors) <= ERROR_LIMIT /\ ERROR_LIMIT \in Nat
    BY InferenceConstants DEF TypeOK
  <1>2. CASE Len(errors) < ERROR_LIMIT
    <2>1. errors' = Append(errors, k)
      BY <1>2 DEF push_error
    <2>2. /\ Len(errors') = Len(errors) + 1
          /\ errors'[Len(errors) + 1] = k
          /\ \A i \in 1 .. Len(errors) : errors'[i] = errors[i]
      BY <1>1, <2>1
    <2> QED
      BY <1>1, <1>2, <2>2 DEF Recorded
  <1>3. CASE ~(Len(errors) < ERROR_LIMIT)
    <2>1. errors' = errors /\ Len(errors) = ERROR_LIMIT
      BY <1>1, <1>3 DEF push_error
    <2> QED
      BY <2>1 DEF Recorded
  <1> QED
    BY <1>2, <1>3

(* The verdict is ok only where no error shows.                            *)
LEMMA VerdictKnown ==
  ASSUME TypeOK, ErrorsKnown, EndOfSource
  PROVE  ErrorsKnown'
  <1>1. ctl \notin ErrorKind /\ ctl = "top"
    BY KindsApart DEF EndOfSource, AtTopLevel, Working
  <1>2. CASE verdict' = "errors"
    <2>1. \A k \in ErrorKind : Recorded(k)' => Recorded(k)
      BY <1>2 DEF EndOfSource, Recorded
    <2>2. /\ UNCHANGED <<raised, driver>> /\ ctl' = "done"
          /\ driver = "repl" => errors' = <<>>
      BY DEF EndOfSource
    <2>3. \A k \in ErrorKind : ctl' = k \/ Recorded(k)' => k \in raised'
      BY <2>1, <2>2, KindsApart DEF ErrorsKnown
    <2> QED
      BY <1>2, <2>2, <2>3 DEF ErrorsKnown, Known
  <1>3. CASE verdict' # "errors"
    <2>1. verdict # "errors" /\ verdict' = "ok" /\ \A k \in ErrorKind : ~Shown(k)
      BY <1>3 DEF EndOfSource
    <2>2. UNCHANGED <<raised, driver>> /\ ctl' = "done"
      BY DEF EndOfSource
    <2>3. \A k \in raised \ {"deftype"} : Recorded(k) \/ Len(errors) = ERROR_LIMIT
      BY <1>1, <2>1 DEF ErrorsKnown, Known, TypeOK, Fault
    <2>4. /\ errors \in Seq(ErrorKind)
          /\ ERROR_LIMIT \in Nat \ {0}
          /\ "malformed" \in ErrorKind /\ "unbound" \in ErrorKind
      BY InferenceConstants, KindsApart DEF TypeOK
    <2>5. Len(errors) = ERROR_LIMIT => \E k \in ErrorKind : Recorded(k)
      BY <2>4 DEF Recorded
    <2>6. CASE \A k \in ErrorKind : ~Recorded(k)
      <3>1. raised \subseteq {"deftype"}
        BY <2>3, <2>5, <2>6 DEF TypeOK, Fault
      <3>2. errors' = errors \/ errors' = <<>>
        BY DEF EndOfSource
      <3>3. \A k \in ErrorKind : ~Recorded(k)'
        BY <2>6, <3>2 DEF Recorded
      <3>4. raised = {} \/ (driver = "lsp" /\ raised = {"deftype"})
        BY <3>1 DEF ErrorsKnown
      <3>5. ErrorNeverAccepted'
        BY <2>2, <3>4 DEF ErrorNeverAccepted
      <3>6. \A k \in ErrorKind : ctl' = k \/ Recorded(k)' => k \in raised'
        BY <2>2, <3>3, KindsApart
      <3>7. driver = "repl" => errors' = <<>>
        BY DEF EndOfSource
      <3> QED
        BY <2>1, <2>2, <3>1, <3>4, <3>5, <3>6, <3>7 DEF ErrorsKnown
    <2>7. CASE \E k \in ErrorKind : Recorded(k)
      <3>1. driver = "lsp" /\ Recorded("unbound") /\ ~Recorded("malformed")
        BY <2>1, <2>4, <2>7 DEF Shown
      <3>2. errors' = errors
        BY <3>1 DEF EndOfSource
      <3>3. "unbound" \in raised
        BY <2>4, <3>1 DEF ErrorsKnown
      <3>4. "malformed" # "deftype"
        OBVIOUS
      <3>5. "malformed" \in raised => Len(errors) = ERROR_LIMIT
        BY <2>3, <3>1, <3>4
      <3>6. \A k \in raised \ {"deftype"} : Known(k)'
        BY <2>3, <3>2 DEF Known, Recorded
      <3>7. \A k \in ErrorKind : ctl' = k \/ Recorded(k)' => k \in raised'
        BY <2>2, <3>2, KindsApart DEF ErrorsKnown, Recorded
      <3>8. ErrorNeverAccepted'
        BY <2>2, <3>1, <3>2, <3>3, <3>5 DEF ErrorNeverAccepted
      <3> QED
        BY <2>1, <2>2, <3>1, <3>6, <3>7, <3>8 DEF ErrorsKnown
    <2> QED
      BY <2>6, <2>7
  <1> QED
    BY <1>2, <1>3

(* An error of the source is pending, recorded or told until the verdict,  *)
(* or found the list full.  So neither recovering from it, nor the limit,  *)
(* nor the drain of the REPL makes `nexl check' or the REPL accept a       *)
(* source with one; and the language server accepts one only for what it   *)
(* leaves aside, a deftype or what stands beside an unbound variable.      *)
THEOREM ErrorsReported == Spec => []ErrorNeverAccepted
  <1>1. Init => ErrorsKnown
    <2>1. Init => \A k \in ErrorKind : ctl # k /\ ~Recorded(k)
      BY KindsApart DEF Init, Recorded, Working
    <2> QED
      BY <2>1 DEF Init, ErrorsKnown
  <1>2. WellFormed /\ ErrorsKnown /\ [Next]_vars => ErrorsKnown'
    <2> SUFFICES ASSUME TypeOK, Placed, ErrorsKnown, ControlShape
                 PROVE  ErrorsKnown'
      BY StepShape DEF WellFormed
    <2>0. raised \subseteq Fault /\ driver' = driver
      BY DEF TypeOK, ControlShape
    <2> DEFINE Raised == \A k \in ErrorKind : ctl = k \/ Recorded(k) => k \in raised
    <2>1. CASE Calm
      <3>1. UNCHANGED <<errors, verdict, raised>> /\ ctl' \in Working /\ ctl \in Working
        BY <2>1 DEF Calm
      <3>2. \A k : Recorded(k)' <=> Recorded(k)
        BY <3>1 DEF Recorded
      <3>3. ctl' # "done" /\ verdict # "ok"
        BY <3>1 DEF ErrorsKnown, Working
      <3>4. \A k \in ErrorKind : ctl # k /\ ctl' # k
        BY <3>1, KindsApart
      <3>5. \A k \in raised \ {"deftype"} : Known(k)'
        BY <2>0, <3>1, <3>2, <3>4 DEF ErrorsKnown, Known, Fault
      <3>6. Raised'
        BY <3>1, <3>2, <3>4 DEF ErrorsKnown
      <3> QED
        BY <2>0, <3>1, <3>3, <3>5, <3>6 DEF ErrorsKnown
    <2>2. CASE Raise
      <3>1. /\ UNCHANGED <<errors, verdict>> /\ ctl \in Working
            /\ ctl' \in ErrorKind /\ raised' = raised \union {ctl'}
        BY <2>2 DEF Raise, Raising
      <3>2. \A k : Recorded(k)' <=> Recorded(k)
        BY <3>1 DEF Recorded
      <3>3. ctl' # "done" /\ ctl' # "deftype" /\ verdict # "ok"
        BY <3>1, KindsApart DEF ErrorsKnown, Working
      <3>4. \A k \in ErrorKind : ctl # k
        BY <3>1, KindsApart
      <3>5. \A k \in raised' \ {"deftype"} : Known(k)'
        BY <2>0, <3>1, <3>2, <3>4 DEF ErrorsKnown, Known, Fault
      <3>6. Raised'
        BY <3>1, <3>2, <3>4 DEF ErrorsKnown
      <3> QED
        BY <2>0, <3>1, <3>3, <3>5, <3>6 DEF ErrorsKnown
    <2>3. CASE HandOn \/ Stutter
      <3>1. UNCHANGED <<ctl, errors, verdict, raised>>
        BY <2>3 DEF HandOn, Stutter
      <3>2. \A k : (Recorded(k)' <=> Recorded(k)) /\ (Known(k)' <=> Known(k))
        BY <3>1 DEF Recorded, Known
      <3> QED
        BY <2>0, <3>1, <3>2 DEF ErrorsKnown, ErrorNeverAccepted
    <2>4. CASE RecoverError \/ FormInError
      <3>1. /\ ctl \in ErrorKind /\ ctl' \in {"type", "top", "done"} /\ raised' = raised
            /\ ctl' = "done" => driver = "check" /\ verdict' = "errors"
            /\ verdict' = verdict \/ verdict' = "errors"
        BY <2>4 DEF RecoverError, FormInError, InError
      <3>2. ctl' \notin ErrorKind /\ verdict # "ok" /\ ctl \in raised
        BY <3>1, KindsApart DEF ErrorsKnown, Working
      <3>3. CASE errors' = push_error(errors, ctl)
        <4>1. \A k \in ErrorKind : Known(k) /\ k # ctl => Known(k)'
          BY <3>1, <3>3, PushKnown DEF Known
        <4>3. \A k \in raised \ {"deftype"} : Known(k)'
          BY <2>0, <3>1, <4>1, PushKnown, <3>3 DEF ErrorsKnown, Known, Fault
        <4>4. Raised'
          BY <3>1, <3>2, <3>3, PushKnown DEF ErrorsKnown
        <4> QED
          BY <2>0, <3>1, <3>2, <4>3, <4>4 DEF ErrorsKnown
      <3>4. CASE errors' = errors /\ verdict' = "errors"
        <4>1. Raised' /\ \A k : Known(k)'
          BY <3>1, <3>2, <3>4 DEF ErrorsKnown, Recorded, Known
        <4> QED
          BY <2>0, <3>1, <3>4, <4>1 DEF ErrorsKnown
      <3> QED
        BY <2>4, <3>3, <3>4 DEF RecoverError, FormInError
    <2>5. CASE EndOfSource
      BY <2>5, VerdictKnown
    <2>6. CASE NextSource
      <3>1. ctl = "done" /\ ctl' = "top" /\ raised' = {} /\ verdict' = "none"
        BY <2>6 DEF NextSource
      <3>2. errors' = <<>>
        BY <2>6 DEF NextSource, ErrorsKnown
      <3>3. \A k \in ErrorKind : ctl' # k /\ ~Recorded(k)'
        BY <3>1, <3>2, KindsApart DEF Recorded, Working
      <3> QED
        BY <2>0, <3>1, <3>2, <3>3 DEF ErrorsKnown
    <2>7. CASE RegisterDeftype
      <3>1. /\ UNCHANGED <<ctl, errors, verdict>> /\ ctl = "top" /\ driver = "lsp"
            /\ raised' = raised \union {"deftype"}
        BY <2>7 DEF RegisterDeftype, AtTopLevel
      <3>2. \A k : (Recorded(k)' <=> Recorded(k)) /\ (Known(k)' <=> Known(k))
        BY <3>1 DEF Recorded, Known
      <3> QED
        BY <2>0, <3>1, <3>2 DEF ErrorsKnown
    <2> QED
      BY <2>1, <2>2, <2>3, <2>4, <2>5, <2>6, <2>7 DEF ControlShape
  <1>3. ErrorsKnown => ErrorNeverAccepted
    BY DEF ErrorsKnown, ErrorNeverAccepted
  <1> QED
    BY <1>1, <1>2, <1>3, WellFormedInv, PTL DEF Spec
=============================================================================
