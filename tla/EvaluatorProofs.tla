--------------------------- MODULE EvaluatorProofs ---------------------------
(***************************************************************************)
(* Proofs about Evaluator for every call depth, stack bound and loop width.*)
(* Every action changes the stack in one of four ways (StepShape); the     *)
(* invariants are shown to survive each of the four.                       *)
(***************************************************************************)
EXTENDS Evaluator, FiniteSetTheorems, TLAPS

Gain(at) == IF at \in Guarded THEN 1 ELSE 0

(* The four ways a step changes stack and depth.                           *)
Same == stack' = stack /\ depth' = depth

Push(at) ==
    /\ Height < MaxStack
    /\ at = "recur_arg" => LoopStateAt(Height) # 0
    /\ stack' = Append(stack, FrameFor(at, 0, Height + 1))
    /\ depth' = depth + Gain(at)
    /\ depth' <= MaxDepth

Swap(to, n) ==
    /\ Height > 0
    /\ stack' = [stack EXCEPT ![Height] = FrameFor(to, n, Height)]
    /\ At \in Guarded => to \in Guarded
    /\ to = "recur_arg" => At = "recur_arg"
    /\ depth' = IF At \in Guarded THEN depth ELSE depth + Gain(to)
    /\ depth' <= MaxDepth

Pop ==
    /\ Height > 0
    /\ stack' = Popped
    /\ depth' = DepthAfterPop

Shape ==
    \/ Same
    \/ \E at \in Position : Push(at)
    \/ \E to \in Position, n \in Nat : Swap(to, n)
    \/ Pop

(* The form on top of a stack that is not empty.                           *)
LEMMA TopFrame ==
  ASSUME TypeOK, Height > 0
  PROVE  /\ Height \in Nat
         /\ stack[Height] \in Frame
         /\ At = stack[Height].at
  BY DEF TypeOK, Height, At

(* At a position, the stack is not empty: only the top level has none.     *)
LEMMA AtKnown ==
  ASSUME NEW p \in Position, At = p, TypeOK
  PROVE  Height > 0
  BY DEF TypeOK, At, Height, Position, PassesLoop, ForwardsRecur, RejectsRecur, Isolated

(* The primitives, each as a shape.                                        *)
LEMMA BeginShape ==
  ASSUME TypeOK, NEW at \in Position \ Guarded, Begin(at),
         at = "recur_arg" => LoopStateAt(Height) # 0
  PROVE  Shape
  BY DEF Begin, Shape, Push, Gain, TypeOK

(* Going on to the next subexpression swaps the position of the top form.  *)
LEMMA ContinueShape ==
  ASSUME TypeOK, NEW from \in Position, NEW to \in Position, NEW n \in Nat,
         Continue(from, to, n), from \in Guarded <=> to \in Guarded,
         to = "recur_arg" => from = "recur_arg"
  PROVE  Shape
  <1>1. Height > 0
    BY AtKnown DEF Continue
  <1>2. Swap(to, n)
    BY <1>1 DEF Continue, Swap, Gain, TypeOK
  <1> QED
    BY <1>2 DEF Shape

(* Handing back a value pops the form.                                     *)
LEMMA ReturnShape ==
  ASSUME TypeOK, NEW from \in Position, Return(from)
  PROVE  Shape
  BY AtKnown DEF Return, Shape, Pop

(* So does failing on a value.                                             *)
LEMMA FailShape ==
  ASSUME TypeOK, NEW from \in Position, NEW e, Fail(from, e)
  PROVE  Shape
  BY AtKnown DEF Fail, Shape, Pop

(* Entering a guarded scope: a push of a guarded position, or the form     *)
(* fails for depth and pops.                                               *)
LEMMA GuardEnterShape ==
  ASSUME TypeOK, NEW from \in Position \ Guarded, NEW to \in Guarded, GuardEnter(from, to)
  PROVE  Shape
  <1>1. Height > 0
    BY AtKnown DEF GuardEnter
  <1>2. to \in Position
    BY DEF Guarded, Position, PassesLoop, ForwardsRecur, Isolated
  <1>3. Swap(to, 0)
    BY <1>1, MaxDepthAssumption DEF GuardEnter, Swap, Gain, TypeOK, Guarded
  <1> QED
    BY <1>2, <1>3 DEF Shape

(* Handing back a value at once changes neither stack nor depth.           *)
LEMMA YieldShape ==
  ASSUME Yield
  PROVE  Shape
  BY DEF Yield, Shape, Same

(* Nor does failing at once.                                               *)
LEMMA ThrowShape ==
  ASSUME NEW e, Throw(e)
  PROVE  Shape
  BY DEF Throw, Shape, Same

(* Every step of the evaluator has one of the four shapes.                 *)
LEMMA StepShape ==
  ASSUME TypeOK, [Next]_vars
  PROVE  Shape
  <1> USE DEF Position, PassesLoop, ForwardsRecur, RejectsRecur, Isolated, Guarded, Then
  <1>1. CASE EvalAtom
    BY <1>1, YieldShape, ThrowShape, BeginShape, ContinueShape, ReturnShape, FailShape DEF EvalAtom
  <1>2. CASE EvalCollection
    BY <1>2, YieldShape, ThrowShape, BeginShape, ContinueShape, ReturnShape, FailShape DEF EvalCollection
  <1>3. CASE MalformedForm
    BY <1>3, YieldShape, ThrowShape, BeginShape, ContinueShape, ReturnShape, FailShape DEF MalformedForm
  <1>4. CASE EvalDeclaration
    BY <1>4, YieldShape, ThrowShape, BeginShape, ContinueShape, ReturnShape, FailShape DEF EvalDeclaration
  <1>5. CASE EvalOperand
    BY <1>5, YieldShape, ThrowShape, BeginShape, ContinueShape, ReturnShape, FailShape DEF EvalOperand
  <1>6. CASE EvalLet
    BY <1>6, YieldShape, ThrowShape, BeginShape, ContinueShape, ReturnShape, FailShape DEF EvalLet
  <1>7. CASE EvalDo
    BY <1>7, YieldShape, ThrowShape, BeginShape, ContinueShape, ReturnShape, FailShape DEF EvalDo
  <1>8. CASE EvalIf
    BY <1>8, YieldShape, ThrowShape, BeginShape, ContinueShape, ReturnShape, FailShape DEF EvalIf
  <1>9. CASE EvalMatch
    BY <1>9, YieldShape, ThrowShape, BeginShape, ContinueShape, ReturnShape, FailShape DEF EvalMatch
  <1>10. CASE EvalTests
    BY <1>10, YieldShape, ThrowShape, BeginShape, ContinueShape, ReturnShape, FailShape DEF EvalTests
  <1>11. CASE EvalHandle
    BY <1>11, YieldShape, ThrowShape, BeginShape, ContinueShape, ReturnShape, FailShape DEF EvalHandle
  <1>12. CASE EvalLoop
    <2> DEFINE n == stack[Height].n
    <2>1. CASE \/ Begin("loop_init") \/ Begin("loop_body") \/ Return("loop_body")
               \/ Fail("loop_init", "Other")
      BY <2>1, BeginShape, ReturnShape, FailShape
    <2>2. CASE At \in {"loop_init", "loop_body"} /\ \E to \in {"loop_init", "loop_body"},
                   k \in {n, n + 1} : Continue(At, to, k)
      <3>1. n \in Nat
        BY <2>2, AtKnown, TopFrame DEF Frame
      <3> QED
        BY <2>2, <3>1, ContinueShape
    <2> QED
      BY <1>12, <2>1, <2>2 DEF EvalLoop
  <1>13. CASE EvalRecur
    <2>1. CASE Throw("InvalidRecur") \/ Throw("Arity")
      BY <2>1, ThrowShape
    <2>5. CASE LoopStateAt(Height) # 0 /\ Begin("recur_arg")
      BY <2>5, BeginShape
    <2>2. CASE UNCHANGED <<stack, depth>>
      BY <2>2 DEF Shape, Same
    <2>3. CASE At = "recur_arg" /\ Continue("recur_arg", "recur_arg", stack[Height].n + 1)
      <3>1. stack[Height].n \in Nat
        BY <2>3, AtKnown, TopFrame DEF Frame
      <3> QED
        BY <2>3, <3>1, ContinueShape
    <2>4. CASE At = "recur_arg" /\ stack' = Popped /\ depth' = depth
      BY <2>4, AtKnown DEF Shape, Pop, DepthAfterPop
    <2> QED
      BY <1>13, <2>1, <2>2, <2>3, <2>4, <2>5 DEF EvalRecur
  <1>14. CASE ReceiveRecur
    <2>1. CASE At = "loop_body"
      BY <1>14, <2>1, AtKnown DEF ReceiveRecur, Shape, Same, Pop, DepthAfterPop
    <2>2. CASE At # "loop_body" /\ Height > 0
      BY <1>14, <2>2 DEF ReceiveRecur, Shape, Pop
    <2>3. CASE Height = 0
      BY <1>14, <2>3 DEF ReceiveRecur, At, Shape, Same
    <2> QED
      BY <2>1, <2>2, <2>3 DEF TypeOK, Height
  <1>15. CASE EvalEach
    BY <1>15, YieldShape, ThrowShape, BeginShape, ContinueShape, ReturnShape, FailShape DEF EvalEach
  <1>16. CASE EvalTimes
    BY <1>16, YieldShape, ThrowShape, BeginShape, ContinueShape, ReturnShape, FailShape DEF EvalTimes
  <1>17. CASE EvalFor
    BY <1>17, YieldShape, ThrowShape, BeginShape, ContinueShape, ReturnShape, FailShape DEF EvalFor
  <1>18. CASE EvalApply
    <2>1. CASE \E to \in {"params", "requires", "body"} : GuardEnter("callee", to)
      BY <2>1, GuardEnterShape
    <2>2. CASE \E to \in {"params", "requires", "body"} : Then("params", to)
      BY <2>2, ContinueShape
    <2>3. CASE \E from \in {"callee", "args"} : Then(from, "closure")
      BY <2>3, ContinueShape
    <2>4. CASE Clause("requires") \/ Clause("ensures")
      BY <2>4, ContinueShape, FailShape DEF Clause
    <2> QED
      BY <1>18, <2>1, <2>2, <2>3, <2>4, BeginShape, ContinueShape, ReturnShape, FailShape
         DEF EvalApply
  <1>19. CASE RunNative
    <2>1. CASE /\ At \in {"callee", "args"}
               /\ stack' = [stack EXCEPT ![Height] = FrameFor("native", 0, Height)]
               /\ depth' = depth
      <3>1. Height > 0
        BY <2>1, AtKnown
      <3>2. Swap("native", 0)
        BY <2>1, <3>1 DEF Swap, Gain, TypeOK
      <3> QED
        BY <3>2 DEF Shape
    <2> QED
      BY <1>19, <2>1, ReturnShape, FailShape DEF RunNative
  <1>20. CASE ApplyValue
    <2>1. CASE /\ Height < MaxStack
               /\ depth < MaxDepth
               /\ depth' = depth + 1
               /\ \E at \in {"cb_requires", "cb_body"} :
                     stack' = Append(stack, FrameFor(at, 0, Height + 1))
      <3>1. \E at \in {"cb_requires", "cb_body"} : Push(at)
        BY <2>1, MaxDepthAssumption DEF Push, Gain, TypeOK
      <3> QED
        BY <3>1 DEF Shape
    <2>2. CASE UNCHANGED <<stack, depth>>
      BY <2>2 DEF Shape, Same
    <2>3. CASE Clause("cb_requires") \/ Clause("cb_ensures")
      BY <2>3, ContinueShape, FailShape DEF Clause
    <2> QED
      BY <1>20, <2>1, <2>2, <2>3, ContinueShape, ReturnShape DEF ApplyValue
  <1>21. CASE RunClosure
    <2>1. CASE /\ Height < MaxStack
               /\ stack' = Append(stack, FrameFor("closure", 0, Height + 1))
               /\ depth' = depth
      <3>1. Push("closure")
        BY <2>1 DEF Push, Gain, TypeOK
      <3> QED
        BY <3>1 DEF Shape
    <2> QED
      BY <1>21, <2>1, ContinueShape, ReturnShape, FailShape DEF RunClosure
  <1>22. CASE EvalPanic
    BY <1>22, YieldShape, ThrowShape, BeginShape, ContinueShape, ReturnShape, FailShape DEF EvalPanic
  <1>23. CASE EvalAssert
    BY <1>23, YieldShape, ThrowShape, BeginShape, ContinueShape, ReturnShape, FailShape DEF EvalAssert
  <1>24. CASE EvalQuestion
    BY <1>24, YieldShape, ThrowShape, BeginShape, ContinueShape, ReturnShape, FailShape DEF EvalQuestion
  <1>25. CASE EvalTry
    BY <1>25, YieldShape, ThrowShape, BeginShape, ContinueShape, ReturnShape, FailShape DEF EvalTry
  <1>26. CASE EvalLoad
    BY <1>26, YieldShape, ThrowShape, BeginShape, ContinueShape, ReturnShape, FailShape DEF EvalLoad
  <1>27. CASE CatchEarlyReturn
    <2>1. Height > 0
      BY <1>27, AtKnown DEF CatchEarlyReturn, CatchesEarly
    <2> QED
      BY <1>27, <2>1 DEF CatchEarlyReturn, Shape, Pop
  <1>28. CASE WrapError
    <2>1. Height > 0 /\ At \notin Guarded
      BY <1>28, AtKnown DEF WrapError, WrapsError
    <2> QED
      BY <1>28, <2>1 DEF WrapError, Shape, Pop, DepthAfterPop
  <1>29. CASE NativeDropsError
    BY <1>29 DEF NativeDropsError, Shape, Same
  <1>30. CASE PropagateError
    <2>1. Height > 0
      BY <1>30, AtKnown DEF PropagateError, CatchesEarly
    <2> QED
      BY <1>30, <2>1 DEF PropagateError, Shape, Pop
  <1>31. CASE NextForm
    BY <1>31 DEF NextForm, Shape, Same
  <1>32. CASE UNCHANGED vars
    BY <1>32 DEF vars, Shape, Same
  <1> QED
    BY <1>1, <1>2, <1>3, <1>4, <1>5, <1>6, <1>7, <1>8, <1>9, <1>10, <1>11, <1>12, <1>13, <1>14, <1>15, <1>16, <1>17, <1>18, <1>19, <1>20, <1>21, <1>22, <1>23, <1>24, <1>25, <1>26, <1>27, <1>28, <1>29, <1>30, <1>31, <1>32 DEF Next

(***************************************************************************)
(* Type correctness.                                                       *)
(***************************************************************************)

(* A frame stands at the position it was made for.                         *)
LEMMA FrameAt ==
  ASSUME TypeOK, NEW i \in 1 .. Height
  PROVE  stack[i] \in Frame
  BY DEF TypeOK, Height

(* Every frame the evaluator makes is a frame.                             *)
LEMMA FrameForType ==
  ASSUME TypeOK, NEW at \in Position, NEW n \in Nat, NEW k \in 1 .. Height + 1
  PROVE  FrameFor(at, n, k) \in Frame
  <1>0. Height \in Nat
    BY DEF TypeOK, Height
  <1>1. LoopStateAt(k - 1) \in Nat
    <2>1. k - 1 = 0 \/ k - 1 \in 1 .. Height
      BY <1>0
    <2>2. k - 1 \in 1 .. Height => stack[k - 1] \in Frame
      BY FrameAt
    <2> QED
      BY <2>1, <2>2 DEF LoopStateAt, Frame
  <1> QED
    BY <1>1 DEF FrameFor, Frame, TypeOK, Height

(* The four shapes keep the types of stack and depth.                      *)
LEMMA ShapeType ==
  ASSUME TypeOK, Shape
  PROVE  /\ stack' \in Seq(Frame)
         /\ Len(stack') <= MaxStack
         /\ depth' \in 0 .. MaxDepth
  <1>0. Height \in Nat /\ stack \in Seq(Frame) /\ Height = Len(stack) /\ depth \in 0 .. MaxDepth
    BY DEF TypeOK, Height
  <1>1. CASE Same
    BY <1>1 DEF Same, TypeOK, Height
  <1>2. ASSUME NEW at \in Position, Push(at) PROVE (/\ stack' \in Seq(Frame)
            /\ Len(stack') <= MaxStack
            /\ depth' \in 0 .. MaxDepth)
    <2>1. FrameFor(at, 0, Height + 1) \in Frame
      BY <1>0, FrameForType
    <2> QED
      BY <1>0, <1>2, <2>1, MaxStackAssumption, MaxDepthAssumption DEF Push, Gain
  <1>3. ASSUME NEW to \in Position, NEW n \in Nat, Swap(to, n) PROVE (/\ stack' \in Seq(Frame)
            /\ Len(stack') <= MaxStack
            /\ depth' \in 0 .. MaxDepth)
    <2>1. FrameFor(to, n, Height) \in Frame
      BY <1>0, <1>3, FrameForType DEF Swap
    <2>2. stack' \in Seq(Frame) /\ Len(stack') = Height
      BY <1>0, <1>3, <2>1 DEF Swap
    <2> QED
      BY <1>0, <1>3, <2>2, MaxDepthAssumption DEF Swap, Gain, TypeOK
  <1>4. CASE Pop
    BY <1>0, <1>4, MaxStackAssumption, MaxDepthAssumption DEF Pop, Popped, DepthAfterPop, TypeOK
  <1> QED
    BY <1>1, <1>2, <1>3, <1>4 DEF Shape

ControlType ==
    /\ ctl \in {"eval", "value", "recur", "error"}
    /\ err \in EvalError \union {NoError}
    /\ jump \in [n : Nat, target : Nat]

(* Every step keeps the types of ctl, err and jump.                        *)
LEMMA StepControl ==
  ASSUME TypeOK, [Next]_vars
  PROVE  ControlType'
  <1> USE DEF ControlType, EvalError, TypeOK, Then, Continue, Yield, Throw, Begin, Return, Fail,
              Clause, GuardEnter
  <1>1. CASE EvalAtom
    BY <1>1 DEF EvalAtom
  <1>2. CASE EvalCollection
    BY <1>2 DEF EvalCollection
  <1>3. CASE MalformedForm
    BY <1>3 DEF MalformedForm
  <1>4. CASE EvalDeclaration
    BY <1>4 DEF EvalDeclaration
  <1>5. CASE EvalOperand
    BY <1>5 DEF EvalOperand
  <1>6. CASE EvalLet
    BY <1>6 DEF EvalLet
  <1>7. CASE EvalDo
    BY <1>7 DEF EvalDo
  <1>8. CASE EvalIf
    BY <1>8 DEF EvalIf
  <1>9. CASE EvalMatch
    BY <1>9 DEF EvalMatch
  <1>10. CASE EvalTests
    BY <1>10 DEF EvalTests
  <1>11. CASE EvalHandle
    BY <1>11 DEF EvalHandle
  <1>12. CASE EvalLoop
    BY <1>12 DEF EvalLoop
  <1>13. CASE EvalRecur
    <2>1. CASE UNCHANGED jump
      BY <1>13, <2>1 DEF EvalRecur, HandBackRecur
    <2>2. CASE /\ LoopStateAt(Height) # 0
               /\ HandBackRecur(0, LoopStateAt(Height))
      <3>1. Height > 0 /\ stack[Height] \in Frame
        BY <2>2, FrameAt DEF LoopStateAt, Height
      <3> QED
        BY <2>2, <3>1 DEF HandBackRecur, LoopStateAt, Frame
    <2>3. CASE /\ At = "recur_arg"
               /\ HandBackRecur(stack[Height].n + 1, stack[Height].ls)
      <3>1. stack[Height] \in Frame
        BY <2>3, AtKnown, TopFrame DEF Position, PassesLoop, ForwardsRecur
      <3> QED
        BY <2>3, <3>1 DEF HandBackRecur, Frame
    <2> QED
      BY <1>13, <2>1, <2>2, <2>3 DEF EvalRecur
  <1>14. CASE ReceiveRecur
    BY <1>14 DEF ReceiveRecur, NoJump
  <1>15. CASE EvalEach
    BY <1>15 DEF EvalEach
  <1>16. CASE EvalTimes
    BY <1>16 DEF EvalTimes
  <1>17. CASE EvalFor
    BY <1>17 DEF EvalFor
  <1>18. CASE EvalApply
    BY <1>18 DEF EvalApply
  <1>19. CASE RunNative
    BY <1>19 DEF RunNative
  <1>20. CASE ApplyValue
    BY <1>20 DEF ApplyValue
  <1>21. CASE RunClosure
    BY <1>21 DEF RunClosure
  <1>22. CASE EvalPanic
    BY <1>22 DEF EvalPanic
  <1>23. CASE EvalAssert
    BY <1>23 DEF EvalAssert
  <1>24. CASE EvalQuestion
    BY <1>24 DEF EvalQuestion
  <1>25. CASE EvalTry
    BY <1>25 DEF EvalTry
  <1>26. CASE EvalLoad
    BY <1>26 DEF EvalLoad
  <1>27. CASE CatchEarlyReturn
    BY <1>27 DEF CatchEarlyReturn
  <1>28. CASE WrapError
    BY <1>28 DEF WrapError
  <1>29. CASE NativeDropsError
    BY <1>29 DEF NativeDropsError
  <1>30. CASE PropagateError
    BY <1>30 DEF PropagateError
  <1>31. CASE NextForm
    BY <1>31 DEF NextForm
  <1>32. CASE UNCHANGED vars
    BY <1>32 DEF vars
  <1> QED
    BY <1>1, <1>2, <1>3, <1>4, <1>5, <1>6, <1>7, <1>8, <1>9, <1>10, <1>11, <1>12, <1>13, <1>14, <1>15, <1>16, <1>17, <1>18, <1>19, <1>20, <1>21, <1>22, <1>23, <1>24, <1>25, <1>26, <1>27, <1>28, <1>29, <1>30, <1>31, <1>32 DEF Next

(* Spec keeps the machine's state well formed: in particular CALL_DEPTH    *)
(* never exceeds MAX_CALL_DEPTH, whatever the program does.                *)
THEOREM TypeCorrect == Spec => []TypeOK
  <1>1. Init => TypeOK
    BY MaxDepthAssumption, MaxStackAssumption DEF Init, TypeOK, Height, NoJump, NoError
  <1>2. TypeOK /\ [Next]_vars => TypeOK'
    BY StepShape, ShapeType, StepControl DEF TypeOK, ControlType, Height
  <1> QED
    BY <1>1, <1>2, PTL DEF Spec


(***************************************************************************)
(* The call depth counter is balanced.                                     *)
(***************************************************************************)

(* The guarded forms of a stack are finite in number.                      *)
LEMMA GuardsHeldFinite ==
  ASSUME TypeOK
  PROVE  IsFiniteSet(GuardsHeld) /\ Cardinality(GuardsHeld) \in Nat
  <1>1. Height \in Nat
    BY DEF TypeOK, Height
  <1>2. IsFiniteSet(1 .. Height)
    BY <1>1, FS_Interval
  <1>3. GuardsHeld \subseteq 1 .. Height
    BY DEF GuardsHeld
  <1> QED
    BY <1>2, <1>3, FS_Subset, FS_CardinalityType

(* Every shape keeps the depth equal to the number of guarded forms.       *)
LEMMA DepthStep ==
  ASSUME TypeOK, CallDepthBalanced, Shape
  PROVE  CallDepthBalanced'
  <1>0. Height \in Nat /\ stack \in Seq(Frame) /\ Height = Len(stack) /\ depth \in Nat
    BY DEF TypeOK, Height
  <1>1. CASE Same
    BY <1>1 DEF Same, CallDepthBalanced, GuardsHeld, Height
  <1>2. ASSUME NEW at \in Position, Push(at) PROVE CallDepthBalanced'
    <2>1. /\ Len(stack') = Height + 1
          /\ \A i \in 1 .. Height : stack'[i] = stack[i]
          /\ stack'[Height + 1].at = at
      BY <1>0, <1>2 DEF Push, FrameFor
    <2>2. CASE at \in Guarded
      <3>1. GuardsHeld' = GuardsHeld \union {Height + 1} /\ Height + 1 \notin GuardsHeld
        BY <1>0, <2>1, <2>2 DEF GuardsHeld, Height
      <3> QED
        BY <1>2, <2>2, <3>1, GuardsHeldFinite, FS_AddElement
           DEF CallDepthBalanced, Push, Gain
    <2>3. CASE at \notin Guarded
      <3>1. GuardsHeld' = GuardsHeld
        BY <1>0, <2>1, <2>3 DEF GuardsHeld, Height
      <3> QED
        BY <1>0, <1>2, <2>3, <3>1 DEF CallDepthBalanced, Push, Gain
    <2> QED
      BY <2>2, <2>3
  <1>3. ASSUME NEW to \in Position, NEW n \in Nat, Swap(to, n) PROVE CallDepthBalanced'
    <2>1. /\ Len(stack') = Height
          /\ \A i \in 1 .. Height : i # Height => stack'[i] = stack[i]
          /\ stack'[Height].at = to
          /\ stack[Height].at = At
          /\ Height \in 1 .. Height
      BY <1>0, <1>3 DEF Swap, FrameFor, At
    <2>2. CASE At \notin Guarded /\ to \in Guarded
      <3>1. GuardsHeld' = GuardsHeld \union {Height} /\ Height \notin GuardsHeld
        BY <1>0, <2>1, <2>2 DEF GuardsHeld, Height
      <3> QED
        BY <1>3, <2>2, <3>1, GuardsHeldFinite, FS_AddElement
           DEF CallDepthBalanced, Swap, Gain
    <2>3. CASE At \in Guarded <=> to \in Guarded
      <3>1. GuardsHeld' = GuardsHeld
        BY <1>0, <2>1, <2>3 DEF GuardsHeld, Height
      <3> QED
        BY <1>0, <1>3, <2>3, <3>1 DEF CallDepthBalanced, Swap, Gain
    <2> QED
      BY <1>3, <2>2, <2>3 DEF Swap
  <1>4. CASE Pop
    <2>1. /\ Len(stack') = Height - 1
          /\ \A i \in 1 .. Height - 1 : stack'[i] = stack[i]
          /\ stack[Height].at = At
          /\ Height \in 1 .. Height
      BY <1>0, <1>4 DEF Pop, Popped, At
    <2>2. GuardsHeld' = GuardsHeld \ {Height}
      BY <1>0, <2>1 DEF GuardsHeld, Height
    <2>3. Height \in GuardsHeld <=> At \in Guarded
      BY <2>1 DEF GuardsHeld
    <2>4. CASE At \in Guarded
      <3>1. Cardinality(GuardsHeld') = Cardinality(GuardsHeld) - 1
        BY <2>2, <2>3, <2>4, GuardsHeldFinite, FS_RemoveElement
      <3>2. Cardinality(GuardsHeld') \in Nat
        BY <2>2, GuardsHeldFinite, FS_RemoveElement, FS_CardinalityType
      <3> QED
        BY <1>0, <1>4, <2>4, <3>1, <3>2 DEF CallDepthBalanced, Pop, DepthAfterPop
    <2>5. CASE At \notin Guarded
      <3>1. GuardsHeld' = GuardsHeld
        BY <2>2, <2>3, <2>5
      <3> QED
        BY <1>0, <1>4, <2>5, <3>1 DEF CallDepthBalanced, Pop, DepthAfterPop
    <2> QED
      BY <2>4, <2>5
  <1> QED
    BY <1>1, <1>2, <1>3, <1>4 DEF Shape

(* CALL_DEPTH counts the calls that are really in progress, on every path  *)
(* out of a call: value, early return, recur, wrapped or propagated error. *)
THEOREM DepthBalanced == Spec => []CallDepthBalanced
  <1>1. Init => CallDepthBalanced
    <2> SUFFICES ASSUME Init PROVE CallDepthBalanced
      OBVIOUS
    <2>1. GuardsHeld = {}
      BY DEF Init, GuardsHeld, Height
    <2> QED
      BY <2>1, FS_EmptySet DEF Init, CallDepthBalanced
  <1>2. TypeOK /\ CallDepthBalanced /\ [Next]_vars => CallDepthBalanced'
    BY StepShape, DepthStep
  <1> QED
    BY <1>1, <1>2, TypeCorrect, PTL DEF Spec

(***************************************************************************)
(* Loop states are live and a recur reaches the loop it was checked with.  *)
(***************************************************************************)

(* A frame whose part of the stack does not change stays live.             *)
LEMMA LiveBelow ==
  ASSUME NEW k \in Nat, NEW i \in 1 .. k, LoopStateLiveAt(i),
         \A j \in 1 .. k : stack'[j] = stack[j]
  PROVE  LoopStateLiveAt(i)'
  <1>1. stack'[i] = stack[i] /\ (i # 1 => stack'[i - 1] = stack[i - 1])
    OBVIOUS
  <1>2. LoopStateAt(i - 1)' = LoopStateAt(i - 1)
    BY <1>1 DEF LoopStateAt
  <1>3. stack[i].ls \in 1 .. i => stack'[stack[i].ls] = stack[stack[i].ls]
    OBVIOUS
  <1> QED
    BY <1>1, <1>2, <1>3 DEF LoopStateLiveAt

(* A frame put at height k over a live stack is live.                      *)
LEMMA FrameForLive ==
  ASSUME TypeOK, LoopStateLive,
         NEW at \in Position, NEW n \in Nat, NEW k \in 1 .. Height + 1,
         at = "recur_arg" => LoopStateAt(k - 1) # 0,
         stack'[k] = FrameFor(at, n, k),
         \A j \in 1 .. k - 1 : stack'[j] = stack[j]
  PROVE  LoopStateLiveAt(k)'
  <1> DEFINE f == FrameFor(at, n, k)
  <1>0. Height \in Nat /\ k \in Nat
    BY DEF TypeOK, Height
  <1>1. /\ f.at = at
        /\ at \in Isolated => f.ls = 0
        /\ at \in PassesLoop => f.ls = LoopStateAt(k - 1)
        /\ at = "loop_body" => f.ls = k
    BY DEF FrameFor, Isolated, PassesLoop, ForwardsRecur, RejectsRecur
  <1>2. LoopStateAt(k - 1)' = LoopStateAt(k - 1)
    BY <1>0 DEF LoopStateAt
  <1>3. at = "recur_arg" => at \in PassesLoop
    BY DEF PassesLoop, ForwardsRecur
  <1>4. ASSUME f.ls # 0
        PROVE  /\ f.ls \in 1 .. k
               /\ stack'[f.ls].at = "loop_body"
               /\ \A j \in (f.ls + 1) .. k : stack'[j].at \in PassesLoop
    <2>1. CASE at = "loop_body"
      BY <1>0, <1>1, <2>1
    <2>2. CASE at \in PassesLoop
      <3>1. k - 1 \in 1 .. Height /\ f.ls = stack[k - 1].ls
        BY <1>0, <1>1, <1>4, <2>2 DEF LoopStateAt
      <3>2. /\ f.ls \in 1 .. k - 1
            /\ stack[f.ls].at = "loop_body"
            /\ \A j \in (f.ls + 1) .. k - 1 : stack[j].at \in PassesLoop
        BY <1>4, <3>1 DEF LoopStateLive, LoopStateLiveAt
      <3> QED
        BY <1>0, <1>1, <2>2, <3>2
    <2>3. at \in Isolated => FALSE
      BY <1>1, <1>4
    <2> QED
      BY <2>1, <2>2, <2>3 DEF Position
  <1> QED
    BY <1>1, <1>2, <1>3, <1>4 DEF LoopStateLiveAt

(* Every shape keeps the loop states live: each refers to a loop that is   *)
(* still waiting for its body, no lower than it was.                       *)
LEMMA LiveStep ==
  ASSUME TypeOK, LoopStateLive, Shape
  PROVE  LoopStateLive'
  <1>0. Height \in Nat /\ stack \in Seq(Frame) /\ Height = Len(stack)
    BY DEF TypeOK, Height
  <1>1. CASE Same
    BY <1>1 DEF Same, LoopStateLive, LoopStateLiveAt, LoopStateAt, Height
  <1>2. ASSUME NEW at \in Position, Push(at) PROVE LoopStateLive'
    <2>1. /\ Len(stack') = Height + 1
          /\ \A i \in 1 .. Height : stack'[i] = stack[i]
          /\ stack'[Height + 1] = FrameFor(at, 0, Height + 1)
      BY <1>0, <1>2 DEF Push
    <2> SUFFICES ASSUME NEW i \in 1 .. Height + 1 PROVE LoopStateLiveAt(i)'
      BY <2>1 DEF LoopStateLive, Height
    <2>2. CASE i = Height + 1
      <3>1. at = "recur_arg" => LoopStateAt(i - 1) # 0
        BY <1>0, <1>2, <2>2 DEF Push
      <3> QED
        BY <1>0, <2>1, <2>2, <3>1, FrameForLive
    <2>3. CASE i \in 1 .. Height
      BY <1>0, <2>1, <2>3, LiveBelow DEF LoopStateLive
    <2> QED
      BY <1>0, <2>2, <2>3
  <1>3. ASSUME NEW to \in Position, NEW n \in Nat, Swap(to, n) PROVE LoopStateLive'
    <2>1. /\ Len(stack') = Height
          /\ \A i \in 1 .. Height - 1 : stack'[i] = stack[i]
          /\ stack'[Height] = FrameFor(to, n, Height)
          /\ Height \in 1 .. Height
      BY <1>0, <1>3 DEF Swap
    <2> SUFFICES ASSUME NEW i \in 1 .. Height PROVE LoopStateLiveAt(i)'
      BY <2>1 DEF LoopStateLive, Height
    <2>2. CASE i = Height
      <3>1. to = "recur_arg" => LoopStateAt(i - 1) # 0
        <4> SUFFICES ASSUME to = "recur_arg" PROVE LoopStateAt(i - 1) # 0
          OBVIOUS
        <4>1. stack[i].at = "recur_arg"
          BY <1>3, <2>2, TopFrame DEF Swap
        <4> QED
          BY <2>1, <2>2, <4>1 DEF LoopStateLive, LoopStateLiveAt, PassesLoop, ForwardsRecur
      <3> QED
        BY <1>0, <2>1, <2>2, <3>1, FrameForLive
    <2>3. CASE i \in 1 .. Height - 1
      <3>1. Height - 1 \in Nat /\ LoopStateLiveAt(i)
        BY <1>0, <2>1 DEF LoopStateLive
      <3> QED
        BY <2>1, <2>3, <3>1, LiveBelow
    <2> QED
      BY <1>0, <2>2, <2>3
  <1>4. CASE Pop
    <2>1. /\ Len(stack') = Height - 1
          /\ \A i \in 1 .. Height - 1 : stack'[i] = stack[i]
      BY <1>0, <1>4 DEF Pop, Popped
    <2> SUFFICES ASSUME NEW i \in 1 .. Height - 1 PROVE LoopStateLiveAt(i)'
      BY <2>1 DEF LoopStateLive, Height
    <2>2. Height - 1 \in Nat /\ LoopStateLiveAt(i)
      BY <1>0, <1>4 DEF LoopStateLive, Pop
    <2> QED
      BY <2>1, <2>2, LiveBelow
  <1> QED
    BY <1>1, <1>2, <1>3, <1>4 DEF Shape

(* Where a Recur in the next state comes from: a recur form, or a form     *)
(* that forwards the one it received.                                      *)
LEMMA RecurOrigin ==
  ASSUME TypeOK, [Next]_vars, ctl' = "recur"
  PROVE  \/ EvalRecur
         \/ /\ ctl = "recur"
            /\ At \in ForwardsRecur
            /\ stack' = Popped
            /\ jump' = jump
         \/ UNCHANGED vars
  <1> USE DEF Then, Continue, Yield, Throw, Begin, Return, Fail, Clause, GuardEnter
  <1>1. CASE EvalAtom \/ EvalCollection \/ MalformedForm
             \/ EvalDeclaration \/ EvalOperand \/ EvalLet
    BY <1>1 DEF EvalAtom, EvalCollection, MalformedForm,
                 EvalDeclaration, EvalOperand, EvalLet
  <1>2. CASE EvalDo \/ EvalIf \/ EvalMatch \/ EvalTests \/ EvalHandle
    BY <1>2 DEF EvalDo, EvalIf, EvalMatch, EvalTests, EvalHandle
  <1>3. CASE EvalLoop
    BY <1>3 DEF EvalLoop
  <1>4. CASE ReceiveRecur
    BY <1>4 DEF ReceiveRecur
  <1>5. CASE EvalEach \/ EvalTimes \/ EvalFor
    BY <1>5 DEF EvalEach, EvalTimes, EvalFor
  <1>6. CASE EvalApply
    BY <1>6 DEF EvalApply
  <1>7. CASE RunNative \/ RunClosure
    BY <1>7 DEF RunNative, RunClosure
  <1>8. CASE ApplyValue
    BY <1>8 DEF ApplyValue
  <1>9. CASE EvalPanic \/ EvalAssert \/ EvalQuestion \/ EvalTry \/ EvalLoad
    BY <1>9 DEF EvalPanic, EvalAssert, EvalQuestion, EvalTry, EvalLoad
  <1>10. CASE CatchEarlyReturn \/ WrapError \/ NativeDropsError \/ PropagateError \/ NextForm
    BY <1>10 DEF CatchEarlyReturn, WrapError, NativeDropsError, PropagateError, NextForm
  <1> QED
    BY <1>1, <1>2, <1>3, <1>4, <1>5, <1>6, <1>7, <1>8, <1>9, <1>10 DEF Next

(* Every step keeps a Recur on its way to the loop it was made for.        *)
LEMMA RecurStep ==
  ASSUME TypeOK, LoopStateLive, RecurReachesItsLoop, [Next]_vars
  PROVE  RecurReachesItsLoop'
  <1> SUFFICES ASSUME ctl' = "recur"
               PROVE  RecurReachesItsLoop'
    BY DEF RecurReachesItsLoop
  <1>0. Height \in Nat /\ stack \in Seq(Frame) /\ Height = Len(stack)
    BY DEF TypeOK, Height
  <1>1. CASE EvalRecur
    <2>1. CASE /\ stack' = stack
               /\ LoopStateAt(Height) # 0
               /\ stack[LoopStateAt(Height)].n = 0
               /\ jump' = [n |-> 0, target |-> LoopStateAt(Height)]
      BY <1>0, <2>1 DEF LoopStateLive, LoopStateLiveAt, RecurReachesItsLoop, LoopStateAt, Height
    <2>2. CASE /\ At = "recur_arg"
               /\ stack[Height].n + 1 = stack[stack[Height].ls].n
               /\ stack' = Popped
               /\ jump' = [n |-> stack[Height].n + 1, target |-> stack[Height].ls]
      <3>1. Height > 0 /\ stack[Height].at = "recur_arg"
        BY <2>2, AtKnown, TopFrame DEF Position, PassesLoop, ForwardsRecur
      <3>2. /\ Len(stack') = Height - 1
            /\ \A i \in 1 .. Height - 1 : stack'[i] = stack[i]
        BY <1>0, <2>2, <3>1 DEF Popped
      <3>3. /\ stack[Height].ls \in 1 .. Height - 1
            /\ stack[stack[Height].ls].at = "loop_body"
            /\ \A j \in (stack[Height].ls + 1) .. Height : stack[j].at \in PassesLoop
        BY <1>0, <2>2, <3>1 DEF LoopStateLive, LoopStateLiveAt
      <3>4. jump'.n = stack[Height].n + 1 /\ jump'.target = stack[Height].ls
        BY <2>2
      <3>5. stack'[jump'.target] = stack[stack[Height].ls]
        BY <3>2, <3>3, <3>4
      <3>6. \A j \in (jump'.target + 1) .. Height - 1 : stack'[j].at \in PassesLoop
        BY <1>0, <3>2, <3>3, <3>4
      <3> QED
        BY <2>2, <3>2, <3>3, <3>4, <3>5, <3>6 DEF RecurReachesItsLoop, Height
    <2>3. \/ Throw("InvalidRecur")
          \/ Throw("Arity")
          \/ Begin("recur_arg")
          \/ Continue("recur_arg", "recur_arg", stack[Height].n + 1)
          => FALSE
      BY DEF Throw, Begin, Continue
    <2> QED
      BY <1>1, <2>1, <2>2, <2>3 DEF EvalRecur, HandBackRecur
  <1>2. CASE /\ ctl = "recur"
             /\ At \in ForwardsRecur
             /\ stack' = Popped
             /\ jump' = jump
    <2>1. Height > 0 /\ stack[Height].at = At /\ At # "loop_body"
      BY <1>2, AtKnown, TopFrame DEF Position, PassesLoop, ForwardsRecur
    <2>2. /\ Len(stack') = Height - 1
          /\ \A i \in 1 .. Height - 1 : stack'[i] = stack[i]
      BY <1>0, <1>2, <2>1 DEF Popped
    <2>3. jump.target \in 1 .. Height - 1
      BY <1>0, <1>2, <2>1 DEF RecurReachesItsLoop
    <2> QED
      BY <1>0, <1>2, <2>1, <2>2, <2>3 DEF RecurReachesItsLoop, Height
  <1>3. CASE UNCHANGED vars
    BY <1>3 DEF vars, RecurReachesItsLoop, Height
  <1> QED
    BY <1>1, <1>2, <1>3, RecurOrigin

(* No loop_state ever outlives its loop or crosses a position evaluated    *)
(* without one.                                                            *)
THEOREM LoopStatesLive == Spec => []LoopStateLive
  <1>1. Init => LoopStateLive
    BY DEF Init, LoopStateLive, Height
  <1>2. TypeOK /\ LoopStateLive /\ [Next]_vars => LoopStateLive'
    BY StepShape, LiveStep
  <1> QED
    BY <1>1, <1>2, TypeCorrect, PTL DEF Spec

(* Every recur that is accepted restarts the loop it was checked against,  *)
(* through any nesting of forms and function calls.                        *)
THEOREM RecurTarget == Spec => []RecurReachesItsLoop
  <1>1. Init => RecurReachesItsLoop
    BY DEF Init, RecurReachesItsLoop
  <1>2. TypeOK /\ LoopStateLive /\ RecurReachesItsLoop /\ [Next]_vars => RecurReachesItsLoop'
    BY RecurStep
  <1> QED
    BY <1>1, <1>2, TypeCorrect, LoopStatesLive, PTL DEF Spec

(* Errors other than EarlyReturn are turned into values by natives only.   *)
THEOREM ErrorsStop == Spec => ErrorsStopOnlyWhereCaught
  <1> DEFINE A == ctl = "error" /\ ctl' = "value"
                    => \/ At = "native" /\ Height' = Height
                       \/ err = "EarlyReturn" /\ At \in CatchesEarly
  <1>1. TypeOK /\ [Next]_vars => [A]_vars
    <2> SUFFICES ASSUME TypeOK, [Next]_vars, ctl = "error", ctl' = "value"
                 PROVE  \/ At = "native" /\ Height' = Height
                        \/ err = "EarlyReturn" /\ At \in CatchesEarly
      OBVIOUS
    <2> USE DEF Then, Continue, Yield, Throw, Begin, Return, Fail, Clause, GuardEnter
    <2>1. CASE EvalAtom \/ EvalCollection \/ MalformedForm
               \/ EvalDeclaration \/ EvalOperand \/ EvalLet
      BY <2>1 DEF EvalAtom, EvalCollection, MalformedForm,
                   EvalDeclaration, EvalOperand, EvalLet
    <2>2. CASE EvalDo \/ EvalIf \/ EvalMatch \/ EvalTests \/ EvalHandle
      BY <2>2 DEF EvalDo, EvalIf, EvalMatch, EvalTests, EvalHandle
    <2>3. CASE EvalLoop \/ EvalRecur \/ ReceiveRecur
      BY <2>3 DEF EvalLoop, EvalRecur, ReceiveRecur, HandBackRecur
    <2>4. CASE EvalEach \/ EvalTimes \/ EvalFor
      BY <2>4 DEF EvalEach, EvalTimes, EvalFor
    <2>5. CASE EvalApply
      BY <2>5 DEF EvalApply
    <2>6. CASE RunNative \/ RunClosure
      BY <2>6 DEF RunNative, RunClosure
    <2>7. CASE ApplyValue
      BY <2>7 DEF ApplyValue
    <2>8. CASE EvalPanic \/ EvalAssert \/ EvalQuestion \/ EvalTry \/ EvalLoad
      BY <2>8 DEF EvalPanic, EvalAssert, EvalQuestion, EvalTry, EvalLoad
    <2>9. CASE CatchEarlyReturn \/ WrapError \/ NativeDropsError \/ PropagateError \/ NextForm
      BY <2>9 DEF CatchEarlyReturn, WrapError, NativeDropsError, PropagateError, NextForm,
               Height
    <2> QED
      BY <2>1, <2>2, <2>3, <2>4, <2>5, <2>6, <2>7, <2>8, <2>9 DEF Next, vars
  <1> QED
    BY <1>1, TypeCorrect, PTL DEF Spec, ErrorsStopOnlyWhereCaught
=============================================================================
