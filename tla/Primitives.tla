----------------------------- MODULE Primitives -----------------------------
(* The calls that compiled code makes into the runtime (ir/primitive_calls.h *)
(* and ir/IrScalars.h): one class for each, whose insertBefore creates the   *)
(* call and marks it.  What matters to the safepoint passes is how many of   *)
(* the operands are pointers to R objects, whether the result is one, and    *)
(* whether the call is marked to become a safepoint.                         *)
EXTENDS Naturals, TLC

Yields(objects) == [objects |-> objects, yields |-> TRUE]
Gives(objects) == [objects |-> objects, yields |-> FALSE]  \* no object, or nothing

\* Entering and leaving the contexts of closures, and running their code.
Contexts == [EndClosureContext |-> Gives(1), ClosureQuickArgumentAdaptor |-> Yields(2)]
Natives == [CallNative |-> Yields(3), ClosureNativeCallTrampoline |-> Yields(3)]
Activations == [InitClosureContext |-> Gives(5), NewEnv |-> Yields(3), ConsNr |-> Yields(2)]

\* Conditions and the visible results of the top level.
Conditions == [ConvertToLogicalNoNA |-> Gives(2), PrintValue |-> Gives(1)]
Visibility == [MarkVisible |-> Gives(0), MarkInvisible |-> Gives(0)]

\* for loops: their sequence, its length, its elements.
Loops == [StartFor |-> Yields(2), LoopSequenceLength |-> Gives(2), GetForLoopValue |-> Yields(2)]

\* Reading elements of vectors and matrices, by [ and by [[.
Elements == [GetDispatchValue |-> Yields(4), GetMatrixValue |-> Yields(5)]
Elements2 == [GetDispatchValue2 |-> Yields(4), GetMatrixValue2 |-> Yields(5)]

\* Assigning elements, of a variable of the function or of one outside.
ElementUpdates == [AssignDispatchValue |-> Yields(5), AssignMatrixValue |-> Yields(6)]
ElementUpdates2 == [AssignDispatchValue2 |-> Yields(5), AssignMatrixValue2 |-> Yields(6)]
OuterUpdates == [SuperAssignDispatch |-> Yields(5), SuperAssignMatrix |-> Yields(6)]
OuterUpdates2 == [SuperAssignDispatch2 |-> Yields(5), SuperAssignMatrix2 |-> Yields(6)]

\* Constants of the pool and literals.
Literals == [UserLiteral |-> Yields(1)]
Constants == [Constant |-> Yields(1)]

\* The stub of a call site: compiling its inline cache and patching the site.
Stubs == [PatchIC |-> Gives(0), CompileIC |-> Gives(3)]

\* Variables and the elements of the ellipsis.
VariableReads == [GenericGetVar |-> Yields(2), GenericGetEllipsisArg |-> Yields(2)]
VariableWrites == [GenericSetVar |-> Gives(3), GenericSetVarParent |-> Gives(3)]
MissingReads == [GenericGetVarMissOK |-> Yields(2), GenericGetEllipsisValueMissOK |-> Yields(2)]

\* Functions that are called, promises, and lists of arguments.
FunctionReads == [GetFunction |-> Yields(2), GetGlobalFunction |-> Yields(1), GetSymFunction |-> Yields(1)]
Builtins == [GetBuiltinFunction |-> Yields(1), GetInternalBuiltinFunction |-> Yields(1),
             CheckFunction |-> Gives(1)]
Promises == [CreatePromise |-> Yields(2), SexpType |-> Gives(1)]
Arguments == [AddArgument |-> Yields(2), AddKeywordArgument |-> Yields(3)]
Ellipses == [AddEllipsisArgumentHead |-> Yields(2), AddEllipsisArgumentTail |-> Yields(2)]
Calls == [CallBuiltin |-> Yields(4), CallSpecial |-> Yields(4), CallClosure |-> Yields(4)]
Closures == [CreateClosure |-> Yields(2)]

\* Arithmetic, comparisons and logic.
Signs == [GenericUnaryMinus |-> Yields(3), GenericUnaryPlus |-> Yields(3)]
Sums == [GenericAdd |-> Yields(4), GenericSub |-> Yields(4)]
Products == [GenericMul |-> Yields(4), GenericDiv |-> Yields(4), GenericPow |-> Yields(4)]
Exponentials == [GenericSqrt |-> Yields(3), GenericExp |-> Yields(3)]
Equalities == [GenericEq |-> Yields(4), GenericNe |-> Yields(4)]
Lesser == [GenericLt |-> Yields(4), GenericLe |-> Yields(4)]
Greater == [GenericGe |-> Yields(4), GenericGt |-> Yields(4)]
Logic == [GenericBitAnd |-> Yields(4), GenericBitOr |-> Yields(4), GenericNot |-> Yields(3)]

\* switch, and return from a promise.
Switches == [CheckSwitchControl |-> Gives(2), SwitchControlCharacter |-> Gives(2),
             SwitchControlInteger |-> Gives(1)]
Returns == [ReturnJump |-> Gives(2)]

\* Recompilation and the recorded types.
Recompiles == [Recompile |-> Yields(3)]
Feedback == [CheckType |-> Gives(1), RecordType |-> Gives(2)]

\* Boxes of scalars and the test of a double for NA.
Boxes == [AllocVector |-> Yields(0), CreateAndSetScalar |-> Yields(0), FIsNA |-> Gives(0)]

Primitive ==
    Contexts @@ Natives @@ Activations @@ Conditions @@ Visibility @@ Loops
        @@ Elements @@ Elements2 @@ ElementUpdates @@ ElementUpdates2 @@ OuterUpdates @@ OuterUpdates2
        @@ Literals @@ Constants @@ Stubs @@ VariableReads @@ VariableWrites @@ MissingReads
        @@ FunctionReads @@ Builtins @@ Promises @@ Arguments @@ Ellipses @@ Calls @@ Closures
        @@ Signs @@ Sums @@ Products @@ Exponentials @@ Equalities @@ Lesser @@ Greater @@ Logic
        @@ Switches @@ Returns @@ Recompiles @@ Feedback @@ Boxes

\* Every class marks its call as a safepoint (Builder::markSafepoint), but for
\* the trampoline that runs the code of a closure from an inline cache.
Marked == (DOMAIN Primitive) \ {"ClosureNativeCallTrampoline"}
=============================================================================
