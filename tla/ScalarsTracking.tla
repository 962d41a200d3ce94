-------------------------- MODULE ScalarsTracking --------------------------
(***************************************************************************)
(* The analysis that finds out which register holds the scalar in a vector *)
(* (analysis::ScalarsTrackingPass), as a forward analysis.  A value is a   *)
(* register or NoRegister.                                                 *)
(***************************************************************************)
EXTENDS ForwardAnalysis

CONSTANT NoRegister  \* TrackingValue::ptr_ is null

\* TrackingValue::mergeWith, and what it returns: a register that is NoRegister
\* already counts as changed when another one arrives.
MergeTracked(a, b) == IF a = b THEN a ELSE NoRegister
TrackedChanges(a, b) == a # b

Track(s, vector, register) == (vector :> register) @@ s

\* TrackingValue::update: the first register is kept.
Update(s, vector, register) ==
    Track(s, vector, IF Get(s, vector) = NoRegister THEN register ELSE s[vector])

\* Reading, writing and creating a scalar; other instructions have no effect.
AfterAccess(s, i) ==
    CASE i.op = "get"    -> Update(s, i.vector, i.scalar)
      [] i.op = "set"    -> Track(s, i.vector, i.scalar)
      [] i.op = "create" -> Update(s, i.vector, i.scalar)

TrackingTransfer(code, s) == FoldLeft(AfterAccess, s, code)
=============================================================================
