-------------------------- MODULE MCCompileSession --------------------------
(* Instances of CompileSession.                                             *)
EXTENDS CompileSession, TLC

\* Objects and arities are only compared, so permuting them is sound for the
\* invariants.
Symmetric == Permutations(Obj) \cup Permutations(Arity) \cup Permutations(Session)
============================================================================
