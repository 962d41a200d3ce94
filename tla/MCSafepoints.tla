---------------------------- MODULE MCSafepoints ----------------------------
(* Safepoints for TLC: two modules, <<f, g>> and <<h>>.  g and h are fixed,  *)
(* with call sites of three sizes; f takes the shapes of code that the       *)
(* compiler emits, with each primitive.                                      *)
EXTENDS Safepoints

MCName == {"f", "g", "h"}
MCModules == <<<<"f", "g">>, <<"h">>>>
MCReg == {"rho", "a", "b", "c"}
MCBlock == 1..4
MCObj == 1..9

I(op, dst, args) == [op |-> op, dst |-> dst, args |-> args]
Stub(dst, args, size) == [op |-> "ICStub", dst |-> dst, args |-> args, size |-> size]
End(args) == I("End", None, args)

Phi(dst, p, v, q, w) == [dst |-> dst, from |-> (p :> v) @@ (q :> w)]
Fun(succ, phis, body) ==
    [blocks |-> DOMAIN body, entry |-> 1, succ |-> succ, phis |-> phis, body |-> body, param |-> "rho"]

\* g: two call sites; h: a call site in a loop.
g == Fun(<<{}>>, <<{}>>,
         <<<<Stub("a", {"rho"}, 3), Stub("b", {"rho", "a"}, 1), End({"b"})>>>>)
h == Fun(<<{2}, {2, 3}, {}>>,
         <<{}, {Phi("b", 1, "a", 2, "c")}, {}>>,
         <<<<I("Constant", "a", {"rho"}), End({})>>,
           <<Stub("c", {"rho", "b"}, 2), End({})>>,
           <<End({"b"})>>>>)

\* Straight code: each primitive with some of the registers.
Operand(p) == CASE Primitive[p].objects = 0 -> {}
                [] Primitive[p].objects = 1 -> {"rho"}
                [] OTHER -> {"rho", "a"}
Straight(p) ==
    Fun(<<{}>>, <<{}>>,
        <<<<I("Constant", "a", {"rho", Const}),
            I(p, IF Primitive[p].yields THEN "b" ELSE None, Operand(p)),
            I("GenericGetVar", "c", {"rho"}),
            End({"a"})>>>>)

\* if and else, whose results meet in a phi node.
Diamond(v, w, z) ==
    Fun(<<{2, 3}, {4}, {4}, {}>>,
        <<{}, {}, {}, {Phi("c", 2, v, 3, w)}>>,
        <<<<I("Constant", "a", {}), I("GenericGetVar", "b", {"rho"}), End({})>>,
          <<I("MarkVisible", None, {}), End({})>>,
          <<I("GenericSetVar", None, {"a"}), End({})>>,
          <<I("CallSpecial", None, {z}), End({"c"})>>>>)

\* A loop that carries a value around.
Loop(v, w) ==
    Fun(<<{2}, {3, 4}, {2}, {}>>,
        <<{}, {Phi("b", 1, v, 3, w)}, {}, {}>>,
        <<<<I("StartFor", "a", {"rho"}), End({})>>,
          <<I("LoopSequenceLength", None, {"a"}), End({})>>,
          <<I("GetForLoopValue", "c", {"a"}), I("MarkInvisible", None, {}), End({})>>,
          <<End({"b"})>>>>)

\* Code after a return is not reached; the block after it has one predecessor.
Unreached ==
    Fun(<<{2}, {}, {2}>>,
        <<{}, {Phi("b", 1, "a", 3, "c")}, {}>>,
        <<<<Stub("a", {"rho"}, 4), End({})>>,
          <<I("MarkVisible", None, {}), End({"b"})>>,
          <<Stub("c", {"rho"}, 5), End({})>>>>)

\* An inline cache: the hit runs the closure in a context of its own, the miss
\* calls what the runtime has compiled.
InlinedCall ==
    Fun(<<{2, 3}, {}, {}>>, <<{}, {}, {}>>,
        <<<<I("CreatePromise", "a", {"rho"}), End({})>>,
          <<I("NewEnv", "b", {"rho", "a"}), I("InitClosureContext", None, {"rho", "b", "a"}),
            I("ClosureNativeCallTrampoline", "c", {"b"}), I("EndClosureContext", None, {"c"}),
            End({"c"})>>,
          <<I("CallToAddress", "c", {"rho", "a"}), End({"c"})>>>>)

\* No call at all.
Leaf == Fun(<<{}>>, <<{}>>, <<<<I("Load", "a", {"rho"}), End({"a"})>>>>)

Values == {"a", "b", "rho", Const}
MCPrograms ==
    LET fs == {Straight(p) : p \in Marked}
              \cup {Diamond(v, "a", z) : v \in {"b", "rho", Const}, z \in {"a", "rho"}}
              \cup {Loop(v, "c") : v \in {"a", "rho", Const}} \cup {Loop("rho", "a")}
              \cup {Unreached, InlinedCall, Leaf}
    IN  {[f |-> f, g |-> g, h |-> h] : f \in fs}
MCFunction == {Prepared(n, p[n]) : n \in Name, p \in MCPrograms}
=============================================================================
