------------------------- MODULE MCScalarsTracking -------------------------
(* An instance of ScalarsTracking: functions that add to a scalar in a loop, *)
(* and in the branch of an if.                                               *)
EXTENDS ScalarsTracking

\* i + 1 after ScalarsPass: both operands are unboxed, and the sum is boxed.
AddOne ==
    <<[op |-> "get", vector |-> "i", scalar |-> "l"],
      [op |-> "get", vector |-> "one", scalar |-> "r"],
      [op |-> "create", vector |-> "sum", scalar |-> "s"]>>

MCName == {"i", "one", "sum"}
MCValue == {"l", "r", "s", NoRegister}

Code == [b1 |-> <<>>, b2 |-> AddOne, b3 |-> AddOne]
While == [b1 |-> <<"b2">>, b2 |-> <<"b3">>, b3 |-> <<"b2">>]
Repeat == [b1 |-> <<"b2">>, b2 |-> <<"b2">>, b3 |-> <<>>]
MCFunction == {[succ |-> s, code |-> Code] : s \in {While, Repeat}}
=============================================================================
