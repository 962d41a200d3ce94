---------------------------- MODULE ArgumentMatch ----------------------------
(* How the arguments of a call reach their callee: what the call site passes *)
(* to the inline cache (Compiler::compileArguments), and what the cache that *)
(* is compiled for the callee makes of it (ICCompiler): either it binds the  *)
(* arguments to the formals itself (compileIc), or it makes the list that R  *)
(* matches when it applies the callee (compileGenericIc).                    *)
(*                                                                           *)
(*   site     a sequence of [tag, kind]: the arguments of the call           *)
(*   callee   [kind, native, formals]                                        *)
(*   values   [is, arg]: a literal; code that nobody has run yet; a promise  *)
(*            of code; the value of code; R_MissingArg; or nothing that the  *)
(*            callee could use.  arg says what the value stems from.         *)
EXTENDS Integers, Sequences, FiniteSets, SequencesExt

CONSTANTS
    Name,        \* names of formals, and tags
    None,        \* no tag
    Dots,        \* R_DotsSymbol
    Prefix,      \* pairs of names, the first a proper prefix of the second
    Sites,       \* calls
    Callees,     \* functions that they call
    Ellipses,    \* what the caller's ... may hold: sequences of [tag, value]
    StaticNamedArgMatch   \* Flag::staticNamedArgMatch

Argument_ == [tag : Name \cup {None}, kind : {"literal", "null", "code", "dots", "missing"}]

ASSUME SitesAssumption == Sites \subseteq Seq(Argument_)

\* R's parser turns down formals of one name.
ASSUME CalleesAssumption ==
    \A fun \in Callees :
        /\ fun.kind \in {"closure", "builtin"} /\ fun.native \in BOOLEAN
        /\ fun.formals \in Seq(Name \cup {Dots})
        /\ \A p, q \in DOMAIN fun.formals : fun.formals[p] = fun.formals[q] => p = q

ASSUME NamesAssumption == None \notin Name \cup {Dots}

ASSUME PrefixAssumption == Prefix \subseteq Name \X Name

\* What is in ... has been promised or is empty already.
ASSUME EllipsesAssumption ==
    Ellipses \subseteq Seq([tag : Name \cup {None},
                           value : [is : {"literal", "promise", "missing"}, arg : Int]])

VARIABLES
    pc,             \* "call", "scan", "match", "list" or "done"
    site, callee, ellipsis,
    passed,         \* the values that the call site passes, one for each argument
    scanned,        \* compileIc: how many arguments and formals it has looked at
    namedArg,       \* compileIc: arguments with names that are still to match
    positionalArg,  \* compileIc: arguments without names, still to match, in order
    position,       \* compileIc: the formal that may be next
    argOrder,       \* compileIc: of each formal, the argument, or Unset
    arglist,        \* compileGenericIc: the list so far, [tag, value]
    added,          \* compileGenericIc: how many arguments it has dealt with
    got             \* what the callee gets

vars == <<pc, site, callee, ellipsis, passed, scanned, namedArg, positionalArg,
          position, argOrder, arglist, added, got>>
matchVars == <<scanned, namedArg, positionalArg, position, argOrder>>
listVars == <<arglist, added>>
callVars == <<site, callee, ellipsis, passed>>

Unset == -1
Nobody == [kind |-> "builtin", native |-> FALSE, formals |-> <<>>]

Val(is, arg) == [is |-> is, arg |-> arg]
Broken == Val("broken", Unset)
Missing == Val("missing", Unset)

-----------------------------------------------------------------------------
(* What the caller passes, and the primitives that the caches apply to it *)

\* Compiler::compileArgument: literals and the special symbols stand for
\* themselves, anything else is compiled to code.
Passed(a, i) ==
    CASE a.kind \in {"literal", "null"} -> Val("literal", i)
      [] a.kind = "dots" -> Val("symbol", i)
      [] a.kind = "missing" -> Missing
      [] a.kind = "code" -> Val("code", i)

\* The promise of a literal evaluates to the literal.
CreatePromise(v) ==
    CASE v.is = "literal" -> v
      [] v.is = "code" -> Val("promise", v.arg)
      [] OTHER -> Broken

CallNative(v) == IF v.is = "code" THEN Val("value", v.arg) ELSE Broken

\* An element of the caller's ..., for a builtin or a closure.
Forced(v) == IF v.is = "promise" THEN Val("value", v.arg) ELSE v

-----------------------------------------------------------------------------
(* R: the arguments that a call supplies, and how they match formals *)

\* promiseArgs for closures, evalArgs for builtins.
SuppliedBy(a, i, dots, eager) ==
    CASE a.kind \in {"literal", "null"} -> <<[tag |-> a.tag, value |-> Val("literal", i)]>>
      [] a.kind = "missing" -> <<[tag |-> a.tag, value |-> Missing]>>
      [] a.kind = "code" -> <<[tag |-> a.tag, value |-> Val(IF eager THEN "value" ELSE "promise", i)]>>
      [] a.kind = "dots" -> [k \in DOMAIN dots |->
                                [dots[k] EXCEPT !.value = IF eager THEN Forced(@) ELSE @]]
Supplied(call, dots, eager) ==
    FlattenSeq([i \in DOMAIN call |-> SuppliedBy(call[i], i, dots, eager)])

\* matchArgs: exact names, then partial ones before ..., then positions before
\* ...; what is left goes to ....  End is the formal ..., or the end.
End(formals) == IF \E p \in DOMAIN formals : formals[p] = Dots
                THEN CHOOSE p \in DOMAIN formals : formals[p] = Dots ELSE Len(formals) + 1

Exact(formals, args, p) == {a \in DOMAIN args : p # End(formals) /\ args[a].tag = formals[p]}

ByName(formals, args, p) ==
    LET exact == UNION {Exact(formals, args, q) : q \in DOMAIN formals}
        partial == {a \in DOMAIN args \ exact : /\ p < End(formals) /\ Exact(formals, args, p) = {}
                                               /\ <<args[a].tag, formals[p]>> \in Prefix}
    IN  Exact(formals, args, p) \cup partial

Rank(x, S) == Cardinality({y \in S : y < x})

ByPosition(formals, args, p) ==
    LET Taken(q) == \E a \in ByName(formals, args, q) : args[a].value # Missing
        open == {q \in DOMAIN formals : q < End(formals) /\ ~Taken(q)}
        untagged == {a \in DOMAIN args : args[a].tag = None}
    IN  {a \in untagged : p \in open /\ Rank(a, untagged) = Rank(p, open)}

Left(formals, args) ==
    DOMAIN args \ UNION {ByName(formals, args, p) \cup ByPosition(formals, args, p) : p \in DOMAIN formals}

InOrder(args, S) == LET rest == SetToSortSeq(S, <) IN [k \in DOMAIN rest |-> args[rest[k]]]

ValueOf(formals, args, p) ==
    LET as == IF ByPosition(formals, args, p) # {} THEN ByPosition(formals, args, p)
              ELSE ByName(formals, args, p)
    IN  CASE p = End(formals) -> InOrder(args, Left(formals, args))
          [] p # End(formals) /\ as = {} -> Missing
          [] p # End(formals) /\ as # {} -> args[CHOOSE a \in as : TRUE].value

\* [error, env].
Matched(formals, args) ==
    IF \/ \E p \in DOMAIN formals : Cardinality(ByName(formals, args, p)) > 1
       \/ \E p, q \in DOMAIN formals :
             p # q /\ ByName(formals, args, p) \cap ByName(formals, args, q) # {}
       \/ End(formals) > Len(formals) /\ Left(formals, args) # {}
    THEN [error |-> TRUE, env |-> <<>>]
    ELSE [error |-> FALSE, env |-> [p \in DOMAIN formals |-> ValueOf(formals, args, p)]]

\* What the callee gets in R: a list if it is a builtin.
Meaning(call, dots, fun) ==
    IF fun.kind = "builtin"
    THEN [error |-> FALSE, env |-> Supplied(call, dots, TRUE)]
    ELSE Matched(fun.formals, Supplied(call, dots, FALSE))

-----------------------------------------------------------------------------

Init ==
    /\ pc = "call"
    /\ site = <<>> /\ callee = Nobody /\ ellipsis = <<>> /\ passed = <<>>
    /\ scanned = 0 /\ namedArg = {} /\ positionalArg = <<>> /\ position = 1 /\ argOrder = <<>>
    /\ arglist = <<>> /\ added = 0
    /\ got = [error |-> FALSE, env |-> <<>>]

\* The site misses: a cache is compiled for its call and the callee.  (What the
\* caller's ... holds does not matter to calls without it.)
Call(call, fun, dots) ==
    /\ pc = "call"
    /\ dots # <<>> => \E n \in DOMAIN call : call[n].kind = "dots"
    /\ site' = call /\ callee' = fun /\ ellipsis' = dots
    /\ passed' = [i \in DOMAIN call |-> Passed(call[i], i)]
    /\ pc' = IF fun.kind = "closure" THEN "scan" ELSE "list"
    /\ UNCHANGED <<matchVars, listVars, got>>

-----------------------------------------------------------------------------
(* compileIc *)

\* compileIc returns false: the generic cache follows.
GiveUp ==
    /\ pc' = "list"
    /\ scanned' = 0 /\ namedArg' = {} /\ positionalArg' = <<>> /\ position' = 1 /\ argOrder' = <<>>
    /\ UNCHANGED <<callVars, listVars, got>>

\* Arguments and formals that a static cache is not made for.
TooHard(a, form) ==
    \/ a.tag # None /\ ~StaticNamedArgMatch
    \/ a.kind = "dots" \/ form = Dots
    \/ a.kind = "missing"

Scan ==
    /\ pc = "scan" /\ scanned < Len(site) /\ scanned < Len(callee.formals)
    /\ LET n == scanned + 1
       IN  IF TooHard(site[n], callee.formals[n]) THEN GiveUp
           ELSE /\ scanned' = n
                /\ IF site[n].tag # None
                   THEN namedArg' = namedArg \cup {n} /\ UNCHANGED positionalArg
                   ELSE positionalArg' = Append(positionalArg, n) /\ UNCHANGED namedArg
                /\ UNCHANGED <<pc, callVars, position, argOrder, listVars, got>>

\* One of the lists is at its end.
\* Faulty variant: only arguments that are missing count.
LongEnough == Len(site) >= Len(callee.formals)
SameLength == Len(site) = Len(callee.formals)
ScanEnds ==
    /\ pc = "scan" /\ (scanned = Len(site) \/ scanned = Len(callee.formals))
    /\ IF ~SameLength THEN GiveUp
       ELSE /\ pc' = "match"
            /\ argOrder' = [p \in DOMAIN site |-> Unset]
            /\ UNCHANGED <<callVars, scanned, namedArg, positionalArg, position, listVars, got>>

\* The map of named arguments is not ordered.
MatchNamed(n) ==
    /\ pc = "match" /\ n \in namedArg
    /\ IF \A p \in DOMAIN callee.formals : callee.formals[p] # site[n].tag THEN GiveUp
       ELSE /\ \E p \in DOMAIN callee.formals :
                  callee.formals[p] = site[n].tag /\ argOrder' = [argOrder EXCEPT ![p] = n]
            /\ namedArg' = namedArg \ {n}
            /\ UNCHANGED <<pc, callVars, scanned, positionalArg, position, listVars, got>>

\* The next formal without an argument.
\* Faulty variant: the loop is forgotten.
NeverOccupied(p) == FALSE
Occupied(p) == argOrder[p] # Unset

Advance ==
    /\ pc = "match" /\ namedArg = {} /\ positionalArg # <<>>
    /\ position <= Len(site) /\ Occupied(position)
    /\ position' = position + 1
    /\ UNCHANGED <<pc, callVars, scanned, namedArg, positionalArg, argOrder, listVars, got>>

MatchPositional ==
    /\ pc = "match" /\ namedArg = {} /\ positionalArg # <<>>
    /\ position <= Len(site) /\ ~Occupied(position)
    /\ argOrder' = [argOrder EXCEPT ![position] = Head(positionalArg)]
    /\ positionalArg' = Tail(positionalArg)
    /\ UNCHANGED <<pc, callVars, scanned, namedArg, position, listVars, got>>

\* promarg: what is not a literal becomes a promise.
Promised(a) == a.kind # "literal"

\* The code of the cache: an argument for each formal.  An index that is unset
\* reads what happens to be there.
BindStatic ==
    /\ pc = "match" /\ namedArg = {} /\ positionalArg = <<>>
    /\ IF ~callee.native THEN GiveUp
       ELSE /\ got' = [error |-> FALSE,
                       env |-> [p \in DOMAIN site |->
                                  LET n == argOrder[p]
                                  IN  IF n = Unset THEN Broken
                                      ELSE IF Promised(site[n]) THEN CreatePromise(passed[n])
                                      ELSE passed[n]]]
            /\ pc' = "done"
            /\ UNCHANGED <<callVars, matchVars, listVars>>

-----------------------------------------------------------------------------
(* compileGenericIc *)

Eager == callee.kind = "builtin"

\* compileArgument.  Faulty variant: NULL is not a literal for it.
ArgumentWithoutNull(a, v) ==
    CASE a.kind = "literal" -> v
      [] a.kind = "missing" -> Missing
      [] OTHER -> IF Eager THEN CallNative(v) ELSE CreatePromise(v)
Argument(a, v) ==
    CASE a.kind \in {"literal", "null"} -> v
      [] a.kind = "missing" -> Missing
      [] OTHER -> IF Eager THEN CallNative(v) ELSE CreatePromise(v)

AddArgument ==
    /\ pc = "list" /\ added < Len(site)
    /\ LET a == site[added + 1]
       IN  arglist' = arglist \o
             IF a.kind = "dots"
             THEN [k \in DOMAIN ellipsis |->
                     [ellipsis[k] EXCEPT !.value = IF Eager THEN Forced(@) ELSE @]]
             ELSE <<[tag |-> a.tag, value |-> Argument(a, passed[added + 1])]>>
    /\ added' = added + 1
    /\ UNCHANGED <<pc, callVars, matchVars, got>>

\* CallBuiltin, or CallClosure, which matches.
CallGeneric ==
    /\ pc = "list" /\ added = Len(site)
    /\ got' = IF Eager THEN [error |-> FALSE, env |-> arglist] ELSE Matched(callee.formals, arglist)
    /\ pc' = "done"
    /\ UNCHANGED <<callVars, matchVars, listVars>>

Return ==
    /\ pc = "done" /\ pc' = "call"
    /\ site' = <<>> /\ callee' = Nobody /\ ellipsis' = <<>> /\ passed' = <<>>
    /\ scanned' = 0 /\ namedArg' = {} /\ positionalArg' = <<>> /\ position' = 1 /\ argOrder' = <<>>
    /\ arglist' = <<>> /\ added' = 0
    /\ got' = [error |-> FALSE, env |-> <<>>]

Next ==
    \/ \E call \in Sites, fun \in Callees, dots \in Ellipses : Call(call, fun, dots)
    \/ Scan \/ ScanEnds
    \/ \E n \in namedArg : MatchNamed(n)
    \/ Advance \/ MatchPositional \/ BindStatic
    \/ AddArgument \/ CallGeneric \/ Return

Spec == Init /\ [][Next]_vars

-----------------------------------------------------------------------------
(* Properties *)

\* What the passes over a call know about it.
AMTypeOK ==
    /\ pc \in {"call", "scan", "match", "list", "done"}
    /\ pc # "call" => site \in Sites /\ callee \in Callees /\ Len(passed) = Len(site)
    /\ scanned \in 0..Len(site) /\ added \in 0..Len(site)
    /\ pc \in {"scan", "match"} => scanned <= Len(callee.formals) /\ callee.kind = "closure"
    /\ pc = "match" => Len(site) = Len(callee.formals) /\ scanned = Len(site)
    /\ namedArg \subseteq 1..scanned /\ position \in 1..(Len(site) + 1)
    /\ \A k \in DOMAIN positionalArg : positionalArg[k] \in 1..scanned
    /\ pc = "match" => argOrder \in [1..Len(site) -> (1..Len(site)) \cup {Unset}]

\* A name that is given twice, an error in R.
Twice(call) == \E m, n \in DOMAIN call : m # n /\ call[m].tag # None /\ call[m].tag = call[n].tag

Waiting(n) == n \in namedArg \/ \E k \in DOMAIN positionalArg : positionalArg[k] = n
Bound(n) == {p \in DOMAIN argOrder : argOrder[p] = n}

\* compileIc loses no argument and binds none twice, in whatever order the map
\* of names comes; names go to the formal of that name, the others keep their
\* order; and the search for a free formal finds one (ICCompiler.cpp:206, its
\* assertion).
ArgOrderRight ==
    pc = "match" /\ ~Twice(site) =>
        /\ \A n \in DOMAIN site : IF Waiting(n) THEN Bound(n) = {} ELSE \E p \in DOMAIN site : Bound(n) = {p}
        /\ \A n \in DOMAIN site : \A p \in Bound(n) :
              site[n].tag # None => site[n].tag = callee.formals[p]
        /\ \A m, n \in DOMAIN site : \A p \in Bound(m), q \in Bound(n) :
              site[m].tag = None /\ site[n].tag = None /\ m < n => p < q
        /\ namedArg = {} /\ positionalArg # <<>> => position <= Len(site)

\* The callee gets what it would get in R: the same arguments at the same
\* formals, promises of code and values of literals, or an error.  The
\* exceptions are names that are given twice to a static cache (see the README)
\* and empty arguments of builtins, which R turns down before the call
\* (ICCompiler.cpp:189, "Static version of gnur match.c").
BindsAsR ==
    /\ pc = "done"
    /\ argOrder # <<>> => ~Twice(site)
    /\ Eager => \A n \in DOMAIN site : site[n].kind # "missing"
    => got = Meaning(site, ellipsis, callee)
=============================================================================
