------------------------- MODULE ArgumentMatchProofs -------------------------
(* ArgumentMatch.tla for calls and formals of any length: however the map of *)
(* named arguments is ordered, the order that compileIc computes has every   *)
(* argument once, named ones at their formals and the others in their order, *)
(* and its assertion never fails; and what the callee gets, through a static *)
(* or a generic cache, is what it gets in R.                                 *)
EXTENDS ArgumentMatch, FiniteSetTheorems, FunctionTheorems, TLAPS

-----------------------------------------------------------------------------
(* The invariant *)

\* What the steps need to know about the call and the arguments that wait.
Types ==
    /\ AMTypeOK
    /\ site \in Seq(Argument_)
    /\ pc \in {"scan", "match"} =>
          /\ callee.formals \in Seq(Name \cup {Dots})
          /\ \A p, q \in DOMAIN callee.formals : callee.formals[p] = callee.formals[q] => p = q
    /\ positionalArg \in Seq(Nat)
    /\ pc = "call" => /\ site = <<>> /\ scanned = 0 /\ namedArg = {} /\ positionalArg = <<>>
                      /\ position = 1 /\ added = 0
    /\ pc = "scan" => position = 1

\* Arguments with names wait in the one collection, the others in the other, in
\* their order.
Sorted ==
    /\ \A n \in namedArg : site[n].tag # None
    /\ \A k \in DOMAIN positionalArg : site[positionalArg[k]].tag = None
    /\ \A j, k \in DOMAIN positionalArg : j < k => positionalArg[j] < positionalArg[k]

\* The scan has every argument wait.
Collected == pc = "scan" => \A n \in 1..scanned : Waiting(n)

\* The arguments that do not wait are bound, each once: names to their formals,
\* the others one after the other, from the first formal on.
Placed ==
    pc = "match" /\ ~Twice(site) =>
        /\ \A n \in 1..Len(site) : Waiting(n) \/ \E p \in 1..Len(site) : argOrder[p] = n
        /\ \A p \in 1..Len(site) : argOrder[p] # Unset => ~Waiting(argOrder[p])
        /\ \A p, q \in 1..Len(site) : argOrder[p] = argOrder[q] /\ argOrder[p] # Unset => p = q
        /\ \A p \in 1..Len(site) :
              argOrder[p] # Unset /\ site[argOrder[p]].tag # None => site[argOrder[p]].tag = callee.formals[p]
        /\ \A p \in 1..Len(site) :
              argOrder[p] # Unset /\ site[argOrder[p]].tag = None =>
                  /\ namedArg = {} /\ p <= position
                  /\ \A k \in DOMAIN positionalArg : argOrder[p] < positionalArg[k]
        /\ \A p \in 1..Len(site) : p < position => argOrder[p] # Unset
        /\ \A p, q \in 1..Len(site) :
              /\ argOrder[p] # Unset /\ site[argOrder[p]].tag = None
              /\ argOrder[q] # Unset /\ site[argOrder[q]].tag = None
              /\ p < q
              => argOrder[p] < argOrder[q]

AMInv == Types /\ (pc \in {"scan", "match"} => Sorted) /\ Collected /\ Placed

-----------------------------------------------------------------------------
(* Types *)

LEMMA TypesInit == Init => Types
BY DEF Init, Types, AMTypeOK, Unset, Nobody

LEMMA TypesStep == Types /\ [Next]_vars => Types'
<1> SUFFICES ASSUME Types, [Next]_vars PROVE Types'
  OBVIOUS
<1> USE DEF Types, AMTypeOK
<1>1. ASSUME NEW call \in Sites, NEW fun \in Callees, NEW dots \in Ellipses, Call(call, fun, dots)
      PROVE  Types'
  <2>1. call \in Seq(Argument_) /\ Len(call) \in Nat /\ DOMAIN call = 1..Len(call)
    BY SitesAssumption
  <2>2. /\ fun.formals \in Seq(Name \cup {Dots}) /\ Len(fun.formals) \in Nat
        /\ \A p, q \in DOMAIN fun.formals : fun.formals[p] = fun.formals[q] => p = q
    BY CalleesAssumption
  <2>3. Len(passed') = Len(call)
    BY <1>1, <2>1 DEF Call
  <2> QED BY <1>1, <2>1, <2>2, <2>3 DEF Call, matchVars, listVars
<1>2. GiveUp /\ pc # "call" => Types'
  BY DEF GiveUp, callVars, listVars
<1>3. Scan => Types'
  <2> SUFFICES ASSUME Scan, ~GiveUp PROVE Types'
    BY <1>2 DEF Scan
  <2>1. scanned + 1 \in 1..Len(site) /\ scanned' = scanned + 1
    BY DEF Scan
  <2>2. CASE site[scanned + 1].tag # None
    <3>1. namedArg' = namedArg \cup {scanned + 1} /\ UNCHANGED positionalArg
      BY <2>2 DEF Scan
    <3> QED BY <2>1, <3>1 DEF Scan, callVars, listVars
  <2>3. CASE site[scanned + 1].tag = None
    <3>1. positionalArg' = Append(positionalArg, scanned + 1) /\ namedArg' = namedArg
      BY <2>3 DEF Scan
    <3>2. \A k \in DOMAIN positionalArg' : positionalArg'[k] \in 1..scanned'
      BY <2>1, <3>1
    <3>3. positionalArg' \in Seq(Nat)
      BY <2>1, <3>1
    <3> QED BY <2>1, <3>1, <3>2, <3>3 DEF Scan, callVars, listVars
  <2> QED BY <2>2, <2>3
<1>4. ScanEnds => Types'
  <2> SUFFICES ASSUME ScanEnds, ~GiveUp PROVE Types'
    BY <1>2 DEF ScanEnds
  <2>1. argOrder' \in [1..Len(site) -> {Unset}]
    BY DEF ScanEnds
  <2> QED BY <2>1 DEF ScanEnds, SameLength, callVars, listVars
<1>5. ASSUME NEW n \in namedArg, MatchNamed(n) PROVE Types'
  <2> SUFFICES ASSUME ~GiveUp PROVE Types'
    BY <1>2, <1>5 DEF MatchNamed
  <2>1. PICK p \in DOMAIN callee.formals : argOrder' = [argOrder EXCEPT ![p] = n]
    BY <1>5 DEF MatchNamed
  <2>2. argOrder' \in [1..Len(site) -> (1..Len(site)) \cup {Unset}]
    BY <1>5, <2>1 DEF MatchNamed
  <2> QED BY <1>5, <2>2 DEF MatchNamed, callVars, listVars
<1>6. Advance => Types'
  BY DEF Advance, callVars, listVars
<1>7. MatchPositional => Types'
  <2> SUFFICES ASSUME MatchPositional PROVE Types'
    OBVIOUS
  <2>1. Head(positionalArg) \in 1..Len(site)
    BY DEF MatchPositional
  <2>2. argOrder' \in [1..Len(site) -> (1..Len(site)) \cup {Unset}]
    BY <2>1 DEF MatchPositional
  <2>3. positionalArg' \in Seq(Nat) /\ \A k \in DOMAIN positionalArg' : positionalArg'[k] \in 1..scanned
    BY DEF MatchPositional
  <2> QED BY <2>2, <2>3 DEF MatchPositional, callVars, listVars
<1>8. BindStatic => Types'
  <2> SUFFICES ASSUME BindStatic, ~GiveUp PROVE Types'
    BY <1>2 DEF BindStatic
  <2> QED BY DEF BindStatic, callVars, matchVars, listVars
<1>9. AddArgument \/ CallGeneric => Types'
  <2>1. /\ AddArgument => added' = added + 1 /\ added < Len(site) /\ pc = "list" /\ pc' = "list"
        /\ CallGeneric => added' = added /\ pc = "list" /\ pc' = "done"
        /\ AddArgument \/ CallGeneric => UNCHANGED <<callVars, matchVars>>
    BY DEF AddArgument, CallGeneric, listVars
  <2> SUFFICES ASSUME AddArgument \/ CallGeneric PROVE Types'
    OBVIOUS
  <2>2. UNCHANGED <<site, callee, passed, scanned, namedArg, positionalArg, position, argOrder>>
    BY <2>1 DEF callVars, matchVars
  <2>3. added' \in 0..Len(site) /\ pc = "list" /\ pc' \in {"list", "done"}
    BY <2>1
  <2> QED BY <2>2, <2>3
<1>10. Return => Types'
  BY DEF Return
<1>11. UNCHANGED vars => Types'
  BY DEF vars
<1> QED BY <1>1, <1>3, <1>4, <1>5, <1>6, <1>7, <1>8, <1>9, <1>10, <1>11 DEF Next

-----------------------------------------------------------------------------
(* The order of the arguments *)

LEMMA NamedStep ==
    ASSUME AMInv, ~Twice(site), NEW n \in namedArg, MatchNamed(n), pc' = "match"
    PROVE  (Sorted /\ Placed)'
<1> USE DEF AMInv, Types, AMTypeOK
<1>0. ~GiveUp
  BY DEF GiveUp
<1>1. PICK p0 \in DOMAIN callee.formals :
          callee.formals[p0] = site[n].tag /\ argOrder' = [argOrder EXCEPT ![p0] = n]
  BY <1>0 DEF MatchNamed
<1>2. /\ pc = "match" /\ namedArg' = namedArg \ {n}
      /\ UNCHANGED <<site, callee, scanned, positionalArg, position>>
  BY <1>0 DEF MatchNamed, callVars
<1>3. /\ Sorted /\ n \in 1..Len(site) /\ p0 \in 1..Len(site) /\ site[n].tag # None
      /\ Len(site) \in Nat /\ n # Unset
  BY <1>2 DEF Sorted, Unset
<1>4. Waiting(n)
  BY DEF Waiting
<1>5. argOrder[p0] = Unset
  <2> SUFFICES ASSUME argOrder[p0] # Unset PROVE FALSE
    OBVIOUS
  <2> DEFINE m == argOrder[p0]
  <2>1. m \in 1..Len(site) /\ m # n
    BY <1>2, <1>3, <1>4 DEF Placed
  <2>2. site[m].tag # None
    BY <1>2, <1>3 DEF Placed
  <2>3. site[m].tag = site[n].tag
    BY <1>1, <1>2, <1>3, <2>2 DEF Placed
  <2> QED BY <1>3, <2>1, <2>2, <2>3 DEF Twice
<1>6. \A m \in 1..Len(site) : (Waiting(m))' <=> Waiting(m) /\ m # n
  BY <1>2, <1>3 DEF Waiting, Sorted
<1>7. /\ argOrder'[p0] = n
      /\ \A p \in 1..Len(site) : p # p0 => argOrder'[p] = argOrder[p]
  BY <1>1, <1>2, <1>3
<1>8. Sorted'
  BY <1>2, <1>3 DEF Sorted
<1>9. \A p \in 1..Len(site) : argOrder[p] = n => FALSE
  BY <1>2, <1>3, <1>4 DEF Placed
<1>10. \A p \in 1..Len(site) : argOrder[p] \in 1..Len(site) \/ argOrder[p] = Unset
  BY <1>2
<1>11. \A p \in 1..Len(site) : argOrder[p] # Unset => site[argOrder[p]].tag # None
  BY <1>2 DEF Placed
<1>12. \A m \in 1..Len(site) : (Waiting(m))' \/ \E p \in 1..Len(site) : argOrder'[p] = m
  <2> SUFFICES ASSUME NEW m \in 1..Len(site), ~(Waiting(m))'
               PROVE  \E p \in 1..Len(site) : argOrder'[p] = m
    OBVIOUS
  <2>1. CASE m = n
    BY <1>3, <1>7, <2>1
  <2>2. CASE m # n
    <3>1. PICK p \in 1..Len(site) : argOrder[p] = m
      BY <1>2, <1>6, <2>2 DEF Placed
    <3>2. p # p0
      BY <1>5, <3>1 DEF Unset
    <3> QED BY <1>7, <3>1, <3>2
  <2> QED BY <2>1, <2>2
<1>13. \A p \in 1..Len(site) : argOrder'[p] # Unset => ~(Waiting(argOrder[p]))'
  <2> SUFFICES ASSUME NEW p \in 1..Len(site), argOrder'[p] # Unset
               PROVE  ~(Waiting(argOrder[p]))'
    OBVIOUS
  <2>1. CASE p = p0
    <3>1. argOrder'[p] = n /\ n \notin namedArg' /\ \A k \in DOMAIN positionalArg' : positionalArg'[k] # n
      BY <1>2, <1>3, <1>7, <2>1 DEF Sorted
    <3> HIDE DEF AMInv, Types, AMTypeOK
    <3> QED BY <3>1 DEF Waiting
  <2>2. CASE p # p0
    <3>1. argOrder'[p] = argOrder[p] /\ argOrder[p] \in 1..Len(site) /\ ~Waiting(argOrder[p])
      BY <1>2, <1>7, <1>10, <2>2 DEF Placed
    <3> QED BY <1>2, <3>1 DEF Waiting
  <2> QED BY <2>1, <2>2
<1>14. \A p, q \in 1..Len(site) : argOrder'[p] = argOrder'[q] /\ argOrder'[p] # Unset => p = q
  <2> SUFFICES ASSUME NEW p \in 1..Len(site), NEW q \in 1..Len(site),
                      argOrder'[p] = argOrder'[q], argOrder'[p] # Unset
               PROVE  p = q
    OBVIOUS
  <2>1. CASE p # p0 /\ q # p0
    <3>1. argOrder[p] = argOrder[q] /\ argOrder[p] # Unset
      BY <1>7, <2>1
    <3>2. Placed
      OBVIOUS
    <3> HIDE DEF AMInv, Types, AMTypeOK
    <3> QED BY <1>2, <3>1, <3>2 DEF Placed
  <2>2. CASE p = p0 \/ q = p0
    BY <1>7, <1>9, <2>2
  <2> QED BY <2>1, <2>2
<1>15. \A p \in 1..Len(site) : argOrder'[p] # Unset =>
          site[argOrder'[p]].tag # None /\ site[argOrder'[p]].tag = callee.formals[p]
  <2> SUFFICES ASSUME NEW p \in 1..Len(site), argOrder'[p] # Unset
               PROVE  site[argOrder'[p]].tag # None /\ site[argOrder'[p]].tag = callee.formals[p]
    OBVIOUS
  <2>1. CASE p = p0
    BY <1>1, <1>3, <1>7, <2>1
  <2>2. CASE p # p0
    BY <1>2, <1>7, <1>11, <2>2 DEF Placed
  <2> QED BY <2>1, <2>2
<1>16. \A p \in 1..Len(site) : p < position => argOrder'[p] # Unset
  BY <1>2, <1>3, <1>7 DEF Placed
<1>17. Placed'
  <2> HIDE DEF AMInv, Types, AMTypeOK
  <2> QED BY <1>2, <1>12, <1>13, <1>14, <1>15, <1>16 DEF Placed
<1> QED BY <1>8, <1>17

LEMMA AdvanceStep ==
    ASSUME AMInv, ~Twice(site), Advance
    PROVE  (Sorted /\ Placed)'
<1> USE DEF AMInv, Types, AMTypeOK
<1>1. /\ pc = "match" /\ argOrder[position] # Unset /\ position' = position + 1
      /\ namedArg = {} /\ position \in Nat /\ position <= Len(site) /\ Len(site) \in Nat
      /\ UNCHANGED <<pc, site, callee, scanned, namedArg, positionalArg, argOrder>>
  BY DEF Advance, Occupied, callVars
<1>2. Sorted' /\ \A m : (Waiting(m))' <=> Waiting(m)
  BY <1>1 DEF Sorted, Waiting
<1>3. \A p \in 1..Len(site) : p < position + 1 => argOrder[p] # Unset
  BY <1>1 DEF Placed
<1>4. Placed
  OBVIOUS
<1> HIDE DEF AMInv, Types, AMTypeOK
<1>5. Placed'
  BY <1>1, <1>2, <1>3, <1>4 DEF Placed, Waiting
<1> QED BY <1>2, <1>5

LEMMA HeadTail ==
    ASSUME NEW s \in Seq(Nat), s # <<>>
    PROVE  /\ Len(s) \in Nat /\ Len(s) >= 1 /\ DOMAIN s = 1..Len(s) /\ Head(s) = s[1]
           /\ DOMAIN Tail(s) = 1..(Len(s) - 1)
           /\ \A k \in 1..(Len(s) - 1) : Tail(s)[k] = s[k + 1]
<1>1. Len(s) \in Nat /\ Len(s) >= 1 /\ DOMAIN s = 1..Len(s) /\ Head(s) = s[1]
  OBVIOUS
<1>2. Tail(s) \in Seq(Nat) /\ Len(Tail(s)) = Len(s) - 1
  BY <1>1
<1>3. DOMAIN Tail(s) = 1..(Len(s) - 1)
  BY <1>2
<1>4. \A k \in 1..(Len(s) - 1) : Tail(s)[k] = s[k + 1]
  BY <1>1
<1> QED BY <1>1, <1>3, <1>4

LEMMA PositionalStep ==
    ASSUME AMInv, MatchPositional
    PROVE  Sorted' /\ (~Twice(site) => Placed')
<1> USE DEF AMInv, Types, AMTypeOK
<1> DEFINE h == Head(positionalArg)
           p0 == position
<1>1. /\ pc = "match" /\ namedArg = {} /\ argOrder[p0] = Unset
      /\ p0 \in 1..Len(site) /\ Len(site) \in Nat
      /\ argOrder' = [argOrder EXCEPT ![p0] = h] /\ positionalArg' = Tail(positionalArg)
      /\ positionalArg \in Seq(Nat) /\ positionalArg # <<>>
      /\ UNCHANGED <<pc, site, callee, scanned, namedArg, position>>
  BY DEF MatchPositional, Occupied, callVars
<1>2. /\ h = positionalArg[1] /\ 1 \in DOMAIN positionalArg
      /\ Len(positionalArg) \in Nat /\ DOMAIN positionalArg = 1..Len(positionalArg)
      /\ DOMAIN positionalArg' = 1..(Len(positionalArg) - 1)
      /\ \A k \in DOMAIN positionalArg' :
            positionalArg'[k] = positionalArg[k + 1] /\ k + 1 \in DOMAIN positionalArg
      /\ \A k \in DOMAIN positionalArg : k # 1 => k - 1 \in DOMAIN positionalArg'
                                                  /\ positionalArg'[k - 1] = positionalArg[k]
  <2> HIDE DEF AMInv, Types, AMTypeOK
  <2>1. /\ Len(positionalArg) \in Nat /\ Len(positionalArg) >= 1
        /\ DOMAIN positionalArg = 1..Len(positionalArg) /\ h = positionalArg[1]
        /\ DOMAIN positionalArg' = 1..(Len(positionalArg) - 1)
        /\ \A k \in 1..(Len(positionalArg) - 1) : positionalArg'[k] = positionalArg[k + 1]
    BY <1>1, HeadTail
  <2>2. \A k \in 1..Len(positionalArg) : k # 1 =>
            k - 1 \in 1..(Len(positionalArg) - 1) /\ positionalArg'[k - 1] = positionalArg[k]
    BY <2>1
  <2> QED BY <2>1, <2>2
<1>3. /\ Sorted /\ h \in 1..Len(site) /\ site[h].tag = None /\ h # Unset
      /\ \A k \in DOMAIN positionalArg : positionalArg[k] \in Nat
      /\ \A k \in DOMAIN positionalArg' : h < positionalArg'[k]
  <2>1. Sorted /\ h \in 1..Len(site) /\ h \in Nat
        /\ \A k \in DOMAIN positionalArg : positionalArg[k] \in Nat
    <3>1. Sorted /\ \A k \in DOMAIN positionalArg : positionalArg[k] \in 1..scanned
      BY <1>1
    <3>2. scanned = Len(site)
      BY <1>1
    <3> HIDE DEF AMInv, Types, AMTypeOK, h
    <3>3. positionalArg[1] \in 1..Len(site) /\ h = positionalArg[1]
      BY <1>2, <3>1, <3>2
    <3> QED BY <1>1, <3>1, <3>2, <3>3
  <2> HIDE DEF AMInv, Types, AMTypeOK, h
  <2>2. \A k \in DOMAIN positionalArg' : h < positionalArg'[k]
    <3> SUFFICES ASSUME NEW k \in DOMAIN positionalArg' PROVE h < positionalArg'[k]
      OBVIOUS
    <3>1. positionalArg'[k] = positionalArg[k + 1] /\ k + 1 \in DOMAIN positionalArg /\ 1 < k + 1
      BY <1>2
    <3> QED BY <1>2, <2>1, <3>1 DEF Sorted
  <2>3. site[h].tag = None
    BY <1>2, <2>1 DEF Sorted
  <2> QED BY <2>1, <2>2, <2>3 DEF Unset
<1>4. /\ argOrder'[p0] = h
      /\ \A p \in 1..Len(site) : p # p0 => argOrder'[p] = argOrder[p]
      /\ \A p \in 1..Len(site) : argOrder[p] \in 1..Len(site) \/ argOrder[p] = Unset
  BY <1>1
<1>5. (~Twice(site) => Placed) /\ Waiting(h)
  BY <1>1, <1>2 DEF Waiting
<1> HIDE DEF AMInv, Types, AMTypeOK, h, p0
<1>6. Sorted'
  <2>1. \A n \in namedArg' : site'[n].tag # None
    BY <1>1
  <2>2. \A k \in DOMAIN positionalArg' : site'[positionalArg'[k]].tag = None
    BY <1>1, <1>2, <1>3 DEF Sorted
  <2>3. \A j, k \in DOMAIN positionalArg' : j < k => positionalArg'[j] < positionalArg'[k]
    BY <1>2, <1>3 DEF Sorted
  <2> QED BY <2>1, <2>2, <2>3 DEF Sorted
<1> SUFFICES ASSUME ~Twice(site) PROVE Placed'
  BY <1>6
<1>7. \A m \in 1..Len(site) : (Waiting(m))' <=> Waiting(m) /\ m # h
  <2> SUFFICES ASSUME NEW m \in 1..Len(site)
               PROVE  (\E k \in DOMAIN positionalArg' : positionalArg'[k] = m)
                      <=> (\E k \in DOMAIN positionalArg : positionalArg[k] = m) /\ m # h
    BY <1>1 DEF Waiting
  <2>1. ASSUME NEW k \in DOMAIN positionalArg', positionalArg'[k] = m
        PROVE  (\E j \in DOMAIN positionalArg : positionalArg[j] = m) /\ m # h
    BY <1>2, <1>3, <2>1
  <2>2. ASSUME NEW k \in DOMAIN positionalArg, positionalArg[k] = m, m # h
        PROVE  \E j \in DOMAIN positionalArg' : positionalArg'[j] = m
    BY <1>2, <2>2
  <2> QED BY <2>1, <2>2
<1>8. \A p \in 1..Len(site) : argOrder[p] # h
  BY <1>1, <1>3, <1>5 DEF Placed
<1>9. \A m \in 1..Len(site) : (Waiting(m))' \/ \E p \in 1..Len(site) : argOrder'[p] = m
  <2> SUFFICES ASSUME NEW m \in 1..Len(site), ~(Waiting(m))'
               PROVE  \E p \in 1..Len(site) : argOrder'[p] = m
    OBVIOUS
  <2>1. CASE m = h
    BY <1>1, <1>4, <2>1 DEF p0
  <2>2. CASE m # h
    <3>1. PICK p \in 1..Len(site) : argOrder[p] = m
      BY <1>1, <1>5, <1>7, <2>2 DEF Placed
    <3>2. p # p0
      BY <1>1, <3>1 DEF Unset
    <3> QED BY <1>4, <3>1, <3>2
  <2> QED BY <2>1, <2>2
<1>10. \A p \in 1..Len(site) : argOrder'[p] # Unset => ~(Waiting(argOrder[p]))'
  <2> SUFFICES ASSUME NEW p \in 1..Len(site), argOrder'[p] # Unset
               PROVE  ~(Waiting(argOrder[p]))'
    OBVIOUS
  <2>1. CASE p = p0
    <3>1. argOrder'[p] = h /\ h \notin namedArg' /\ \A k \in DOMAIN positionalArg' : positionalArg'[k] # h
      BY <1>1, <1>3, <1>4, <2>1
    <3> QED BY <3>1 DEF Waiting
  <2>2. CASE p # p0
    <3>1. argOrder'[p] = argOrder[p] /\ argOrder[p] \in 1..Len(site) /\ ~Waiting(argOrder[p])
      BY <1>1, <1>4, <1>5, <2>2 DEF Placed
    <3>2. /\ argOrder'[p] \notin namedArg'
          /\ \A k \in DOMAIN positionalArg' : positionalArg'[k] # argOrder'[p]
      BY <1>1, <1>2, <3>1 DEF Waiting
    <3> QED BY <3>2 DEF Waiting
  <2> QED BY <2>1, <2>2
<1>11. \A p, q \in 1..Len(site) : argOrder'[p] = argOrder'[q] /\ argOrder'[p] # Unset => p = q
  <2> SUFFICES ASSUME NEW p \in 1..Len(site), NEW q \in 1..Len(site),
                      argOrder'[p] = argOrder'[q], argOrder'[p] # Unset
               PROVE  p = q
    OBVIOUS
  <2>1. CASE p # p0 /\ q # p0
    BY <1>1, <1>4, <1>5, <2>1 DEF Placed
  <2>2. CASE p = p0 \/ q = p0
    BY <1>4, <1>8, <2>2
  <2> QED BY <2>1, <2>2
<1>12. \A p \in 1..Len(site) :
          argOrder'[p] # Unset /\ site[argOrder'[p]].tag # None => site[argOrder'[p]].tag = callee.formals[p]
  BY <1>1, <1>3, <1>4, <1>5 DEF Placed
<1>13. \A p \in 1..Len(site) : argOrder'[p] # Unset /\ site[argOrder'[p]].tag = None =>
          p <= position /\ \A k \in DOMAIN positionalArg' : argOrder'[p] < positionalArg'[k]
  <2> SUFFICES ASSUME NEW p \in 1..Len(site), argOrder'[p] # Unset, site[argOrder'[p]].tag = None
               PROVE  p <= position /\ \A k \in DOMAIN positionalArg' : argOrder'[p] < positionalArg'[k]
    OBVIOUS
  <2>1. CASE p = p0
    BY <1>1, <1>3, <1>4, <2>1 DEF p0
  <2>2. CASE p # p0
    BY <1>1, <1>2, <1>4, <1>5, <2>2 DEF Placed
  <2> QED BY <2>1, <2>2
<1>14. \A p \in 1..Len(site) : p < position => argOrder'[p] # Unset
  BY <1>1, <1>3, <1>4, <1>5 DEF Placed
<1>15. ASSUME NEW p \in 1..Len(site), NEW q \in 1..Len(site), p < q,
              argOrder'[p] # Unset, site[argOrder'[p]].tag = None,
              argOrder'[q] # Unset, site[argOrder'[q]].tag = None
       PROVE  argOrder'[p] < argOrder'[q]
  <2>1. CASE p # p0 /\ q # p0
    BY <1>1, <1>4, <1>5, <1>15, <2>1 DEF Placed
  <2>2. CASE q = p0
    <3>1. argOrder'[p] = argOrder[p] /\ argOrder'[q] = h
      BY <1>4, <1>15, <2>2
    <3>2. argOrder[p] < positionalArg[1]
      BY <1>1, <1>2, <1>5, <1>15, <3>1 DEF Placed
    <3> QED BY <1>2, <3>1, <3>2
  <2>3. CASE p = p0
    <3>1. argOrder'[q] = argOrder[q] /\ q <= position
      BY <1>1, <1>4, <1>5, <1>15, <2>3 DEF Placed
    <3> QED BY <1>1, <1>15, <2>3, <3>1 DEF p0
  <2> QED BY <2>1, <2>2, <2>3
<1> QED BY <1>1, <1>9, <1>10, <1>11, <1>12, <1>13, <1>14, <1>15 DEF Placed

LEMMA ScanStep ==
    ASSUME AMInv, Scan, ~GiveUp
    PROVE  pc' = "scan" /\ Sorted' /\ Collected'
<1> USE DEF AMInv, Types, AMTypeOK
<1> DEFINE m == scanned + 1
<1>1. /\ pc = "scan" /\ pc' = "scan" /\ site' = site /\ scanned' = m
      /\ m \in 1..Len(site) /\ scanned \in Nat /\ m = scanned + 1
      /\ positionalArg \in Seq(Nat)
      /\ Sorted /\ \A n \in 1..scanned : Waiting(n)
      /\ \A k \in DOMAIN positionalArg : positionalArg[k] \in 1..scanned
  BY DEF Scan, callVars, Collected
<1>2. \/ /\ site[m].tag # None
         /\ namedArg' = namedArg \cup {m} /\ positionalArg' = positionalArg
      \/ /\ site[m].tag = None
         /\ namedArg' = namedArg /\ positionalArg' = Append(positionalArg, m)
  BY DEF Scan
<1> HIDE DEF AMInv, Types, AMTypeOK, m
<1>3. CASE site[m].tag # None /\ namedArg' = namedArg \cup {m} /\ positionalArg' = positionalArg
  BY <1>1, <1>3 DEF Sorted, Collected, Waiting
<1>4. CASE site[m].tag = None /\ namedArg' = namedArg /\ positionalArg' = Append(positionalArg, m)
  <2>1. /\ Len(positionalArg) \in Nat /\ DOMAIN positionalArg = 1..Len(positionalArg)
        /\ DOMAIN positionalArg' = 1..(Len(positionalArg) + 1)
        /\ \A k \in 1..Len(positionalArg) : positionalArg'[k] = positionalArg[k]
        /\ positionalArg'[Len(positionalArg) + 1] = m
    BY <1>1, <1>4
  <2>2. \A k \in DOMAIN positionalArg' : k \in DOMAIN positionalArg \/ k = Len(positionalArg) + 1
    BY <2>1
  <2>3. \A k \in DOMAIN positionalArg' : site'[positionalArg'[k]].tag = None
    BY <1>1, <1>4, <2>1, <2>2 DEF Sorted
  <2>4. \A j, k \in DOMAIN positionalArg' : j < k => positionalArg'[j] < positionalArg'[k]
    <3> SUFFICES ASSUME NEW j \in DOMAIN positionalArg', NEW k \in DOMAIN positionalArg', j < k
                 PROVE  positionalArg'[j] < positionalArg'[k]
      OBVIOUS
    <3>1. j \in DOMAIN positionalArg /\ positionalArg'[j] = positionalArg[j]
      BY <2>1
    <3>2. CASE k \in DOMAIN positionalArg
      BY <1>1, <2>1, <3>1, <3>2 DEF Sorted
    <3>3. CASE k = Len(positionalArg) + 1
      BY <1>1, <2>1, <3>1, <3>3
    <3> QED BY <2>2, <3>2, <3>3
  <2>5. \A n \in namedArg' : site'[n].tag # None
    BY <1>1, <1>4 DEF Sorted
  <2>6. Sorted'
    BY <2>3, <2>4, <2>5 DEF Sorted
  <2>7. \A n \in 1..scanned' : (Waiting(n))'
    <3> SUFFICES ASSUME NEW n \in 1..scanned', n \notin namedArg'
                 PROVE  \E k \in DOMAIN positionalArg' : positionalArg'[k] = n
      BY DEF Waiting
    <3>1. CASE n = m
      BY <2>1, <3>1
    <3>2. CASE n # m
      <4>1. n \in 1..scanned
        BY <1>1, <3>2
      <4>2. PICK k \in DOMAIN positionalArg : positionalArg[k] = n
        BY <1>1, <1>4, <4>1 DEF Waiting
      <4> QED BY <2>1, <4>2
    <3> QED BY <3>1, <3>2
  <2> QED BY <1>1, <2>6, <2>7 DEF Collected
<1> QED BY <1>2, <1>3, <1>4

LEMMA ScanEndsStep ==
    ASSUME AMInv, ScanEnds, ~GiveUp
    PROVE  pc' = "match" /\ Sorted' /\ Placed'
<1> USE DEF AMInv, Types, AMTypeOK
<1>1. /\ pc = "scan" /\ pc' = "match"
      /\ UNCHANGED <<site, callee, scanned, namedArg, positionalArg, position>>
      /\ argOrder' = [p \in DOMAIN site |-> Unset]
      /\ Len(site) = Len(callee.formals)
  BY DEF ScanEnds, SameLength, callVars
<1>2. scanned = Len(site) /\ DOMAIN site = 1..Len(site) /\ Len(site) \in Nat
  BY <1>1 DEF ScanEnds
<1>3. Sorted'
  BY <1>1 DEF Sorted
<1>4. \A n \in 1..Len(site) : Waiting(n)
  BY <1>1, <1>2 DEF Collected
<1>5. \A p \in 1..Len(site) : argOrder'[p] = Unset
  BY <1>1, <1>2
<1>6. position = 1
  BY <1>1
<1> HIDE DEF AMInv, Types, AMTypeOK
<1>7. \A n \in 1..Len(site) : (Waiting(n))'
  BY <1>1, <1>4 DEF Waiting
<1>8. Placed'
  BY <1>1, <1>2, <1>5, <1>6, <1>7 DEF Placed
<1> QED BY <1>1, <1>3, <1>8

LEMMA AMInvInit == Init => AMInv
BY TypesInit DEF AMInv, Collected, Placed, Init

\* Each step keeps the arguments in order.
LEMMA AMInvStep == AMInv /\ [Next]_vars => AMInv'
<1> SUFFICES ASSUME AMInv, [Next]_vars PROVE AMInv'
  OBVIOUS
<1>0. Types'
  BY TypesStep DEF AMInv
<1>1. ASSUME pc' \notin {"scan", "match"} PROVE AMInv'
  BY <1>0, <1>1 DEF AMInv, Collected, Placed
<1>2. GiveUp => AMInv'
  BY <1>1 DEF GiveUp
<1>3. ASSUME NEW call \in Sites, NEW fun \in Callees, NEW dots \in Ellipses, Call(call, fun, dots)
      PROVE  AMInv'
  <2>1. pc' \in {"scan", "list"} /\ scanned' = 0 /\ namedArg' = {} /\ positionalArg' = <<>>
    BY <1>3 DEF Call, matchVars, AMInv, Types
  <2> QED BY <1>0, <2>1 DEF AMInv, Sorted, Collected, Placed
<1>4. Scan => AMInv'
  BY <1>0, <1>2, ScanStep DEF AMInv, Placed
<1>5. ScanEnds => AMInv'
  BY <1>0, <1>2, ScanEndsStep DEF AMInv, Collected
<1>6. ASSUME NEW n \in namedArg, MatchNamed(n) PROVE AMInv'
  <2>1. CASE GiveUp
    BY <1>2, <2>1
  <2>2. CASE ~GiveUp
    <3>1. pc = "match" /\ pc' = "match" /\ site' = site
      BY <1>6, <2>2 DEF MatchNamed, callVars
    <3>2. CASE Twice(site)
      <4>1. Twice(site)' /\ namedArg' \subseteq namedArg /\ positionalArg' = positionalArg
        BY <1>6, <2>2, <3>1, <3>2 DEF MatchNamed, Twice
      <4> QED BY <1>0, <3>1, <4>1 DEF AMInv, Sorted, Collected, Placed
    <3>3. CASE ~Twice(site)
      BY <1>0, <1>6, <3>1, <3>3, NamedStep DEF AMInv, Collected
    <3> QED BY <3>2, <3>3
  <2> QED BY <2>1, <2>2
<1>7. Advance => AMInv'
  <2> SUFFICES ASSUME Advance PROVE AMInv'
    OBVIOUS
  <2>1. pc = "match" /\ pc' = "match" /\ UNCHANGED <<site, namedArg, positionalArg>>
    BY DEF Advance, callVars
  <2>2. CASE Twice(site)
    BY <1>0, <2>1, <2>2 DEF AMInv, Sorted, Collected, Placed, Twice
  <2>3. CASE ~Twice(site)
    BY <1>0, <2>1, <2>3, AdvanceStep DEF AMInv, Collected
  <2> QED BY <2>2, <2>3
<1>8. MatchPositional => AMInv'
  <2> SUFFICES ASSUME MatchPositional PROVE AMInv'
    OBVIOUS
  <2>1. pc = "match" /\ pc' = "match" /\ site' = site
    BY DEF MatchPositional, callVars
  <2>2. CASE Twice(site)
    <3>1. Sorted'
      BY PositionalStep
    <3> QED BY <1>0, <2>1, <2>2, <3>1 DEF AMInv, Collected, Placed, Twice
  <2>3. CASE ~Twice(site)
    BY <1>0, <2>1, <2>3, PositionalStep DEF AMInv, Collected
  <2> QED BY <2>2, <2>3
<1>9. BindStatic => AMInv'
  BY <1>1, <1>2 DEF BindStatic
<1>10. AddArgument \/ CallGeneric \/ Return => AMInv'
  BY <1>1 DEF AddArgument, CallGeneric, Return
<1>11. UNCHANGED vars => AMInv'
  <2> SUFFICES ASSUME UNCHANGED vars PROVE AMInv'
    OBVIOUS
  <2>1. UNCHANGED <<pc, site, callee, scanned, namedArg, positionalArg, position, argOrder>>
    BY DEF vars
  <2>2. Sorted => Sorted'
    BY <2>1 DEF Sorted
  <2>3. Collected => Collected'
    BY <2>1 DEF Collected, Waiting
  <2>4. Placed => Placed'
    BY <2>1 DEF Placed, Waiting, Twice
  <2> QED BY <1>0, <2>1, <2>2, <2>3, <2>4 DEF AMInv
<1> QED BY <1>3, <1>4, <1>5, <1>6, <1>7, <1>8, <1>9, <1>10, <1>11 DEF Next

LEMMA AMInvAlways == Spec => []AMInv
BY AMInvInit, AMInvStep, PTL DEF Spec

-----------------------------------------------------------------------------
(* What the invariant entails *)

LEMMA IntervalSize == ASSUME NEW n \in Nat PROVE IsFiniteSet(1..n) /\ Cardinality(1..n) = n
<1>1. IsFiniteSet(1..n) /\ Cardinality(1..n) = (IF 1 > n THEN 0 ELSE n - 1 + 1)
  BY FS_Interval
<1> QED BY <1>1

\* While an argument without a name waits, a formal is free: the arguments that
\* the formals have do not wait, so there are fewer of them than formals.
LEMMA FormalFree ==
    ASSUME AMInv, pc = "match", ~Twice(site), namedArg = {}, positionalArg # <<>>
    PROVE  position <= Len(site)
<1> DEFINE N == 1..Len(site)
           h == Head(positionalArg)
           f == [p \in N |-> argOrder[p]]
<1>1. /\ Len(site) \in Nat /\ position \in 1..(Len(site) + 1) /\ positionalArg \in Seq(Nat)
      /\ scanned = Len(site) /\ \A k \in DOMAIN positionalArg : positionalArg[k] \in 1..scanned
      /\ argOrder \in [N -> N \cup {Unset}]
      /\ Placed
  BY DEF AMInv, Types, AMTypeOK
<1>2. h \in N /\ Waiting(h)
  BY <1>1, HeadTail DEF Waiting
<1> SUFFICES ASSUME position = Len(site) + 1 PROVE FALSE
  BY <1>1
<1>3. \A p \in N : argOrder[p] # Unset
  BY <1>1 DEF Placed
<1>4. f \in [N -> N \ {h}]
  BY <1>1, <1>2, <1>3 DEF Placed
<1>5. \A p, q \in N : f[p] = f[q] => p = q
  BY <1>1, <1>3 DEF Placed
<1>6. IsFiniteSet(N) /\ Cardinality(N) = Len(site)
  BY <1>1, IntervalSize
<1>7. IsFiniteSet(N \ {h}) /\ Cardinality(N \ {h}) = Len(site) - 1
  BY <1>2, <1>6, FS_RemoveElement
<1> HIDE DEF N, f, h
<1>8. \E p, q \in N : p # q /\ f[p] = f[q]
  BY <1>1, <1>4, <1>6, <1>7, FS_PigeonHole
<1> QED BY <1>5, <1>8

-----------------------------------------------------------------------------
(* Induction, and flattening *)

LEMMA Induction ==
    ASSUME NEW T, 0 \in T, \A n \in Nat : n \in T => n + 1 \in T
    PROVE  Nat \subseteq T
<1> DEFINE R == OpToRel(<, Nat)
<1>1. IsWellFoundedOn(R, Nat)
  BY NatLessThanWellFounded
<1>2. \A x, y \in Nat : x < y => <<x, y>> \in R
  BY DEF OpToRel
<1> HIDE DEF R
<1> SUFFICES ASSUME Nat \ T # {} PROVE FALSE
  OBVIOUS
<1>3. PICK x \in Nat \ T : \A y \in Nat \ T : ~(<<y, x>> \in R)
  BY <1>1, WFMin
<1>4. x # 0 /\ x - 1 \in Nat /\ x - 1 < x
  BY <1>3
<1>5. x - 1 \notin Nat \ T
  BY <1>2, <1>3, <1>4
<1>6. (x - 1) + 1 \in T
  BY <1>4, <1>5
<1> QED BY <1>3, <1>6

\* The equation that FlattenSeq solves, for the first n sequences.
IsFlat(f, n, seqs) == f = [i \in 1..n |-> IF i = 1 THEN seqs[i] ELSE f[i - 1] \o seqs[i]]

\* It has a solution.
LEMMA FlatExists ==
    ASSUME NEW seqs, NEW n \in Nat
    PROVE  \E f : IsFlat(f, n, seqs)
<1> DEFINE T == {m \in Nat : \E f : IsFlat(f, m, seqs)}
<1>1. 0 \in T
  <2>1. IsFlat([i \in 1..0 |-> seqs[i]], 0, seqs)
    BY DEF IsFlat
  <2> QED BY <2>1
<1>2. ASSUME NEW m \in Nat, m \in T PROVE m + 1 \in T
  <2>1. PICK f : IsFlat(f, m, seqs)
    BY <1>2
  <2> DEFINE last == IF m = 0 THEN seqs[1] ELSE f[m] \o seqs[m + 1]
             g == [i \in 1..(m + 1) |-> IF i = m + 1 THEN last ELSE f[i]]
  <2>2. \A i \in 1..(m + 1) : g[i] = IF i = 1 THEN seqs[i] ELSE g[i - 1] \o seqs[i]
    <3> SUFFICES ASSUME NEW i \in 1..(m + 1)
                 PROVE  g[i] = IF i = 1 THEN seqs[i] ELSE g[i - 1] \o seqs[i]
      OBVIOUS
    <3>1. CASE i = m + 1
      <4>1. g[i] = last
        BY <3>1
      <4>2. m # 0 => g[m] = f[m] /\ m \in Nat
        OBVIOUS
      <4>3. (m = 0 <=> i = 1) /\ i - 1 = m
        BY <3>1
      <4> HIDE DEF g
      <4> QED BY <3>1, <4>1, <4>2, <4>3
    <3>2. CASE i # m + 1
      <4>1. /\ i \in 1..m /\ g[i] = f[i]
            /\ i # 1 => i - 1 \in 1..m /\ g[i - 1] = f[i - 1]
        BY <3>2
      <4>2. f[i] = IF i = 1 THEN seqs[i] ELSE f[i - 1] \o seqs[i]
        BY <2>1, <4>1 DEF IsFlat
      <4> HIDE DEF g
      <4> QED BY <4>1, <4>2
    <3> QED BY <3>1, <3>2
  <2>3. IsFlat(g, m + 1, seqs)
    BY <2>2, Zenon DEF IsFlat
  <2> QED BY <2>3
<1> HIDE DEF T
<1>3. Nat \subseteq T
  BY <1>1, <1>2, Induction
<1> QED BY <1>3 DEF T

\* Nor another one.
LEMMA FlatUnique ==
    ASSUME NEW seqs, NEW n \in Nat, NEW m \in Nat, m <= n, NEW f, NEW g, IsFlat(f, m, seqs),
           NEW s, \A i \in 1..m : s[i] = seqs[i], IsFlat(g, n, s)
    PROVE  \A i \in 1..m : f[i] = g[i]
<1> DEFINE T == {i \in Nat : i + 1 <= m => f[i + 1] = g[i + 1]}
<1>1. /\ \A i \in 1..m : f[i] = IF i = 1 THEN seqs[i] ELSE f[i - 1] \o seqs[i]
      /\ \A i \in 1..m : g[i] = IF i = 1 THEN seqs[i] ELSE g[i - 1] \o seqs[i]
  <2>1. \A i \in 1..m : f[i] = IF i = 1 THEN seqs[i] ELSE f[i - 1] \o seqs[i]
    BY DEF IsFlat
  <2>2. \A i \in 1..n : g[i] = IF i = 1 THEN s[i] ELSE g[i - 1] \o s[i]
    BY DEF IsFlat
  <2>3. \A i \in 1..m : i \in 1..n /\ s[i] = seqs[i]
    OBVIOUS
  <2> QED BY <2>1, <2>2, <2>3
<1>2. 0 \in T
  BY <1>1
<1>3. ASSUME NEW i \in Nat, i \in T PROVE i + 1 \in T
  <2> SUFFICES ASSUME i + 2 <= m PROVE f[i + 2] = g[i + 2]
    OBVIOUS
  <2>1. f[i + 1] = g[i + 1] /\ i + 2 \in 1..m /\ i + 2 # 1 /\ (i + 2) - 1 = i + 1
    BY <1>3
  <2> QED BY <1>1, <2>1
<1> HIDE DEF T
<1>4. Nat \subseteq T
  BY <1>2, <1>3, Induction
<1> SUFFICES ASSUME NEW i \in 1..m PROVE f[i] = g[i]
  OBVIOUS
<1>5. i - 1 \in T /\ (i - 1) + 1 = i
  BY <1>4
<1> QED BY <1>5 DEF T

\* What FlattenSeq makes of sequences is the last value of the solution.
LEMMA FlattenIs ==
    ASSUME NEW seqs, Len(seqs) \in Nat, Len(seqs) # 0
    PROVE  \E f : IsFlat(f, Len(seqs), seqs) /\ FlattenSeq(seqs) = f[Len(seqs)]
<1> DEFINE f == CHOOSE f : f = [i \in 1..Len(seqs) |-> IF i = 1 THEN seqs[i] ELSE f[i - 1] \o seqs[i]]
<1>1. \E g : g = [i \in 1..Len(seqs) |-> IF i = 1 THEN seqs[i] ELSE g[i - 1] \o seqs[i]]
  BY FlatExists DEF IsFlat
<1>2. f = [i \in 1..Len(seqs) |-> IF i = 1 THEN seqs[i] ELSE f[i - 1] \o seqs[i]]
  BY <1>1
<1>3. FlattenSeq(seqs) = f[Len(seqs)]
  BY DEF FlattenSeq
<1>4. IsFlat(f, Len(seqs), seqs)
  BY <1>2 DEF IsFlat
<1> QED BY <1>3, <1>4

\* One sequence more is appended.
LEMMA FlattenNext ==
    ASSUME NEW seqs, NEW n \in Nat, NEW S, seqs[n + 1] \in Seq(S)
    PROVE  FlattenSeq([i \in 1..(n + 1) |-> seqs[i]]) =
               FlattenSeq([i \in 1..n |-> seqs[i]]) \o seqs[n + 1]
<1> DEFINE s == [i \in 1..n |-> seqs[i]]
           t == [i \in 1..(n + 1) |-> seqs[i]]
<1>1. /\ Len(s) = n /\ \A i \in 1..n : s[i] = seqs[i]
      /\ Len(t) = n + 1 /\ \A i \in 1..(n + 1) : t[i] = seqs[i]
      /\ n = 0 => s = <<>>
  OBVIOUS
<1> HIDE DEF s, t
<1>2. n + 1 \in Nat /\ n + 1 # 0 /\ n + 1 \in 1..(n + 1) /\ (n + 1) - 1 = n
  OBVIOUS
<1>3. PICK g : IsFlat(g, n + 1, t) /\ FlattenSeq(t) = g[n + 1]
  BY <1>1, <1>2, FlattenIs
<1>4. \A i \in 1..(n + 1) : g[i] = IF i = 1 THEN t[i] ELSE g[i - 1] \o t[i]
  BY <1>3 DEF IsFlat
<1>5. FlattenSeq(t) = IF n = 0 THEN seqs[n + 1] ELSE g[n] \o seqs[n + 1]
  BY <1>1, <1>2, <1>3, <1>4
<1>6. CASE n = 0
  <2>1. FlattenSeq(s) = <<>>
    BY <1>1, <1>6 DEF FlattenSeq
  <2>2. <<>> \o seqs[n + 1] = seqs[n + 1]
    OBVIOUS
  <2> QED BY <1>5, <1>6, <2>1, <2>2 DEF s, t
<1>7. CASE n # 0
  <2>1. PICK f : IsFlat(f, n, s) /\ FlattenSeq(s) = f[n]
    BY <1>1, <1>7, FlattenIs
  <2>2. \A i \in 1..n : t[i] = s[i]
    BY <1>1
  <2>3. n \in 1..n /\ n <= n + 1
    BY <1>7
  <2>4. \A i \in 1..n : f[i] = g[i]
    BY <1>2, <1>3, <2>1, <2>2, <2>3, FlatUnique
  <2>5. FlattenSeq(t) = FlattenSeq(s) \o seqs[n + 1]
    BY <1>5, <1>7, <2>1, <2>3, <2>4
  <2> QED BY <2>5 DEF s, t
<1> QED BY <1>6, <1>7

\* A sequence with one more element.
LEMMA AppendOne ==
    ASSUME NEW e, NEW m \in Nat
    PROVE  [i \in 1..m |-> e[i]] \o <<e[m + 1]>> = [i \in 1..(m + 1) |-> e[i]]
<1> DEFINE s == [i \in 1..m |-> e[i]]
           t == [i \in 1..(m + 1) |-> e[i]]
           E == {e[i] : i \in 1..(m + 1)}
<1>1. s \in Seq(E) /\ t \in Seq(E) /\ <<e[m + 1]>> \in Seq(E)
  <2>1. e[m + 1] \in E /\ \A i \in 1..m : e[i] \in E
    OBVIOUS
  <2>2. t \in Seq(E)
    OBVIOUS
  <2> HIDE DEF E, t
  <2> QED BY <2>1, <2>2
<1>2. Len(s) = m /\ Len(t) = m + 1 /\ Len(<<e[m + 1]>>) = 1 /\ <<e[m + 1]>>[1] = e[m + 1]
  OBVIOUS
<1>3. (\A i \in 1..m : s[i] = e[i]) /\ (\A i \in 1..(m + 1) : t[i] = e[i])
  OBVIOUS
<1> HIDE DEF s, t, E
<1> DEFINE u == s \o <<e[m + 1]>>
<1>4. u \in Seq(E) /\ Len(u) = m + 1
  BY <1>1, <1>2
<1>5. \A i \in 1..m : u[i] = s[i]
  BY <1>1, <1>2
<1>6. u[m + 1] = e[m + 1]
  BY <1>1, <1>2
<1> HIDE DEF u
<1>7. \A i \in 1..(m + 1) : u[i] = t[i]
  <2>1. \A i \in 1..(m + 1) : i \in 1..m \/ i = m + 1
    OBVIOUS
  <2> QED BY <1>3, <1>5, <1>6, <2>1
<1>8. u = t
  BY <1>1, <1>2, <1>4, <1>7
<1> QED BY <1>8 DEF s, t, u

\* Sequences of one element become the sequence of these.
LEMMA FlattenSingletons ==
    ASSUME NEW e, NEW n \in Nat
    PROVE  FlattenSeq([i \in 1..n |-> <<e[i]>>]) = [i \in 1..n |-> e[i]]
<1> DEFINE T == {m \in Nat : FlattenSeq([i \in 1..m |-> <<e[i]>>]) = [i \in 1..m |-> e[i]]}
<1>1. 0 \in T
  <2>1. [i \in 1..0 |-> <<e[i]>>] = <<>> /\ [i \in 1..0 |-> e[i]] = <<>> /\ Len(<<>>) = 0
    OBVIOUS
  <2> QED BY <2>1 DEF FlattenSeq
<1>2. ASSUME NEW m \in Nat, m \in T PROVE m + 1 \in T
  <2> DEFINE seqs == [i \in 1..(m + 1) |-> <<e[i]>>]
  <2>1. seqs[m + 1] = <<e[m + 1]>> /\ <<e[m + 1]>> \in Seq({e[m + 1]})
    OBVIOUS
  <2>2. /\ [i \in 1..(m + 1) |-> seqs[i]] = [i \in 1..(m + 1) |-> <<e[i]>>]
        /\ [i \in 1..m |-> seqs[i]] = [i \in 1..m |-> <<e[i]>>]
    OBVIOUS
  <2>3. FlattenSeq([i \in 1..(m + 1) |-> seqs[i]]) = FlattenSeq([i \in 1..m |-> seqs[i]]) \o seqs[m + 1]
    <3> HIDE DEF seqs
    <3> QED BY <2>1, FlattenNext
  <2> HIDE DEF seqs
  <2>4. FlattenSeq([i \in 1..(m + 1) |-> <<e[i]>>]) = [i \in 1..m |-> e[i]] \o <<e[m + 1]>>
    BY <1>2, <2>1, <2>2, <2>3
  <2>5. [i \in 1..m |-> e[i]] \o <<e[m + 1]>> = [i \in 1..(m + 1) |-> e[i]]
    BY AppendOne
  <2>6. FlattenSeq([i \in 1..(m + 1) |-> <<e[i]>>]) = [i \in 1..(m + 1) |-> e[i]]
    BY <2>4, <2>5, Zenon
  <2>7. m + 1 \in Nat
    OBVIOUS
  <2> QED BY <2>6, <2>7, Zenon
<1> HIDE DEF T
<1>3. Nat \subseteq T
  BY <1>1, <1>2, Induction
<1> QED BY <1>3 DEF T
-----------------------------------------------------------------------------
(* R's matching of calls that static caches are made for *)

\* Order gives each of n formals an argument of its own: the one of its name, or
\* the next one without a name.
InPlace(formals, args, order, n) ==
    /\ DOMAIN formals = 1..n /\ Len(formals) = n /\ DOMAIN args = 1..n
    /\ \A p \in 1..n : formals[p] \in Name /\ formals[p] # Dots
    /\ \A p, q \in 1..n : formals[p] = formals[q] => p = q
    /\ \A a \in 1..n : args[a].tag \in Name \cup {None} /\ args[a].value # Missing
    /\ \A p \in 1..n : order[p] \in 1..n
    /\ \A p, q \in 1..n : order[p] = order[q] => p = q
    /\ \A a \in 1..n : \E p \in 1..n : order[p] = a
    /\ \A p \in 1..n : args[order[p]].tag # None => args[order[p]].tag = formals[p]
    /\ \A p, q \in 1..n : args[order[p]].tag = None /\ args[order[q]].tag = None /\ p < q
                          => order[p] < order[q]

\* There is no ... among them.
LEMMA EndPlain ==
    ASSUME NEW formals, NEW args, NEW order, NEW n \in Nat, InPlace(formals, args, order, n)
    PROVE  End(formals) = n + 1
BY DEF InPlace, End

LEMMA ExactPlain ==
    ASSUME NEW formals, NEW args, NEW order, NEW n \in Nat, InPlace(formals, args, order, n),
           NEW p \in 1..n
    PROVE  Exact(formals, args, p) = IF args[order[p]].tag # None THEN {order[p]} ELSE {}
<1>1. Exact(formals, args, p) = {a \in 1..n : args[a].tag = formals[p]}
  <2>1. End(formals) = n + 1 /\ p # n + 1
    BY EndPlain
  <2>2. DOMAIN args = 1..n
    BY DEF InPlace
  <2> QED BY <2>1, <2>2 DEF Exact
<1>2. ASSUME NEW a \in 1..n, args[a].tag = formals[p] PROVE a = order[p] /\ args[a].tag # None
  <2>1. args[a].tag # None
    BY <1>2, NamesAssumption DEF InPlace
  <2>2. PICK q \in 1..n : order[q] = a
    BY DEF InPlace
  <2>3. formals[q] = formals[p]
    BY <1>2, <2>1, <2>2 DEF InPlace
  <2>4. q = p
    BY <2>3 DEF InPlace
  <2> QED BY <2>1, <2>2, <2>4
<1>3. order[p] \in 1..n /\ (args[order[p]].tag # None => args[order[p]].tag = formals[p])
  BY DEF InPlace
<1> QED BY <1>1, <1>2, <1>3

\* Partial names find nothing that has not been found.
LEMMA ByNamePlain ==
    ASSUME NEW formals, NEW args, NEW order, NEW n \in Nat, InPlace(formals, args, order, n),
           NEW p \in 1..n
    PROVE  ByName(formals, args, p) = IF args[order[p]].tag # None THEN {order[p]} ELSE {}
<1> DEFINE exact == UNION {Exact(formals, args, q) : q \in DOMAIN formals}
           partial == {a \in DOMAIN args \ exact : /\ p < End(formals) /\ Exact(formals, args, p) = {}
                                                  /\ <<args[a].tag, formals[p]>> \in Prefix}
<1>1. ASSUME NEW a \in 1..n, <<args[a].tag, formals[p]>> \in Prefix PROVE a \in exact
  <2>1. args[a].tag # None
    BY <1>1, PrefixAssumption, NamesAssumption
  <2>2. PICK q \in 1..n : order[q] = a
    BY DEF InPlace
  <2>3. a \in Exact(formals, args, q)
    BY <2>1, <2>2, ExactPlain
  <2> QED BY <2>3 DEF InPlace
<1>2. partial = {}
  <2> HIDE DEF exact
  <2> QED BY <1>1 DEF InPlace
<1>3. ByName(formals, args, p) = Exact(formals, args, p) \cup partial
  BY DEF ByName
<1> QED BY <1>2, <1>3, ExactPlain

\* Formals and arguments without names are as many, in the same order.
LEMMA RankPlain ==
    ASSUME NEW formals, NEW args, NEW order, NEW n \in Nat, InPlace(formals, args, order, n),
           NEW open, open = {q \in 1..n : args[order[q]].tag = None},
           NEW untagged, untagged = {a \in 1..n : args[a].tag = None},
           NEW p \in open
    PROVE  Rank(p, open) = Rank(order[p], untagged)
<1> DEFINE S == {q \in open : q < p}
           T == {a \in untagged : a < order[p]}
           f == [q \in S |-> order[q]]
<1>1. IsFiniteSet(S)
  BY IntervalSize, FS_Subset
<1>2. \A q \in S : f[q] \in T /\ f[q] = order[q]
  BY DEF InPlace
<1>3. f \in [S -> T]
  BY <1>2
<1>4. \A q, r \in S : f[q] = f[r] => q = r
  BY DEF InPlace
<1>5. \A a \in T : \E q \in S : f[q] = a
  <2> SUFFICES ASSUME NEW a \in T PROVE \E q \in S : f[q] = a
    OBVIOUS
  <2>1. PICK q \in 1..n : order[q] = a
    BY DEF InPlace
  <2>2. q \in open /\ p \in 1..n
    BY <2>1
  <2>3. a < order[p] /\ a \in 1..n /\ order[p] \in 1..n /\ args[order[p]].tag = None
        /\ args[order[q]].tag = None
    BY <2>1, <2>2 DEF InPlace
  <2>4. ~(p < q)
    <3>1. p < q => order[p] < order[q]
      BY <2>1, <2>2, <2>3 DEF InPlace
    <3> QED BY <2>1, <2>3, <3>1
  <2>5. p # q
    BY <2>1, <2>3
  <2>6. q < p
    BY <2>1, <2>2, <2>4, <2>5
  <2> QED BY <2>1, <2>2, <2>6
<1> HIDE DEF S, T, f
<1>6. f \in Bijection(S, T)
  BY <1>3, <1>4, <1>5, Fun_IsBij
<1>7. Cardinality(T) = Cardinality(S)
  BY <1>1, <1>6, FS_Bijection DEF ExistsBijection
<1> QED BY <1>7 DEF Rank, S, T

\* No two elements have the same number of smaller ones.
LEMMA RankUnique ==
    ASSUME NEW n \in Nat, NEW S \in SUBSET (1..n), NEW x \in S, NEW y \in S, Rank(x, S) = Rank(y, S)
    PROVE  x = y
<1>1. ASSUME NEW u \in S, NEW v \in S, u < v PROVE Rank(u, S) # Rank(v, S)
  <2> DEFINE U == {z \in S : z < u}
             V == {z \in S : z < v}
  <2>1. IsFiniteSet(V)
    BY IntervalSize, FS_Subset
  <2>2. u \in Nat /\ v \in Nat /\ \A z \in S : z \in Nat
    OBVIOUS
  <2>3. \A z \in U : z \in V
    BY <1>1, <2>2
  <2>4. u \in V /\ u \notin U
    BY <1>1, <2>2
  <2>5. U \in SUBSET V /\ U # V
    BY <2>3, <2>4
  <2> HIDE DEF U, V
  <2>6. Cardinality(U) # Cardinality(V)
    BY <2>1, <2>5, FS_Subset
  <2> QED BY <2>6 DEF Rank, U, V
<1>2. x \in Nat /\ y \in Nat
  OBVIOUS
<1>3. x < y \/ y < x \/ x = y
  BY <1>2
<1> QED BY <1>1, <1>3

LEMMA ByPositionPlain ==
    ASSUME NEW formals, NEW args, NEW order, NEW n \in Nat, InPlace(formals, args, order, n),
           NEW p \in 1..n
    PROVE  ByPosition(formals, args, p) = IF args[order[p]].tag = None THEN {order[p]} ELSE {}
<1> DEFINE open == {q \in 1..n : args[order[q]].tag = None}
           untagged == {a \in 1..n : args[a].tag = None}
           Taken(q) == \E a \in ByName(formals, args, q) : args[a].value # Missing
<1>1. \A q \in 1..n : Taken(q) <=> args[order[q]].tag # None
  <2> SUFFICES ASSUME NEW q \in 1..n PROVE Taken(q) <=> args[order[q]].tag # None
    OBVIOUS
  <2>1. ByName(formals, args, q) = IF args[order[q]].tag # None THEN {order[q]} ELSE {}
    BY ByNamePlain
  <2>2. args[order[q]].value # Missing
    BY DEF InPlace
  <2> QED BY <2>1, <2>2
<1>2. {q \in DOMAIN formals : q < End(formals) /\ ~Taken(q)} = open
  <2>1. End(formals) = n + 1 /\ \A q \in 1..n : q < n + 1
    BY EndPlain
  <2>2. DOMAIN formals = 1..n
    BY DEF InPlace
  <2> HIDE DEF Taken
  <2> QED BY <1>1, <2>1, <2>2
<1>3. {a \in DOMAIN args : args[a].tag = None} = untagged
  BY DEF InPlace
<1>4. ByPosition(formals, args, p) = {a \in untagged : p \in open /\ Rank(a, untagged) = Rank(p, open)}
  <2>1. ByPosition(formals, args, p) =
          {a \in {b \in DOMAIN args : args[b].tag = None} :
              /\ p \in {q \in DOMAIN formals : q < End(formals) /\ ~Taken(q)}
              /\ Rank(a, {b \in DOMAIN args : args[b].tag = None})
                   = Rank(p, {q \in DOMAIN formals : q < End(formals) /\ ~Taken(q)})}
    BY DEF ByPosition
  <2> HIDE DEF Taken, open, untagged
  <2> QED BY <1>2, <1>3, <2>1
<1>5. order[p] \in 1..n
  BY DEF InPlace
<1>6. CASE args[order[p]].tag # None
  <2>1. p \notin open
    BY <1>6
  <2> HIDE DEF open, untagged
  <2> QED BY <1>4, <1>6, <2>1
<1>7. CASE args[order[p]].tag = None
  <2>1. p \in open /\ order[p] \in untagged /\ untagged \in SUBSET (1..n)
    BY <1>5, <1>7
  <2>2. Rank(p, open) = Rank(order[p], untagged)
    <3>1. open = {q \in 1..n : args[order[q]].tag = None} /\ untagged = {a \in 1..n : args[a].tag = None}
      OBVIOUS
    <3> HIDE DEF open, untagged
    <3> QED BY <2>1, <3>1, RankPlain
  <2> HIDE DEF open, untagged
  <2>3. \A a \in untagged : Rank(a, untagged) = Rank(p, open) <=> a = order[p]
    BY <2>1, <2>2, RankUnique
  <2> QED BY <1>4, <1>7, <2>1, <2>3
<1> QED BY <1>6, <1>7

\* What matching makes if nothing goes wrong.
Success(formals, args) == [error |-> FALSE, env |-> [p \in DOMAIN formals |-> ValueOf(formals, args, p)]]

\* R matches as the order says.
LEMMA MatchedPlain ==
    ASSUME NEW formals, NEW args, NEW order, NEW n \in Nat, InPlace(formals, args, order, n)
    PROVE  /\ Matched(formals, args) = Success(formals, args)
           /\ \A p \in 1..n : ValueOf(formals, args, p) = args[order[p]].value
<1> DEFINE Name_(p) == ByName(formals, args, p)
           Pos(p) == ByPosition(formals, args, p)
<1>1. \A p \in 1..n : /\ Name_(p) = IF args[order[p]].tag # None THEN {order[p]} ELSE {}
                      /\ Pos(p) = IF args[order[p]].tag = None THEN {order[p]} ELSE {}
  BY ByNamePlain, ByPositionPlain
<1>2. /\ DOMAIN formals = 1..n /\ Len(formals) = n /\ DOMAIN args = 1..n
      /\ \A p, q \in 1..n : order[p] = order[q] => p = q
      /\ \A a \in 1..n : \E p \in 1..n : order[p] = a
  BY DEF InPlace
<1>3. End(formals) = n + 1 /\ \A p \in 1..n : p # n + 1
  BY EndPlain
<1>4. Left(formals, args) = {}
  <2>1. Left(formals, args) = (1..n) \ UNION {Name_(p) \cup Pos(p) : p \in 1..n}
    BY <1>2 DEF Left
  <2>2. \A p \in 1..n : order[p] \in Name_(p) \cup Pos(p)
    BY <1>1
  <2> HIDE DEF Name_, Pos
  <2>3. ASSUME NEW a \in 1..n PROVE a \in UNION {Name_(p) \cup Pos(p) : p \in 1..n}
    <3>1. PICK p \in 1..n : order[p] = a
      BY <1>2
    <3>2. a \in Name_(p) \cup Pos(p)
      BY <2>2, <3>1
    <3> QED BY <3>2
  <2> QED BY <2>1, <2>3
<1>5. ASSUME NEW p \in 1..n PROVE ~(Cardinality(Name_(p)) > 1)
  <2>1. Cardinality({}) = 0 /\ Cardinality({order[p]}) = 1
    BY FS_EmptySet, FS_Singleton
  <2>2. Name_(p) = {} \/ Name_(p) = {order[p]}
    BY <1>1
  <2> HIDE DEF Name_
  <2> QED BY <2>1, <2>2
<1>6. ASSUME NEW p \in 1..n, NEW q \in 1..n, p # q PROVE Name_(p) \cap Name_(q) = {}
  <2>1. order[p] # order[q]
    BY <1>2, <1>6
  <2>2. Name_(p) \in {{}, {order[p]}} /\ Name_(q) \in {{}, {order[q]}}
    BY <1>1
  <2> HIDE DEF Name_
  <2> QED BY <2>1, <2>2
<1>7. ASSUME NEW p \in 1..n PROVE ValueOf(formals, args, p) = args[order[p]].value
  <2> DEFINE as == IF Pos(p) # {} THEN Pos(p) ELSE Name_(p)
  <2>1. as = {order[p]}
    BY <1>1
  <2>2. p # End(formals)
    BY <1>3
  <2>3. ValueOf(formals, args, p) = args[CHOOSE a \in as : TRUE].value
    BY <2>1, <2>2 DEF ValueOf
  <2>4. (CHOOSE a \in as : TRUE) = order[p]
    <3> HIDE DEF as
    <3> QED BY <2>1
  <2> HIDE DEF as
  <2> QED BY <2>3, <2>4
<1>8. Matched(formals, args) = Success(formals, args)
  BY <1>2, <1>3, <1>4, <1>5, <1>6 DEF Matched, Success
<1> QED BY <1>7, <1>8

-----------------------------------------------------------------------------
(* What the callee gets *)

\* The list after the first n arguments.
Listing(n) == FlattenSeq([i \in 1..n |-> SuppliedBy(site[i], i, ellipsis, Eager)])

\* The call site passes each argument in its own way.
AllPassed == pc # "call" => /\ passed = [i \in 1..Len(site) |-> Passed(site[i], i)]
                            /\ ellipsis \in Ellipses

\* Static caches are made for plain arguments and formals only.
AllPlain == pc \in {"scan", "match"} =>
                \A i \in 1..scanned : /\ site[i].kind \in {"literal", "null", "code"}
                                      /\ callee.formals[i] # Dots

\* The list has the arguments that have been dealt with.
AllListed == /\ pc \in {"call", "scan", "match"} => arglist = <<>> /\ added = 0
             /\ pc = "list" => arglist = Listing(added)

BindInv == AMInv /\ AllPassed /\ AllPlain /\ AllListed /\ BindsAsR

\* The first list is empty.
LEMMA ListedFirst ==
    ASSUME pc' = "list", arglist' = <<>>, added' = 0
    PROVE  AllListed'
<1>1. FlattenSeq(<<>>) = <<>>
  BY DEF FlattenSeq
<1>2. [i \in 1..0 |-> SuppliedBy(site'[i], i, ellipsis', Eager')] = <<>>
  OBVIOUS
<1>3. (Listing(0))' = <<>>
  BY <1>1, <1>2 DEF Listing
<1>4. (Listing(added))' = (Listing(0))'
  BY DEF Listing
<1> QED BY <1>3, <1>4 DEF AllListed

\* compileArgument makes of an argument what R supplies.
LEMMA ArgumentRight ==
    ASSUME NEW a \in Argument_, a.kind # "dots", NEW i
    PROVE  SuppliedBy(a, i, ellipsis, Eager) = <<[tag |-> a.tag, value |-> Argument(a, Passed(a, i))]>>
<1>1. a.kind \in {"literal", "null", "code", "missing"}
  BY DEF Argument_
<1>2. CASE a.kind \in {"literal", "null"}
  BY <1>2 DEF SuppliedBy, Argument, Passed
<1>3. CASE a.kind = "missing"
  BY <1>3 DEF SuppliedBy, Argument
<1>4. CASE a.kind = "code"
  <2>1. Passed(a, i) = Val("code", i)
    BY <1>4 DEF Passed
  <2>2. Argument(a, Passed(a, i)) = IF Eager THEN Val("value", i) ELSE Val("promise", i)
    BY <1>4, <2>1 DEF Argument, CallNative, CreatePromise, Val
  <2>3. SuppliedBy(a, i, ellipsis, Eager) =
            <<[tag |-> a.tag, value |-> Val(IF Eager THEN "value" ELSE "promise", i)]>>
    BY <1>4 DEF SuppliedBy
  <2> QED BY <2>2, <2>3
<1> QED BY <1>1, <1>2, <1>3, <1>4

\* The list grows as R's does.
LEMMA AddArgumentStep ==
    ASSUME BindInv, AddArgument
    PROVE  AllListed'
<1> DEFINE n == added
           One(i) == SuppliedBy(site[i], i, ellipsis, Eager)
           seqs == [i \in 1..(n + 1) |-> One(i)]
<1>1. /\ pc = "list" /\ pc' = "list" /\ added' = n + 1 /\ n \in Nat
      /\ n + 1 \in 1..Len(site) /\ Len(site) \in Nat
      /\ UNCHANGED <<site, ellipsis, callee>>
  BY DEF AddArgument, callVars, BindInv, AMInv, Types, AMTypeOK
<1>2. /\ site[n + 1] \in Argument_
      /\ passed[n + 1] = Passed(site[n + 1], n + 1)
      /\ ellipsis \in Ellipses /\ arglist = Listing(n)
  <2>1. site \in Seq(Argument_)
    BY DEF BindInv, AMInv, Types
  <2>2. site[n + 1] \in Argument_
    BY <1>1, <2>1
  <2> QED BY <1>1, <2>2 DEF BindInv, AllPassed, AllListed
<1>3. arglist' = arglist \o One(n + 1)
  <2>1. CASE site[n + 1].kind = "dots"
    <3>1. One(n + 1) = [k \in DOMAIN ellipsis |->
                           [ellipsis[k] EXCEPT !.value = IF Eager THEN Forced(@) ELSE @]]
      BY <2>1 DEF SuppliedBy
    <3> QED BY <2>1, <3>1 DEF AddArgument
  <2>2. CASE site[n + 1].kind # "dots"
    <3>1. One(n + 1) = <<[tag |-> site[n + 1].tag, value |-> Argument(site[n + 1], passed[n + 1])]>>
      BY <1>2, <2>2, ArgumentRight
    <3> QED BY <2>2, <3>1 DEF AddArgument
  <2> QED BY <2>1, <2>2
<1>4. \E S : One(n + 1) \in Seq(S)
  <2>1. CASE site[n + 1].kind = "dots"
    <3> DEFINE e(k) == [ellipsis[k] EXCEPT !.value = IF Eager THEN Forced(@) ELSE @]
               S == {e(k) : k \in DOMAIN ellipsis}
    <3>1. One(n + 1) = [k \in DOMAIN ellipsis |-> e(k)]
      BY <2>1 DEF SuppliedBy
    <3>2. DOMAIN ellipsis = 1..Len(ellipsis) /\ Len(ellipsis) \in Nat
      BY <1>2, EllipsesAssumption
    <3>3. \A k \in 1..Len(ellipsis) : e(k) \in S
      BY <3>2
    <3> HIDE DEF e, S
    <3>4. [k \in 1..Len(ellipsis) |-> e(k)] \in Seq(S)
      BY <3>2, <3>3
    <3> QED BY <3>1, <3>2, <3>4
  <2>2. CASE site[n + 1].kind # "dots"
    <3> DEFINE x == [tag |-> site[n + 1].tag, value |-> Argument(site[n + 1], Passed(site[n + 1], n + 1))]
    <3>1. One(n + 1) = <<x>>
      BY <1>2, <2>2, ArgumentRight
    <3> HIDE DEF x
    <3>2. <<x>> \in Seq({x})
      OBVIOUS
    <3> QED BY <3>1, <3>2
  <2> QED BY <2>1, <2>2
<1>5. Listing(n + 1) = Listing(n) \o One(n + 1)
  <2>1. /\ seqs[n + 1] = One(n + 1)
        /\ [i \in 1..(n + 1) |-> seqs[i]] = [i \in 1..(n + 1) |-> One(i)]
        /\ [i \in 1..n |-> seqs[i]] = [i \in 1..n |-> One(i)]
    <3> HIDE DEF One
    <3> QED BY <1>1
  <2> HIDE DEF seqs, n, One
  <2>2. PICK S : One(n + 1) \in Seq(S)
    BY <1>4
  <2>3. FlattenSeq([i \in 1..(n + 1) |-> seqs[i]]) = FlattenSeq([i \in 1..n |-> seqs[i]]) \o seqs[n + 1]
    BY <1>1, <2>1, <2>2, FlattenNext
  <2>4. FlattenSeq([i \in 1..(n + 1) |-> One(i)]) = FlattenSeq([i \in 1..n |-> One(i)]) \o One(n + 1)
    BY <2>1, <2>3
  <2> QED BY <2>4 DEF Listing, One
<1>6. (Listing(added))' = Listing(n + 1)
  BY <1>1 DEF Listing, Eager
<1>7. arglist' = (Listing(added))'
  BY <1>2, <1>3, <1>5, <1>6
<1> QED BY <1>1, <1>7 DEF AllListed

\* The finished list is what R supplies.
LEMMA CallGenericStep ==
    ASSUME BindInv, CallGeneric
    PROVE  BindsAsR'
<1>1. /\ pc = "list" /\ added = Len(site) /\ UNCHANGED <<site, ellipsis, callee>>
      /\ got' = IF Eager THEN [error |-> FALSE, env |-> arglist] ELSE Matched(callee.formals, arglist)
  BY DEF CallGeneric, callVars
<1>2. DOMAIN site = 1..Len(site)
  BY DEF BindInv, AMInv, Types
<1>3. arglist = Supplied(site, ellipsis, Eager)
  BY <1>1, <1>2 DEF BindInv, AllListed, Listing, Supplied
<1>4. Eager \in BOOLEAN
  BY DEF Eager
<1>5. got' = Meaning(site, ellipsis, callee)
  <2>1. CASE Eager
    BY <1>1, <1>3, <2>1 DEF Meaning, Eager
  <2>2. CASE ~Eager
    <3>1. Eager = FALSE
      BY <1>4, <2>2
    <3> QED BY <1>1, <1>3, <2>2, <3>1 DEF Meaning, Eager
  <2> QED BY <2>1, <2>2
<1> QED BY <1>1, <1>5 DEF BindsAsR

\* With nothing left to match, the order places each argument.
LEMMA AllPlaced ==
    ASSUME AMInv, pc = "match", ~Twice(site), namedArg = {}, positionalArg = <<>>
    PROVE  /\ \A p \in 1..Len(site) : argOrder[p] \in 1..Len(site)
           /\ \A a \in 1..Len(site) : \E p \in 1..Len(site) : argOrder[p] = a
<1> DEFINE N == 1..Len(site)
           f == [a \in N |-> CHOOSE p \in N : argOrder[p] = a]
<1>1. /\ Len(site) \in Nat
      /\ argOrder \in [N -> N \cup {Unset}]
      /\ \A a \in N : ~Waiting(a)
      /\ Placed
  BY DEF AMInv, Types, AMTypeOK, Waiting
<1>2. \A a \in N : \E p \in N : argOrder[p] = a
  BY <1>1 DEF Placed
<1>3. ASSUME NEW p \in N, argOrder[p] = Unset PROVE FALSE
  <2>1. \A a \in N : f[a] \in N /\ argOrder[f[a]] = a
    BY <1>2
  <2>2. \A a \in N : a # Unset
    BY <1>1 DEF Unset
  <2> HIDE DEF f
  <2>3. \A a \in N : f[a] \in N \ {p}
    BY <1>3, <2>1, <2>2
  <2>4. f \in [N -> N \ {p}]
    BY <2>3 DEF f
  <2>5. IsFiniteSet(N) /\ Cardinality(N) = Len(site)
    BY <1>1, IntervalSize
  <2>6. IsFiniteSet(N \ {p}) /\ Cardinality(N \ {p}) = Len(site) - 1
    BY <1>3, <2>5, FS_RemoveElement
  <2> HIDE DEF N
  <2>7. \E a, b \in N : a # b /\ f[a] = f[b]
    BY <1>1, <2>4, <2>5, <2>6, FS_PigeonHole
  <2> QED BY <2>1, <2>7
<1>4. \A p \in N : argOrder[p] \in N
  BY <1>1, <1>3
<1> QED BY <1>2, <1>4

\* The code of a static cache binds as R does.
LEMMA BindStaticStep ==
    ASSUME BindInv, BindStatic, ~GiveUp
    PROVE  BindsAsR'
<1> DEFINE n == Len(site)
           value(i) == IF site[i].kind = "code" THEN Val("promise", i) ELSE Val("literal", i)
           args == [i \in 1..n |-> [tag |-> site[i].tag, value |-> value(i)]]
<1>1. /\ pc = "match" /\ namedArg = {} /\ positionalArg = <<>>
      /\ pc' = "done" /\ UNCHANGED <<site, ellipsis, callee, argOrder>>
      /\ got' = [error |-> FALSE,
                 env |-> [p \in DOMAIN site |->
                            LET m == argOrder[p]
                            IN  IF m = Unset THEN Broken
                                ELSE IF Promised(site[m]) THEN CreatePromise(passed[m])
                                ELSE passed[m]]]
  BY DEF BindStatic, callVars, matchVars
<1>2. /\ n \in Nat /\ DOMAIN site = 1..n /\ Len(callee.formals) = n /\ scanned = n
      /\ callee.kind = "closure"
      /\ argOrder \in [1..n -> (1..n) \cup {Unset}]
  BY <1>1 DEF BindInv, AMInv, Types, AMTypeOK
<1>3. \A i \in 1..n : site[i].tag \in Name \cup {None}
  <2>1. \A i \in 1..n : site[i] \in Argument_
    BY <1>1, <1>2 DEF BindInv, AMInv, Types
  <2> QED BY <2>1 DEF Argument_
<1>4. \A i \in 1..n : /\ site[i].kind \in {"literal", "null", "code"} /\ callee.formals[i] # Dots
                      /\ passed[i] = Passed(site[i], i)
  BY <1>1, <1>2 DEF BindInv, AllPlain, AllPassed
<1>5. /\ DOMAIN callee.formals = 1..n /\ \A p \in 1..n : callee.formals[p] \in Name
      /\ \A p, q \in 1..n : callee.formals[p] = callee.formals[q] => p = q
  <2>1. /\ callee.formals \in Seq(Name \cup {Dots})
        /\ \A p, q \in DOMAIN callee.formals : callee.formals[p] = callee.formals[q] => p = q
    BY <1>1 DEF BindInv, AMInv, Types
  <2>2. DOMAIN callee.formals = 1..n /\ \A p \in 1..n : callee.formals[p] \in Name \cup {Dots}
    BY <1>2, <2>1
  <2> QED BY <1>4, <2>1, <2>2
<1> SUFFICES ASSUME argOrder # <<>> => ~Twice(site) PROVE got' = Meaning(site, ellipsis, callee)
  BY <1>1 DEF BindsAsR, Twice
<1>6. ~Twice(site)
  <2>1. CASE n = 0
    BY <1>2, <2>1 DEF Twice
  <2>2. CASE n # 0
    <3>1. argOrder # <<>>
      BY <1>2, <2>2
    <3> QED BY <3>1
  <2> QED BY <2>1, <2>2
<1>7. Placed /\ \A a : ~Waiting(a)
  BY <1>1 DEF BindInv, AMInv, Waiting
<1>8. /\ \A p \in 1..n : argOrder[p] \in 1..n
      /\ \A a \in 1..n : \E p \in 1..n : argOrder[p] = a
  BY <1>1, <1>6, AllPlaced DEF BindInv
<1>9. \A p \in 1..n : argOrder[p] # Unset
  BY <1>2, <1>8 DEF Unset
<1>10. /\ DOMAIN args = 1..n
       /\ \A i \in 1..n : args[i].tag = site[i].tag /\ args[i].value = value(i)
  OBVIOUS
<1>11. \A i : value(i) # Missing
  BY DEF Val, Missing
<1>12. Supplied(site, ellipsis, FALSE) = args
  <2>1. ASSUME NEW i \in 1..n PROVE SuppliedBy(site[i], i, ellipsis, FALSE) = <<args[i]>>
    <3>1. CASE site[i].kind \in {"literal", "null"}
      BY <3>1 DEF SuppliedBy
    <3>2. CASE site[i].kind = "code"
      BY <3>2 DEF SuppliedBy
    <3> QED BY <1>4, <3>1, <3>2
  <2>2. Supplied(site, ellipsis, FALSE) = FlattenSeq([i \in 1..n |-> <<args[i]>>])
    <3> HIDE DEF args
    <3>1. [i \in DOMAIN site |-> SuppliedBy(site[i], i, ellipsis, FALSE)] = [i \in 1..n |-> <<args[i]>>]
      BY <1>2, <2>1
    <3> QED BY <3>1 DEF Supplied
  <2>3. FlattenSeq([i \in 1..n |-> <<args[i]>>]) = [i \in 1..n |-> args[i]]
    <3> HIDE DEF args
    <3> QED BY <1>2, FlattenSingletons
  <2> QED BY <2>2, <2>3
<1> HIDE DEF args, value, n
<1>13. InPlace(callee.formals, args, argOrder, n)
  <2>1. \A p, q \in 1..n : argOrder[p] = argOrder[q] => p = q
    BY <1>1, <1>6, <1>7, <1>9 DEF Placed, n
  <2>2. \A p \in 1..n : args[argOrder[p]].tag # None => args[argOrder[p]].tag = callee.formals[p]
    BY <1>1, <1>6, <1>7, <1>8, <1>9, <1>10 DEF Placed, n
  <2>3. \A p, q \in 1..n : args[argOrder[p]].tag = None /\ args[argOrder[q]].tag = None /\ p < q
                           => argOrder[p] < argOrder[q]
    BY <1>1, <1>6, <1>7, <1>8, <1>9, <1>10 DEF Placed, n
  <2>4. \A a \in 1..n : args[a].tag \in Name \cup {None} /\ args[a].value # Missing
    BY <1>3, <1>10, <1>11
  <2> QED BY <1>2, <1>4, <1>5, <1>8, <1>10, <2>1, <2>2, <2>3, <2>4 DEF InPlace
<1>14. /\ Matched(callee.formals, args) = Success(callee.formals, args)
       /\ \A p \in 1..n : ValueOf(callee.formals, args, p) = args[argOrder[p]].value
  BY <1>2, <1>13, MatchedPlain
<1>15. ASSUME NEW p \in 1..n
       PROVE  (IF argOrder[p] = Unset THEN Broken
               ELSE IF Promised(site[argOrder[p]]) THEN CreatePromise(passed[argOrder[p]])
               ELSE passed[argOrder[p]]) = args[argOrder[p]].value
  <2> DEFINE m == argOrder[p]
  <2>1. m \in 1..n /\ m # Unset
    BY <1>8, <1>9
  <2>2. args[m].value = value(m) /\ passed[m] = Passed(site[m], m) /\ site[m].kind \in {"literal", "null", "code"}
    BY <1>4, <1>10, <2>1
  <2> HIDE DEF m
  <2>3. CASE site[m].kind = "literal"
    BY <2>1, <2>2, <2>3 DEF Promised, Passed, value, m
  <2>4. CASE site[m].kind = "null"
    BY <2>1, <2>2, <2>4 DEF Promised, Passed, CreatePromise, Val, value, m
  <2>5. CASE site[m].kind = "code"
    BY <2>1, <2>2, <2>5 DEF Promised, Passed, CreatePromise, Val, value, m
  <2> QED BY <2>2, <2>3, <2>4, <2>5
<1>16. got' = Success(callee.formals, args)
  <2>1. [p \in DOMAIN site |->
             LET m == argOrder[p]
             IN  IF m = Unset THEN Broken
                 ELSE IF Promised(site[m]) THEN CreatePromise(passed[m])
                 ELSE passed[m]]
        = [p \in DOMAIN callee.formals |-> ValueOf(callee.formals, args, p)]
    BY <1>2, <1>5, <1>14, <1>15
  <2> QED BY <1>1, <2>1, Zenon DEF Success
<1>17. Meaning(site, ellipsis, callee) = Matched(callee.formals, args)
  BY <1>2, <1>12 DEF Meaning
<1> QED BY <1>14, <1>16, <1>17

LEMMA BindInvInit == Init => BindInv
BY AMInvInit DEF Init, BindInv, AllPassed, AllPlain, AllListed, BindsAsR

\* Each step of a call keeps what has been passed, and its result is R's.
LEMMA BindInvStep == BindInv /\ [Next]_vars => BindInv'
<1> SUFFICES ASSUME BindInv, [Next]_vars PROVE BindInv'
  OBVIOUS
<1>0. AMInv'
  BY AMInvStep DEF BindInv
<1>1. GiveUp /\ pc \in {"scan", "match"} => BindInv'
  <2> SUFFICES ASSUME GiveUp, pc \in {"scan", "match"} PROVE BindInv'
    OBVIOUS
  <2>1. pc' = "list" /\ UNCHANGED <<site, callee, ellipsis, passed, arglist, added>>
    BY DEF GiveUp, callVars, listVars
  <2>2. arglist' = <<>> /\ added' = 0
    BY <2>1 DEF BindInv, AllListed
  <2>3. AllListed'
    BY <2>1, <2>2, ListedFirst
  <2> QED BY <1>0, <2>1, <2>3 DEF BindInv, AllPassed, AllPlain, BindsAsR
<1>2. ASSUME NEW call \in Sites, NEW fun \in Callees, NEW dots \in Ellipses, Call(call, fun, dots)
      PROVE  BindInv'
  <2>1. /\ pc = "call" /\ pc' \in {"scan", "list"} /\ site' = call /\ ellipsis' = dots
        /\ passed' = [i \in DOMAIN call |-> Passed(call[i], i)]
        /\ UNCHANGED <<scanned, arglist, added>>
    BY <1>2 DEF Call, matchVars, listVars
  <2>2. DOMAIN call = 1..Len(call)
    BY SitesAssumption
  <2>3. scanned = 0 /\ arglist = <<>> /\ added = 0
    BY <2>1 DEF BindInv, AMInv, Types, AllListed
  <2>4. AllListed'
    BY <2>1, <2>3, ListedFirst DEF AllListed
  <2>5. AllPassed'
    BY <2>1, <2>2 DEF AllPassed
  <2> QED BY <1>0, <2>1, <2>3, <2>4, <2>5 DEF BindInv, AllPlain, BindsAsR
<1>3. Scan => BindInv'
  <2> SUFFICES ASSUME Scan, ~GiveUp PROVE BindInv'
    BY <1>1 DEF Scan
  <2>1. /\ pc = "scan" /\ pc' = "scan" /\ scanned' = scanned + 1 /\ scanned \in Nat
        /\ ~TooHard(site[scanned + 1], callee.formals[scanned + 1])
        /\ scanned + 1 \in 1..Len(site)
        /\ UNCHANGED <<site, callee, ellipsis, passed, arglist, added>>
    BY DEF Scan, callVars, listVars, BindInv, AMInv, Types, AMTypeOK
  <2>2. site[scanned + 1].kind \in {"literal", "null", "code", "dots", "missing"}
    <3>1. site[scanned + 1] \in Argument_
      BY <2>1 DEF BindInv, AMInv, Types
    <3> QED BY <3>1 DEF Argument_
  <2>3. AllPlain'
    <3> SUFFICES ASSUME NEW i \in 1..(scanned + 1)
                 PROVE  /\ site[i].kind \in {"literal", "null", "code"}
                        /\ callee.formals[i] # Dots
      BY <2>1 DEF AllPlain
    <3>1. CASE i = scanned + 1
      BY <2>1, <2>2, <3>1 DEF TooHard
    <3>2. CASE i # scanned + 1
      <4>1. i \in 1..scanned
        BY <2>1, <3>2
      <4> QED BY <2>1, <4>1 DEF BindInv, AllPlain
    <3> QED BY <3>1, <3>2
  <2> QED BY <1>0, <2>1, <2>3 DEF BindInv, AllPassed, AllListed, BindsAsR
<1>4. ASSUME pc \in {"scan", "match"}, pc' = "match",
             UNCHANGED <<callVars, scanned, listVars>>
      PROVE  BindInv'
  BY <1>0, <1>4 DEF BindInv, AllPassed, AllPlain, AllListed, BindsAsR, callVars, listVars
<1>5. ScanEnds => BindInv'
  BY <1>1, <1>4 DEF ScanEnds
<1>6. ASSUME NEW m \in namedArg, MatchNamed(m) PROVE BindInv'
  <2>1. CASE GiveUp
    BY <1>1, <1>6, <2>1 DEF MatchNamed
  <2>2. CASE ~GiveUp
    BY <1>4, <1>6, <2>2 DEF MatchNamed
  <2> QED BY <2>1, <2>2
<1>7. Advance \/ MatchPositional => BindInv'
  BY <1>4 DEF Advance, MatchPositional
<1>8. BindStatic => BindInv'
  <2> SUFFICES ASSUME BindStatic, ~GiveUp PROVE BindInv'
    BY <1>1 DEF BindStatic
  <2>1. pc = "match" /\ pc' = "done" /\ UNCHANGED callVars
    BY DEF BindStatic
  <2>2. BindsAsR'
    BY BindStaticStep
  <2> QED BY <1>0, <2>1, <2>2 DEF BindInv, AllPassed, AllPlain, AllListed, callVars
<1>9. AddArgument => BindInv'
  <2> SUFFICES ASSUME AddArgument PROVE BindInv'
    OBVIOUS
  <2>1. pc = "list" /\ pc' = "list" /\ UNCHANGED callVars
    BY DEF AddArgument
  <2>2. AllListed'
    BY AddArgumentStep
  <2> QED BY <1>0, <2>1, <2>2 DEF BindInv, AllPassed, AllPlain, BindsAsR, callVars
<1>10. CallGeneric => BindInv'
  <2> SUFFICES ASSUME CallGeneric PROVE BindInv'
    OBVIOUS
  <2>1. pc = "list" /\ pc' = "done" /\ UNCHANGED callVars
    BY DEF CallGeneric
  <2>2. BindsAsR'
    BY CallGenericStep
  <2> QED BY <1>0, <2>1, <2>2 DEF BindInv, AllPassed, AllPlain, AllListed, callVars
<1>11. Return => BindInv'
  BY <1>0 DEF Return, BindInv, AllPassed, AllPlain, AllListed, BindsAsR
<1>12. UNCHANGED vars => BindInv'
  <2> SUFFICES ASSUME UNCHANGED vars PROVE BindInv'
    OBVIOUS
  <2>1. UNCHANGED <<pc, site, callee, ellipsis, passed, scanned, argOrder, arglist, added, got>>
    BY DEF vars
  <2>2. AllListed'
    BY <2>1 DEF BindInv, AllListed, Listing, Eager
  <2>3. BindsAsR'
    BY <2>1 DEF BindInv, BindsAsR, Eager
  <2> QED BY <1>0, <2>1, <2>2, <2>3 DEF BindInv, AllPassed, AllPlain
<1> QED BY <1>2, <1>3, <1>5, <1>6, <1>7, <1>8, <1>9, <1>10, <1>11, <1>12 DEF Next

-----------------------------------------------------------------------------
(* The theorems *)

\* Types and bounds: indices stay within the call, whatever its length.
THEOREM ArgumentTypes == Spec => []AMTypeOK
<1>1. AMInv => AMTypeOK
  BY DEF AMInv, Types
<1> QED BY AMInvAlways, <1>1, PTL

\* compileIc loses no argument and binds none twice, in whatever order the map
\* of names comes, and its search for a free formal finds one.
THEOREM ArgumentOrder == Spec => []ArgOrderRight
<1>1. AMInv => ArgOrderRight
  <2> SUFFICES ASSUME AMInv, pc = "match", ~Twice(site) PROVE ArgOrderRight
    BY DEF ArgOrderRight
  <2>1. /\ Len(site) \in Nat /\ DOMAIN site = 1..Len(site)
        /\ argOrder \in [1..Len(site) -> (1..Len(site)) \cup {Unset}]
        /\ Placed
    BY DEF AMInv, Types, AMTypeOK
  <2>2. DOMAIN argOrder = 1..Len(site) /\ \A n \in 1..Len(site) : n # Unset
    BY <2>1 DEF Unset
  <2>3. ASSUME NEW n \in DOMAIN site
        PROVE  IF Waiting(n) THEN Bound(n) = {} ELSE \E p \in DOMAIN site : Bound(n) = {p}
    <3>1. CASE Waiting(n)
      BY <2>1, <2>2, <2>3, <3>1 DEF Placed, Bound
    <3>2. CASE ~Waiting(n)
      <4>1. PICK p \in 1..Len(site) : argOrder[p] = n
        BY <2>1, <2>3, <3>2 DEF Placed
      <4>2. \A q \in 1..Len(site) : argOrder[q] = n => q = p
        BY <2>1, <2>2, <2>3, <4>1 DEF Placed
      <4>3. Bound(n) = {p}
        BY <2>2, <4>1, <4>2 DEF Bound
      <4> QED BY <2>1, <3>2, <4>3
    <3> QED BY <3>1, <3>2
  <2>4. \A n \in DOMAIN site : \A p \in Bound(n) :
            site[n].tag # None => site[n].tag = callee.formals[p]
    BY <2>1, <2>2 DEF Placed, Bound
  <2>5. ASSUME NEW m \in DOMAIN site, NEW n \in DOMAIN site, NEW p \in Bound(m), NEW q \in Bound(n),
               site[m].tag = None, site[n].tag = None, m < n
        PROVE  p < q
    <3>1. /\ p \in 1..Len(site) /\ q \in 1..Len(site)
          /\ argOrder[p] = m /\ argOrder[q] = n /\ m # Unset /\ n # Unset
      BY <2>1, <2>2 DEF Bound
    <3>2. q < p => n < m
      BY <2>1, <2>5, <3>1 DEF Placed
    <3> QED BY <2>1, <2>5, <3>1, <3>2
  <2> QED BY <2>3, <2>4, <2>5, FormalFree DEF ArgOrderRight
<1> QED BY AMInvAlways, <1>1, PTL

\* Whatever a call passes, and whichever cache it goes through, the callee gets
\* the arguments, promises and values that it would get in R.
THEOREM BindsLikeR == Spec => []BindsAsR
<1>1. BindInv => BindsAsR
  BY DEF BindInv
<1>2. Spec => []BindInv
  BY BindInvInit, BindInvStep, PTL DEF Spec
<1> QED BY <1>1, <1>2, PTL
=============================================================================
