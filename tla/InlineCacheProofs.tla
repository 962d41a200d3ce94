------------------------- MODULE InlineCacheProofs -------------------------
(* Proofs about InlineCache, for all functions, sites, cells and depths; the *)
(* last part, that inline caching implements FunctionCalls, for those values *)
(* of the constants that keep bodiless functions of one kind and cells from  *)
(* being freed.                                                              *)
EXTENDS InlineCache, TLAPS

(***************************************************************************)
(* The store: functions, bodies, cells and targets.                        *)
(***************************************************************************)

\* The last activation is an activation.
LEMMA TopType == ASSUME StackTypeOK, depth > 0 PROVE Top \in Activation /\ depth \in 1..MaxDepth
  BY BoundAssumption DEF StackTypeOK, Top

\* A definition from a literal preserves the store's invariant.
LEMMA DefineStore ==
    ASSUME StoreInv, NEW f \in Fun, NEW l \in Lit, Define(f, l)
    PROVE  StoreInv'
<1> USE DistinctAssumption, KindAssumption DEF StoreInv
<1>1. CASE BodyType[l] = "nil" /\ body' = [body EXCEPT ![f] = Nil] /\ UNCHANGED heap
  BY <1>1 DEF Define, StoreTypeOK, BodiesAgree, SourcesAgree
<1>2. ASSUME NEW a \in Free, BodyType[l] # "nil", body' = [body EXCEPT ![f] = a],
             heap' = [heap EXCEPT ![a] = [type |-> BodyType[l], lit |-> l, src |-> Nil]]
      PROVE  StoreInv'
  <2>1. a \in Addr /\ heap[a] = None BY DEF Free
  <2>2. [type |-> BodyType[l], lit |-> l, src |-> Nil] \in Cell
    BY <1>2 DEF Cell, PlainTypes
  <2>3. StoreTypeOK' BY <1>2, <2>1, <2>2 DEF Define, StoreTypeOK
  <2>4. BodiesAgree' BY <1>2, <2>1, <2>2 DEF Define, StoreTypeOK, BodiesAgree
  <2>5. SourcesAgree' BY <1>2, <2>1, <2>2 DEF Define, StoreTypeOK, SourcesAgree
  <2> QED BY <2>3, <2>4, <2>5
<1> QED BY <1>1, <1>2 DEF Define

\* A module's finalization leaves targets where code goes.
LEMMA FinalizeStore ==
    ASSUME StoreInv, NEW S \in SUBSET Site, Finalize(S)
    PROVE  target' \in [Site -> Code \cup {None}]
<1>1. Stub \in Code BY DEF Stub, IC, Code
<1> QED BY <1>1 DEF Finalize, StoreInv, StoreTypeOK

\* The cell the compiler fills computes what its function was made from, and its
\* source agrees.
LEMMA CompileMeaning ==
    ASSUME StoreInv, NEW f \in Fun, lit[f] # None
    PROVE  /\ Meaning(f) = lit[f] /\ SourceMeaning(f) = lit[f]
           /\ lit[f] \in Lit
           /\ Source(body[f]) \in Addr \cup {Nil}
           /\ Source(body[f]) # Nil =>
                 heap[Source(body[f])] # None /\ heap[Source(body[f])].lit = lit[f]
<1> USE DistinctAssumption DEF StoreInv, StoreTypeOK
<1>1. Meaning(f) = lit[f] BY DEF Meaning, MeaningOf, LitAt, BodiesAgree
<1>2. lit[f] \in Lit OBVIOUS
<1>3. body[f] = Nil \/ heap[body[f]] \in Cell BY DEF BodiesAgree
<1>4. Source(body[f]) \in Addr \cup {Nil}
  BY <1>3 DEF Source, TypeOf, Cell, NativeTypes
<1>5. Source(body[f]) # Nil =>
         heap[Source(body[f])] # None /\ heap[Source(body[f])].lit = lit[f]
  BY <1>3 DEF Source, TypeOf, Cell, NativeTypes, BodiesAgree, SourcesAgree
<1> QED BY <1>1, <1>2, <1>4, <1>5 DEF SourceMeaning, LitAt

\* Compiling the body of f for g preserves the store's invariant.
LEMMA CompileStore ==
    ASSUME StoreInv, NEW f \in Fun, NEW g \in Fun, lit[f] # None,
           NEW a \in Free, NEW type \in NativeTypes, NEW S \in SUBSET Site,
           CompileInto(f, g, a, type, S), lit' = [lit EXCEPT ![g] = lit[f]],
           rjitCompile' \in BOOLEAN, specials' \in SUBSET Nat
    PROVE  StoreInv'
<1> DEFINE new == [type |-> type, lit |-> SourceMeaning(f), src |-> Source(body[f])]
<1>1. a \in Addr /\ heap[a] = None BY DEF Free
<1>2. /\ new \in Cell /\ new.lit = lit[f] /\ lit[f] \in Lit
      /\ new.src # Nil => heap[new.src] # None /\ heap[new.src].lit = lit[f]
  BY CompileMeaning DEF Cell
<1>3. heap' = [heap EXCEPT ![a] = new] /\ body' = [body EXCEPT ![g] = a] /\ Finalize(S)
  BY DEF CompileInto
<1> HIDE DEF new
<1> USE DistinctAssumption DEF StoreInv
<1>5. StoreTypeOK' BY <1>1, <1>2, <1>3, FinalizeStore DEF StoreTypeOK
<1>6. BodiesAgree' BY <1>1, <1>2, <1>3 DEF StoreTypeOK, BodiesAgree
<1>7. SourcesAgree' BY <1>1, <1>2, <1>3 DEF StoreTypeOK, SourcesAgree, Cell
<1> QED BY <1>5, <1>6, <1>7

\* Sharing a body preserves the store's invariant.
LEMMA ShareStore ==
    ASSUME StoreInv, NEW f \in Fun, NEW g \in Fun, Share(f, g)
    PROVE  StoreInv'
<1> USE DEF StoreInv, Share
<1>1. StoreTypeOK' BY DEF StoreTypeOK
<1>2. BodiesAgree' BY DEF StoreTypeOK, BodiesAgree
<1>3. SourcesAgree' BY DEF SourcesAgree
<1> QED BY <1>1, <1>2, <1>3

\* The collector only frees what neither a function nor native code refers to.
LEMMA CollectStore ==
    ASSUME StoreInv, NEW a \in Addr, Collect(a)
    PROVE  StoreInv'
<1> USE DistinctAssumption DEF StoreInv, Collect
<1>1. StoreTypeOK' BY DEF StoreTypeOK
<1>2. BodiesAgree' BY DEF StoreTypeOK, BodiesAgree
<1>3. SourcesAgree' BY DEF StoreTypeOK, SourcesAgree, Cell
<1> QED BY <1>1, <1>2, <1>3

\* Steps of the dispatch that touch neither functions, cells nor sites.
LEMMA QuietStore ==
    ASSUME StoreInv, UNCHANGED <<lit, body, heap, target>>,
           rjitCompile' \in BOOLEAN, specials' \in SUBSET Nat
    PROVE  StoreInv'
<1> USE DEF StoreInv
<1>1. StoreTypeOK' BY DEF StoreTypeOK
<1>2. BodiesAgree' BY DEF BodiesAgree
<1>3. SourcesAgree' BY DEF SourcesAgree
<1> QED BY <1>1, <1>2, <1>3

(***************************************************************************)
(* The stack of activations.                                               *)
(***************************************************************************)

\* The last activation moves on; the ones below are in R code and not concerned.
LEMMA StepStack ==
    ASSUME StackInv, depth > 0, NEW act \in Activation, Step(act),
           act.site = Top.site, act.fun = Top.fun,
           act.misses <= 1,
           act.ran # None <=> act.pc \in {"begin", "run"},
           act.ran # None => act.ran.lit = lit[act.fun],
           act.pc = "patch" \/ (act.pc = "enter" /\ act.misses = 1)
              => Accepts(act.code, act.fun)',
           lit' = lit
    PROVE  StackInv'
<1>1. /\ depth \in 1..MaxDepth /\ depth' = depth
      /\ stack' = [stack EXCEPT ![depth] = act]
      /\ \A d \in 1..depth : d # depth => stack'[d] = stack[d]
      /\ stack'[depth] = act
  BY BoundAssumption DEF StackInv, StackTypeOK, Step
<1>2. StackTypeOK' BY <1>1, BoundAssumption, DistinctAssumption DEF StackInv, StackTypeOK
<1>3. OnlyTopDispatches' BY <1>1 DEF StackInv, OnlyTopDispatches
<1>4. RanOnceBegun' BY <1>1 DEF StackInv, RanOnceBegun
<1>5. ActiveDefined' BY <1>1 DEF StackInv, ActiveDefined, Top
<1>6. FreshAccepts'
  <2> SUFFICES ASSUME NEW d \in 1..depth
               PROVE  /\ stack'[d].misses <= 1
                      /\ stack'[d].pc = "patch" \/ (stack'[d].pc = "enter" /\ stack'[d].misses = 1)
                         => Accepts(stack[d].code, stack[d].fun)'
    BY <1>1 DEF FreshAccepts
  <2>1. CASE d = depth BY <2>1, <1>1 DEF Accepts, KindOf
  <2>2. CASE d # depth
    <3>1. d < depth /\ stack[d].pc \in {"args", "run"}
      BY <2>2, <1>1 DEF StackInv, OnlyTopDispatches
    <3> QED BY <3>1, <2>2, <1>1 DEF StackInv, FreshAccepts
  <2> QED BY <2>1, <2>2
<1>7. RightCode' BY <1>1 DEF StackInv, RightCode, Top
<1> QED BY <1>2, <1>3, <1>4, <1>5, <1>6, <1>7 DEF StackInv

\* What R code and the collector do around the activations.
LEMMA AroundStack ==
    ASSUME StackInv, UNCHANGED <<depth, stack>>,
           RCodeRuns \/ UNCHANGED <<lit, body>>,
           \A d \in 1..depth : lit'[stack[d].fun] = lit[stack[d].fun]
    PROVE  StackInv'
<1>1. StackTypeOK' BY DEF StackInv, StackTypeOK
<1>2. OnlyTopDispatches' /\ RanOnceBegun' /\ ActiveDefined' /\ RightCode'
  BY DEF StackInv, OnlyTopDispatches, RanOnceBegun, ActiveDefined, RightCode
<1>3. FreshAccepts'
  <2>1. CASE RCodeRuns
    <3>1. \A d \in 1..depth : stack[d].pc \in {"args", "run"}
      BY <2>1, BoundAssumption DEF StackInv, StackTypeOK, OnlyTopDispatches, RCodeRuns, Top
    <3> QED BY <3>1 DEF StackInv, FreshAccepts
  <2>2. CASE UNCHANGED <<lit, body>>
    BY <2>2 DEF StackInv, FreshAccepts, Accepts, KindOf
  <2> QED BY <2>1, <2>2
<1> QED BY <1>1, <1>2, <1>3 DEF StackInv

\* A call of a defined function at a linked site.
LEMMA CallStack ==
    ASSUME StoreInv, StackInv, NEW s \in Site, NEW f \in Fun, Call(s, f)
    PROVE  StackInv'
<1> DEFINE act == [site |-> s, fun |-> f, code |-> target[s], misses |-> 0,
                   pc |-> "enter", ran |-> None]
<1>1. act \in Activation
  BY DEF Call, StoreInv, StoreTypeOK, Activation, Dispatching
<1>2. /\ act.site = s /\ act.fun = f /\ act.misses = 0 /\ act.pc = "enter"
      /\ act.ran = None
  OBVIOUS
<1>3. /\ depth' = depth + 1 /\ stack' = [stack EXCEPT ![depth + 1] = act]
      /\ RCodeRuns /\ depth < MaxDepth /\ lit[f] # None /\ target[s] # None
      /\ UNCHANGED <<lit, body>>
  BY DEF Call, Push
<1> HIDE DEF act
<1>4. /\ depth \in Nat /\ depth' \in 1..MaxDepth /\ stack'[depth'] = act
      /\ \A d \in 1..depth' : d # depth' => d \in 1..depth /\ stack'[d] = stack[d]
  BY <1>3, BoundAssumption DEF StackInv, StackTypeOK
<1>5. \A d \in 1..depth : stack[d].pc \in {"args", "run"}
  BY <1>3, BoundAssumption DEF StackInv, StackTypeOK, OnlyTopDispatches, RCodeRuns, Top
<1>6. StackTypeOK'
  BY <1>1, <1>3, BoundAssumption, DistinctAssumption DEF StackInv, StackTypeOK
<1>7. OnlyTopDispatches' BY <1>4, <1>5 DEF OnlyTopDispatches
<1>8. RanOnceBegun' BY <1>2, <1>4 DEF StackInv, RanOnceBegun
<1>9. ActiveDefined' BY <1>2, <1>3, <1>4 DEF StackInv, ActiveDefined
<1>10. FreshAccepts' BY <1>2, <1>4, <1>5 DEF StackInv, FreshAccepts
<1>11. RightCode' BY <1>2, <1>3, <1>4 DEF StackInv, RightCode
<1> QED BY <1>6, <1>7, <1>8, <1>9, <1>10, <1>11 DEF StackInv

\* Activations are dropped, by a return or by an error.
LEMMA DropStack ==
    ASSUME StackInv, NEW e \in 0..MaxDepth, e <= depth, depth' = e,
           stack' = [d \in 1..MaxDepth |-> IF d > e THEN None ELSE stack[d]],
           UNCHANGED <<lit, body>>
    PROVE  StackInv'
<1>1. /\ depth \in 0..MaxDepth
      /\ \A d \in 1..depth' : d \in 1..depth /\ stack'[d] = stack[d] /\ (d < depth' => d < depth)
  BY BoundAssumption DEF StackInv, StackTypeOK
<1>2. StackTypeOK' BY BoundAssumption DEF StackInv, StackTypeOK
<1>3. OnlyTopDispatches' BY <1>1 DEF StackInv, OnlyTopDispatches
<1>4. RanOnceBegun' BY <1>1 DEF StackInv, RanOnceBegun
<1>5. ActiveDefined' BY <1>1 DEF StackInv, ActiveDefined
<1>6. FreshAccepts' BY <1>1 DEF StackInv, FreshAccepts, Accepts, KindOf
<1>7. RightCode' BY <1>1 DEF StackInv, RightCode
<1> QED BY <1>2, <1>3, <1>4, <1>5, <1>6, <1>7 DEF StackInv

(***************************************************************************)
(* One lemma per group of actions.                                         *)
(***************************************************************************)

\* The steps of the dispatch that only move the last activation.
LEMMA QuietStep ==
    ASSUME CacheInv,
           EnterStub \/ Miss \/ HitStatic \/ HitClosure \/ HitSpecial \/ HitBuiltin
             \/ CallBuiltin \/ KeepCallee \/ Begin
    PROVE  CacheInv'
<1> USE DEF CacheInv, StackInv
<1>1. depth > 0 /\ UNCHANGED <<rjitCompile, lit, body, heap, target, specials>>
  BY DEF EnterStub, Miss, HitStatic, HitClosure, HitSpecial, HitBuiltin, CallBuiltin,
         KeepCallee, Begin, Entered, Hit
<1>2. StoreInv' BY <1>1, QuietStore DEF StoreInv, StoreTypeOK
<1>3. /\ Top \in Activation /\ depth \in 1..depth /\ Top = stack[depth]
      /\ lit[Top.fun] # None /\ Top.fun \in Fun /\ Top.site \in Site
      /\ Top.misses <= 1
      /\ Top.ran # None <=> Top.pc \in {"begin", "run"}
      /\ Top.ran # None => Top.ran.lit = lit[Top.fun]
      /\ Top.pc = "enter" /\ Top.misses = 1 => Accepts(Top.code, Top.fun)
  BY <1>1, TopType, BoundAssumption
     DEF Top, ActiveDefined, FreshAccepts, RanOnceBegun, RightCode, StackTypeOK, Activation
<1>4. /\ Meaning(Top.fun) = lit[Top.fun] /\ Meaning(Top.fun) \in Lit
      /\ Matched \in Orders \cup {NoOrder}
  BY <1>3, CompileMeaning, OrderAssumption DEF Matched
<1>5. \A o \in Orders \cup {NoOrder}, how \in Kinds, b \in {body[Top.fun]} :
         RunAs(how, b, o) \in Run /\ RunAs(how, b, o).lit = lit[Top.fun]
  BY <1>4 DEF RunAs, Run, Meaning
<1>6. None \notin Run /\ Top.code.order \in Orders \cup {NoOrder}
  BY <1>3, DistinctAssumption DEF Activation, Code
<1> HIDE DEF Matched, RunAs
<1>7. CASE EnterStub
  BY <1>1, <1>2, <1>3, <1>7, StepStack DEF EnterStub, Entered, Activation, Dispatching
<1>8. CASE Miss
  <2>1. Top.misses = 0 BY <1>3, <1>8 DEF Miss, Entered, Activation
  <2> DEFINE act == [Top EXCEPT !.pc = "compile", !.misses = 1]
  <2>2. Step(act) BY <1>8, <2>1 DEF Miss
  <2>3. /\ act \in Activation /\ act.site = Top.site /\ act.fun = Top.fun
        /\ act.misses = 1 /\ act.pc = "compile" /\ act.ran = Top.ran
    BY <1>3 DEF Activation, Dispatching
  <2>4. Top.pc = "enter" BY <1>8 DEF Miss, Entered
  <2> HIDE DEF act
  <2> QED BY <1>1, <1>2, <1>3, <2>2, <2>3, <2>4, StepStack
<1>9. CASE HitStatic
  <2>1. Top.code.body = body[Top.fun] BY <1>9 DEF HitStatic, Hit, Accepts
  <2>2. PICK r \in Run : r = RunAs("closure", body[Top.fun], Top.code.order) /\ r.lit = lit[Top.fun]
    BY <1>5, <1>6 DEF Kinds
  <2>3. Top.pc = "enter" /\ Step([Top EXCEPT !.pc = "begin", !.ran = r])
    BY <1>9, <2>1, <2>2 DEF HitStatic, Hit, Entered
  <2> QED BY <1>1, <1>2, <1>3, <1>6, <2>2, <2>3, StepStack DEF Activation
<1>10. CASE HitClosure
  BY <1>1, <1>2, <1>3, <1>4, <1>5, <1>6, <1>10, StepStack
     DEF HitClosure, Hit, Entered, Activation, Kinds
<1>11. CASE HitSpecial
  BY <1>1, <1>2, <1>3, <1>4, <1>5, <1>6, <1>11, StepStack
     DEF HitSpecial, Hit, Entered, Activation, Kinds
<1>12. CASE HitBuiltin
  BY <1>1, <1>2, <1>3, <1>12, StepStack DEF HitBuiltin, Hit, Entered, Activation
<1>13. CASE CallBuiltin
  BY <1>1, <1>2, <1>3, <1>4, <1>5, <1>6, <1>13, StepStack DEF CallBuiltin, Activation, Kinds
<1>14. CASE KeepCallee
  BY <1>1, <1>2, <1>3, <1>14, StepStack DEF KeepCallee, Activation, Dispatching
<1>15. CASE Begin
  BY <1>1, <1>2, <1>3, <1>15, StepStack DEF Begin, Activation
<1> QED BY <1>7, <1>8, <1>9, <1>10, <1>11, <1>12, <1>13, <1>14, <1>15

\* What is known of the last activation.
LEMMA TopFacts ==
    ASSUME CacheInv, depth > 0
    PROVE  /\ Top \in Activation /\ depth \in 1..depth /\ Top = stack[depth]
           /\ lit[Top.fun] # None /\ Top.fun \in Fun /\ Top.site \in Site
           /\ Top.misses <= 1
           /\ Top.ran # None <=> Top.pc \in {"begin", "run"}
           /\ Top.ran # None => Top.ran.lit = lit[Top.fun]
           /\ Top.pc = "patch" => Accepts(Top.code, Top.fun)
  BY TopType, BoundAssumption
     DEF CacheInv, StackInv, Top, ActiveDefined, FreshAccepts, RanOnceBegun, RightCode,
         StackTypeOK, Activation

\* The stub compiles an IC that accepts the callee.
LEMMA BuildStep ==
    ASSUME CacheInv, BuildIC \/ BuildSpecialIC
    PROVE  CacheInv'
<1> USE DEF CacheInv
<1>1. depth > 0 /\ UNCHANGED <<rjitCompile, lit, body, heap, target>>
  BY DEF BuildIC, BuildSpecialIC
<1>2. specials' \in SUBSET Nat
  BY <1>1, TopFacts, SizeAssumption DEF BuildIC, BuildSpecialIC, StoreInv, StoreTypeOK
<1>3. StoreInv' BY <1>1, <1>2, QuietStore DEF StoreInv, StoreTypeOK
<1>4. CASE BuildSpecialIC
  <2>1. SpecialIC \in Code /\ SpecialIC.kind = "special"
    BY DEF SpecialIC, IC, Code
  <2>2. PICK f \in Fun : f = Top.fun BY <1>1, TopFacts
  <2>3. Accepts(SpecialIC, f)'
    BY <1>1, <1>4, <2>1, <2>2 DEF BuildSpecialIC, Accepts, KindOf
  <2> QED BY <1>1, <1>3, <1>4, <2>1, <2>2, <2>3, TopFacts, StepStack
          DEF BuildSpecialIC, Activation, Dispatching
<1>5. CASE BuildIC
  <2>1. PICK f \in Fun : f = Top.fun BY <1>1, TopFacts
  <2>2. lit[f] \in Lit /\ body[f] \in Addr \cup {Nil} /\ KindOf(f) \in {"closure", "builtin"}
    BY <1>1, <1>5, <2>1, TopFacts, KindAssumption
       DEF BuildIC, StoreInv, StoreTypeOK, KindOf, Kinds
  <2> DEFINE made == NewIC(Top.site, f)
  <2>0. made \in Code /\ made.kind \in {"static", "builtin", "closure"} /\ made.body = body[f]
    BY <1>1, <2>2, TopFacts, OrderAssumption DEF NewIC, IC, Code
  <2>3. PICK ic \in Code : /\ ic = NewIC(Top.site, Top.fun)
                          /\ ic.kind \in {"static", "builtin", "closure"}
                          /\ ic.body = body[f]
    BY <2>0, <2>1
  <2>4. Accepts(ic, f)' BY <1>1, <2>3 DEF Accepts
  <2>5. depth > 0 /\ Top.pc = "build" /\ Step([Top EXCEPT !.pc = "patch", !.code = ic])
    BY <1>5, <2>3 DEF BuildIC
  <2> DEFINE act == [Top EXCEPT !.pc = "patch", !.code = ic]
  <2>6. Top \in Activation BY <1>1, TopFacts
  <2>7. /\ act \in Activation /\ act.site = Top.site /\ act.fun = f /\ act.code = ic
        /\ act.misses = Top.misses /\ act.pc = "patch" /\ act.ran = Top.ran
    BY <2>1, <2>6 DEF Activation, Dispatching
  <2>8. PICK new \in Activation : new = act BY <2>7
  <2> HIDE DEF act
  <2>9. Accepts(new.code, new.fun)' BY <2>4, <2>7, <2>8
  <2> QED BY <1>1, <1>3, <2>1, <2>5, <2>7, <2>8, <2>9, TopFacts, StepStack DEF act
<1> QED BY <1>4, <1>5

\* The site is patched and the new IC entered.
LEMMA PatchStep == ASSUME CacheInv, PatchIC PROVE CacheInv'
<1> USE DEF CacheInv
<1>1. /\ depth > 0 /\ UNCHANGED <<rjitCompile, lit, body, heap, specials>>
      /\ Top.pc = "patch" /\ target' = [target EXCEPT ![Top.site] = Top.code]
      /\ Step([Top EXCEPT !.pc = "enter"])
  BY DEF PatchIC
<1>2. Top.code \in Code BY <1>1, TopFacts DEF Activation
<1>3. StoreTypeOK' BY <1>1, <1>2 DEF StoreInv, StoreTypeOK
<1>4. BodiesAgree' /\ SourcesAgree' BY <1>1 DEF StoreInv, BodiesAgree, SourcesAgree
<1>6. PICK f \in Fun, c \in Code : f = Top.fun /\ c = Top.code BY <1>1, <1>2, TopFacts
<1>7. Accepts(c, f)' BY <1>1, <1>6, TopFacts DEF Accepts, KindOf
<1>8. StackInv'
  BY <1>1, <1>6, <1>7, TopFacts, StepStack DEF Activation, Dispatching
<1> QED BY <1>3, <1>4, <1>8 DEF StoreInv

\* The callee is compiled before its IC, or recompiled because it is hot.
LEMMA CompileStep == ASSUME CacheInv, CompileCallee \/ RecompileHot PROVE CacheInv'
<1> USE DEF CacheInv
<1>1. PICK a \in Free, S \in SUBSET Site, type \in NativeTypes :
         CompileInto(Top.fun, Top.fun, a, type, S)
  BY DEF CompileCallee, RecompileHot, NativeTypes
<1>2. depth > 0 /\ UNCHANGED <<rjitCompile, lit, specials>>
  BY DEF CompileCallee, RecompileHot
<1>3. lit' = [lit EXCEPT ![Top.fun] = lit[Top.fun]]
  BY <1>2, TopFacts DEF StoreInv, StoreTypeOK
<1>4. StoreInv'
  BY <1>1, <1>2, <1>3, TopFacts, CompileStore DEF StoreInv, StoreTypeOK
<1>5. CASE CompileCallee
  BY <1>2, <1>4, <1>5, TopFacts, StepStack DEF CompileCallee, Activation, Dispatching
<1>6. CASE RecompileHot
  <2> DEFINE act == [Top EXCEPT !.pc = "run", !.ran.lit = SourceMeaning(Top.fun)]
  <2>1. SourceMeaning(Top.fun) = lit[Top.fun] /\ lit[Top.fun] \in Lit
    BY <1>2, TopFacts, CompileMeaning
  <2>2. Top.pc = "begin" /\ Step(act) BY <1>6 DEF RecompileHot
  <2>3. Top.ran \in Run BY <1>2, <2>2, TopFacts DEF Activation
  <2>4. /\ act \in Activation /\ act.ran \in Run /\ act.ran.lit = lit[Top.fun]
        /\ act.pc = "run" /\ act.site = Top.site /\ act.fun = Top.fun
        /\ act.misses = Top.misses
    BY <1>2, <2>1, <2>3, TopFacts DEF Activation, Run
  <2> HIDE DEF act
  <2> QED BY <1>2, <1>4, <2>2, <2>4, TopFacts, StepStack, DistinctAssumption
<1> QED BY <1>5, <1>6

\* R code redefines functions, shares, compiles and collects bodies.
LEMMA EnvironmentStep == ASSUME CacheInv, Environment PROVE CacheInv'
<1> USE DEF CacheInv
<1>0. \A d \in 1..depth : stack[d].fun \in Fun /\ lit[stack[d].fun] # None
  BY BoundAssumption DEF StackInv, StackTypeOK, ActiveDefined, Activation
<1>1. ASSUME NEW f \in Fun, NEW l \in Lit, Define(f, l) PROVE CacheInv'
  <2>1. \A d \in 1..depth : lit'[stack[d].fun] = lit[stack[d].fun]
    BY <1>0, <1>1 DEF Define, Active, StoreInv, StoreTypeOK
  <2> QED BY <1>1, <2>1, DefineStore, AroundStack DEF Define
<1>2. ASSUME NEW f \in Fun, NEW g \in Fun, Share(f, g) PROVE CacheInv'
  <2>1. \A d \in 1..depth : lit'[stack[d].fun] = lit[stack[d].fun]
    BY <1>0, <1>2 DEF Share, Active, StoreInv, StoreTypeOK
  <2> QED BY <1>2, <2>1, ShareStore, AroundStack DEF Share
<1>3. ASSUME NEW f \in Fun, NEW g \in Fun, CompileExplicitly(f, g) PROVE CacheInv'
  <2>1. \A d \in 1..depth : lit'[stack[d].fun] = lit[stack[d].fun]
    BY <1>0, <1>3 DEF CompileExplicitly, Active, StoreInv, StoreTypeOK
  <2>2. StoreInv'
    BY <1>3, CompileStore DEF CompileExplicitly, NativeTypes, StoreInv, StoreTypeOK
  <2> QED BY <1>3, <2>1, <2>2, AroundStack DEF CompileExplicitly
<1>4. ASSUME NEW a \in Addr, Collect(a) PROVE CacheInv'
  BY <1>4, CollectStore, AroundStack DEF Collect
<1>5. ASSUME Switch PROVE CacheInv'
  BY <1>5, QuietStore, AroundStack DEF Switch, StoreInv, StoreTypeOK
<1> QED BY <1>1, <1>2, <1>3, <1>4, <1>5 DEF Environment

\* Calls are made, return, and are unwound.
LEMMA CallStep ==
    ASSUME CacheInv,
           \/ \E s \in Site, f \in Fun : Call(s, f)
           \/ Return
           \/ \E d \in 0..(depth - 1) : Unwind(d)
    PROVE  CacheInv'
<1> USE DEF CacheInv
<1>1. ASSUME NEW s \in Site, NEW f \in Fun, Call(s, f) PROVE CacheInv'
  BY <1>1, CallStack, QuietStore DEF Call, StoreInv, StoreTypeOK
<1>2. CASE Return
  <2>1. depth \in 1..MaxDepth BY <1>2, TopType DEF Return, StackInv
  <2>2. /\ depth - 1 \in 0..MaxDepth /\ depth - 1 <= depth /\ depth' = depth - 1
        /\ stack' = [d \in 1..MaxDepth |-> IF d > depth - 1 THEN None ELSE stack[d]]
    <3>1. \A d \in 1..MaxDepth : d > depth => stack[d] = None
      BY <2>1, BoundAssumption DEF StackInv, StackTypeOK
    <3>2. \A d \in 1..MaxDepth : d > depth - 1 <=> d = depth \/ d > depth
      BY <2>1, BoundAssumption
    <3>3. /\ stack = [d \in 1..MaxDepth |-> stack[d]]
          /\ depth' = depth - 1 /\ stack' = [stack EXCEPT ![depth] = None]
      BY <1>2 DEF Return, StackInv, StackTypeOK
    <3>4. stack' = [d \in 1..MaxDepth |-> IF d = depth THEN None ELSE stack[d]]
      BY <3>3
    <3> QED BY <2>1, <3>1, <3>2, <3>3, <3>4, BoundAssumption
  <2> QED BY <1>2, <2>2, DropStack, QuietStore DEF Return, StoreInv, StoreTypeOK
<1>3. ASSUME NEW d \in 0..(depth - 1), Unwind(d) PROVE CacheInv'
  <2>1. d \in 0..MaxDepth /\ d <= depth BY BoundAssumption DEF StackInv, StackTypeOK
  <2>2. stack' = [e \in 1..MaxDepth |-> IF e > d THEN None ELSE stack[e]]
    BY <1>3 DEF Unwind
  <2> QED BY <1>3, <2>1, <2>2, DropStack, QuietStore DEF Unwind, StoreInv, StoreTypeOK
<1> QED BY <1>1, <1>2, <1>3

(***************************************************************************)
(* The theorems.                                                           *)
(***************************************************************************)

\* The invariant of the caches holds initially.
LEMMA CacheInit == Init => CacheInv
<1> SUFFICES ASSUME Init PROVE CacheInv OBVIOUS
<1>1. StoreInv
  BY DistinctAssumption
     DEF Init, StoreInv, StoreTypeOK, BodiesAgree, SourcesAgree
<1>2. StackInv
  BY BoundAssumption
     DEF Init, StackInv, StackTypeOK, OnlyTopDispatches, RanOnceBegun, ActiveDefined,
         FreshAccepts, RightCode
<1> QED BY <1>1, <1>2 DEF CacheInv

\* Every step preserves it.
LEMMA CacheNext == CacheInv /\ [Next]_vars => CacheInv'
<1> SUFFICES ASSUME CacheInv, [Next]_vars PROVE CacheInv' OBVIOUS
<1>1. CASE UNCHANGED vars
  <2>1. StoreInv' BY <1>1, QuietStore DEF vars, CacheInv, StoreInv, StoreTypeOK
  <2>2. StackInv' BY <1>1, AroundStack DEF vars, CacheInv
  <2> QED BY <2>1, <2>2 DEF CacheInv
<1> QED BY <1>1, QuietStep, BuildStep, PatchStep, CompileStep, EnvironmentStep, CallStep
        DEF Next, Dispatch

\* CacheInv is an invariant of the inline caches.
THEOREM CacheSafe == Spec => []CacheInv
<1>1. Init => CacheInv BY CacheInit
<1>2. CacheInv /\ [Next]_vars => CacheInv' BY CacheNext
<1> QED BY <1>1, <1>2, PTL DEF Spec

\* Every variable keeps its type.
THEOREM TypeCorrect == Spec => []TypeOK
<1>1. CacheInv => TypeOK BY DEF CacheInv, StoreInv, StackInv, TypeOK
<1> QED BY <1>1, CacheSafe, PTL

\* A call goes through the stub at most once: fresh ICs accept their callee.
THEOREM MissesOnce == Spec => []AtMostOneMiss
<1>1. CacheInv => AtMostOneMiss BY DEF CacheInv, StackInv, FreshAccepts, AtMostOneMiss
<1> QED BY <1>1, CacheSafe, PTL

\* A call runs the code of the function it was made on, though addresses of
\* collected bodies are reused and stay embedded in ICs.
THEOREM RunsItsCallee == Spec => []RightCode
<1>1. CacheInv => RightCode BY DEF CacheInv, StackInv
<1> QED BY <1>1, CacheSafe, PTL


(***************************************************************************)
(* Calling conventions.                                                    *)
(***************************************************************************)

\* An IC that fits its kind, and accepts f, is of the kind of f.
LEMMA AcceptsKind ==
    ASSUME BodilessHaveOneKind, NEW c, NEW f \in Fun, lit[f] \in Lit, BodyFitsKind(f),
           CodeFitsKind(c), Accepts(c, f)
    PROVE  /\ c.kind \in {"static", "closure"} => KindOf(f) = "closure"
           /\ c.kind = "builtin" => KindOf(f) = "builtin"
           /\ c.kind = "special" => KindOf(f) = "special"
<1>1. CASE c.kind = "special" BY <1>1 DEF Accepts
<1>2. CASE c.kind \in {"static", "closure"}
  <2>1. body[f] = c.body BY <1>2 DEF Accepts
  <2>2. CASE c.body = Nil
    <3>1. PICK l \in Lit : BodyType[l] = "nil" /\ Kind[l] = "closure"
      BY <1>2, <2>2 DEF CodeFitsKind
    <3>2. BodyType[lit[f]] = "nil"
      BY <2>1, <2>2, DistinctAssumption DEF BodyFitsKind
    <3> QED BY <1>2, <3>1, <3>2 DEF BodilessHaveOneKind, KindOf
  <2>3. CASE c.body # Nil BY <1>2, <2>1, <2>3, DistinctAssumption DEF BodyFitsKind
  <2> QED BY <2>2, <2>3
<1>3. CASE c.kind = "builtin"
  <2>1. PICK l \in Lit : BodyType[l] = "nil" /\ Kind[l] = "builtin"
    BY <1>3 DEF CodeFitsKind
  <2>2. body[f] = Nil BY <1>3 DEF Accepts, CodeFitsKind
  <2>3. BodyType[lit[f]] = "nil" BY <2>2, DistinctAssumption DEF BodyFitsKind
  <2> QED BY <1>3, <2>1, <2>3 DEF BodilessHaveOneKind, KindOf
<1> QED BY <1>1, <1>2, <1>3 DEF Accepts

\* The IC compiled for f fits its kind.
LEMMA NewFitsKind ==
    ASSUME StoreTypeOK, NEW f \in Fun, NEW s \in Site, lit[f] # None, BodyFitsKind(f),
           KindOf(f) # "special"
    PROVE  CodeFitsKind(NewIC(s, f))
<1>1. lit[f] \in Lit /\ KindOf(f) = Kind[lit[f]] BY DEF StoreTypeOK, KindOf
<1>2. KindOf(f) \in {"closure", "builtin"} BY <1>1, KindAssumption DEF Kinds
<1>3. CASE KindOf(f) = "builtin"
  BY <1>1, <1>3, KindAssumption DEF NewIC, IC, CodeFitsKind, BodyFitsKind
<1>4. CASE KindOf(f) = "closure"
  BY <1>1, <1>4 DEF NewIC, IC, CodeFitsKind, BodyFitsKind
<1> QED BY <1>2, <1>3, <1>4

\* The last activation moves on within the kinds.
LEMMA StepKind ==
    ASSUME CacheInv, KindInv, depth > 0, NEW act, Step(act), UNCHANGED lit,
           \A f \in Fun : BodyFitsKind(f)',
           \A s \in Site : target'[s] # None => CodeFitsKind(target'[s]),
           CodeFitsKind(act.code),
           act.pc = "args" => KindOf(act.fun) = "builtin",
           act.ran # None => act.ran.how = KindOf(act.fun)
    PROVE  KindInv'
<1>1. /\ depth' = depth /\ stack'[depth] = act
      /\ \A d \in 1..depth : d # depth => stack'[d] = stack[d]
  BY TopFacts, BoundAssumption DEF Step, CacheInv, StackInv, StackTypeOK
<1>2. \A d \in 1..depth' :
         /\ CodeFitsKind(stack'[d].code)
         /\ stack'[d].pc = "args" => KindOf(stack'[d].fun) = "builtin"
         /\ stack'[d].ran # None => stack'[d].ran.how = KindOf(stack'[d].fun)
  BY <1>1 DEF KindInv, RightKind
<1> QED BY <1>2 DEF KindInv, RightKind, KindOf, CodeFitsKind

\* Around the activations, kinds stay as they are.
LEMMA AroundKind ==
    ASSUME CacheInv, KindInv, UNCHANGED <<depth, stack>>,
           \A f \in Fun : BodyFitsKind(f)',
           \A s \in Site : target'[s] # None => CodeFitsKind(target'[s]),
           \A d \in 1..depth : lit'[stack[d].fun] = lit[stack[d].fun]
    PROVE  KindInv'
  BY DEF KindInv, RightKind, KindOf, CodeFitsKind

\* Finalizing a module leaves targets that fit their kinds.
LEMMA FinalizeKind ==
    ASSUME KindInv, NEW S \in SUBSET Site, Finalize(S)
    PROVE  \A s \in Site : target'[s] # None => CodeFitsKind(target'[s])
  BY DEF Finalize, KindInv, CodeFitsKind, Stub, IC

\* Compiled bodies belong to closures.
LEMMA CompileKind ==
    ASSUME CacheInv, KindInv, NEW f \in Fun, NEW g \in Fun, lit[f] # None,
           KindOf(f) = "closure", NEW a \in Free, NEW type, NEW S,
           CompileInto(f, g, a, type, S), lit' = [lit EXCEPT ![g] = lit[f]]
    PROVE  \A h \in Fun : BodyFitsKind(h)'
<1>1. a \in Addr /\ a # Nil BY DistinctAssumption DEF Free
<1>2. body' = [body EXCEPT ![g] = a] BY DEF CompileInto
<1> QED BY <1>1, <1>2 DEF KindInv, BodyFitsKind, KindOf, CacheInv, StoreInv, StoreTypeOK

\* Every step keeps conventions right, if bodiless functions have one kind.
LEMMA KindNext ==
    ASSUME BodilessHaveOneKind, CacheInv, KindInv, [Next]_vars
    PROVE  KindInv'
<1> USE DEF KindInv
<1>t. /\ \A f \in Fun : lit[f] \in Lit \cup {None}
      /\ depth > 0 => /\ lit[Top.fun] \in Lit /\ Top.fun \in Fun /\ Top.site \in Site
                      /\ BodyFitsKind(Top.fun) /\ CodeFitsKind(Top.code)
                      /\ Top.ran # None => Top.ran.how = KindOf(Top.fun)
                      /\ Top.pc = "args" => KindOf(Top.fun) = "builtin"
  BY TopFacts DEF RightKind, CacheInv, StoreInv, StoreTypeOK, Top
<1>q. ASSUME UNCHANGED <<lit, body>>, UNCHANGED target
      PROVE  /\ \A f \in Fun : BodyFitsKind(f)'
             /\ \A s \in Site : target'[s] # None => CodeFitsKind(target'[s])
  BY <1>q DEF BodyFitsKind, KindOf
<1>1. CASE EnterStub \/ Miss \/ KeepCallee
  BY <1>1, <1>t, <1>q, StepKind, TopFacts
     DEF EnterStub, Miss, KeepCallee, Entered, Activation
<1>2. CASE HitStatic \/ HitClosure \/ HitSpecial
  BY <1>2, <1>t, <1>q, StepKind, AcceptsKind, TopFacts
     DEF HitStatic, HitClosure, HitSpecial, Hit, Entered, Activation, RunAs
<1>3. CASE HitBuiltin
  BY <1>3, <1>t, <1>q, StepKind, AcceptsKind, TopFacts
     DEF HitBuiltin, Hit, Entered, Activation
<1>4. CASE CallBuiltin
  BY <1>4, <1>t, <1>q, StepKind, TopFacts DEF CallBuiltin, Activation, RunAs
<1>5. CASE Begin
  BY <1>5, <1>t, <1>q, StepKind, TopFacts DEF Begin, Activation
<1>6. CASE BuildSpecialIC
  <2>1. CodeFitsKind(SpecialIC) BY DEF SpecialIC, IC, CodeFitsKind
  <2> QED BY <1>6, <2>1, <1>t, <1>q, StepKind, TopFacts DEF BuildSpecialIC, Activation
<1>7. CASE BuildIC
  <2>1. CodeFitsKind(NewIC(Top.site, Top.fun))
    BY <1>7, <1>t, NewFitsKind, DistinctAssumption DEF BuildIC, CacheInv, StoreInv
  <2> QED BY <1>7, <2>1, <1>t, <1>q, StepKind, TopFacts DEF BuildIC, Activation
<1>8. CASE PatchIC
  <2>1. \A f \in Fun : BodyFitsKind(f)' BY <1>8 DEF PatchIC, BodyFitsKind, KindOf
  <2>2. \A s \in Site : target'[s] # None => CodeFitsKind(target'[s])
    BY <1>8, <1>t DEF PatchIC, CacheInv, StoreInv, StoreTypeOK
  <2> QED BY <1>8, <2>1, <2>2, <1>t, StepKind, TopFacts DEF PatchIC, Activation
<1>9. CASE CompileCallee \/ RecompileHot
  <2>1. depth > 0 /\ UNCHANGED lit BY <1>9 DEF CompileCallee, RecompileHot
  <2>2. body[Top.fun] # Nil
    BY <1>9 DEF CompileCallee, RecompileHot, ShouldCompile, TypeOf
  <2>3. KindOf(Top.fun) = "closure"
    BY <2>1, <2>2, <1>t, DistinctAssumption DEF BodyFitsKind
  <2>4. PICK a \in Free, S \in SUBSET Site, type \in NativeTypes :
           CompileInto(Top.fun, Top.fun, a, type, S)
    BY <1>9 DEF CompileCallee, RecompileHot, NativeTypes
  <2>5. lit' = [lit EXCEPT ![Top.fun] = lit[Top.fun]]
    BY <2>1, <1>t DEF CacheInv, StoreInv, StoreTypeOK
  <2>6. \A h \in Fun : BodyFitsKind(h)'
    BY <2>1, <2>3, <2>4, <2>5, <1>t, CompileKind, DistinctAssumption
  <2>7. \A s \in Site : target'[s] # None => CodeFitsKind(target'[s])
    BY <2>4, FinalizeKind DEF CompileInto
  <2>8. CASE CompileCallee
    BY <2>8, <2>1, <2>6, <2>7, <1>t, StepKind, TopFacts DEF CompileCallee, Activation
  <2>9. CASE RecompileHot
    <3>1. /\ Top.pc = "begin"
          /\ Step([Top EXCEPT !.pc = "run", !.ran.lit = SourceMeaning(Top.fun)])
      BY <2>9 DEF RecompileHot
    <3>2. Top.ran \in Run /\ Top.ran.how = KindOf(Top.fun) /\ Top \in Activation
      BY <2>1, <3>1, <1>t, TopFacts DEF Activation
    <3> DEFINE act == [Top EXCEPT !.pc = "run", !.ran.lit = SourceMeaning(Top.fun)]
    <3>3. /\ act.code = Top.code /\ act.fun = Top.fun /\ act.pc = "run"
          /\ act.ran.how = Top.ran.how
      BY <3>2 DEF Activation, Run
    <3> HIDE DEF act
    <3> QED BY <2>1, <2>6, <2>7, <1>t, <3>1, <3>2, <3>3, StepKind DEF act
  <2> QED BY <1>9, <2>8, <2>9
<1>10. ASSUME NEW f \in Fun, NEW l \in Lit, Define(f, l) PROVE KindInv'
  <2>1. \A d \in 1..depth : lit'[stack[d].fun] = lit[stack[d].fun]
    BY <1>10 DEF Define, Active, CacheInv, StoreInv, StoreTypeOK
  <2>2. \A h \in Fun : BodyFitsKind(h)'
    BY <1>10, KindAssumption, DistinctAssumption
       DEF Define, BodyFitsKind, KindOf, Free, CacheInv, StoreInv, StoreTypeOK
  <2> QED BY <1>10, <2>1, <2>2, AroundKind DEF Define
<1>11. ASSUME NEW f \in Fun, NEW g \in Fun, Share(f, g) PROVE KindInv'
  <2>1. \A d \in 1..depth : lit'[stack[d].fun] = lit[stack[d].fun]
    BY <1>11 DEF Share, Active, CacheInv, StoreInv, StoreTypeOK
  <2>2. \A h \in Fun : BodyFitsKind(h)'
    BY <1>11 DEF Share, BodyFitsKind, KindOf, CacheInv, StoreInv, StoreTypeOK
  <2> QED BY <1>11, <2>1, <2>2, AroundKind DEF Share
<1>12. ASSUME NEW f \in Fun, NEW g \in Fun, CompileExplicitly(f, g) PROVE KindInv'
  <2>1. \A d \in 1..depth : lit'[stack[d].fun] = lit[stack[d].fun]
    BY <1>12 DEF CompileExplicitly, Active, CacheInv, StoreInv, StoreTypeOK
  <2>2. PICK a \in Free, S \in SUBSET Site : CompileInto(f, g, a, "native", S)
    BY <1>12 DEF CompileExplicitly
  <2>3. \A h \in Fun : BodyFitsKind(h)'
    BY <1>12, <2>2, CompileKind DEF CompileExplicitly
  <2>4. \A s \in Site : target'[s] # None => CodeFitsKind(target'[s])
    BY <2>2, FinalizeKind DEF CompileInto
  <2> QED BY <1>12, <2>1, <2>3, <2>4, AroundKind DEF CompileExplicitly
<1>13. ASSUME NEW a \in Addr, Collect(a) PROVE KindInv'
  BY <1>13, <1>q, AroundKind DEF Collect
<1>14. CASE Switch \/ UNCHANGED vars
  BY <1>14, <1>q, AroundKind DEF Switch, vars
<1>15. ASSUME NEW s \in Site, NEW f \in Fun, Call(s, f) PROVE KindInv'
  <2> DEFINE act == [site |-> s, fun |-> f, code |-> target[s], misses |-> 0,
                     pc |-> "enter", ran |-> None]
  <2>1. /\ depth' = depth + 1 /\ stack' = [stack EXCEPT ![depth + 1] = act]
        /\ depth < MaxDepth /\ UNCHANGED <<lit, body, target>> /\ target[s] # None
    BY <1>15 DEF Call, Push
  <2>2. act.ran = None /\ act.pc = "enter" /\ act.code = target[s] OBVIOUS
  <2> HIDE DEF act
  <2>3. \A d \in 1..depth' : \/ stack'[d] = act
                             \/ d \in 1..depth /\ stack'[d] = stack[d]
    BY <2>1, BoundAssumption DEF CacheInv, StackInv, StackTypeOK
  <2>4. \A d \in 1..depth' :
           /\ CodeFitsKind(stack'[d].code)
           /\ stack'[d].pc = "args" => KindOf(stack'[d].fun) = "builtin"
           /\ stack'[d].ran # None => stack'[d].ran.how = KindOf(stack'[d].fun)
    BY <2>1, <2>2, <2>3 DEF RightKind
  <2> QED BY <2>1, <2>4, <1>q DEF RightKind, KindOf, CodeFitsKind
<1>16. CASE Return \/ \E d \in 0..(depth - 1) : Unwind(d)
  <2>1. /\ UNCHANGED <<lit, body, target>>
        /\ \A d \in 1..depth' : d \in 1..depth /\ stack'[d] = stack[d]
    BY <1>16, BoundAssumption DEF Return, Unwind, CacheInv, StackInv, StackTypeOK
  <2> QED BY <2>1, <1>q DEF RightKind, KindOf, CodeFitsKind
<1> QED BY <1>1, <1>2, <1>3, <1>4, <1>5, <1>6, <1>7, <1>8, <1>9, <1>10, <1>11, <1>12,
          <1>13, <1>14, <1>15, <1>16 DEF Next, Dispatch, Environment

\* Calls use the convention of their callee's kind, if a body tells kinds apart.
THEOREM ConventionsRight == ASSUME BodilessHaveOneKind PROVE Spec => []RightKind
<1>1. Init => KindInv
  BY DEF Init, KindInv, BodyFitsKind, RightKind
<1>2. CacheInv /\ KindInv /\ [Next]_vars => KindInv' BY KindNext
<1>3. KindInv => RightKind BY DEF KindInv
<1> QED BY <1>1, <1>2, <1>3, CacheSafe, PTL DEF Spec

(***************************************************************************)
(* Argument orders, where no cell is freed.                                *)
(***************************************************************************)

HeapGrows == \A a \in Addr : heap[a] # None => heap'[a] = heap[a]

\* Without the collector, a cell in use stays what it is.
LEMMA HeapOnlyGrows == ASSUME ~Collects, StoreTypeOK, [Next]_vars PROVE HeapGrows
<1>1. ASSUME NEW f \in Fun, NEW l \in Lit, Define(f, l) PROVE HeapGrows
  BY <1>1 DEF Define, Free, HeapGrows, StoreTypeOK
<1>2. ASSUME NEW f, NEW g, NEW a \in Free, NEW type, NEW S, CompileInto(f, g, a, type, S)
      PROVE  HeapGrows
  BY <1>2 DEF CompileInto, Free, HeapGrows, StoreTypeOK
<1>3. CASE UNCHANGED heap BY <1>3 DEF HeapGrows
<1> QED
  BY <1>1, <1>2, <1>3
     DEF Next, Dispatch, Environment, Share, CompileExplicitly, Collect, Switch, vars,
         EnterStub, Miss, HitStatic, HitClosure, HitSpecial, HitBuiltin, CompileCallee,
         KeepCallee, BuildSpecialIC, BuildIC, PatchIC, Call, CallBuiltin, Begin,
         RecompileHot, Return, Unwind

\* A static IC stays ordered for its site while cells only come into use.
LEMMA OrderKept ==
    ASSUME HeapGrows, NEW c, NEW s \in Site, OrderedFor(c, s)
    PROVE  OrderedFor(c, s)'
  BY DEF HeapGrows, OrderedFor

\* The last activation moves on with the right order.
LEMMA StepOrder ==
    ASSUME CacheInv, OrderInv, depth > 0, NEW act, Step(act), UNCHANGED lit, HeapGrows,
           \A s \in Site : target'[s] # None => OrderedFor(target[s], s)',
           OrderedFor(act.code, act.site)',
           act.ran # None => act.ran.order = Order[act.site][lit[act.fun]]
    PROVE  OrderInv'
<1>1. /\ depth' = depth /\ stack'[depth] = act
      /\ \A d \in 1..depth : stack[d].site \in Site
      /\ \A d \in 1..depth : d # depth => stack'[d] = stack[d]
  BY TopFacts, BoundAssumption DEF Step, CacheInv, StackInv, StackTypeOK, Activation
<1>2. ASSUME NEW d \in 1..depth
      PROVE  /\ OrderedFor(stack[d].code, stack[d].site)'
             /\ stack'[d].ran # None =>
                   stack'[d].ran.order = Order[stack'[d].site][lit[stack'[d].fun]]
  <2>1. CASE d = depth BY <2>1, <1>1 DEF OrderedFor
  <2>2. CASE d # depth
    <3>1. OrderedFor(stack[d].code, stack[d].site) BY DEF OrderInv
    <3>2. stack'[d] = stack[d] /\ stack[d].site \in Site BY <1>1, <2>2
    <3> QED BY <3>1, <3>2 DEF OrderInv, RightOrder, HeapGrows, OrderedFor
  <2> QED BY <2>1, <2>2
<1> QED BY <1>1, <1>2 DEF OrderInv, RightOrder

\* Around the activations, orders stay right.
LEMMA AroundOrder ==
    ASSUME CacheInv, OrderInv, UNCHANGED <<depth, stack>>, HeapGrows,
           \A s \in Site : target'[s] # None => OrderedFor(target[s], s)',
           \A d \in 1..depth : lit'[stack[d].fun] = lit[stack[d].fun]
    PROVE  OrderInv'
<1>1. \A d \in 1..depth : stack[d].site \in Site
  BY BoundAssumption DEF CacheInv, StackInv, StackTypeOK, Activation
<1>2. \A d \in 1..depth : OrderedFor(stack[d].code, stack[d].site)'
  BY <1>1 DEF OrderInv, HeapGrows, OrderedFor
<1> QED BY <1>2 DEF OrderInv, RightOrder

\* Every step keeps the orders right, if cells are never freed.
LEMMA OrderNext ==
    ASSUME ~Collects, CacheInv, OrderInv, [Next]_vars
    PROVE  OrderInv'
<1>g. HeapGrows BY HeapOnlyGrows DEF CacheInv, StoreInv
<1>t. /\ \A f \in Fun : lit[f] \in Lit \cup {None}
      /\ depth > 0 => /\ lit[Top.fun] \in Lit /\ Top.fun \in Fun /\ Top.site \in Site
                      /\ OrderedFor(Top.code, Top.site)
                      /\ Top.ran # None => Top.ran.order = Order[Top.site][lit[Top.fun]]
  BY TopFacts DEF OrderInv, RightOrder, CacheInv, StoreInv, StoreTypeOK, Top
<1>q. ASSUME UNCHANGED target
      PROVE  \A s \in Site : target'[s] # None => OrderedFor(target[s], s)'
  BY <1>g, <1>q DEF OrderInv, HeapGrows, OrderedFor
<1>k. depth > 0 => OrderedFor(Top.code, Top.site) /\ Top.code.kind \in {"stub", "special", "static", "builtin", "closure"}
  BY <1>t, TopFacts DEF Activation, Code
<1>f. ASSUME NEW S \in SUBSET Site, Finalize(S)
      PROVE  \A s \in Site : target'[s] # None => OrderedFor(target[s], s)'
  BY <1>g, <1>f DEF Finalize, OrderInv, HeapGrows, OrderedFor, Stub, IC
<1>a. ASSUME NEW act, depth > 0, act.code = Top.code, act.site = Top.site
      PROVE  OrderedFor(act.code, act.site)'
  BY <1>a, <1>g, <1>t DEF HeapGrows, OrderedFor
<1>1. CASE EnterStub \/ Miss \/ KeepCallee \/ HitBuiltin \/ Begin
  BY <1>1, <1>t, <1>q, <1>g, <1>a, StepOrder, TopFacts
     DEF EnterStub, Miss, KeepCallee, HitBuiltin, Begin, Entered, Hit, Activation
<1>2. CASE HitStatic
  <2>1. Top.code.order = Order[Top.site][lit[Top.fun]]
    BY <1>2, <1>t, DistinctAssumption
       DEF HitStatic, Hit, Entered, Accepts, OrderedFor, CacheInv, StoreInv, BodiesAgree
  <2> QED BY <1>2, <2>1, <1>t, <1>q, <1>g, <1>a, StepOrder, TopFacts
          DEF HitStatic, Hit, Entered, Activation, RunAs
<1>3. CASE HitClosure \/ HitSpecial \/ CallBuiltin
  BY <1>3, <1>t, <1>q, <1>g, <1>a, StepOrder, TopFacts
     DEF HitClosure, HitSpecial, CallBuiltin, Hit, Entered, Activation, RunAs, Matched
<1>4. CASE BuildSpecialIC
  <2>1. PICK s \in Site, c \in Code : s = Top.site /\ c = SpecialIC
    BY <1>4, <1>t DEF BuildSpecialIC, SpecialIC, IC, Code
  <2>2. OrderedFor(c, s)' BY <2>1 DEF OrderedFor, SpecialIC, IC
  <2> QED BY <1>4, <2>1, <2>2, <1>t, <1>q, <1>g, StepOrder, TopFacts
          DEF BuildSpecialIC, Activation
<1>5. CASE BuildIC
  <2>1. PICK s \in Site, f \in Fun : s = Top.site /\ f = Top.fun
    BY <1>5, <1>t DEF BuildIC
  <2>2. OrderedFor(NewIC(s, f), s)
    <3>1. lit[f] \in Lit /\ KindOf(f) # "special" /\ KindOf(f) \in Kinds
      BY <1>5, <2>1, <1>t, KindAssumption DEF BuildIC, KindOf
    <3>2. CASE NewIC(s, f) = IC(KindOf(f), body[f], NoOrder)
      BY <3>1, <3>2 DEF IC, OrderedFor, Kinds
    <3>3. CASE /\ TypeOf(body[f]) \in NativeTypes
               /\ NewIC(s, f) = IC("static", body[f], Order[s][lit[f]])
      <4>1. body[f] # Nil BY <3>3 DEF TypeOf, NativeTypes
      <4>2. body[f] \in Addr /\ heap[body[f]] # None /\ heap[body[f]].lit = lit[f]
        BY <4>1, <3>1, DistinctAssumption DEF CacheInv, StoreInv, StoreTypeOK, BodiesAgree
      <4> QED BY <3>3, <4>2 DEF IC, OrderedFor
    <3> QED BY <3>2, <3>3 DEF NewIC
  <2>3. PICK c : c = NewIC(s, f) OBVIOUS
  <2>4. OrderedFor(c, s)' BY <2>2, <2>3, <1>g, OrderKept
  <2> QED BY <1>5, <2>1, <2>3, <2>4, <1>t, <1>q, <1>g, StepOrder, TopFacts
          DEF BuildIC, Activation
<1>6. CASE PatchIC
  <2>1. PICK s \in Site, c \in Code : s = Top.site /\ c = Top.code BY <1>6, <1>t, TopFacts DEF PatchIC, Activation
  <2>2. OrderedFor(c, s)' BY <1>6, <2>1, <1>g, <1>t, OrderKept DEF PatchIC
  <2>3. target' = [target EXCEPT ![s] = c] BY <1>6, <2>1 DEF PatchIC
  <2>4. \A r \in Site : target'[r] # None => OrderedFor(target[r], r)'
    BY <2>2, <2>3, <1>g DEF OrderInv, HeapGrows, OrderedFor, CacheInv, StoreInv, StoreTypeOK
  <2> QED BY <1>6, <2>4, <1>t, <1>g, <1>a, StepOrder, TopFacts DEF PatchIC, Activation
<1>7. CASE CompileCallee \/ RecompileHot
  <2>1. depth > 0 /\ UNCHANGED lit BY <1>7 DEF CompileCallee, RecompileHot
  <2>2. PICK S \in SUBSET Site : Finalize(S)
    BY <1>7 DEF CompileCallee, RecompileHot, CompileInto
  <2>3. \A s \in Site : target'[s] # None => OrderedFor(target[s], s)' BY <2>2, <1>f
  <2>4. CASE CompileCallee
    BY <2>1, <2>3, <2>4, <1>t, <1>g, <1>a, StepOrder, TopFacts DEF CompileCallee, Activation
  <2>5. CASE RecompileHot
    <3> DEFINE act == [Top EXCEPT !.pc = "run", !.ran.lit = SourceMeaning(Top.fun)]
    <3>1. Top.pc = "begin" /\ Step(act) BY <2>5 DEF RecompileHot
    <3>2. Top.ran \in Run /\ Top \in Activation /\ Top.ran # None
      BY <2>1, <3>1, TopFacts DEF Activation
    <3>3. /\ act.code = Top.code /\ act.fun = Top.fun /\ act.site = Top.site
          /\ act.ran.order = Top.ran.order
      BY <3>2 DEF Activation, Run
    <3>4. PICK new : new = act OBVIOUS
    <3> HIDE DEF act
    <3>5. OrderedFor(new.code, new.site)' BY <2>1, <3>3, <3>4, <1>a
    <3> QED BY <2>1, <2>3, <1>t, <1>g, <3>1, <3>2, <3>3, <3>4, <3>5, StepOrder
  <2> QED BY <1>7, <2>4, <2>5
<1>8. ASSUME NEW f \in Fun, NEW l \in Lit, Define(f, l) PROVE OrderInv'
  <2>1. \A d \in 1..depth : lit'[stack[d].fun] = lit[stack[d].fun]
    BY <1>8 DEF Define, Active, CacheInv, StoreInv, StoreTypeOK
  <2> QED BY <1>8, <2>1, <1>q, <1>g, AroundOrder DEF Define
<1>9. ASSUME NEW f \in Fun, NEW g \in Fun, Share(f, g) PROVE OrderInv'
  <2>1. \A d \in 1..depth : lit'[stack[d].fun] = lit[stack[d].fun]
    BY <1>9 DEF Share, Active, CacheInv, StoreInv, StoreTypeOK
  <2> QED BY <1>9, <2>1, <1>q, <1>g, AroundOrder DEF Share
<1>10. ASSUME NEW f \in Fun, NEW g \in Fun, CompileExplicitly(f, g) PROVE OrderInv'
  <2>1. \A d \in 1..depth : lit'[stack[d].fun] = lit[stack[d].fun]
    BY <1>10 DEF CompileExplicitly, Active, CacheInv, StoreInv, StoreTypeOK
  <2>2. PICK S \in SUBSET Site : Finalize(S) BY <1>10 DEF CompileExplicitly, CompileInto
  <2> QED BY <1>10, <2>1, <2>2, <1>f, <1>g, AroundOrder DEF CompileExplicitly
<1>11. CASE Switch \/ UNCHANGED vars
  BY <1>11, <1>q, <1>g, AroundOrder DEF Switch, vars
<1>12. ASSUME NEW s \in Site, NEW f \in Fun, Call(s, f) PROVE OrderInv'
  <2> DEFINE act == [site |-> s, fun |-> f, code |-> target[s], misses |-> 0,
                     pc |-> "enter", ran |-> None]
  <2>1. /\ depth' = depth + 1 /\ stack' = [stack EXCEPT ![depth + 1] = act]
        /\ depth < MaxDepth /\ UNCHANGED <<lit, target, heap>> /\ target[s] # None
    BY <1>12 DEF Call, Push
  <2>2. act.ran = None /\ act.site = s /\ act.code = target[s] OBVIOUS
  <2> HIDE DEF act
  <2>3. \A d \in 1..depth' : \/ stack'[d] = act
                             \/ d \in 1..depth /\ stack'[d] = stack[d]
    BY <2>1, BoundAssumption DEF CacheInv, StackInv, StackTypeOK
  <2> QED BY <2>1, <2>2, <2>3, <1>q DEF OrderInv, RightOrder, OrderedFor
<1>13. CASE Return \/ \E d \in 0..(depth - 1) : Unwind(d)
  <2>1. /\ UNCHANGED <<lit, target, heap>>
        /\ \A d \in 1..depth' : d \in 1..depth /\ stack'[d] = stack[d]
    BY <1>13, BoundAssumption DEF Return, Unwind, CacheInv, StackInv, StackTypeOK
  <2> QED BY <2>1, <1>q DEF OrderInv, RightOrder, OrderedFor
<1> QED BY <1>1, <1>2, <1>3, <1>4, <1>5, <1>6, <1>7, <1>8, <1>9, <1>10, <1>11, <1>12,
          <1>13 DEF Next, Dispatch, Environment, Collect

\* Static ICs bind the arguments as the callee's formals ask, if no cell is freed.
THEOREM OrdersRight == ASSUME ~Collects PROVE Spec => []RightOrder
<1>1. Init => OrderInv
  BY DEF Init, OrderInv, RightOrder
<1>2. CacheInv /\ OrderInv /\ [Next]_vars => OrderInv' BY OrderNext
<1>3. OrderInv => RightOrder BY DEF OrderInv
<1> QED BY <1>1, <1>2, <1>3, CacheSafe, PTL DEF Spec

(***************************************************************************)
(* The refinement of FunctionCalls.                                        *)
(***************************************************************************)

\* R code runs in the abstract state whenever it runs in the detailed one.
LEMMA AbstractRCode ==
    ASSUME CacheInv, KindInv, RCodeRuns
    PROVE  Calls!RCodeRuns
<1>1. CASE depth > 0
  <2>1. /\ AbstractCalls[depth] = [site |-> Top.site, fun |-> Top.fun, ran |-> Top.ran]
        /\ depth \in 1..depth /\ Top = stack[depth]
    BY <1>1, TopFacts, BoundAssumption DEF AbstractCalls, CacheInv, StackInv, StackTypeOK, Top
  <2>2. CASE Top.pc = "run" BY <1>1, <2>1, <2>2, TopFacts DEF Calls!RCodeRuns, Calls!Top
  <2>3. CASE Top.pc = "args" BY <1>1, <2>1, <2>3 DEF KindInv, KindOf, Calls!RCodeRuns, Calls!Top
  <2> QED BY <1>1, <2>2, <2>3 DEF RCodeRuns
<1>2. CASE ~(depth > 0) BY <1>2 DEF Calls!RCodeRuns
<1> QED BY <1>1, <1>2

\* A function that is not active is idle in the abstract state.
LEMMA AbstractIdle ==
    ASSUME CacheInv, NEW f \in Fun, ~Active(f)
    PROVE  Calls!Idle(f)
  BY BoundAssumption DEF CacheInv, StackInv, StackTypeOK, Active, AbstractCalls, Calls!Idle

\* A step within an activation that does not run the callee is invisible.
LEMMA AbstractStutter ==
    ASSUME CacheInv, depth > 0, NEW act, Step(act), UNCHANGED lit,
           act.site = Top.site, act.fun = Top.fun, act.ran = Top.ran
    PROVE  UNCHANGED Calls!vars
<1>1. /\ depth \in 1..MaxDepth /\ depth' = depth
      /\ stack' = [stack EXCEPT ![depth] = act] /\ stack \in [1..MaxDepth -> Activation \cup {None}]
  BY TopFacts, BoundAssumption DEF Step, CacheInv, StackInv, StackTypeOK
<1>2. \A d \in 1..MaxDepth : /\ stack'[d].site = stack[d].site
                             /\ stack'[d].fun = stack[d].fun /\ stack'[d].ran = stack[d].ran
  BY <1>1 DEF Top
<1>3. AbstractCalls' = AbstractCalls BY <1>1, <1>2 DEF AbstractCalls
<1> QED BY <1>1, <1>3 DEF Calls!vars

\* The step that runs the callee with the outcome its function asks for.
LEMMA AbstractRun ==
    ASSUME CacheInv, depth > 0, NEW act, Step(act), UNCHANGED lit,
           act.site = Top.site, act.fun = Top.fun, Top.ran = None,
           act.ran = Calls!Outcome(Top.site, Top.fun)
    PROVE  Calls!RunCallee
<1>1. /\ depth \in 1..MaxDepth /\ depth' = depth
      /\ stack' = [stack EXCEPT ![depth] = act] /\ stack \in [1..MaxDepth -> Activation \cup {None}]
  BY TopFacts, BoundAssumption DEF Step, CacheInv, StackInv, StackTypeOK
<1>2. Calls!Top = [site |-> Top.site, fun |-> Top.fun, ran |-> None]
  BY <1>1 DEF Calls!Top, AbstractCalls, Top
<1>3. AbstractCalls' = [AbstractCalls EXCEPT ![depth].ran = act.ran]
  <2>1. \A d \in 1..MaxDepth : d # depth => stack'[d] = stack[d] BY <1>1
  <2>2. stack'[depth] = act BY <1>1
  <2> DEFINE ran == [site |-> Top.site, fun |-> Top.fun, ran |-> act.ran]
  <2>3. [AbstractCalls[depth] EXCEPT !.ran = act.ran] = ran
    BY <1>2 DEF Calls!Top
  <2>4. AbstractCalls' = [AbstractCalls EXCEPT ![depth] = ran]
    <3>1. [site |-> stack'[depth].site, fun |-> stack'[depth].fun, ran |-> stack'[depth].ran]
             = ran
      BY <2>2
    <3> HIDE DEF ran
    <3>2. \A d \in 1..MaxDepth :
             AbstractCalls'[d] = IF d = depth THEN ran ELSE AbstractCalls[d]
      BY <1>1, <2>1, <3>1 DEF AbstractCalls
    <3>3. /\ AbstractCalls' = [d \in 1..MaxDepth |-> AbstractCalls'[d]]
          /\ AbstractCalls = [d \in 1..MaxDepth |-> AbstractCalls[d]]
      BY DEF AbstractCalls
    <3> QED BY <1>1, <3>2, <3>3
  <2> QED BY <2>3, <2>4
<1> QED BY <1>1, <1>2, <1>3 DEF Calls!RunCallee

\* What an activation is recorded to run is a run.
LEMMA RunAsType ==
    ASSUME CacheInv, depth > 0
    PROVE  /\ Matched \in Orders \cup {NoOrder} /\ Top.code.order \in Orders \cup {NoOrder}
           /\ \A o \in Orders \cup {NoOrder}, how \in Kinds :
                 RunAs(how, body[Top.fun], o) \in Run
<1>1. Top.fun \in Fun /\ Top.site \in Site /\ Top.code \in Code /\ lit[Top.fun] # None
  BY TopFacts DEF Activation
<1>2. Meaning(Top.fun) \in Lit /\ lit[Top.fun] \in Lit
  BY <1>1, CompileMeaning DEF CacheInv
<1> QED BY <1>1, <1>2, OrderAssumption DEF Matched, RunAs, Run, Code, Meaning

\* What the invariants say of a callee that starts to run in this step.
LEMMA RanOutcome ==
    ASSUME CacheInv', KindInv', OrderInv', depth' = depth, depth > 0, depth' \in Nat,
           UNCHANGED lit, NEW act, stack'[depth] = act, act.ran # None
    PROVE  act.ran = Calls!Outcome(act.site, act.fun)
<1>1. depth \in 1..depth' /\ depth \in 1..MaxDepth
  BY BoundAssumption DEF CacheInv, StackInv, StackTypeOK
<1>2. act.ran \in Run
  BY <1>1, DistinctAssumption DEF CacheInv, StackInv, StackTypeOK, Activation
<1>3. /\ act.ran.how = Kind[lit[act.fun]] /\ act.ran.lit = lit[act.fun]
      /\ act.ran.order = Order[act.site][lit[act.fun]]
  BY <1>1 DEF CacheInv, StackInv, RightCode, KindInv, RightKind, OrderInv, RightOrder, KindOf
<1> QED BY <1>2, <1>3 DEF Run, Calls!Outcome

\* Every step of the inline caches is a step of plain calls, or no step.
LEMMA AbstractStep ==
    ASSUME CacheInv, KindInv, CacheInv', KindInv', OrderInv', [Next]_vars
    PROVE  [Calls!Next]_(Calls!vars)
<1>d. depth \in Nat BY BoundAssumption DEF CacheInv, StackInv, StackTypeOK
<1>1. CASE EnterStub \/ Miss \/ HitBuiltin \/ KeepCallee \/ BuildSpecialIC \/ BuildIC \/ PatchIC
           \/ Begin \/ CompileCallee
  BY <1>1, AbstractStutter, TopFacts
     DEF EnterStub, Miss, HitBuiltin, KeepCallee, BuildSpecialIC, BuildIC, PatchIC, Begin,
         CompileCallee, Entered, Hit, Activation
<1>2. CASE RecompileHot
  <2> DEFINE act == [Top EXCEPT !.pc = "run", !.ran.lit = SourceMeaning(Top.fun)]
  <2>1. /\ Top.pc = "begin" /\ Step(act) /\ depth > 0 /\ UNCHANGED lit
    BY <1>2 DEF RecompileHot
  <2>2. SourceMeaning(Top.fun) = lit[Top.fun] /\ Top.ran.lit = lit[Top.fun]
    BY <2>1, TopFacts, CompileMeaning DEF CacheInv
  <2>3. Top \in Activation /\ Top.ran \in Run BY <2>1, TopFacts DEF Activation
  <2>4. act.ran = [Top.ran EXCEPT !.lit = Top.ran.lit]
    BY <2>2, <2>3 DEF Activation
  <2>5. act.ran = Top.ran /\ act.site = Top.site /\ act.fun = Top.fun
    BY <2>3, <2>4 DEF Activation, Run
  <2> HIDE DEF act
  <2> QED BY <2>1, <2>5, AbstractStutter
<1>3. CASE HitStatic \/ HitClosure \/ HitSpecial \/ CallBuiltin
  <2>1. PICK act : /\ Step(act) /\ act.site = Top.site /\ act.fun = Top.fun
                   /\ act.ran # None /\ depth > 0 /\ UNCHANGED lit /\ Top.ran = None
    <3>1. depth > 0 /\ UNCHANGED lit /\ Top.pc \in {"enter", "args"}
      BY <1>3 DEF HitStatic, HitClosure, HitSpecial, CallBuiltin, Hit, Entered
    <3>2. Top \in Activation /\ Top.ran = None BY <3>1, TopFacts
    <3>3. /\ Matched \in Orders \cup {NoOrder} /\ Top.code.order \in Orders \cup {NoOrder}
          /\ \A o \in Orders \cup {NoOrder}, how \in Kinds :
                RunAs(how, body[Top.fun], o) # None
          /\ Hit("static") => Top.code.body = body[Top.fun]
      BY <3>1, RunAsType, DistinctAssumption DEF Hit, Accepts
    <3> HIDE DEF Matched, RunAs
    <3> QED BY <1>3, <3>1, <3>2, <3>3
            DEF HitStatic, HitClosure, HitSpecial, CallBuiltin, Activation, Kinds
  <2>2. depth' = depth /\ stack'[depth] = act
    BY <2>1, TopFacts, BoundAssumption DEF Step, CacheInv, StackInv, StackTypeOK
  <2>3. act.ran = Calls!Outcome(Top.site, Top.fun) BY <1>d, <2>1, <2>2, RanOutcome
  <2> QED BY <2>1, <2>3, AbstractRun DEF Calls!Next
<1>4. ASSUME NEW f \in Fun, NEW l \in Lit, RCodeRuns, ~Active(f), UNCHANGED <<depth, stack>>,
             lit' = [lit EXCEPT ![f] = l]
      PROVE  Calls!Next
  <2>1. Calls!RCodeRuns /\ Calls!Idle(f) BY <1>4, AbstractRCode, AbstractIdle
  <2>2. AbstractCalls' = AbstractCalls BY <1>4 DEF AbstractCalls
  <2> QED BY <1>4, <2>1, <2>2 DEF Calls!Define, Calls!Next
<1>5. ASSUME NEW f \in Fun, NEW l \in Lit, Define(f, l) PROVE Calls!Next
  BY <1>4, <1>5 DEF Define
<1>6. ASSUME NEW f \in Fun, NEW g \in Fun, Share(f, g) PROVE Calls!Next
  <2>1. lit[f] \in Lit BY <1>6 DEF Share, CacheInv, StoreInv, StoreTypeOK
  <2> QED BY <1>4, <1>6, <2>1 DEF Share
<1>7. ASSUME NEW f \in Fun, NEW g \in Fun, CompileExplicitly(f, g)
      PROVE  [Calls!Next]_(Calls!vars)
  <2>1. lit[f] \in Lit BY <1>7 DEF CompileExplicitly, CacheInv, StoreInv, StoreTypeOK
  <2>2. CASE g = f
    <3>1. UNCHANGED <<lit, depth, stack>>
      BY <1>7, <2>2 DEF CompileExplicitly, CacheInv, StoreInv, StoreTypeOK
    <3> QED BY <3>1 DEF Calls!vars, AbstractCalls
  <2>3. CASE ~Active(g)
    BY <1>4, <1>7, <2>1, <2>3 DEF CompileExplicitly
  <2> QED BY <1>7, <2>2, <2>3 DEF CompileExplicitly
<1>8. ASSUME UNCHANGED <<lit, depth, stack>> PROVE UNCHANGED Calls!vars
  BY <1>8 DEF Calls!vars, AbstractCalls
<1>9. ASSUME NEW s \in Site, NEW f \in Fun, Call(s, f) PROVE Calls!Next
  <2> DEFINE act == [site |-> s, fun |-> f, code |-> target[s], misses |-> 0,
                     pc |-> "enter", ran |-> None]
  <2>1. /\ depth' = depth + 1 /\ stack' = [stack EXCEPT ![depth + 1] = act]
        /\ depth < MaxDepth /\ lit[f] # None /\ RCodeRuns /\ UNCHANGED lit
    BY <1>9 DEF Call, Push
  <2>2. act.site = s /\ act.fun = f /\ act.ran = None OBVIOUS
  <2> HIDE DEF act
  <2>3. stack \in [1..MaxDepth -> Activation \cup {None}] /\ depth + 1 \in 1..MaxDepth
    BY <1>d, <2>1, BoundAssumption DEF CacheInv, StackInv, StackTypeOK
  <2>4. AbstractCalls' = [AbstractCalls EXCEPT ![depth + 1] =
                            [site |-> s, fun |-> f, ran |-> None]]
    <3>1. \A d \in 1..MaxDepth : d # depth + 1 => stack'[d] = stack[d] BY <2>1, <2>3
    <3>2. stack'[depth + 1] = act BY <2>1, <2>3
    <3>3. \A d \in 1..MaxDepth : d > depth' <=> d > depth /\ d # depth + 1
      BY <1>d, <2>1
    <3> QED BY <1>d, <2>1, <2>2, <2>3, <3>1, <3>2, <3>3 DEF AbstractCalls
  <2>5. Calls!RCodeRuns BY <2>1, AbstractRCode
  <2> QED BY <2>1, <2>4, <2>5 DEF Calls!Invoke, Calls!Next
<1>10. ASSUME NEW e \in 0..(depth - 1), depth > 0, RCodeRuns, depth' = e, UNCHANGED lit,
              \A d \in 1..e : stack'[d] = stack[d]
       PROVE  Calls!Next
  <2>1. AbstractCalls' = [d \in 1..MaxDepth |-> IF d > e THEN None ELSE AbstractCalls[d]]
    BY <1>d, <1>10, BoundAssumption DEF AbstractCalls
  <2>2. Calls!RCodeRuns BY <1>10, AbstractRCode
  <2> QED BY <1>10, <2>1, <2>2 DEF Calls!Leave, Calls!Next
<1>11. CASE Return
  <2>1. /\ depth - 1 \in 0..(depth - 1) /\ depth > 0 /\ RCodeRuns /\ depth' = depth - 1
        /\ UNCHANGED lit /\ \A d \in 1..(depth - 1) : stack'[d] = stack[d]
    BY <1>d, <1>11, BoundAssumption
       DEF Return, RCodeRuns, CacheInv, StackInv, StackTypeOK
  <2> QED BY <1>10, <2>1
<1>12. ASSUME NEW d \in 0..(depth - 1), Unwind(d) PROVE Calls!Next
  <2>1. \A e \in 1..d : stack'[e] = stack[e]
    BY <1>d, <1>12, BoundAssumption DEF Unwind, CacheInv, StackInv, StackTypeOK
  <2> QED BY <1>10, <1>12, <2>1 DEF Unwind
<1> QED
  BY <1>1, <1>2, <1>3, <1>5, <1>6, <1>7, <1>8, <1>9, <1>11, <1>12
     DEF Next, Dispatch, Environment, Collect, Switch, vars

\* Inline caching, patching and (re)compilation implement plain calls, if bodies
\* tell kinds apart and no address is reused.
THEOREM ImplementsCalls ==
    ASSUME BodilessHaveOneKind, ~Collects
    PROVE  Spec => RefinesCalls
<1>1. Init => CacheInv /\ KindInv /\ OrderInv /\ Calls!Init
  <2>1. Init => KindInv /\ OrderInv
    BY DEF Init, KindInv, BodyFitsKind, RightKind, OrderInv, RightOrder
  <2>2. Init => Calls!Init
    BY BoundAssumption DEF Init, Calls!Init, AbstractCalls
  <2> QED BY <2>1, <2>2, CacheInit
<1>2. CacheInv /\ KindInv /\ OrderInv /\ [Next]_vars
         => CacheInv' /\ KindInv' /\ OrderInv'
  BY CacheNext, KindNext, OrderNext
<1>3. CacheInv /\ KindInv /\ CacheInv' /\ KindInv' /\ OrderInv' /\ [Next]_vars
         => [Calls!Next]_(Calls!vars)
  BY AbstractStep
<1> QED BY <1>1, <1>2, <1>3, PTL DEF Spec, RefinesCalls, Calls!Spec
============================================================================
