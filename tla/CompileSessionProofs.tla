------------------------ MODULE CompileSessionProofs ------------------------
(* Proofs about CompileSession, for all sessions, objects and bounds.        *)
EXTENDS CompileSession, SequenceTheorems, TLAPS

(***************************************************************************)
(* Constants, contexts and sequences.                                      *)
(***************************************************************************)

\* The slot of a constant is a slot.
LEMMA SlotType ==
    ASSUME NEW c, NEW pool \in Pool, NEW reserved \in Nat
    PROVE  SlotOf(c, pool, reserved) \in Nat /\ With(c, pool, SlotOf(c, pool, reserved)) \in Seq(Constant \cup {c})
<1>1. Len(pool) \in Nat BY DEF Pool
<1>2. SlotOf(c, pool, reserved) \in Nat
  BY <1>1 DEF SlotOf
<1>3. pool \in Seq(Constant \cup {c}) /\ Append(pool, c) \in Seq(Constant \cup {c})
  BY SeqMonotonic DEF Pool
<1> QED BY <1>2, <1>3 DEF With

\* An instruction that reads c adds at most c to what its context reads.
LEMMA ReadingType ==
    ASSUME NEW c \in Constant, NEW ctx \in Context, NEW contexts
    PROVE  /\ ReadingIn(c, ctx, contexts) \in Context
           /\ ReadingIn(c, ctx, contexts).kind = ctx.kind
           /\ \A r \in ReadingIn(c, ctx, contexts).used : r \in ctx.used \/ r[2] = c
<1> DEFINE slot == SlotOf(c, ctx.pool, Reserved(Owner(contexts)))
<1>1. Reserved(Owner(contexts)) \in Nat BY DEF Reserved, Placeholders
<1>2. ctx.pool \in Pool /\ ctx.used \in Reads /\ ctx.kind \in Kinds BY DEF Context
<1>3. slot \in Nat /\ With(c, ctx.pool, slot) \in Pool
  <2>1. Constant \cup {c} = Constant OBVIOUS
  <2> QED BY <1>1, <1>2, <2>1, SlotType DEF Pool
<1>4. ctx.used \cup {<<slot, c>>} \in Reads BY <1>2, <1>3 DEF Reads
<1>5. ReadingIn(c, ctx, contexts) =
         [kind |-> ctx.kind, pool |-> With(c, ctx.pool, slot), used |-> ctx.used \cup {<<slot, c>>}]
  <2>1. ReadingIn(c, ctx, contexts) =
          [ctx EXCEPT !.pool = With(c, @, slot), !.used = @ \cup {<<slot, c>>}]
    BY DEF ReadingIn
  <2> HIDE DEF slot
  <2> QED BY <2>1 DEF Context
<1> HIDE DEF slot
<1> QED BY <1>2, <1>3, <1>4, <1>5 DEF Context

\* The contexts under the current one, or the sessions under the innermost.
LEMMA FrontType ==
    ASSUME NEW S, NEW s \in Seq(S), s # <<>>
    PROVE  /\ Front(s) \in Seq(S) /\ Len(Front(s)) = Len(s) - 1
           /\ \A i \in 1..(Len(s) - 1) : Front(s)[i] = s[i]
           /\ s[Len(s)] \in S /\ Len(s) \in Nat \ {0}
<1>1. Len(s) \in Nat \ {0} BY EmptySeq
<1>2. \A i \in 1..(Len(s) - 1) : s[i] \in S BY <1>1, ElementOfSeq
<1>3. /\ SubSeq(s, 1, Len(s) - 1) \in Seq(S)
      /\ Len(SubSeq(s, 1, Len(s) - 1)) =
            IF 1 <= Len(s) - 1 THEN (Len(s) - 1) - 1 + 1 ELSE 0
      /\ \A i \in 1..((Len(s) - 1) - 1 + 1) : SubSeq(s, 1, Len(s) - 1)[i] = s[1 + i - 1]
  <2> DEFINE n == Len(s) - 1
  <2>1. 1 \in Int /\ n \in Int /\ \A i \in 1..n : s[i] \in S BY <1>1, <1>2
  <2> HIDE DEF n
  <2>2. /\ SubSeq(s, 1, n) \in Seq(S)
        /\ Len(SubSeq(s, 1, n)) = IF 1 <= n THEN n - 1 + 1 ELSE 0
        /\ \A i \in 1..(n - 1 + 1) : SubSeq(s, 1, n)[i] = s[1 + i - 1]
    BY <2>1, SubSeqProperties
  <2> QED BY <2>2 DEF n
<1>4. Front(s) = SubSeq(s, 1, Len(s) - 1) BY DEF Front
<1>5. s[Len(s)] \in S BY <1>1, ElementOfSeq
<1>6. ASSUME NEW i \in 1..(Len(s) - 1) PROVE Front(s)[i] = s[i]
  <2>1. i \in 1..((Len(s) - 1) - 1 + 1) /\ 1 + i - 1 = i BY <1>1
  <2> QED BY <1>3, <1>4, <2>1
<1>7. Len(Front(s)) = Len(s) - 1
  <2>1. \A n \in Nat \ {0} : (IF 1 <= n - 1 THEN (n - 1) - 1 + 1 ELSE 0) = n - 1
    OBVIOUS
  <2>2. (IF 1 <= Len(s) - 1 THEN (Len(s) - 1) - 1 + 1 ELSE 0) = Len(s) - 1
    BY <1>1, <2>1, Zenon
  <2> QED BY <1>3, <1>4, <2>2, Zenon
<1> QED BY <1>1, <1>3, <1>4, <1>5, <1>6, <1>7

\* The objects a compiler allocates have their types.
LEMMA FreshType == Data \in Object /\ None \notin Object /\ Ast \in Constant /\ Nil \in Constant
  BY DistinctAssumption DEF Data, Object, Pool, Reads, Constant

(***************************************************************************)
(* Type correctness.                                                       *)
(***************************************************************************)

\* The innermost session and the current context.
LEMMA TopType ==
    ASSUME TypeOK, running # <<>>
    PROVE  /\ Top \in Activity /\ Len(running) \in Nat \ {0}
           /\ Front(running) \in Seq(Activity)
           /\ Len(Front(running)) = Len(running) - 1
           /\ \A i \in 1..(Len(running) - 1) : Front(running)[i] = running[i]
  BY FrontType DEF TypeOK, Top
LEMMA CurrentType ==
    ASSUME TypeOK, ctxs # <<>>
    PROVE  /\ Current \in Context /\ Len(ctxs) \in Nat \ {0}
           /\ Front(ctxs) \in Seq(Context)
           /\ Len(Front(ctxs)) = Len(ctxs) - 1
           /\ \A i \in 1..(Len(ctxs) - 1) : Front(ctxs)[i] = ctxs[i]
  BY FrontType DEF TypeOK, Current

\* Changing the one or the other.
LEMMA SetTopType ==
    ASSUME TypeOK, running # <<>>, NEW act \in Activity, SetTop(act)
    PROVE  /\ running' \in Seq(Activity) /\ Len(running') = Len(running)
           /\ \A i \in 1..Len(running) :
                 running'[i] = IF i = Len(running) THEN act ELSE running[i]
<1>1. running \in Seq(Activity) /\ Len(running) \in 1..Len(running) BY TopType DEF TypeOK
<1> QED BY <1>1, ExceptSeq DEF SetTop
LEMMA SetCurrentType ==
    ASSUME TypeOK, ctxs # <<>>, NEW ctx \in Context, SetCurrent(ctx)
    PROVE  /\ ctxs' \in Seq(Context) /\ Len(ctxs') = Len(ctxs)
           /\ \A i \in 1..Len(ctxs) :
                 ctxs'[i] = IF i = Len(ctxs) THEN ctx ELSE ctxs[i]
<1>1. ctxs \in Seq(Context) /\ Len(ctxs) \in 1..Len(ctxs) BY CurrentType DEF TypeOK
<1> QED BY <1>1, ExceptSeq DEF SetCurrent

\* What instructions of open contexts read is only ever what they read before, a
\* constant that is no object, the vector of a switch, or a native SEXP that the
\* session has just added to its relocations.
ReadBefore(r) == \E i \in DOMAIN ctxs : r \in ctxs[i].used
ReadsAdded ==
    \A i \in DOMAIN ctxs' : \A r \in ctxs'[i].used :
       \/ ReadBefore(r) \/ r[2] \notin Obj \/ Switches
       \/ running # <<>> /\ r[2] \in relocs'[Top.session]
Typed == TypeOK' /\ ReadsAdded

\* An action that changes contexts at the end only adds to what they read.
LEMMA ReadsOfCurrent ==
    ASSUME TypeOK, ctxs # <<>>, NEW ctx \in Context, SetCurrent(ctx),
           \A r \in ctx.used : r \in Current.used \/ r[2] \notin Obj \/ Switches
    PROVE  ReadsAdded
<1>1. ctxs \in Seq(Context) /\ Len(ctxs) \in 1..Len(ctxs) /\ DOMAIN ctxs = 1..Len(ctxs)
  BY CurrentType, LenProperties DEF TypeOK
<1>2. DOMAIN ctxs' = 1..Len(ctxs) BY SetCurrentType, LenProperties
<1>3. \A i \in 1..Len(ctxs) : ctxs'[i] = IF i = Len(ctxs) THEN ctx ELSE ctxs[i]
  BY SetCurrentType
<1> QED BY <1>1, <1>2, <1>3 DEF ReadsAdded, ReadBefore, Current

LEMMA QuietReads == ASSUME UNCHANGED ctxs PROVE ReadsAdded
  BY DEF ReadsAdded, ReadBefore

LEMMA CollectTyped == ASSUME TypeOK, Collect PROVE Typed
<1>1. heap' \in [Obj -> Object \cup {None}] BY DEF Collect, TypeOK
<1> QED BY <1>1, QuietReads DEF Collect, TypeOK, Typed

LEMMA UseConstantTyped == ASSUME TypeOK, UseConstant PROVE Typed
<1>1. ctxs # <<>> /\ SetCurrent(Reading(Ast, Current)) BY DEF UseConstant, Building
<1>2. /\ Reading(Ast, Current) \in Context
      /\ \A r \in Reading(Ast, Current).used : r \in Current.used \/ r[2] = Ast
  BY <1>1, CurrentType, ReadingType, FreshType DEF Reading
<1>3. ctxs' \in Seq(Context) /\ ReadsAdded
  BY <1>1, <1>2, SetCurrentType, ReadsOfCurrent, DistinctAssumption
<1> QED BY <1>3 DEF UseConstant, TypeOK, Typed

LEMMA CompileSwitchTyped == ASSUME TypeOK, CompileSwitch PROVE Typed
<1>1. PICK o \in Free : /\ heap' = [heap EXCEPT ![o] = Data]
                        /\ SetCurrent(Reading(o, [Current EXCEPT !.pool = Append(@, o)]))
  BY DEF CompileSwitch
<1> DEFINE longer == [Current EXCEPT !.pool = Append(@, o)]
<1>2. ctxs # <<>> /\ o \in Obj /\ Switches BY DEF CompileSwitch, Building, Free
<1>3. Current \in Context BY <1>2, CurrentType
<1>4. Append(Current.pool, o) \in Pool
  <2>1. Current.pool \in Seq(Constant) /\ o \in Constant BY <1>2, <1>3 DEF Context, Pool, Constant
  <2> QED BY <2>1, AppendProperties DEF Pool
<1>5. longer \in Context
  <2> DEFINE pool == Append(Current.pool, o)
  <2>1. longer = [Current EXCEPT !.pool = pool] OBVIOUS
  <2> HIDE DEF pool
  <2>2. pool \in Pool BY <1>4 DEF pool
  <2> QED BY <1>3, <2>1, <2>2 DEF Context
<1> HIDE DEF longer
<1>6. Reading(o, longer) \in Context BY <1>2, <1>5, ReadingType DEF Reading, Constant
<1>7. SetCurrent(Reading(o, longer)) BY <1>1 DEF longer
<1>8. ctxs' \in Seq(Context) /\ ReadsAdded BY <1>2, <1>6, <1>7, SetCurrentType, ReadsOfCurrent
<1>9. heap' \in [Obj -> Object \cup {None}] BY <1>1, <1>2, FreshType DEF TypeOK
<1> QED BY <1>8, <1>9 DEF CompileSwitch, TypeOK, Typed

LEMMA OpenTyped ==
    ASSUME TypeOK, NEW kind \in {"function", "promise"}, Open(kind)
    PROVE  Typed
<1> DEFINE ctx == [kind |-> kind, used |-> {},
                   pool |-> IF kind = "function" THEN <<Ast, Nil, Nil>> ELSE <<Ast>>]
<1>1. ctx \in Context
  <2>1. <<Ast, Nil, Nil>> \in Pool /\ <<Ast>> \in Pool BY FreshType DEF Pool
  <2>2. {} \in Reads /\ kind \in Kinds BY DEF Reads, Kinds
  <2> QED BY <2>1, <2>2 DEF Context
<1>2. ctxs' = Append(ctxs, ctx) BY DEF Open, Push
<1>3. ctx.used = {} OBVIOUS
<1> HIDE DEF ctx
<1>4. ctxs \in Seq(Context) BY DEF TypeOK
<1>5. ctxs' \in Seq(Context) BY <1>1, <1>2, <1>4, AppendProperties
<1>6. ReadsAdded
  <2>1. DOMAIN ctxs = 1..Len(ctxs) /\ Len(ctxs) \in Nat BY <1>4, LenProperties
  <2>2. DOMAIN ctxs' = 1..(Len(ctxs) + 1)
    BY <1>1, <1>2, <1>4, <1>5, AppendProperties, LenProperties
  <2>3. /\ \A i \in 1..Len(ctxs) : ctxs'[i] = ctxs[i]
        /\ ctxs'[Len(ctxs) + 1] = ctx
    BY <1>1, <1>2, <1>4, AppendProperties
  <2> QED BY <1>3, <2>1, <2>2, <2>3 DEF ReadsAdded, ReadBefore
<1> QED BY <1>5, <1>6 DEF Open, TypeOK, Typed

LEMMA OpenLoopTyped == ASSUME TypeOK, OpenLoop PROVE Typed
<1> DEFINE outer == [Current EXCEPT !.pool = <<>>]
           inner == [Current EXCEPT !.kind = "loop"]
           n == Len(ctxs)
           rest == [ctxs EXCEPT ![n] = outer]
<1>1. ctxs # <<>> /\ ctxs \in Seq(Context) BY DEF OpenLoop, Building, TypeOK
<1>2. Current \in Context /\ n \in 1..n /\ n \in Nat BY <1>1, CurrentType
<1>3. outer \in Context /\ inner \in Context
  <2>1. <<>> \in Pool /\ "loop" \in Kinds BY DEF Pool, Kinds
  <2> QED BY <1>2, <2>1 DEF Context
<1>4. outer.used = Current.used /\ inner.used = Current.used BY <1>2 DEF Context
<1>5. ctxs' = Append(rest, inner) BY DEF OpenLoop, Current
<1>6. /\ rest \in Seq(Context) /\ Len(rest) = n
      /\ \A i \in 1..n : rest[i] = IF i = n THEN outer ELSE ctxs[i]
  <2> HIDE DEF outer, n
  <2>1. ctxs \in Seq(Context) /\ n \in 1..Len(ctxs) /\ outer \in Context
    BY <1>1, <1>2, <1>3 DEF n
  <2> QED BY <2>1, ExceptSeq DEF n
<1> HIDE DEF rest, inner, outer
<1>7. /\ ctxs' \in Seq(Context) /\ Len(ctxs') = n + 1
      /\ \A i \in 1..n : ctxs'[i] = rest[i]
      /\ ctxs'[n + 1] = inner
  BY <1>3, <1>5, <1>6, AppendProperties
<1>8. ReadsAdded
  <2>1. DOMAIN ctxs = 1..n /\ DOMAIN ctxs' = 1..(n + 1) BY <1>1, <1>7, LenProperties
  <2>2. Current = ctxs[n] BY DEF Current
  <2> QED BY <1>2, <1>4, <1>6, <1>7, <2>1, <2>2 DEF ReadsAdded, ReadBefore
<1> QED BY <1>7, <1>8 DEF OpenLoop, TypeOK, Typed

LEMMA CloseLoopTyped == ASSUME TypeOK, CloseLoop PROVE Typed
<1> DEFINE n == Len(ctxs)
           back == [ctxs[n - 1] EXCEPT !.pool = Current.pool, !.used = Current.used]
<1>1. ctxs # <<>> /\ ctxs \in Seq(Context) BY DEF CloseLoop, Building, TypeOK
<1>2. /\ Current \in Context /\ n \in Nat \ {0} /\ Front(ctxs) \in Seq(Context)
      /\ Len(Front(ctxs)) = n - 1 /\ \A i \in 1..(n - 1) : Front(ctxs)[i] = ctxs[i]
  BY <1>1, CurrentType
<1>3. CASE n = 1
  <2>1. Front(ctxs) \in [{} -> Context]
    <3>1. Front(ctxs) \in [1..(n - 1) -> Context] BY <1>2, LenProperties
    <3>2. 1..(n - 1) = {} BY <1>3
    <3> QED BY <3>1, <3>2, Zenon
  <2>2. ctxs' = [Front(ctxs) EXCEPT ![n - 1] =
                    [@ EXCEPT !.pool = Current.pool, !.used = Current.used]]
    BY DEF CloseLoop
  <2>3. DOMAIN ctxs' = {} /\ ctxs' \in [{} -> Context]
    <3>1. \A g \in [{} -> Context] : \A k, e :
             DOMAIN [g EXCEPT ![k] = e] = {} /\ [g EXCEPT ![k] = e] \in [{} -> Context]
      OBVIOUS
    <3> QED BY <2>1, <2>2, <3>1, Zenon
  <2>4. ctxs' \in Seq(Context)
    <3>1. 1..0 = {} /\ 0 \in Nat OBVIOUS
    <3> QED BY <2>3, <3>1, SeqDef, Zenon
  <2> QED BY <2>3, <2>4 DEF CloseLoop, TypeOK, Typed, ReadsAdded
<1>4. CASE n # 1
  <2>1. n - 1 \in 1..(n - 1) /\ ctxs[n - 1] \in Context /\ n - 1 \in Nat BY <1>1, <1>2, <1>4, ElementOfSeq
  <2>2. back \in Context /\ back.used = Current.used BY <1>2, <2>1 DEF Context
  <2>3. ctxs' = [Front(ctxs) EXCEPT ![n - 1] = back]
    BY <1>2, <2>1 DEF CloseLoop
  <2> HIDE DEF back
  <2>4. /\ ctxs' \in Seq(Context) /\ Len(ctxs') = n - 1
        /\ \A i \in 1..(n - 1) : ctxs'[i] = IF i = n - 1 THEN back ELSE Front(ctxs)[i]
    BY <1>2, <2>1, <2>2, <2>3, ExceptSeq
  <2>5. ReadsAdded
    <3>1. DOMAIN ctxs = 1..n /\ DOMAIN ctxs' = 1..(n - 1) BY <1>1, <2>4, LenProperties
    <3>2. Current = ctxs[n] BY DEF Current
    <3> QED BY <1>2, <2>2, <2>4, <3>1, <3>2 DEF ReadsAdded, ReadBefore
  <2> QED BY <2>4, <2>5 DEF CloseLoop, TypeOK, Typed
<1> QED BY <1>3, <1>4

LEMMA CallSiteTyped == ASSUME TypeOK, NEW n \in Arity, CallSite(n) PROVE Typed
<1>1. /\ defines' \in [Session -> SUBSET Arity] /\ links' \in [Session -> SUBSET Arity]
      /\ cache' \in [Arity -> {"none", "declared", "ready"}]
  BY DEF CallSite, TypeOK
<1> QED BY <1>1, QuietReads DEF CallSite, TypeOK, Typed

LEMMA AllocSlotTyped == ASSUME TypeOK, AllocSlot PROVE Typed
<1>1. PICK o \in Free :
         /\ heap' = [heap EXCEPT ![o] = Data]
         /\ held' = Append(held, o)
         /\ IF held = <<>> THEN UNCHANGED ctxs
            ELSE SetCurrent([Current EXCEPT !.pool[2] = held[1], !.pool[3] = o])
  BY DEF AllocSlot
<1>2. o \in Obj /\ ctxs # <<>> /\ Current \in Context BY CurrentType DEF Free, AllocSlot
<1>3. heap' \in [Obj -> Object \cup {None}] BY <1>1, <1>2, FreshType DEF TypeOK
<1>4. held' \in Seq(Obj) BY <1>1, <1>2, AppendProperties DEF TypeOK
<1>5. CASE held = <<>>
  BY <1>1, <1>3, <1>4, <1>5, QuietReads DEF AllocSlot, TypeOK, Typed
<1>6. CASE held # <<>>
  <2> DEFINE pool == [[Current.pool EXCEPT ![2] = held[1]] EXCEPT ![3] = o]
             ctx == [Current EXCEPT !.pool = pool]
  <2>1. held[1] \in Obj
    <3>1. held \in Seq(Obj) /\ 1 \in 1..Len(held) BY <1>6, EmptySeq DEF TypeOK
    <3> QED BY <3>1, ElementOfSeq
  <2>2. Current.pool \in Seq(Constant) /\ held[1] \in Constant /\ o \in Constant
    BY <1>2, <2>1 DEF Context, Pool, Constant
  <2>3. pool \in Pool
    <3>1. /\ Current.pool \in [1..Len(Current.pool) -> Constant]
          /\ Len(Current.pool) \in Nat
      BY <2>2, LenProperties
    <3>2. pool \in [1..Len(Current.pool) -> Constant] BY <2>2, <3>1
    <3> QED BY <3>1, <3>2, SeqDef DEF Pool
  <2>4. SetCurrent(ctx) BY <1>1, <1>6, <1>2 DEF Context
  <2> HIDE DEF pool
  <2>5. ctx \in Context /\ ctx.used = Current.used BY <1>2, <2>3 DEF Context
  <2> HIDE DEF ctx
  <2>6. ctxs' \in Seq(Context) /\ ReadsAdded
    BY <1>2, <2>4, <2>5, SetCurrentType, ReadsOfCurrent
  <2> QED BY <1>3, <1>4, <2>6 DEF AllocSlot, TypeOK, Typed
<1> QED BY <1>5, <1>6

\* A native SEXP is allocated, and the enclosing context reads it.
LEMMA CloseIntoType ==
    ASSUME TypeOK, running # <<>>, ctxs # <<>>, NEW o \in Free, CloseInto(o)
    PROVE  /\ heap' \in [Obj -> Object \cup {None}] /\ heap'[o] # None
           /\ relocs' \in [Session -> SUBSET Obj]
           /\ ctxs' \in Seq(Context) /\ ReadsAdded /\ o \in Obj
<1> DEFINE n == Len(ctxs)
           native == [pool |-> Current.pool, used |-> Current.used, code |-> "missing"]
           back == ReadingIn(o, ctxs[n - 1], Front(ctxs))
<1>1. ctxs \in Seq(Context) /\ o \in Obj /\ Top.session \in Session
  BY TopType DEF TypeOK, Free, Activity
<1>2. /\ Current \in Context /\ n \in Nat \ {0} /\ Front(ctxs) \in Seq(Context)
      /\ Len(Front(ctxs)) = n - 1 /\ \A i \in 1..(n - 1) : Front(ctxs)[i] = ctxs[i]
  BY <1>1, CurrentType
<1>3. native \in Object BY <1>2 DEF Object, Context
<1>4. heap' = [heap EXCEPT ![o] = native] BY DEF CloseInto
<1>5. relocs' \in [Session -> SUBSET Obj] /\ o \in relocs'[Top.session]
  BY <1>1 DEF CloseInto, TypeOK
<1> HIDE DEF native
<1>6. heap' \in [Obj -> Object \cup {None}] /\ heap'[o] # None
  BY <1>1, <1>3, <1>4, FreshType DEF TypeOK
<1>7. CASE n > 1
  <2>1. n - 1 \in 1..(n - 1) /\ n - 1 \in 1..n /\ ctxs[n - 1] \in Context
    BY <1>1, <1>2, <1>7, ElementOfSeq
  <2>2. /\ back \in Context
        /\ \A r \in back.used : r \in ctxs[n - 1].used \/ r[2] = o
    BY <1>1, <2>1, ReadingType DEF Constant
  <2>3. ctxs' = [Front(ctxs) EXCEPT ![n - 1] = back]
    BY <1>2, <1>7, <2>1 DEF CloseInto
  <2> HIDE DEF back
  <2>4. /\ ctxs' \in Seq(Context) /\ Len(ctxs') = n - 1
        /\ \A i \in 1..(n - 1) : ctxs'[i] = IF i = n - 1 THEN back ELSE Front(ctxs)[i]
    BY <1>2, <2>1, <2>2, <2>3, ExceptSeq
  <2>5. DOMAIN ctxs = 1..n /\ DOMAIN ctxs' = 1..(n - 1) BY <1>1, <2>4, LenProperties
  <2>6. ReadsAdded BY <1>2, <1>5, <2>1, <2>2, <2>4, <2>5 DEF ReadsAdded, ReadBefore
  <2> QED BY <1>1, <1>5, <1>6, <2>4, <2>6
<1>8. CASE ~(n > 1)
  <2>1. ctxs' = <<>> BY <1>8 DEF CloseInto
  <2>2. ReadsAdded BY <2>1 DEF ReadsAdded
  <2> QED BY <1>1, <1>5, <1>6, <2>1, <2>2, EmptySeq
<1> QED BY <1>7, <1>8

LEMMA ClosePromiseTyped == ASSUME TypeOK, ClosePromise PROVE Typed
<1>1. PICK o \in Free : CloseInto(o) BY DEF ClosePromise
<1>2. running # <<>> /\ ctxs # <<>> BY DEF ClosePromise, Building, Compiling
<1>3. /\ heap' \in [Obj -> Object \cup {None}] /\ relocs' \in [Session -> SUBSET Obj]
      /\ ctxs' \in Seq(Context) /\ ReadsAdded
  BY <1>1, <1>2, CloseIntoType
<1> QED BY <1>3 DEF ClosePromise, TypeOK, Typed

LEMMA CloseFunctionTyped == ASSUME TypeOK, CloseFunction PROVE Typed
<1>1. PICK o \in Free :
         /\ CloseInto(o)
         /\ IF Len(ctxs) > 1 THEN UNCHANGED <<running, bodies>>
            ELSE /\ SetTop([Top EXCEPT !.made = o])
                 /\ bodies' = IF Top.many THEN bodies \cup {o} ELSE bodies
  BY DEF CloseFunction
<1>2. running # <<>> /\ ctxs # <<>> BY DEF CloseFunction, Compiling
<1>3. /\ heap' \in [Obj -> Object \cup {None}] /\ relocs' \in [Session -> SUBSET Obj]
      /\ ctxs' \in Seq(Context) /\ ReadsAdded /\ o \in Obj
  BY <1>1, <1>2, CloseIntoType
<1>4. running' \in Seq(Activity) /\ bodies' \in SUBSET Obj
  <2>1. [Top EXCEPT !.made = o] \in Activity BY <1>2, <1>3, TopType DEF Activity
  <2>2. SetTop([Top EXCEPT !.made = o]) => running' \in Seq(Activity)
    BY <1>2, <2>1, SetTopType
  <2> QED BY <1>1, <1>3, <2>2 DEF TypeOK
<1>5. held' \in Seq(Obj) BY EmptySeq DEF CloseFunction
<1> QED BY <1>3, <1>4, <1>5 DEF CloseFunction, TypeOK, Typed

LEMMA StartTyped ==
    ASSUME TypeOK, NEW s \in Session, NEW many \in BOOLEAN, Start(s, many)
    PROVE  Typed
<1> DEFINE act == [session |-> s, many |-> many, waits |-> FALSE, made |-> Nil]
<1>1. act \in Activity BY DEF Activity
<1>2. running' = Append(running, act) /\ UNCHANGED ctxs BY DEF Start
<1> HIDE DEF act
<1>3. running' \in Seq(Activity) BY <1>1, <1>2, AppendProperties DEF TypeOK
<1>4. /\ relocs' \in [Session -> SUBSET Obj]
      /\ defines' \in [Session -> SUBSET Arity] /\ links' \in [Session -> SUBSET Arity]
  BY DEF Start, Emptied, TypeOK
<1> QED BY <1>2, <1>3, <1>4, QuietReads DEF Start, TypeOK, Typed

LEMMA FinalizeTyped ==
    ASSUME TypeOK, Finalize, \A o \in relocs[Top.session] : Used(o)
    PROVE  Typed
<1>1. running # <<>> /\ UNCHANGED ctxs /\ EndSession BY DEF Finalize, Compiling
<1>2. Top \in Activity /\ Front(running) \in Seq(Activity) BY <1>1, TopType
<1>3. heap' \in [Obj -> Object \cup {None}]
  <2>1. \A o \in Obj : heap[o] # None => [heap[o] EXCEPT !.code = "ready"] \in Object
    BY DEF TypeOK, Object
  <2>2. heap' = [o \in Obj |-> IF o \in relocs[Top.session]
                               THEN [heap[o] EXCEPT !.code = "ready"] ELSE heap[o]]
    BY DEF Finalize
  <2> QED BY <2>1, <2>2 DEF TypeOK, Used
<1>4. cache' \in [Arity -> {"none", "declared", "ready"}] BY DEF Finalize, TypeOK
<1>5. Top.many \/ Top.made # Nil BY DEF Finalize
<1>6. bodies' \in SUBSET Obj BY <1>1, <1>2, <1>5 DEF EndSession, Activity, TypeOK
<1>7. /\ relocs' \in [Session -> SUBSET Obj] /\ instances' \in SUBSET Session
      /\ defines' \in [Session -> SUBSET Arity] /\ links' \in [Session -> SUBSET Arity]
      /\ running' \in Seq(Activity)
  BY <1>1, <1>2 DEF EndSession, Emptied, TypeOK
<1> QED BY <1>1, <1>3, <1>4, <1>6, <1>7, QuietReads DEF Finalize, TypeOK, Typed

\* Steps of jitFunctions' warnings.
LEMMA WarningTyped == ASSUME TypeOK, Warn \/ Resume PROVE Typed
<1>1. running # <<>> /\ UNCHANGED ctxs BY DEF Warn, Resume, Compiling
<1>2. Top \in Activity /\ Front(running) \in Seq(Activity) BY <1>1, TopType
<1>3. running' \in Seq(Activity)
  <2>1. \A w \in BOOLEAN : [Top EXCEPT !.waits = w] \in Activity BY <1>2 DEF Activity
  <2>2. ASSUME NEW w \in BOOLEAN, SetTop([Top EXCEPT !.waits = w])
        PROVE  running' \in Seq(Activity)
    BY <1>1, <2>1, <2>2, SetTopType
  <2> QED BY <2>2 DEF Warn, Resume
<1> QED BY <1>1, <1>3, QuietReads DEF Warn, Resume, TypeOK, Typed

\* A session is abandoned, and what is left of it is overwritten.
LEMMA AbortTyped ==
    ASSUME TypeOK, Abort, \A o \in relocs[Top.session] : Used(o)
    PROVE  Typed
<1>1. running # <<>> /\ UNCHANGED ctxs BY DEF Abort
<1>2. running' \in Seq(Activity) BY <1>1, TopType DEF Abort
<1>3. heap' \in [Obj -> Object \cup {None}]
  <2>1. \A o \in Obj : heap[o] # None => [heap[o] EXCEPT !.code = "orphaned"] \in Object
    BY DEF TypeOK, Object
  <2>2. heap' = [o \in Obj |-> IF o \in relocs[Top.session]
                               THEN [heap[o] EXCEPT !.code = "orphaned"] ELSE heap[o]]
    BY DEF Abort
  <2> QED BY <2>1, <2>2 DEF TypeOK, Used
<1> QED BY <1>1, <1>2, <1>3, QuietReads DEF Abort, TypeOK, Typed

LEMMA OverwriteTyped == ASSUME TypeOK, NEW s \in Session, Overwrite(s) PROVE Typed
<1>1. /\ relocs' \in [Session -> SUBSET Obj]
      /\ defines' \in [Session -> SUBSET Arity] /\ links' \in [Session -> SUBSET Arity]
  BY DEF Overwrite, Emptied, TypeOK
<1> QED BY <1>1, QuietReads DEF Overwrite, TypeOK, Typed

LEMMA QuietTyped ==
    ASSUME TypeOK, UNCHANGED vars \/ \E o \in Obj : Forget(o)
    PROVE  Typed
  BY QuietReads DEF vars, Forget, TypeOK, Typed

(***************************************************************************)
(* The sessions on the C stack and what they have allocated.               *)
(***************************************************************************)

\* A session that runs is registered with the collector, and is not on the stack
\* twice; contexts are open only while the innermost session compiles.
SessionsOK ==
    /\ \A i \in 1..Len(running) : running[i].session \in instances
    /\ \A i, j \in 1..Len(running) : running[i].session = running[j].session => i = j
    /\ ctxs # <<>> => Compiling

\* Machine code is only missing of what some session on the stack is going to patch.
MissingRelocated ==
    \A o \in Obj : Used(o) /\ heap[o].code = "missing" =>
       \E i \in 1..Len(running) : o \in relocs[running[i].session]

\* What a session on the stack is going to patch exists and has no machine code, and
\* no other session on the stack patches it.
RelocsMissing ==
    \A i \in 1..Len(running) : \A o \in relocs[running[i].session] :
       Used(o) /\ heap[o].code = "missing"
RelocsApart ==
    \A i, j \in 1..Len(running) : \A o \in relocs[running[i].session] :
       o \in relocs[running[j].session] => i = j

\* Without string switches, the code under construction reads the constants that
\* outlive it and what the innermost session is going to patch.
ReadsRelocated ==
    \A i \in 1..Len(ctxs) : \A r \in ctxs[i].used :
       r[2] \in Obj /\ ~Switches => r[2] \in relocs[Top.session]

Patches == MissingRelocated /\ RelocsMissing /\ RelocsApart
SessionInv == TypeOK /\ SessionsOK /\ Patches /\ ReadsRelocated

THEOREM InitSession == Init => SessionInv
<1> SUFFICES ASSUME Init PROVE SessionInv OBVIOUS
<1> USE DEF Init
<1>1. running = <<>> /\ ctxs = <<>> /\ held = <<>> OBVIOUS
<1>2. TypeOK
  <2>1. running \in Seq(Activity) /\ ctxs \in Seq(Context) /\ held \in Seq(Obj)
    BY <1>1, EmptySeq
  <2> QED BY <2>1 DEF TypeOK
<1>3. Len(running) = 0 /\ Len(ctxs) = 0 BY <1>1
<1>4. SessionsOK BY <1>1, <1>3 DEF SessionsOK
<1>5. Patches BY <1>3 DEF Patches, MissingRelocated, RelocsMissing, RelocsApart, Used
<1>6. ReadsRelocated BY <1>3 DEF ReadsRelocated
<1> QED BY <1>2, <1>4, <1>5, <1>6 DEF SessionInv

\* The innermost session.
LEMMA TopSession ==
    ASSUME SessionInv, running # <<>>
    PROVE  /\ Top = running[Len(running)] /\ Len(running) \in 1..Len(running)
           /\ Len(running) \in Nat
           /\ Top.session \in instances /\ Top.session \in Session
           /\ \A o \in relocs[Top.session] : Used(o) /\ heap[o].code = "missing" /\ o \in Obj
<1>1. Top = running[Len(running)] /\ Len(running) \in 1..Len(running) /\ Len(running) \in Nat
  BY TopType DEF SessionInv, Top
<1>2. Top.session \in instances BY <1>1 DEF SessionInv, SessionsOK
<1>3. instances \subseteq Session /\ \A s \in Session : relocs[s] \subseteq Obj
  BY DEF SessionInv, TypeOK
<1> QED BY <1>1, <1>2, <1>3 DEF SessionInv, Patches, RelocsMissing

\* The sessions on the stack are those that exist.
LEMMA LiveRunning ==
    ASSUME SessionInv
    PROVE  /\ DOMAIN running = 1..Len(running)
           /\ Live \subseteq Session /\ Live \subseteq instances
           /\ \A i \in 1..Len(running) : running[i].session \in Live
<1>1. DOMAIN running = 1..Len(running) BY LenProperties DEF SessionInv, TypeOK
<1>2. instances \subseteq Session BY DEF SessionInv, TypeOK
<1> QED BY <1>1, <1>2 DEF SessionInv, SessionsOK, Live

\* While the innermost session stays the same and only gets more relocations, what
\* is added to the reads keeps the invariant of reads.
LEMMA ReadsStep ==
    ASSUME SessionInv, Typed, Top'.session = Top.session,
           relocs[Top.session] \subseteq relocs'[Top.session]
    PROVE  ReadsRelocated'
<1> SUFFICES ASSUME NEW i \in 1..Len(ctxs'), NEW r \in ctxs'[i].used,
                    r[2] \in Obj, ~Switches
             PROVE  r[2] \in relocs'[Top'.session]
  BY DEF ReadsRelocated
<1>1. ctxs \in Seq(Context) /\ ctxs' \in Seq(Context) BY DEF SessionInv, TypeOK, Typed
<1>2. DOMAIN ctxs = 1..Len(ctxs) /\ DOMAIN ctxs' = 1..Len(ctxs') BY <1>1, LenProperties
<1>3. ReadBefore(r) \/ r[2] \in relocs'[Top.session] BY <1>2 DEF Typed, ReadsAdded
<1>4. ReadBefore(r) => r[2] \in relocs[Top.session]
  BY <1>2 DEF ReadBefore, SessionInv, ReadsRelocated
<1> QED BY <1>3, <1>4

\* Steps of the innermost session that do not allocate.
LEMMA BuildStep ==
    ASSUME SessionInv, Typed, Compiling,
           UNCHANGED <<heap, instances, running, relocs, defines, links, cache>>
    PROVE  SessionInv'
<1> USE DEF SessionInv
<1>1. Top' = Top /\ Compiling' BY DEF Top, Compiling
<1>2. SessionsOK' BY <1>1 DEF SessionsOK
<1>3. Patches' BY DEF Patches, MissingRelocated, RelocsMissing, RelocsApart, Used
<1>4. ReadsRelocated' BY <1>1, ReadsStep
<1> QED BY <1>2, <1>3, <1>4 DEF Typed

\* Steps of the innermost session that allocate data.
LEMMA AllocateStep ==
    ASSUME SessionInv, Typed, Compiling, NEW o \in Free, heap' = [heap EXCEPT ![o] = Data],
           UNCHANGED <<instances, running, relocs, defines, links, cache>>
    PROVE  SessionInv'
<1> USE DEF SessionInv
<1>1. Top' = Top /\ Compiling' BY DEF Top, Compiling
<1>2. SessionsOK' BY <1>1 DEF SessionsOK
<1>3. o \in Obj /\ heap[o] = None BY DEF Free
<1>4. heap'[o] # None /\ heap'[o].code = "data" BY <1>3, FreshType DEF Data, TypeOK
<1>5. \A p \in Obj : p # o => heap'[p] = heap[p] BY DEF TypeOK
<1>6. MissingRelocated' BY <1>3, <1>4, <1>5 DEF Patches, MissingRelocated, Used
<1>7. RelocsMissing'
  <2>1. ASSUME NEW i \in 1..Len(running), NEW p \in relocs[running[i].session]
        PROVE  heap'[p] # None /\ heap'[p].code = "missing"
    <3>1. heap[p] # None /\ heap[p].code = "missing" BY DEF Patches, RelocsMissing, Used
    <3>2. p \in Obj /\ p # o BY <1>3, <3>1, LiveRunning DEF TypeOK
    <3> QED BY <1>5, <3>1, <3>2
  <2> QED BY <2>1 DEF RelocsMissing, Used
<1>8. RelocsApart' BY DEF Patches, RelocsApart
<1>9. ReadsRelocated' BY <1>1, ReadsStep
<1> QED BY <1>2, <1>6, <1>7, <1>8, <1>9 DEF Typed, Patches

\* A collection spares the roots.
LEMMA RootsSurvive == ASSUME NEW o, o \in Garbage PROVE ~Root(o)
  BY DEF Garbage, Unrooted

LEMMA CollectStep == ASSUME SessionInv, Collect PROVE SessionInv'
<1> USE DEF SessionInv, Collect
<1>1. Top' = Top /\ Compiling' = Compiling BY DEF Top, Compiling
<1>2. SessionsOK' BY <1>1 DEF SessionsOK
<1>3. \A p \in Obj : heap'[p] = IF p \in Garbage THEN None ELSE heap[p] OBVIOUS
<1>4. RelocsMissing'
  <2>1. ASSUME NEW i \in 1..Len(running), NEW p \in relocs[running[i].session]
        PROVE  heap'[p] = heap[p]
    <3>1. Root(p) /\ p \in Obj BY LiveRunning DEF SessionsOK, Root, TypeOK
    <3> QED BY <1>3, <3>1, RootsSurvive
  <2> QED BY <2>1 DEF Patches, RelocsMissing, Used
<1>5. MissingRelocated' BY <1>3 DEF Patches, MissingRelocated, Used
<1>6. RelocsApart' BY DEF Patches, RelocsApart
<1>7. Typed BY CollectTyped
<1>8. ReadsRelocated' BY <1>1, <1>7, ReadsStep
<1> QED BY <1>2, <1>4, <1>5, <1>6, <1>7, <1>8 DEF Typed, Patches

LEMMA QuietStep ==
    ASSUME SessionInv, UNCHANGED vars \/ \E o \in Obj : Forget(o)
    PROVE  SessionInv'
<1> USE DEF SessionInv, Forget, vars
<1>1. Top' = Top /\ Compiling' = Compiling BY DEF Top, Compiling
<1>2. SessionsOK' BY <1>1 DEF SessionsOK
<1>3. Patches' BY DEF Patches, MissingRelocated, RelocsMissing, RelocsApart, Used
<1>4. Typed BY QuietTyped
<1>5. ReadsRelocated' BY <1>1, <1>4, ReadsStep
<1> QED BY <1>2, <1>3, <1>4, <1>5 DEF Typed

LEMMA CallSiteStep == ASSUME SessionInv, NEW n \in Arity, CallSite(n) PROVE SessionInv'
<1> USE DEF SessionInv, CallSite
<1>1. Top' = Top /\ Compiling /\ Compiling' = Compiling BY DEF Top, Compiling, Building
<1>2. SessionsOK' BY <1>1 DEF SessionsOK
<1>3. Patches' BY DEF Patches, MissingRelocated, RelocsMissing, RelocsApart, Used
<1>4. Typed BY CallSiteTyped
<1>5. ReadsRelocated' BY <1>1, <1>4, ReadsStep
<1> QED BY <1>2, <1>3, <1>4, <1>5 DEF Typed

\* Closing a function or promise: the native SEXP is relocated by a session that runs.
LEMMA CloseStep ==
    ASSUME SessionInv, Typed, Compiling, ctxs # <<>>, NEW o \in Free, CloseInto(o),
           Compiling', Top'.session = Top.session, Len(running') = Len(running),
           \A i \in 1..Len(running) : running'[i].session = running[i].session,
           UNCHANGED <<instances, defines, links, cache>>
    PROVE  SessionInv'
<1> USE DEF SessionInv
<1>1. SessionsOK' BY DEF SessionsOK
<1>2. running # <<>> BY DEF Compiling
<1> DEFINE native == [pool |-> Current.pool, used |-> Current.used, code |-> "missing"]
<1>3. o \in Obj /\ heap[o] = None BY DEF Free
<1>4. heap' = [heap EXCEPT ![o] = native] /\ native.code = "missing" BY DEF CloseInto
<1>5. heap'[o] # None BY <1>2, CloseIntoType
<1> HIDE DEF native
<1>6. heap'[o].code = "missing" /\ \A p \in Obj : p # o => heap'[p] = heap[p]
  BY <1>3, <1>4 DEF TypeOK
<1>7. relocs' = [relocs EXCEPT ![Top.session] = @ \cup {o}] BY DEF CloseInto
<1>8. \A i \in 1..Len(running) :
         relocs'[running[i].session] = relocs[running[i].session]
                                          \cup (IF i = Len(running) THEN {o} ELSE {})
  BY <1>2, <1>7, TopSession, LiveRunning DEF SessionsOK, TypeOK
<1>9. \A i \in 1..Len(running) : \A p \in relocs[running[i].session] : p \in Obj /\ p # o
  BY <1>3, LiveRunning DEF Patches, RelocsMissing, Used, TypeOK
<1>10. MissingRelocated'
  <2>1. ASSUME NEW p \in Obj, heap'[p] # None, heap'[p].code = "missing"
        PROVE  \E i \in 1..Len(running) : p \in relocs'[running[i].session]
    <3>1. CASE p = o BY <1>2, <1>8, <3>1, TopSession
    <3>2. CASE p # o
      <4>1. Used(p) /\ heap[p].code = "missing" BY <1>6, <2>1, <3>2 DEF Used
      <4> QED BY <1>8, <4>1 DEF Patches, MissingRelocated
    <3> QED BY <3>1, <3>2
  <2> QED BY <2>1 DEF MissingRelocated, Used
<1>11. RelocsMissing'
  <2>1. ASSUME NEW i \in 1..Len(running), NEW p \in relocs'[running[i].session]
        PROVE  heap'[p] # None /\ heap'[p].code = "missing"
    <3>1. CASE p = o BY <1>5, <1>6, <3>1
    <3>2. CASE p # o
      <4>1. p \in relocs[running[i].session] BY <1>8, <3>2
      <4> QED BY <1>6, <1>9, <4>1 DEF Patches, RelocsMissing, Used
    <3> QED BY <3>1, <3>2
  <2> QED BY <2>1 DEF RelocsMissing, Used
<1>12. RelocsApart'
  <2>1. ASSUME NEW i \in 1..Len(running), NEW j \in 1..Len(running),
               NEW p \in relocs'[running[i].session], p \in relocs'[running[j].session]
        PROVE  i = j
    <3>1. CASE p = o
      <4>1. \A k \in 1..Len(running) : o \in relocs'[running[k].session] => k = Len(running)
        BY <1>8, <1>9
      <4>2. o \in relocs'[running[i].session] /\ o \in relocs'[running[j].session]
        BY <2>1, <3>1
      <4> QED BY <4>1, <4>2
    <3>2. CASE p # o
      <4>1. p \in relocs[running[i].session] BY <1>8, <3>2
      <4>2. p \in relocs[running[j].session] BY <1>8, <2>1, <3>2
      <4> QED BY <4>1, <4>2 DEF Patches, RelocsApart
    <3> QED BY <3>1, <3>2
  <2> QED BY <2>1 DEF RelocsApart
<1>13. ReadsRelocated'
  <2>1. relocs[Top.session] \subseteq relocs'[Top.session] BY <1>2, <1>8, TopSession
  <2> QED BY <2>1, ReadsStep
<1> QED BY <1>1, <1>10, <1>11, <1>12, <1>13 DEF Typed, Patches

LEMMA ClosePromiseStep == ASSUME SessionInv, ClosePromise PROVE SessionInv'
<1>1. PICK o \in Free : CloseInto(o) BY DEF ClosePromise
<1>2. Compiling /\ ctxs # <<>> /\ UNCHANGED <<instances, running, defines, links, cache>>
  BY DEF ClosePromise, Building
<1>3. Top' = Top /\ Compiling' BY <1>2 DEF Top, Compiling
<1>4. Typed BY ClosePromiseTyped DEF SessionInv
<1> QED BY <1>1, <1>2, <1>3, <1>4, CloseStep

LEMMA CloseFunctionStep == ASSUME SessionInv, CloseFunction PROVE SessionInv'
<1>1. PICK o \in Free :
         /\ CloseInto(o)
         /\ IF Len(ctxs) > 1 THEN UNCHANGED <<running, bodies>>
            ELSE /\ SetTop([Top EXCEPT !.made = o])
                 /\ bodies' = IF Top.many THEN bodies \cup {o} ELSE bodies
  BY DEF CloseFunction
<1>2. Compiling /\ running # <<>> /\ ctxs # <<>> /\ UNCHANGED <<instances, defines, links, cache>>
  BY DEF CloseFunction, Compiling
<1>3. Typed BY CloseFunctionTyped DEF SessionInv
<1> DEFINE made == [Top EXCEPT !.made = o]
<1>4. /\ Compiling' /\ Top'.session = Top.session /\ Len(running') = Len(running)
      /\ \A i \in 1..Len(running) : running'[i].session = running[i].session
  <2>1. CASE UNCHANGED running BY <1>2, <2>1 DEF Top, Compiling
  <2>2. CASE SetTop(made)
    <3>1. Top \in Activity /\ Len(running) \in Nat \ {0} /\ o \in Obj
      BY <1>2, TopType DEF SessionInv, Free
    <3>2. /\ made \in Activity /\ made.session = Top.session /\ made.waits = Top.waits
      BY <3>1 DEF Activity
    <3> HIDE DEF made
    <3>3. /\ Len(running') = Len(running) /\ running' \in Seq(Activity)
          /\ \A i \in 1..Len(running) :
                running'[i] = IF i = Len(running) THEN made ELSE running[i]
      BY <1>2, <2>2, <3>2, SetTopType DEF SessionInv
    <3>4. Top' = made
      <4>1. Len(running) \in 1..Len(running) BY <3>1
      <4> QED BY <3>3, <4>1 DEF Top
    <3>5. running' # <<>> BY <3>1, <3>3, EmptySeq
    <3>6. \A i \in 1..Len(running) : running'[i].session = running[i].session
      BY <3>2, <3>3 DEF Top
    <3> QED BY <1>2, <3>2, <3>3, <3>4, <3>5, <3>6 DEF Compiling
  <2> QED BY <1>1, <2>1, <2>2
<1> QED BY <1>1, <1>2, <1>3, <1>4, CloseStep

\* While R code runs no context is open.
LEMMA NothingOpen == ASSUME SessionInv, RCodeRuns \/ ~Compiling PROVE ctxs = <<>>
  BY DEF SessionInv, SessionsOK, RCodeRuns, Compiling

LEMMA StartStep ==
    ASSUME SessionInv, NEW s \in Session, NEW many \in BOOLEAN, Start(s, many)
    PROVE  SessionInv'
<1> DEFINE act == [session |-> s, many |-> many, waits |-> FALSE, made |-> Nil]
<1>1. act \in Activity /\ act.session = s BY DEF Activity
<1>2. running' = Append(running, act) /\ s \notin Live BY DEF Start
<1> HIDE DEF act
<1>3. Typed BY StartTyped DEF SessionInv
<1>4. /\ Len(running) \in Nat /\ Len(running') = Len(running) + 1
      /\ \A i \in 1..Len(running) : running'[i] = running[i]
      /\ running'[Len(running) + 1] = act
  BY <1>1, <1>2, AppendProperties, LenProperties DEF SessionInv, TypeOK
<1>5. instances' = instances \cup {s} /\ UNCHANGED <<heap, ctxs>> BY DEF Start
<1>6. ctxs = <<>> BY NothingOpen DEF Start
<1> USE DEF SessionInv
<1>7. \A i \in 1..Len(running) : running[i].session # s BY <1>2, LiveRunning
<1>8. /\ running'[Len(running) + 1].session = s
      /\ \A i \in 1..Len(running') : i \in 1..Len(running) \/ i = Len(running) + 1
  BY <1>1, <1>4
<1>9. SessionsOK'
  <2>1. \A i \in 1..Len(running') : running'[i].session \in instances'
    BY <1>4, <1>5, <1>8 DEF SessionsOK
  <2>2. ASSUME NEW i \in 1..Len(running'), NEW j \in 1..Len(running'),
               running'[i].session = running'[j].session
        PROVE  i = j
    <3>1. (i \in 1..Len(running) /\ j \in 1..Len(running)) \/ (i = Len(running) + 1 /\ j = i)
      BY <1>4, <1>7, <1>8, <2>2
    <3> QED BY <1>4, <2>2, <3>1 DEF SessionsOK
  <2> QED BY <1>5, <1>6, <2>1, <2>2 DEF SessionsOK
<1>10. /\ relocs'[s] = {}
       /\ \A i \in 1..Len(running) :
             relocs'[running'[i].session] = relocs[running[i].session]
  BY <1>4, <1>7, LiveRunning DEF Start, Emptied, TypeOK
<1>11. Patches'
  <2>1. MissingRelocated'
    <3>1. 1..Len(running) \subseteq 1..Len(running') BY <1>4
    <3> QED BY <1>5, <1>10, <3>1 DEF Patches, MissingRelocated, Used
  <2>2. RelocsMissing' BY <1>5, <1>8, <1>10 DEF Patches, RelocsMissing, Used
  <2>3. RelocsApart' BY <1>8, <1>10 DEF Patches, RelocsApart
  <2> QED BY <2>1, <2>2, <2>3 DEF Patches
<1>12. ReadsRelocated' BY <1>5, <1>6 DEF ReadsRelocated
<1> QED BY <1>3, <1>9, <1>11, <1>12 DEF Typed

\* The innermost session ends, and what it was to patch gets the mark code.
LEMMA EndStep ==
    ASSUME SessionInv, running # <<>>, running' = Front(running), NEW code, code # "missing",
           heap' = [o \in Obj |-> IF o \in relocs[Top.session]
                                  THEN [heap[o] EXCEPT !.code = code] ELSE heap[o]],
           \A s \in Session : s # Top.session => relocs'[s] = relocs[s]
    PROVE  /\ Len(running') = Len(running) - 1
           /\ \A i \in 1..Len(running') :
                 /\ running'[i] = running[i] /\ i \in 1..Len(running)
                 /\ running'[i].session # Top.session
           /\ heap' \in [Obj -> Object \cup {None}] => Patches'
<1> USE DEF SessionInv
<1>1. /\ Len(running) \in Nat \ {0} /\ Len(Front(running)) = Len(running) - 1
      /\ \A i \in 1..(Len(running) - 1) : Front(running)[i] = running[i]
  BY TopType
<1>2. /\ Len(running') = Len(running) - 1
      /\ \A i \in 1..Len(running') : running'[i] = running[i] /\ i \in 1..Len(running) /\ i # Len(running)
  BY <1>1
<1>3. \A i \in 1..Len(running') : running'[i].session # Top.session
  BY <1>2, TopSession DEF SessionsOK
<1>4. \A i \in 1..Len(running') : relocs'[running'[i].session] = relocs[running[i].session]
  BY <1>2, <1>3, LiveRunning
<1>5. ASSUME heap' \in [Obj -> Object \cup {None}] PROVE Patches'
  <2>1. \A o \in Obj : o \notin relocs[Top.session] => heap'[o] = heap[o] OBVIOUS
  <2>2. \A o \in relocs[Top.session] : heap'[o].code # "missing"
    <3> SUFFICES ASSUME NEW o \in relocs[Top.session] PROVE heap'[o].code # "missing"
      OBVIOUS
    <3>1. o \in Obj /\ heap[o] \in Object BY TopSession DEF TypeOK, Used
    <3>2. heap'[o] = [heap[o] EXCEPT !.code = code] BY <3>1
    <3>3. heap'[o].code = code BY <3>1, <3>2 DEF Object
    <3> QED BY <3>3
  <2>3. MissingRelocated'
    <3>1. ASSUME NEW o \in Obj, heap'[o] # None, heap'[o].code = "missing"
          PROVE  \E i \in 1..Len(running') : o \in relocs'[running'[i].session]
      <4>1. o \notin relocs[Top.session] BY <2>2, <3>1
      <4>2. Used(o) /\ heap[o].code = "missing" BY <2>1, <3>1, <4>1 DEF Used
      <4>3. PICK i \in 1..Len(running) : o \in relocs[running[i].session]
        BY <4>2 DEF Patches, MissingRelocated
      <4>4. i # Len(running) BY <4>1, <4>3, TopSession
      <4>5. i \in 1..Len(running') BY <1>1, <1>2, <4>4
      <4> QED BY <1>4, <4>3, <4>5
    <3> QED BY <3>1 DEF MissingRelocated, Used
  <2>4. RelocsMissing'
    <3>1. ASSUME NEW i \in 1..Len(running'), NEW o \in relocs'[running'[i].session]
          PROVE  heap'[o] # None /\ heap'[o].code = "missing"
      <4>1. o \in relocs[running[i].session] /\ i \in 1..Len(running) /\ i # Len(running)
        BY <1>2, <1>4
      <4>2. o \notin relocs[Top.session] BY <4>1, TopSession DEF Patches, RelocsApart
      <4>3. Used(o) /\ heap[o].code = "missing" /\ o \in Obj
        BY <4>1, LiveRunning DEF Patches, RelocsMissing, TypeOK
      <4> QED BY <2>1, <4>2, <4>3 DEF Used
    <3> QED BY <3>1 DEF RelocsMissing, Used
  <2>5. RelocsApart' BY <1>2, <1>4 DEF Patches, RelocsApart
  <2> QED BY <2>3, <2>4, <2>5 DEF Patches
<1> QED BY <1>2, <1>3, <1>5

LEMMA FinalizeStep == ASSUME SessionInv, Finalize PROVE SessionInv'
<1> USE DEF SessionInv
<1>1. running # <<>> /\ ctxs = <<>> /\ ctxs' = <<>> /\ EndSession
  BY DEF Finalize, Compiling
<1>2. Typed BY <1>1, TopSession, FinalizeTyped
<1>3. /\ running' = Front(running) /\ instances' = instances \ {Top.session}
      /\ \A s \in Session : s # Top.session => relocs'[s] = relocs[s]
  BY <1>1 DEF EndSession, Emptied, TypeOK
<1>4. heap' = [o \in Obj |-> IF o \in relocs[Top.session]
                             THEN [heap[o] EXCEPT !.code = "ready"] ELSE heap[o]]
  BY DEF Finalize
<1>5. /\ \A i \in 1..Len(running') :
            running'[i] = running[i] /\ i \in 1..Len(running) /\ running'[i].session # Top.session
      /\ heap' \in [Obj -> Object \cup {None}] => Patches'
  BY <1>1, <1>3, <1>4, EndStep
<1>6. Patches' BY <1>2, <1>5 DEF Typed, TypeOK
<1>7. SessionsOK' BY <1>1, <1>3, <1>5 DEF SessionsOK
<1>8. ReadsRelocated' BY <1>1 DEF ReadsRelocated
<1> QED BY <1>2, <1>6, <1>7, <1>8 DEF Typed

LEMMA AbortStep == ASSUME SessionInv, Abort PROVE SessionInv'
<1> USE DEF SessionInv
<1>1. running # <<>> /\ UNCHANGED <<instances, relocs, ctxs>> BY DEF Abort
<1>2. ctxs = <<>> BY NothingOpen DEF Abort, Compiling
<1>3. Typed BY <1>1, TopSession, AbortTyped
<1>4. /\ \A i \in 1..Len(running') :
            running'[i] = running[i] /\ i \in 1..Len(running) /\ running'[i].session # Top.session
      /\ heap' \in [Obj -> Object \cup {None}] => Patches'
  BY <1>1, EndStep DEF Abort
<1>5. Patches' BY <1>3, <1>4 DEF Typed, TypeOK
<1>6. SessionsOK' BY <1>1, <1>2, <1>4 DEF SessionsOK
<1>7. ReadsRelocated' BY <1>1, <1>2 DEF ReadsRelocated
<1> QED BY <1>3, <1>5, <1>6, <1>7 DEF Typed

\* What the collector finds through a dangling pointer does not matter.
LEMMA OverwriteStep == ASSUME SessionInv, NEW s \in Session, Overwrite(s) PROVE SessionInv'
<1> USE DEF SessionInv
<1>1. UNCHANGED <<heap, instances, running, ctxs>> /\ Typed BY OverwriteTyped DEF Overwrite
<1>2. Top' = Top /\ Compiling' = Compiling BY <1>1 DEF Top, Compiling
<1>3. \A k \in Live : relocs'[k] = relocs[k] BY LiveRunning DEF Overwrite, Emptied, TypeOK
<1>4. \A i \in 1..Len(running) : relocs'[running[i].session] = relocs[running[i].session]
  BY <1>3, LiveRunning
<1>5. Patches' BY <1>1, <1>4 DEF Patches, MissingRelocated, RelocsMissing, RelocsApart, Used
<1>6. SessionsOK' BY <1>1, <1>2 DEF SessionsOK
<1>7. ReadsRelocated'
  <2>1. CASE ctxs = <<>> BY <1>1, <2>1 DEF ReadsRelocated
  <2>2. CASE ctxs # <<>>
    <3>1. running # <<>> BY <2>2 DEF SessionsOK, Compiling
    <3> QED BY <1>1, <1>2, <1>4, <3>1, TopSession DEF ReadsRelocated
  <2> QED BY <2>1, <2>2
<1> QED BY <1>1, <1>5, <1>6, <1>7 DEF Typed

LEMMA WarningStep == ASSUME SessionInv, Warn \/ Resume PROVE SessionInv'
<1> USE DEF SessionInv
<1>1. /\ running # <<>>
      /\ UNCHANGED <<heap, bodies, instances, ctxs, held, relocs, defines, links, cache>>
  BY DEF Warn, Resume, Compiling
<1>2. ctxs = <<>> BY NothingOpen DEF Warn, Resume, Compiling
<1>3. Typed BY WarningTyped
<1>4. Top \in Activity BY <1>1, TopType
<1>5. /\ Len(running') = Len(running)
      /\ \A i \in 1..Len(running) : running'[i].session = running[i].session
  <2>1. ASSUME NEW w \in BOOLEAN, SetTop([Top EXCEPT !.waits = w])
        PROVE  /\ Len(running') = Len(running)
               /\ \A i \in 1..Len(running) : running'[i].session = running[i].session
    <3> DEFINE act == [Top EXCEPT !.waits = w]
    <3>1. act \in Activity /\ act.session = Top.session BY <1>4 DEF Activity
    <3> HIDE DEF act
    <3>2. /\ Len(running') = Len(running)
          /\ \A i \in 1..Len(running) :
                running'[i] = IF i = Len(running) THEN act ELSE running[i]
      BY <1>1, <2>1, <3>1, SetTopType DEF act
    <3> QED BY <3>1, <3>2 DEF Top
  <2>2. \E w \in BOOLEAN : SetTop([Top EXCEPT !.waits = w]) BY DEF Warn, Resume
  <2> QED BY <2>1, <2>2
<1>6. SessionsOK' BY <1>1, <1>2, <1>5 DEF SessionsOK
<1>7. Patches' BY <1>1, <1>5 DEF Patches, MissingRelocated, RelocsMissing, RelocsApart, Used
<1>8. ReadsRelocated' BY <1>1, <1>2 DEF ReadsRelocated
<1> QED BY <1>3, <1>6, <1>7, <1>8 DEF Typed

\* Every step preserves the invariant of sessions.
THEOREM NextSession == SessionInv /\ [Next]_vars => SessionInv'
<1> SUFFICES ASSUME SessionInv, [Next]_vars PROVE SessionInv' OBVIOUS
<1>1. TypeOK BY DEF SessionInv
<1>2. CASE UNCHANGED vars \/ Idle \/ \E o \in Obj : Forget(o)
  BY <1>2, QuietStep DEF Idle
<1>3. CASE Collect BY <1>3, CollectStep
<1>4. CASE UseConstant
  BY <1>1, <1>4, UseConstantTyped, BuildStep DEF UseConstant, Building
<1>5. CASE CompileSwitch
  <2>1. Compiling /\ UNCHANGED <<instances, running, relocs, defines, links, cache>>
    BY <1>5 DEF CompileSwitch, Building
  <2>2. PICK o \in Free : heap' = [heap EXCEPT ![o] = Data] BY <1>5 DEF CompileSwitch
  <2> QED BY <1>1, <1>5, <2>1, <2>2, CompileSwitchTyped, AllocateStep
<1>6. ASSUME NEW kind \in {"function", "promise"}, Open(kind) PROVE SessionInv'
  BY <1>1, <1>6, OpenTyped, BuildStep DEF Open
<1>7. CASE OpenLoop BY <1>1, <1>7, OpenLoopTyped, BuildStep DEF OpenLoop, Building
<1>8. CASE CloseLoop BY <1>1, <1>8, CloseLoopTyped, BuildStep DEF CloseLoop, Building
<1>9. ASSUME NEW n \in Arity, CallSite(n) PROVE SessionInv' BY <1>9, CallSiteStep
<1>10. CASE AllocSlot
  <2>1. Compiling /\ UNCHANGED <<instances, running, relocs, defines, links, cache>>
    BY <1>10 DEF AllocSlot
  <2>2. PICK o \in Free : heap' = [heap EXCEPT ![o] = Data] BY <1>10 DEF AllocSlot
  <2> QED BY <1>1, <1>10, <2>1, <2>2, AllocSlotTyped, AllocateStep
<1>11. CASE ClosePromise BY <1>11, ClosePromiseStep
<1>12. CASE CloseFunction BY <1>12, CloseFunctionStep
<1>13. ASSUME NEW s \in Session, NEW many \in BOOLEAN, Start(s, many) PROVE SessionInv'
  BY <1>13, StartStep
<1>14. CASE Finalize BY <1>14, FinalizeStep
<1>15. CASE Warn \/ Resume BY <1>15, WarningStep
<1>16. CASE Abort BY <1>16, AbortStep
<1>17. ASSUME NEW s \in Session, Overwrite(s) PROVE SessionInv' BY <1>17, OverwriteStep
<1> QED BY <1>2, <1>3, <1>4, <1>5, <1>6, <1>7, <1>8, <1>9, <1>10, <1>11, <1>12, <1>13,
           <1>14, <1>15, <1>16, <1>17 DEF Next

\* In every execution the sessions' state is well-typed.
THEOREM SessionTypes == Spec => []TypeOK
<1>1. SessionInv => TypeOK BY DEF SessionInv
<1> QED BY <1>1, InitSession, NextSession, PTL DEF Spec

\* Whatever is without machine code, unless an error has ended its session, gets it from
\* exactly one session on the stack, and finalizeNativeSEXPs writes to nothing else:
\* however sessions are nested, abandoned and put at the addresses of abandoned ones.
THEOREM EachPatchedOnce == Spec => []OneWillPatch
<1>1. SessionInv => OneWillPatch
  BY LiveRunning DEF SessionInv, Patches, MissingRelocated, RelocsMissing, RelocsApart, OneWillPatch
<1> QED BY <1>1, InitSession, NextSession, PTL DEF Spec

\* Where no switch on strings is compiled, the collector frees no constant that
\* code under construction reads, although it is not told of the current pool.
THEOREM ConstantsSurvive == ASSUME ~Switches PROVE Spec => []ConstantsAlive
<1>1. SessionInv => ConstantsAlive
  <2> SUFFICES ASSUME SessionInv, NEW i \in DOMAIN ctxs, NEW r \in ctxs[i].used, r[2] \in Obj
               PROVE  Used(r[2])
    BY DEF ConstantsAlive
  <2>1. ctxs \in Seq(Context) /\ i \in 1..Len(ctxs)
    BY LenProperties DEF SessionInv, TypeOK
  <2>2. r[2] \in relocs[Top.session] BY <2>1 DEF SessionInv, ReadsRelocated
  <2>3. Compiling
    <3>1. ctxs # <<>> BY <2>1
    <3> QED BY <3>1 DEF SessionInv, SessionsOK
  <2> QED BY <2>2, <2>3, TopSession DEF Compiling
<1> QED BY <1>1, InitSession, NextSession, PTL DEF Spec

(***************************************************************************)
(* Sessions that nothing interrupts.                                       *)
(***************************************************************************)

\* Without warnings there is at most one session, and R code runs only outside it.
Alone ==
    /\ Len(running) <= 1
    /\ \A i \in 1..Len(running) : ~running[i].waits
    /\ instances = IF running = <<>> THEN {} ELSE {Top.session}

\* A stub without an address is in the module that is under construction.
DeclaredDefined == \A n \in Arity : cache[n] = "declared" => \E s \in instances : n \in defines[s]

\* No error has ended a session.
NoOrphans == \A o \in Obj : Used(o) => heap[o].code # "orphaned"

\* Stubs and their addresses.
StubsKnown ==
    /\ Alone /\ DeclaredDefined
    /\ \A s \in instances : \A n \in links[s] : cache[n] = "ready"

LoneInv == SessionInv /\ StubsKnown /\ NoOrphans

\* R code runs only when no session exists.
LEMMA NoSession == ASSUME LoneInv PROVE (running # <<>> => ~Top.waits) /\ (RCodeRuns => instances = {})
<1>1. running # <<>> => Len(running) \in 1..Len(running)
  BY TopType DEF LoneInv, SessionInv
<1> QED BY <1>1 DEF LoneInv, StubsKnown, Alone, RCodeRuns, Top

LEMMA LoneSame ==
    ASSUME LoneInv, UNCHANGED <<running, instances, defines, links, cache>>
    PROVE  StubsKnown'
  BY DEF LoneInv, StubsKnown, Alone, DeclaredDefined, Top

LEMMA LoneCallSite ==
    ASSUME LoneInv, NEW n \in Arity, CallSite(n)
    PROVE  StubsKnown'
<1>1. running # <<>> /\ UNCHANGED <<running, instances>> BY DEF CallSite, Building, Compiling
<1>2. Alone' BY <1>1 DEF LoneInv, StubsKnown, Alone, Top
<1>3. instances = {Top.session} /\ Top.session \in Session
  BY <1>1, TopType DEF LoneInv, StubsKnown, Alone, SessionInv, Activity
<1>4. n \notin defines[Top.session] /\ n \notin links[Top.session] BY DEF CallSite
<1>5. cache[n] # "declared" BY <1>3, <1>4 DEF LoneInv, StubsKnown, DeclaredDefined
<1>6. cache[n] \in {"none", "ready"} BY <1>5 DEF LoneInv, SessionInv, TypeOK
<1>7. \A k \in links[Top.session] : cache[k] = "ready" /\ k \in Arity
  BY <1>3 DEF LoneInv, StubsKnown, SessionInv, TypeOK
<1>8. CASE /\ cache' = [cache EXCEPT ![n] = "declared"] /\ UNCHANGED links
           /\ defines' = [defines EXCEPT ![Top.session] = @ \cup {n}]
  <2>1. \A k \in links'[Top.session] : cache'[k] = "ready"
    BY <1>4, <1>7, <1>8 DEF LoneInv, SessionInv, TypeOK
  <2>2. \A k \in Arity : cache'[k] = "declared" => k \in defines'[Top.session]
    BY <1>3, <1>8 DEF LoneInv, StubsKnown, DeclaredDefined, SessionInv, TypeOK
  <2> QED BY <1>1, <1>2, <1>3, <2>1, <2>2 DEF StubsKnown, DeclaredDefined
<1>9. CASE /\ cache[n] # "none" /\ UNCHANGED <<cache, defines>>
           /\ links' = [links EXCEPT ![Top.session] = @ \cup {n}]
  <2>1. \A k \in links'[Top.session] : cache'[k] = "ready"
    BY <1>3, <1>6, <1>7, <1>9 DEF LoneInv, SessionInv, TypeOK
  <2>2. DeclaredDefined' BY <1>1, <1>9 DEF LoneInv, StubsKnown, DeclaredDefined
  <2> QED BY <1>1, <1>2, <1>3, <2>1, <2>2 DEF StubsKnown
<1> QED BY <1>8, <1>9 DEF CallSite

LEMMA LoneStart ==
    ASSUME LoneInv, NEW s \in Session, NEW many \in BOOLEAN, Start(s, many)
    PROVE  StubsKnown'
<1> DEFINE act == [session |-> s, many |-> many, waits |-> FALSE, made |-> Nil]
<1>1. act \in Activity /\ act.session = s /\ ~act.waits BY DEF Activity
<1>2. /\ running' = Append(running, act) /\ instances' = instances \cup {s}
      /\ RCodeRuns /\ UNCHANGED cache
  BY DEF Start
<1> HIDE DEF act
<1>3. instances = {} /\ running = <<>>
  BY <1>2, NoSession DEF LoneInv, StubsKnown, Alone, RCodeRuns
<1>4. /\ running' # <<>> /\ Len(running') = 1 /\ running'[1] = act
  BY <1>1, <1>2, <1>3
<1>5. Alone' BY <1>1, <1>2, <1>3, <1>4 DEF Alone, Top
<1>6. links'[s] = {} BY DEF Start, Emptied, LoneInv, SessionInv, TypeOK
<1>7. DeclaredDefined' BY <1>2, <1>3 DEF LoneInv, StubsKnown, DeclaredDefined
<1> QED BY <1>2, <1>3, <1>5, <1>6, <1>7 DEF StubsKnown

LEMMA LoneFinalize == ASSUME LoneInv, Finalize PROVE StubsKnown'
<1>1. running # <<>> /\ EndSession BY DEF Finalize, Compiling
<1>2. Len(running) = 1 /\ Front(running) \in Seq(Activity) /\ Len(Front(running)) = 0
  BY <1>1, TopType DEF LoneInv, StubsKnown, Alone, SessionInv
<1>3. running' = <<>> BY <1>1, <1>2, EmptySeq DEF EndSession
<1>4. instances = {Top.session} /\ instances' = {}
  BY <1>1 DEF EndSession, LoneInv, StubsKnown, Alone
<1>5. Len(running') = 0 BY <1>3
<1>6. DeclaredDefined'
  <2>1. cache' = [n \in Arity |-> IF n \in defines[Top.session] THEN "ready" ELSE cache[n]]
    BY DEF Finalize
  <2> QED BY <1>4, <2>1 DEF LoneInv, StubsKnown, DeclaredDefined
<1> QED BY <1>3, <1>4, <1>5, <1>6 DEF Alone, StubsKnown

LEMMA LoneCloseFunction == ASSUME LoneInv, CloseFunction PROVE StubsKnown'
<1>1. /\ running # <<>> /\ ~Top.waits /\ UNCHANGED <<instances, defines, links, cache>>
  BY DEF CloseFunction, Compiling
<1>2. Alone' => StubsKnown' BY <1>1 DEF LoneInv, StubsKnown, DeclaredDefined
<1>3. CASE UNCHANGED running BY <1>1, <1>3, LoneSame
<1>4. ASSUME NEW o \in Obj, SetTop([Top EXCEPT !.made = o]) PROVE Alone'
  <2> DEFINE act == [Top EXCEPT !.made = o]
  <2>1. act \in Activity /\ act.session = Top.session /\ ~act.waits
    BY <1>1, TopType DEF LoneInv, SessionInv, Activity
  <2> HIDE DEF act
  <2>2. /\ Len(running') = Len(running) /\ running' \in Seq(Activity)
        /\ \A i \in 1..Len(running) :
              running'[i] = IF i = Len(running) THEN act ELSE running[i]
    BY <1>1, <1>4, <2>1, SetTopType DEF LoneInv, SessionInv, act
  <2>3. Len(running) \in 1..Len(running) /\ Len(running) \in Nat \ {0}
    BY <1>1, TopType DEF LoneInv, SessionInv
  <2>4. running' # <<>> /\ Top' = act BY <2>2, <2>3, EmptySeq DEF Top
  <2> QED BY <1>1, <2>1, <2>2, <2>3, <2>4 DEF LoneInv, StubsKnown, Alone
<1> QED BY <1>2, <1>3, <1>4 DEF CloseFunction, Free

\* Only an error makes orphans.
LEMMA NoNewOrphans == ASSUME LoneInv, [Next]_vars, ~Abort PROVE NoOrphans'
<1>1. heap \in [Obj -> Object \cup {None}] BY DEF LoneInv, SessionInv, TypeOK
<1>2. ASSUME NEW o \in Free, NEW new, heap' = [heap EXCEPT ![o] = new], new.code # "orphaned"
      PROVE  NoOrphans'
  <2>1. \A p \in Obj : heap'[p] = IF p = o THEN new ELSE heap[p] BY <1>1, <1>2 DEF Free
  <2> QED BY <1>2, <2>1 DEF LoneInv, NoOrphans, Used
<1>3. CASE UNCHANGED heap BY <1>3 DEF LoneInv, NoOrphans, Used
<1>4. CASE Collect
  <2>1. \A o \in Obj : heap'[o] = None \/ heap'[o] = heap[o] BY <1>4 DEF Collect
  <2> QED BY <2>1 DEF LoneInv, NoOrphans, Used
<1>5. CASE CompileSwitch \/ AllocSlot
  <2>1. PICK o \in Free : heap' = [heap EXCEPT ![o] = Data] BY <1>5 DEF CompileSwitch, AllocSlot
  <2>2. Data.code # "orphaned" BY DEF Data
  <2> QED BY <1>2, <2>1, <2>2
<1>6. ASSUME NEW o \in Free, CloseInto(o) PROVE NoOrphans'
  <2> DEFINE native == [pool |-> Current.pool, used |-> Current.used, code |-> "missing"]
  <2>1. heap' = [heap EXCEPT ![o] = native] /\ native.code # "orphaned" BY <1>6 DEF CloseInto
  <2> HIDE DEF native
  <2> QED BY <1>2, <2>1
<1>7. CASE ClosePromise \/ CloseFunction BY <1>6, <1>7 DEF ClosePromise, CloseFunction
<1>8. CASE Finalize
  <2>1. \A o \in relocs[Top.session] : heap[o] \in Object
    BY <1>1, <1>8, TopSession DEF LoneInv, Finalize, Compiling, Used
  <2>2. \A x \in Object : [x EXCEPT !.code = "ready"].code = "ready" BY DEF Object
  <2>3. \A o \in Obj : heap'[o] = IF o \in relocs[Top.session]
                                  THEN [heap[o] EXCEPT !.code = "ready"] ELSE heap[o]
    BY <1>8 DEF Finalize
  <2>4. ASSUME NEW o \in Obj, heap'[o] # None PROVE heap'[o].code # "orphaned"
    <3>1. CASE o \in relocs[Top.session] BY <2>1, <2>2, <2>3, <3>1
    <3>2. CASE o \notin relocs[Top.session]
      BY <2>3, <2>4, <3>2 DEF LoneInv, NoOrphans, Used
    <3> QED BY <3>1, <3>2
  <2> QED BY <2>4 DEF NoOrphans, Used
<1>9. CASE \/ UNCHANGED vars \/ Idle \/ UseConstant \/ OpenLoop \/ CloseLoop \/ Warn \/ Resume
           \/ \E o \in Obj : Forget(o)
           \/ \E kind \in {"function", "promise"} : Open(kind)
           \/ \E n \in Arity : CallSite(n)
           \/ \E s \in Session, many \in BOOLEAN : Start(s, many)
           \/ \E s \in Session : Overwrite(s)
  BY <1>3, <1>9 DEF vars, Idle, UseConstant, OpenLoop, CloseLoop, Warn, Resume, Forget, Open,
                    CallSite, Start, Overwrite
<1> QED BY <1>4, <1>5, <1>7, <1>8, <1>9 DEF Next

THEOREM NextLone == ASSUME ~Warns PROVE LoneInv /\ [Next]_vars => LoneInv'
<1> SUFFICES ASSUME LoneInv, [Next]_vars PROVE LoneInv' OBVIOUS
<1>1. SessionInv' BY NextSession DEF LoneInv
<1>2. ~(Warn \/ Resume \/ Abort) BY NoSession DEF Warn, Resume, Abort
<1>3. NoOrphans' BY <1>2, NoNewOrphans
<1> SUFFICES StubsKnown' BY <1>1, <1>3 DEF LoneInv
<1>4. ASSUME NEW n \in Arity, CallSite(n) PROVE StubsKnown' BY <1>4, LoneCallSite
<1>5. ASSUME NEW s \in Session, NEW many \in BOOLEAN, Start(s, many) PROVE StubsKnown'
  BY <1>5, LoneStart
<1>6. CASE Finalize BY <1>6, LoneFinalize
<1>7. CASE CloseFunction BY <1>7, LoneCloseFunction
<1>8. ASSUME NEW s \in Session, Overwrite(s) PROVE FALSE
  <2>1. instances = {} \/ (running # <<>> /\ instances = {Top.session})
    BY DEF LoneInv, StubsKnown, Alone
  <2>2. running # <<>> => Top.session \in Live
    BY TopSession, LiveRunning DEF LoneInv
  <2> QED BY <1>8, <2>1, <2>2 DEF Overwrite
<1>9. CASE \/ UNCHANGED vars \/ Idle \/ Collect \/ UseConstant \/ CompileSwitch
           \/ OpenLoop \/ CloseLoop \/ AllocSlot \/ ClosePromise
           \/ \E o \in Obj : Forget(o)
           \/ \E kind \in {"function", "promise"} : Open(kind)
  <2>1. UNCHANGED <<running, instances, defines, links, cache>>
    BY <1>9 DEF vars, Idle, Collect, UseConstant, CompileSwitch, OpenLoop, CloseLoop,
                AllocSlot, ClosePromise, Forget, Open
  <2> QED BY <2>1, LoneSame
<1> QED BY <1>2, <1>4, <1>5, <1>6, <1>7, <1>8, <1>9 DEF Next

LEMMA LoneAlways == ASSUME ~Warns PROVE Spec => []LoneInv
<1>1. Init => LoneInv
  <2> SUFFICES ASSUME Init PROVE LoneInv OBVIOUS
  <2>1. running = <<>> /\ instances = {} /\ Len(running) = 0 BY DEF Init
  <2>2. DeclaredDefined BY DEF Init, DeclaredDefined
  <2>3. NoOrphans BY DEF Init, NoOrphans, Used
  <2> QED BY <2>1, <2>2, <2>3, InitSession DEF LoneInv, StubsKnown, Alone
<1> QED BY <1>1, NextLone, PTL DEF Spec

\* Unless a session is interrupted, every stub that it links to has an address, as
\* CodeCache::getAddress asserts.
THEOREM LinksResolve == ASSUME ~Warns PROVE Spec => []NamesKnown
<1>1. LoneInv => NamesKnown BY LiveRunning DEF LoneInv, StubsKnown, NamesKnown
<1> QED BY <1>1, LoneAlways, PTL

\* Unless a session is interrupted, R code never meets a native SEXP without machine
\* code: all of them are patched before the session ends.
THEOREM NothingHollow == ASSUME ~Warns PROVE Spec => []NoHollowCode
<1>1. LoneInv => NoHollowCode
  <2> SUFFICES ASSUME LoneInv, RCodeRuns, NEW p \in Obj, Used(p)
               PROVE  heap[p].code \notin {"missing", "orphaned"}
    BY DEF NoHollowCode
  <2>1. running = <<>> BY NoSession DEF RCodeRuns
  <2>2. 1..Len(running) = {} BY <2>1
  <2> QED BY <2>2 DEF LoneInv, NoOrphans, SessionInv, Patches, MissingRelocated
<1> QED BY <1>1, LoneAlways, PTL

(***************************************************************************)
(* Slots.                                                                  *)
(***************************************************************************)

\* The i-th context builds a part of a function, not of a promise.
InFunction(cs, i) ==
    \E j \in 1..i : cs[j].kind = "function" /\ \A k \in (j + 1)..i : cs[k].kind = "loop"

\* The slots of its pool that closing fills.
Low(cs, i) == IF InFunction(cs, i) THEN 1 + Placeholders ELSE 0

\* What a context or a native SEXP reads is in its pool, above those slots.
Fits(x, low) ==
    /\ low <= Len(x.pool)
    /\ \A r \in x.used : r[1] \in (low + 1)..Len(x.pool) /\ x.pool[r[1]] = r[2]

\* A context has its own pool unless a loop inside it has borrowed that.
PoolsFit(cs) ==
    /\ \A i \in 1..Len(cs) : i = Len(cs) \/ cs[i + 1].kind # "loop" => Fits(cs[i], Low(cs, i))
    /\ cs # <<>> => cs[1].kind # "loop"

SlotsInv ==
    /\ PoolsFit(ctxs)
    /\ held # <<>> => ctxs # <<>> /\ Current.kind = "function"
    /\ \A o \in Obj : Used(o) => Fits(heap[o], 0)

\* What is below a context decides what it builds.
LEMMA LowSame ==
    ASSUME NEW cs, NEW ds, NEW i \in Nat, \A k \in 1..i : ds[k].kind = cs[k].kind
    PROVE  Low(ds, i) = Low(cs, i)
<1>1. InFunction(ds, i) <=> InFunction(cs, i)
  <2>1. \A j \in 1..i : \A k \in (j + 1)..i : k \in 1..i OBVIOUS
  <2> QED BY <2>1 DEF InFunction
<1> QED BY <1>1 DEF Low

\* A loop builds a part of what is around it.
LEMMA LowLoop ==
    ASSUME NEW cs, NEW i \in Nat \ {0}, cs[i + 1].kind = "loop"
    PROVE  Low(cs, i + 1) = Low(cs, i)
<1>1. ASSUME InFunction(cs, i) PROVE InFunction(cs, i + 1)
  <2>1. PICK j \in 1..i : cs[j].kind = "function" /\ \A k \in (j + 1)..i : cs[k].kind = "loop"
    BY <1>1 DEF InFunction
  <2>2. \A k \in (j + 1)..(i + 1) : k = i + 1 \/ k \in (j + 1)..i OBVIOUS
  <2>3. j \in 1..(i + 1) /\ \A k \in (j + 1)..(i + 1) : cs[k].kind = "loop" BY <2>1, <2>2
  <2> QED BY <2>1, <2>3 DEF InFunction
<1>2. ASSUME InFunction(cs, i + 1) PROVE InFunction(cs, i)
  <2>1. PICK j \in 1..(i + 1) : cs[j].kind = "function" /\ \A k \in (j + 1)..(i + 1) : cs[k].kind = "loop"
    BY <1>2 DEF InFunction
  <2>2. j # i + 1 BY <2>1
  <2>3. j \in 1..i /\ \A k \in (j + 1)..i : k \in (j + 1)..(i + 1) BY <2>2
  <2> QED BY <2>1, <2>3 DEF InFunction
<1> QED BY <1>1, <1>2 DEF Low

\* New constants go above the slots that closing fills.
LEMMA LowReserved ==
    ASSUME NEW cs, Len(cs) \in Nat \ {0}
    PROVE  /\ Reserved(Owner(cs)) \in Nat /\ Low(cs, Len(cs)) \in Nat
           /\ Low(cs, Len(cs)) <= Reserved(Owner(cs))
<1>1. CASE InFunction(cs, Len(cs))
  <2> DEFINE I == {i \in 1..Len(cs) : cs[i].kind # "loop"}
  <2>1. PICK j \in 1..Len(cs) : cs[j].kind = "function" /\ \A k \in (j + 1)..Len(cs) : cs[k].kind = "loop"
    BY <1>1 DEF InFunction
  <2>2. j \in I /\ \A i \in I : j >= i
    <3>1. \A i \in 1..Len(cs) : j >= i \/ i \in (j + 1)..Len(cs) OBVIOUS
    <3> QED BY <2>1, <3>1
  <2>3. Max(I) = j
    <3>1. \A i \in I : i \in Nat OBVIOUS
    <3> QED BY <2>2, <3>1 DEF Max
  <2>4. SelectLastInSeq(cs, LAMBDA c : c.kind # "loop") = j
    BY <2>2, <2>3 DEF SelectLastInSeq
  <2>5. Owner(cs) = "function" BY <2>1, <2>4 DEF Owner
  <2> QED BY <2>5 DEF Reserved, Low, Placeholders
<1>2. CASE ~InFunction(cs, Len(cs)) BY <1>2 DEF Reserved, Low, Placeholders
<1> QED BY <1>1, <1>2

\* An instruction that reads a constant reads it from its slot.
LEMMA ReadingFits ==
    ASSUME NEW cs, Len(cs) \in Nat \ {0}, NEW ctx \in Context, NEW c \in Constant,
           Fits(ctx, Low(cs, Len(cs)))
    PROVE  Fits(ReadingIn(c, ctx, cs), Low(cs, Len(cs)))
<1> DEFINE res == Reserved(Owner(cs))
           low == Low(cs, Len(cs))
           slot == SlotOf(c, ctx.pool, res)
           pool == With(c, ctx.pool, slot)
           used == ctx.used \cup {<<slot, c>>}
<1>1. res \in Nat /\ low \in Nat /\ low <= res BY LowReserved
<1>2. ctx.pool \in Seq(Constant) /\ Len(ctx.pool) \in Nat BY DEF Context, Pool
<1>3. ReadingIn(c, ctx, cs).pool = pool /\ ReadingIn(c, ctx, cs).used = used
  <2>1. ReadingIn(c, ctx, cs) = [ctx EXCEPT !.pool = With(c, @, slot), !.used = @ \cup {<<slot, c>>}]
    BY DEF ReadingIn
  <2> HIDE DEF slot
  <2> QED BY <2>1 DEF Context
<1>4. /\ slot \in (low + 1)..Len(pool) /\ pool[slot] = c
      /\ Len(ctx.pool) <= Len(pool) /\ Len(pool) \in Nat
      /\ \A i \in 1..Len(ctx.pool) : pool[i] = ctx.pool[i]
  <2> HIDE DEF res, low
  <2>1. CASE \E i \in (res + 1)..Len(ctx.pool) : ctx.pool[i] = c
    <3>1. slot \in (res + 1)..Len(ctx.pool) /\ ctx.pool[slot] = c BY <2>1 DEF SlotOf
    <3> HIDE DEF slot
    <3>2. pool = ctx.pool BY <1>1, <1>2, <3>1 DEF With
    <3> QED BY <1>1, <1>2, <3>1, <3>2
  <2>2. CASE ~\E i \in (res + 1)..Len(ctx.pool) : ctx.pool[i] = c
    <3>1. slot = Len(ctx.pool) + 1 BY <2>2 DEF SlotOf
    <3> HIDE DEF slot
    <3>2. pool = Append(ctx.pool, c) BY <1>2, <3>1 DEF With
    <3>3. /\ Len(pool) = Len(ctx.pool) + 1 /\ pool[Len(ctx.pool) + 1] = c
          /\ \A i \in 1..Len(ctx.pool) : pool[i] = ctx.pool[i]
      BY <1>2, <3>2, AppendProperties
    <3>4. low <= Len(ctx.pool) BY DEF Fits, low
    <3> QED BY <1>1, <1>2, <3>1, <3>3, <3>4
  <2> QED BY <2>1, <2>2
<1> HIDE DEF slot, pool, res, low
<1>5. low <= Len(pool) BY <1>1, <1>4
<1>6. ASSUME NEW r \in used
      PROVE  r[1] \in (low + 1)..Len(pool) /\ pool[r[1]] = r[2]
  <2>1. CASE r = <<slot, c>> BY <1>4, <2>1
  <2>2. CASE r \in ctx.used
    <3>1. r[1] \in (low + 1)..Len(ctx.pool) /\ ctx.pool[r[1]] = r[2] BY <2>2 DEF Fits, low
    <3> DEFINE i == r[1]
    <3>2. i \in (low + 1)..Len(pool) /\ i \in 1..Len(ctx.pool) BY <1>1, <1>2, <1>4, <3>1
    <3> QED BY <1>4, <3>1, <3>2
  <2> QED BY <2>1, <2>2
<1> QED BY <1>3, <1>5, <1>6 DEF Fits, low

\* The current context gives way to one of its kind.
LEMMA CurrentFits ==
    ASSUME NEW cs \in Seq(Context), PoolsFit(cs), cs # <<>>, NEW ctx \in Context,
           ctx.kind = cs[Len(cs)].kind, Fits(ctx, Low(cs, Len(cs))), NEW ds \in Seq(Context),
           Len(ds) = Len(cs), \A i \in 1..Len(cs) : ds[i] = IF i = Len(cs) THEN ctx ELSE cs[i]
    PROVE  PoolsFit(ds)
<1>1. Len(cs) \in Nat \ {0} BY EmptySeq
<1>2. \A i \in 1..Len(cs) : ds[i].kind = cs[i].kind OBVIOUS
<1>3. ASSUME NEW i \in 1..Len(ds), i = Len(ds) \/ ds[i + 1].kind # "loop"
      PROVE  Fits(ds[i], Low(ds, i))
  <2>1. Low(ds, i) = Low(cs, i)
    <3>1. \A k \in 1..i : k \in 1..Len(cs) BY <1>1
    <3>2. i \in Nat OBVIOUS
    <3> QED BY <1>2, <3>1, <3>2, LowSame
  <2>2. CASE i = Len(cs) BY <2>1, <2>2
  <2>3. CASE i # Len(cs)
    <3>1. i + 1 \in 1..Len(cs) BY <1>1, <2>3
    <3>2. cs[i + 1].kind # "loop" BY <1>2, <1>3, <2>3, <3>1
    <3> QED BY <2>1, <2>3, <3>2 DEF PoolsFit
  <2> QED BY <2>2, <2>3
<1>4. ds[1].kind # "loop" BY <1>1, <1>2 DEF PoolsFit
<1> QED BY <1>3, <1>4 DEF PoolsFit

\* A context that is no loop ends.
LEMMA FrontFits ==
    ASSUME NEW cs \in Seq(Context), PoolsFit(cs), cs # <<>>, cs[Len(cs)].kind # "loop",
           NEW ds \in Seq(Context), Len(ds) = Len(cs) - 1, \A i \in 1..Len(ds) : ds[i] = cs[i]
    PROVE  PoolsFit(ds)
<1>1. Len(cs) \in Nat \ {0} BY EmptySeq
<1>2. ASSUME NEW i \in 1..Len(ds), i = Len(ds) \/ ds[i + 1].kind # "loop"
      PROVE  Fits(ds[i], Low(ds, i))
  <2>1. Low(ds, i) = Low(cs, i)
    <3>1. \A k \in 1..i : k \in 1..Len(ds) BY <1>1
    <3>2. i \in Nat OBVIOUS
    <3> QED BY <3>1, <3>2, LowSame
  <2>2. i \in 1..Len(cs) /\ cs[i + 1].kind # "loop"
    <3>1. CASE i = Len(ds) BY <1>1, <3>1
    <3>2. CASE i # Len(ds)
      <4>1. i + 1 \in 1..Len(ds) BY <1>1, <3>2
      <4> QED BY <1>1, <1>2, <3>2, <4>1
    <3> QED BY <3>1, <3>2
  <2> QED BY <2>1, <2>2 DEF PoolsFit
<1>3. ds # <<>> => ds[1].kind # "loop"
  <2>1. ds # <<>> => 1 \in 1..Len(ds) BY EmptySeq
  <2>2. cs[1].kind # "loop" BY DEF PoolsFit
  <2> QED BY <2>1, <2>2
<1> QED BY <1>2, <1>3 DEF PoolsFit

\* The invariant, step by step.
LEMMA ContextsType ==
    ASSUME SessionInv, ctxs # <<>>
    PROVE  /\ ctxs \in Seq(Context) /\ Len(ctxs) \in Nat \ {0} /\ Len(ctxs) \in 1..Len(ctxs)
           /\ Current = ctxs[Len(ctxs)] /\ Current \in Context /\ Current.pool \in Seq(Constant)
           /\ TypeOK
BY CurrentType DEF SessionInv, TypeOK, Current, Context, Pool

LEMMA SlotsCurrent ==
    ASSUME SessionInv, SlotsInv, ctxs # <<>>, NEW ctx \in Context, SetCurrent(ctx),
           ctx.kind = Current.kind, Fits(ctx, Low(ctxs, Len(ctxs)))
    PROVE  PoolsFit(ctxs') /\ ctxs' # <<>> /\ Current'.kind = Current.kind
<1>1. /\ ctxs' \in Seq(Context) /\ Len(ctxs') = Len(ctxs)
      /\ \A i \in 1..Len(ctxs) : ctxs'[i] = IF i = Len(ctxs) THEN ctx ELSE ctxs[i]
  BY ContextsType, SetCurrentType
<1>2. PoolsFit(ctxs') BY <1>1, ContextsType, CurrentFits DEF SlotsInv
<1>3. ctxs' # <<>> /\ Current' = ctx BY <1>1, ContextsType, EmptySeq DEF Current
<1> QED BY <1>2, <1>3

\* Current is right for itself.
LEMMA CurrentIsFit ==
    ASSUME SessionInv, SlotsInv, ctxs # <<>>
    PROVE  Fits(Current, Low(ctxs, Len(ctxs)))
BY ContextsType DEF SlotsInv, PoolsFit

\* Steps that leave contexts alone, and objects but for new data and for their code.
LEMMA SlotsQuiet ==
    ASSUME SlotsInv, UNCHANGED <<ctxs, held>>,
           \A o \in Obj : Used(o)' => Used(o) /\ heap'[o].pool = heap[o].pool /\ heap'[o].used = heap[o].used
    PROVE  SlotsInv'
<1>1. \A o \in Obj : Used(o)' => Fits(heap'[o], 0) BY DEF SlotsInv, Fits
<1> QED BY <1>1 DEF SlotsInv, Current, Used

LEMMA SlotsUse == ASSUME SessionInv, SlotsInv, UseConstant PROVE SlotsInv'
<1>1. ctxs # <<>> /\ held = <<>> /\ held' = held /\ heap' = heap
      /\ SetCurrent(ReadingIn(Ast, Current, ctxs))
  BY DEF UseConstant, Building, Reading
<1>2. ReadingIn(Ast, Current, ctxs) \in Context
      /\ ReadingIn(Ast, Current, ctxs).kind = Current.kind
  BY <1>1, ContextsType, ReadingType, FreshType
<1>3. Fits(ReadingIn(Ast, Current, ctxs), Low(ctxs, Len(ctxs)))
  BY <1>1, ContextsType, CurrentIsFit, ReadingFits, FreshType
<1>4. PoolsFit(ctxs') BY <1>1, <1>2, <1>3, SlotsCurrent
<1> QED BY <1>1, <1>4 DEF SlotsInv, Used

\* New data read nothing.
LEMMA DataFits ==
    ASSUME SessionInv, SlotsInv, NEW o \in Free, heap' = [heap EXCEPT ![o] = Data]
    PROVE  \A q \in Obj : Used(q)' => Fits(heap'[q], 0)
<1>1. Fits(Data, 0) BY DEF Fits, Data
<1>2. \A q \in Obj : heap'[q] = IF q = o THEN Data ELSE heap[q] BY DEF SessionInv, TypeOK, Free
<1> QED BY <1>1, <1>2 DEF SlotsInv, Used

LEMMA SlotsSwitch == ASSUME SessionInv, SlotsInv, CompileSwitch PROVE SlotsInv'
<1>1. PICK o \in Free : /\ heap' = [heap EXCEPT ![o] = Data]
                        /\ SetCurrent(Reading(o, [Current EXCEPT !.pool = Append(@, o)]))
  BY DEF CompileSwitch
<1> DEFINE pool == Append(Current.pool, o)
           longer == [Current EXCEPT !.pool = pool]
<1>2. ctxs # <<>> /\ o \in Obj /\ o \in Constant /\ held = <<>> /\ held' = held
  BY DEF CompileSwitch, Building, Free, Constant
<1>3. /\ Len(pool) = Len(Current.pool) + 1 /\ pool \in Seq(Constant)
      /\ \A i \in 1..Len(Current.pool) : pool[i] = Current.pool[i]
      /\ Len(Current.pool) \in Nat
  BY <1>2, ContextsType, AppendProperties
<1>4. longer = [Current EXCEPT !.pool = Append(@, o)] OBVIOUS
<1> HIDE DEF pool
<1>5. longer \in Context /\ longer.kind = Current.kind /\ longer.pool = pool /\ longer.used = Current.used
  BY <1>2, <1>3, ContextsType DEF Context, Pool
<1> HIDE DEF longer
<1> DEFINE low == Low(ctxs, Len(ctxs))
<1>6. Fits(longer, low)
  <2>1. low \in Nat BY <1>2, ContextsType, LowReserved
  <2>2. Fits(Current, low) BY <1>2, CurrentIsFit
  <2> HIDE DEF low
  <2>3. low <= Len(pool) BY <1>3, <2>1, <2>2 DEF Fits
  <2>4. ASSUME NEW r \in Current.used
        PROVE  r[1] \in (low + 1)..Len(pool) /\ pool[r[1]] = r[2]
    <3> DEFINE i == r[1]
    <3>1. i \in (low + 1)..Len(Current.pool) /\ Current.pool[i] = r[2] BY <2>2 DEF Fits
    <3>2. i \in 1..Len(Current.pool) /\ i \in (low + 1)..Len(pool) BY <1>3, <2>1, <3>1
    <3> QED BY <1>3, <3>1, <3>2
  <2> QED BY <1>5, <2>3, <2>4 DEF Fits
<1>7. /\ ReadingIn(o, longer, ctxs) \in Context
      /\ ReadingIn(o, longer, ctxs).kind = Current.kind
      /\ Fits(ReadingIn(o, longer, ctxs), low)
  BY <1>2, <1>5, <1>6, ContextsType, ReadingType, ReadingFits
<1>8. PoolsFit(ctxs')
  <2>1. SetCurrent(ReadingIn(o, longer, ctxs)) BY <1>1, <1>4 DEF Reading
  <2> QED BY <1>2, <1>7, <2>1, SlotsCurrent
<1>9. \A q \in Obj : Used(q)' => Fits(heap'[q], 0) BY <1>1, DataFits
<1> QED BY <1>2, <1>8, <1>9 DEF SlotsInv

LEMMA SlotsOpen ==
    ASSUME SessionInv, SlotsInv, NEW kind \in {"function", "promise"}, Open(kind)
    PROVE  SlotsInv'
<1> DEFINE ctx == [kind |-> kind, used |-> {},
                   pool |-> IF kind = "function" THEN <<Ast, Nil, Nil>> ELSE <<Ast>>]
           n == Len(ctxs)
<1>1. ctx.kind = kind /\ ctx.used = {} /\ (kind = "function" => Len(ctx.pool) = 3)
      /\ (kind = "promise" => Len(ctx.pool) = 1)
  OBVIOUS
<1>2. ctxs' = Append(ctxs, ctx) /\ held = <<>> /\ held' = held /\ heap' = heap BY DEF Open, Push
<1>3. ctx \in Context
  <2>1. <<Ast, Nil, Nil>> \in Pool /\ <<Ast>> \in Pool BY FreshType DEF Pool
  <2>2. {} \in Reads /\ kind \in Kinds BY DEF Reads, Kinds
  <2> QED BY <2>1, <2>2 DEF Context
<1> HIDE DEF ctx
<1>4. ctxs \in Seq(Context) /\ n \in Nat BY LenProperties DEF SessionInv, TypeOK
<1>5. /\ ctxs' \in Seq(Context) /\ Len(ctxs') = n + 1 /\ ctxs'[n + 1] = ctx
      /\ \A i \in 1..n : ctxs'[i] = ctxs[i]
  BY <1>2, <1>3, <1>4, AppendProperties
<1>6. Fits(ctxs'[n + 1], Low(ctxs', n + 1))
  <2>1. CASE kind = "function"
    <3>1. Low(ctxs', n + 1) \in {0, 3} BY DEF Low, Placeholders
    <3>2. Low(ctxs', n + 1) <= 3 BY <3>1
    <3> QED BY <1>1, <1>5, <2>1, <3>2 DEF Fits
  <2>2. CASE kind = "promise"
    <3>1. ~InFunction(ctxs', n + 1)
      <4> SUFFICES ASSUME NEW j \in 1..(n + 1), ctxs'[j].kind = "function",
                          \A k \in (j + 1)..(n + 1) : ctxs'[k].kind = "loop"
                   PROVE  FALSE
        BY DEF InFunction
      <4>1. j = n + 1 \/ n + 1 \in (j + 1)..(n + 1) BY <1>4
      <4> QED BY <1>1, <1>5, <2>2, <4>1
    <3> QED BY <1>1, <1>5, <2>2, <3>1 DEF Fits, Low
  <2> QED BY <2>1, <2>2
<1>7. ASSUME NEW i \in 1..n, ctxs'[i + 1].kind # "loop"
      PROVE  Fits(ctxs'[i], Low(ctxs', i))
  <2>1. Low(ctxs', i) = Low(ctxs, i)
    <3>1. i \in Nat /\ \A k \in 1..i : k \in 1..n BY <1>4
    <3>2. \A k \in 1..i : ctxs'[k].kind = ctxs[k].kind BY <1>5, <3>1
    <3> HIDE DEF n
    <3> DEFINE ds == ctxs'
    <3>3. \A k \in 1..i : ds[k].kind = ctxs[k].kind BY <3>2
    <3> HIDE DEF ds
    <3>4. Low(ds, i) = Low(ctxs, i) BY <3>1, <3>3, LowSame
    <3> QED BY <3>4 DEF ds
  <2>2. i = n \/ ctxs[i + 1].kind # "loop"
    <3>1. i # n => i + 1 \in 1..n BY <1>4
    <3> QED BY <1>5, <1>7, <3>1
  <2> QED BY <1>5, <2>1, <2>2 DEF SlotsInv, PoolsFit
<1>8. ctxs'[1].kind # "loop"
  <2>1. CASE n = 0 BY <1>1, <1>5, <2>1
  <2>2. CASE n # 0
    <3>1. 1 \in 1..n /\ ctxs # <<>> BY <1>4, <2>2
    <3> QED BY <1>5, <3>1 DEF SlotsInv, PoolsFit
  <2> QED BY <2>1, <2>2
<1>9. PoolsFit(ctxs')
  <2>1. \A i \in 1..(n + 1) : i = n + 1 \/ i \in 1..n BY <1>4
  <2> QED BY <1>5, <1>6, <1>7, <1>8, <2>1 DEF PoolsFit
<1> QED BY <1>2, <1>9 DEF SlotsInv, Used

LEMMA SlotsOpenLoop == ASSUME SessionInv, SlotsInv, OpenLoop PROVE SlotsInv'
<1> DEFINE outer == [Current EXCEPT !.pool = <<>>]
           inner == [Current EXCEPT !.kind = "loop"]
           n == Len(ctxs)
           rest == [ctxs EXCEPT ![n] = outer]
<1>1. ctxs # <<>> /\ held = <<>> /\ held' = held /\ heap' = heap BY DEF OpenLoop, Building
<1>2. ctxs \in Seq(Context) /\ Current \in Context /\ n \in 1..n /\ n \in Nat \ {0} /\ Current = ctxs[n]
  BY <1>1, ContextsType
<1>3. /\ outer \in Context /\ outer.kind = Current.kind
      /\ inner \in Context /\ inner.kind = "loop" /\ inner.pool = Current.pool /\ inner.used = Current.used
  <2>1. <<>> \in Pool /\ "loop" \in Kinds BY DEF Pool, Kinds
  <2> QED BY <1>2, <2>1 DEF Context
<1>4. ctxs' = Append(rest, inner) BY DEF OpenLoop, Current
<1>5. /\ rest \in Seq(Context) /\ Len(rest) = n
      /\ \A i \in 1..n : rest[i] = IF i = n THEN outer ELSE ctxs[i]
  <2> HIDE DEF outer, n
  <2>1. n \in 1..Len(ctxs) /\ outer \in Context BY <1>2, <1>3 DEF n
  <2> QED BY <1>2, <2>1, ExceptSeq DEF n
<1> HIDE DEF rest, inner, outer
<1>6. /\ ctxs' \in Seq(Context) /\ Len(ctxs') = n + 1 /\ ctxs'[n + 1] = inner
      /\ \A i \in 1..n : ctxs'[i] = IF i = n THEN outer ELSE ctxs[i]
  BY <1>3, <1>4, <1>5, AppendProperties
<1>7. \A i \in 1..n : ctxs'[i].kind = ctxs[i].kind BY <1>2, <1>3, <1>6
<1>8. \A i \in 1..n : Low(ctxs', i) = Low(ctxs, i)
  <2> SUFFICES ASSUME NEW i \in 1..n PROVE Low(ctxs', i) = Low(ctxs, i)
    OBVIOUS
  <2> DEFINE ds == ctxs'
  <2>1. i \in Nat /\ \A k \in 1..i : ds[k].kind = ctxs[k].kind
    <3>1. \A k \in 1..i : k \in 1..n BY <1>2
    <3> QED BY <1>7, <3>1
  <2> HIDE DEF ds, n
  <2>2. Low(ds, i) = Low(ctxs, i) BY <2>1, LowSame
  <2> QED BY <2>2 DEF ds
<1>9. Fits(ctxs'[n + 1], Low(ctxs', n + 1))
  <2> DEFINE ds == ctxs'
  <2>1. ds[n + 1].kind = "loop" BY <1>3, <1>6
  <2> HIDE DEF ds, n
  <2>2. Low(ds, n + 1) = Low(ds, n) BY <1>2, <2>1, LowLoop
  <2>3. Fits(Current, Low(ctxs, n)) BY <1>1, CurrentIsFit DEF n
  <2> QED BY <1>2, <1>3, <1>6, <1>8, <2>2, <2>3 DEF Fits, ds
<1>10. ASSUME NEW i \in 1..n, ctxs'[i + 1].kind # "loop"
       PROVE  Fits(ctxs'[i], Low(ctxs', i))
  <2>1. i # n BY <1>3, <1>6, <1>10
  <2>2. i + 1 \in 1..n BY <1>2, <2>1
  <2>3. ctxs[i + 1].kind # "loop" BY <1>7, <1>10, <2>2
  <2> QED BY <1>6, <1>8, <2>1, <2>3 DEF SlotsInv, PoolsFit
<1>11. ctxs'[1].kind # "loop" BY <1>1, <1>2, <1>7 DEF SlotsInv, PoolsFit
<1>12. PoolsFit(ctxs')
  <2>1. \A i \in 1..(n + 1) : i = n + 1 \/ i \in 1..n BY <1>2
  <2> QED BY <1>6, <1>9, <1>10, <1>11, <2>1 DEF PoolsFit
<1> QED BY <1>1, <1>12 DEF SlotsInv, Used

LEMMA SlotsCloseLoop == ASSUME SessionInv, SlotsInv, CloseLoop PROVE SlotsInv'
<1> DEFINE n == Len(ctxs)
           m == n - 1
           back == [ctxs[m] EXCEPT !.pool = Current.pool, !.used = Current.used]
<1>1. ctxs # <<>> /\ held = <<>> /\ held' = held /\ heap' = heap /\ Current.kind = "loop"
  BY DEF CloseLoop, Building
<1>2. ctxs \in Seq(Context) /\ Current \in Context /\ n \in Nat \ {0} /\ Current = ctxs[n]
  BY <1>1, ContextsType
<1>3. n # 1 BY <1>1, <1>2 DEF SlotsInv, PoolsFit
<1>4. m \in Nat \ {0} /\ m \in 1..m /\ m \in 1..n /\ m + 1 = n /\ ctxs[m] \in Context
  <2>1. m \in Nat \ {0} /\ m \in 1..m /\ m \in 1..n /\ m + 1 = n
    <3>1. \A k \in Nat \ {0, 1} : k - 1 \in Nat \ {0} /\ k - 1 \in 1..(k - 1) /\ k - 1 \in 1..k
                                  /\ (k - 1) + 1 = k
      OBVIOUS
    <3>2. n \in Nat \ {0, 1} BY <1>2, <1>3
    <3> HIDE DEF n
    <3> QED BY <3>1, <3>2
  <2> HIDE DEF m
  <2> QED BY <1>2, <2>1, ElementOfSeq
<1>5. Front(ctxs) \in Seq(Context) /\ Len(Front(ctxs)) = m /\ \A i \in 1..m : Front(ctxs)[i] = ctxs[i]
  BY <1>1, CurrentType DEF SessionInv
<1>6. /\ back \in Context /\ back.kind = ctxs[m].kind
      /\ back.pool = Current.pool /\ back.used = Current.used
  BY <1>2, <1>4 DEF Context
<1>7. ctxs' = [Front(ctxs) EXCEPT ![m] = back] BY <1>4, <1>5 DEF CloseLoop
<1> HIDE DEF back
<1>8. /\ ctxs' \in Seq(Context) /\ Len(ctxs') = m
      /\ \A i \in 1..m : ctxs'[i] = IF i = m THEN back ELSE ctxs[i]
  <2> HIDE DEF m
  <2>1. /\ ctxs' \in Seq(Context) /\ Len(ctxs') = Len(Front(ctxs))
        /\ \A i \in 1..Len(Front(ctxs)) : ctxs'[i] = IF i = m THEN back ELSE Front(ctxs)[i]
    BY <1>4, <1>5, <1>6, <1>7, ExceptSeq
  <2> QED BY <1>5, <2>1
<1> HIDE DEF m
<1>9. \A i \in 1..m : ctxs'[i].kind = ctxs[i].kind BY <1>6, <1>8
<1>10. \A i \in 1..m : Low(ctxs', i) = Low(ctxs, i)
  <2> SUFFICES ASSUME NEW i \in 1..m PROVE Low(ctxs', i) = Low(ctxs, i)
    OBVIOUS
  <2> DEFINE ds == ctxs'
  <2>1. i \in Nat /\ \A k \in 1..i : ds[k].kind = ctxs[k].kind
    <3>1. \A k \in 1..i : k \in 1..m BY <1>4
    <3> QED BY <1>9, <3>1
  <2> HIDE DEF ds
  <2>2. Low(ds, i) = Low(ctxs, i) BY <2>1, LowSame
  <2> QED BY <2>2 DEF ds
<1>11. Fits(ctxs'[m], Low(ctxs', m))
  <2>1. ctxs[m + 1].kind = "loop" BY <1>1, <1>2, <1>4
  <2>2. Low(ctxs, m + 1) = Low(ctxs, m) BY <1>4, <2>1, LowLoop
  <2>3. Fits(Current, Low(ctxs, m + 1)) BY <1>1, <1>4, CurrentIsFit
  <2> QED BY <1>4, <1>6, <1>8, <1>10, <2>2, <2>3 DEF Fits
<1>12. ASSUME NEW i \in 1..m, i # m, ctxs'[i + 1].kind # "loop"
       PROVE  Fits(ctxs'[i], Low(ctxs', i))
  <2>1. i + 1 \in 1..m /\ i \in 1..n BY <1>4, <1>12
  <2>2. ctxs[i + 1].kind # "loop" BY <1>9, <1>12, <2>1
  <2> QED BY <1>8, <1>10, <1>12, <2>1, <2>2 DEF SlotsInv, PoolsFit
<1>13. ctxs'[1].kind # "loop"
  <2>1. 1 \in 1..m BY <1>4
  <2> QED BY <1>1, <1>9, <2>1 DEF SlotsInv, PoolsFit
<1>14. PoolsFit(ctxs') BY <1>8, <1>11, <1>12, <1>13 DEF PoolsFit
<1> QED BY <1>1, <1>14 DEF SlotsInv, Used

LEMMA SlotsAlloc == ASSUME SessionInv, SlotsInv, AllocSlot PROVE SlotsInv'
<1>1. PICK o \in Free :
         /\ heap' = [heap EXCEPT ![o] = Data]
         /\ held' = Append(held, o)
         /\ IF held = <<>> THEN UNCHANGED ctxs
            ELSE SetCurrent([Current EXCEPT !.pool[2] = held[1], !.pool[3] = o])
  BY DEF AllocSlot
<1>2. o \in Obj /\ ctxs # <<>> /\ Current \in Context /\ Current.kind = "function"
  BY CurrentType DEF Free, AllocSlot, SessionInv
<1>3. \A q \in Obj : Used(q)' => Fits(heap'[q], 0) BY <1>1, DataFits
<1>4. CASE held = <<>>
  <2>1. ctxs' = ctxs /\ Current' = Current BY <1>1, <1>4 DEF Current
  <2> QED BY <1>2, <1>3, <2>1 DEF SlotsInv
<1>5. CASE held # <<>>
  <2> DEFINE pool == [[Current.pool EXCEPT ![2] = held[1]] EXCEPT ![3] = o]
             ctx == [Current EXCEPT !.pool = pool]
  <2>1. held[1] \in Obj
    <3>1. held \in Seq(Obj) /\ 1 \in 1..Len(held) BY <1>5, EmptySeq DEF SessionInv, TypeOK
    <3> QED BY <3>1, ElementOfSeq
  <2>2. Current.pool \in Seq(Constant) /\ held[1] \in Constant /\ o \in Constant
    BY <1>2, <2>1 DEF Context, Pool, Constant
  <2>3. /\ Current.pool \in [1..Len(Current.pool) -> Constant] /\ Len(Current.pool) \in Nat
    BY <2>2, LenProperties
  <2>4. pool \in [1..Len(Current.pool) -> Constant] BY <2>2, <2>3
  <2>5. pool \in Seq(Constant) /\ Len(pool) = Len(Current.pool)
    BY <2>3, <2>4, SeqDef, LenProperties
  <2>6. \A i \in 1..Len(Current.pool) : i > 3 => pool[i] = Current.pool[i] BY <2>3
  <2>7. SetCurrent(ctx) BY <1>1, <1>5, <1>2 DEF Context
  <2> HIDE DEF pool
  <2>8. ctx \in Context /\ ctx.used = Current.used /\ ctx.kind = Current.kind /\ ctx.pool = pool
    BY <1>2, <2>5 DEF Context, Pool
  <2> HIDE DEF ctx
  <2>9. Low(ctxs, Len(ctxs)) = 3
    <3>1. Len(ctxs) \in 1..Len(ctxs) /\ ctxs[Len(ctxs)].kind = "function" BY <1>2, ContextsType
    <3>2. InFunction(ctxs, Len(ctxs)) BY <3>1 DEF InFunction
    <3> QED BY <3>2 DEF Low, Placeholders
  <2>10. Fits(ctx, 3)
    <3>1. Fits(Current, 3) BY <1>2, <2>9, CurrentIsFit
    <3>2. ASSUME NEW r \in Current.used
          PROVE  r[1] \in (3 + 1)..Len(pool) /\ pool[r[1]] = r[2]
      <4> DEFINE i == r[1]
      <4>1. i \in (3 + 1)..Len(Current.pool) /\ Current.pool[i] = r[2] BY <3>1 DEF Fits
      <4>2. i \in 1..Len(Current.pool) /\ i > 3 BY <2>3, <4>1
      <4> QED BY <2>5, <2>6, <4>1, <4>2
    <3> QED BY <2>5, <2>8, <3>1, <3>2 DEF Fits
  <2>11. PoolsFit(ctxs') /\ ctxs' # <<>> /\ Current'.kind = "function"
    BY <1>2, <2>7, <2>8, <2>9, <2>10, SlotsCurrent
  <2> QED BY <1>3, <2>11 DEF SlotsInv
<1> QED BY <1>4, <1>5

LEMMA SlotsClose ==
    ASSUME SessionInv, SlotsInv, running # <<>>, ctxs # <<>>, Current.kind # "loop",
           NEW o \in Free, CloseInto(o), held' = <<>>
    PROVE  SlotsInv'
<1> DEFINE n == Len(ctxs)
           native == [pool |-> Current.pool, used |-> Current.used, code |-> "missing"]
           back == ReadingIn(o, ctxs[n - 1], Front(ctxs))
<1>1. ctxs \in Seq(Context) /\ o \in Obj /\ o \in Constant /\ Current = ctxs[n]
      /\ n \in Nat \ {0} /\ Current.pool \in Seq(Constant)
  BY ContextsType DEF Free, Constant
<1>2. Front(ctxs) \in Seq(Context) /\ Len(Front(ctxs)) = n - 1 /\ \A i \in 1..(n - 1) : Front(ctxs)[i] = ctxs[i]
  BY CurrentType DEF SessionInv
<1>3. \A q \in Obj : Used(q)' => Fits(heap'[q], 0)
  <2>1. Fits(Current, Low(ctxs, n)) /\ Low(ctxs, n) \in Nat BY <1>1, CurrentIsFit, LowReserved
  <2>2. Fits(native, 0)
    <3>1. Len(Current.pool) \in Nat BY <1>1
    <3> QED BY <2>1, <3>1 DEF Fits
  <2>3. heap' = [heap EXCEPT ![o] = native] BY DEF CloseInto
  <2> HIDE DEF native
  <2>4. \A q \in Obj : heap'[q] = IF q = o THEN native ELSE heap[q] BY <2>3 DEF SessionInv, TypeOK
  <2> QED BY <2>2, <2>4 DEF SlotsInv, Used
<1>4. PoolsFit(Front(ctxs))
  <2> DEFINE ds == Front(ctxs)
  <2>1. ds \in Seq(Context) /\ Len(ds) = Len(ctxs) - 1 /\ \A i \in 1..Len(ds) : ds[i] = ctxs[i]
    BY <1>2
  <2>2. PoolsFit(ctxs) /\ ctxs[Len(ctxs)].kind # "loop" BY <1>1 DEF SlotsInv
  <2> HIDE DEF ds
  <2>3. PoolsFit(ds) BY <1>1, <2>1, <2>2, FrontFits
  <2> QED BY <2>3 DEF ds
<1>5. CASE n > 1
  <2> DEFINE m == n - 1
             ds == Front(ctxs)
             es == ctxs'
  <2>1. m \in Nat \ {0} /\ m \in 1..m /\ ctxs[m] \in Context /\ ds[m] = ctxs[m]
    <3>1. m \in Nat \ {0} /\ m \in 1..m /\ m \in 1..n BY <1>1, <1>5
    <3> HIDE DEF m
    <3>2. ctxs[m] \in Context BY <1>1, <3>1, ElementOfSeq
    <3> QED BY <1>2, <3>1, <3>2 DEF m
  <2>2. ds \in Seq(Context) /\ Len(ds) = m /\ PoolsFit(ds) BY <1>2, <1>4
  <2>3. back = ReadingIn(o, ctxs[m], ds) OBVIOUS
  <2>4. es = [ds EXCEPT ![m] = back] BY <1>2, <1>5, <2>1 DEF CloseInto
  <2> HIDE DEF m, ds, es, back
  <2>5. Fits(ctxs[m], Low(ds, Len(ds))) BY <2>1, <2>2 DEF PoolsFit
  <2>6. back \in Context /\ back.kind = ctxs[m].kind /\ Fits(back, Low(ds, Len(ds)))
    <3>1. Len(ds) \in Nat \ {0} BY <2>1, <2>2
    <3> QED BY <1>1, <2>1, <2>3, <2>5, <3>1, ReadingType, ReadingFits
  <2>7. /\ es \in Seq(Context) /\ Len(es) = Len(ds)
        /\ \A i \in 1..Len(ds) : es[i] = IF i = Len(ds) THEN back ELSE ds[i]
    BY <2>1, <2>2, <2>4, <2>6, ExceptSeq
  <2>8. ds # <<>> BY <2>1, <2>2
  <2>9. PoolsFit(es) BY <2>1, <2>2, <2>6, <2>7, <2>8, CurrentFits
  <2> QED BY <1>3, <2>9 DEF SlotsInv, es
<1>6. CASE ~(n > 1)
  <2>1. ctxs' = <<>> BY <1>6 DEF CloseInto
  <2>2. PoolsFit(ctxs') BY <2>1 DEF PoolsFit
  <2> QED BY <1>3, <2>2 DEF SlotsInv
<1> QED BY <1>5, <1>6

LEMMA SlotsNext == SessionInv /\ SlotsInv /\ [Next]_vars => SlotsInv'
<1> SUFFICES ASSUME SessionInv, SlotsInv, [Next]_vars PROVE SlotsInv'
  OBVIOUS
<1>1. CASE Collect
  <2>1. \A q \in Obj : heap'[q] = None \/ heap'[q] = heap[q] BY <1>1 DEF Collect
  <2> QED BY <1>1, <2>1, SlotsQuiet DEF Collect, Used
<1>2. CASE Finalize \/ Abort
  <2>1. \A q \in relocs[Top.session] : Used(q)
    BY <1>2, TopSession DEF Finalize, Compiling, Abort
  <2>2. PICK code \in {"ready", "orphaned"} :
           \A q \in Obj : heap'[q] = IF q \in relocs[Top.session]
                                    THEN [heap[q] EXCEPT !.code = code] ELSE heap[q]
    BY <1>2 DEF Finalize, Abort
  <2>4. \A q \in Obj : Used(q) => [heap[q] EXCEPT !.code = code].pool = heap[q].pool
                                  /\ [heap[q] EXCEPT !.code = code].used = heap[q].used
    BY DEF SessionInv, TypeOK, Used, Object
  <2>5. UNCHANGED <<ctxs, held>> BY <1>2 DEF Finalize, Abort
  <2>6. ASSUME NEW q \in Obj, Used(q)'
        PROVE  Used(q) /\ heap'[q].pool = heap[q].pool /\ heap'[q].used = heap[q].used
    <3>1. CASE q \in relocs[Top.session]
      <4>1. Used(q) BY <2>1, <3>1
      <4>2. heap'[q] = [heap[q] EXCEPT !.code = code] BY <2>2, <3>1
      <4> QED BY <2>4, <4>1, <4>2
    <3>2. CASE q \notin relocs[Top.session] BY <2>2, <2>6, <3>2 DEF Used
    <3> QED BY <3>1, <3>2
  <2> QED BY <2>5, <2>6, SlotsQuiet
<1>3. CASE ClosePromise
  <2>1. PICK o \in Free : CloseInto(o) BY <1>3 DEF ClosePromise
  <2>2. running # <<>> /\ ctxs # <<>> /\ Current.kind # "loop" /\ held' = <<>>
    BY <1>3 DEF ClosePromise, Building, Compiling
  <2> QED BY <2>1, <2>2, SlotsClose
<1>4. CASE CloseFunction
  <2>1. PICK o \in Free : CloseInto(o) BY <1>4 DEF CloseFunction
  <2>2. running # <<>> /\ ctxs # <<>> /\ held # <<>> /\ held' = <<>>
    BY <1>4 DEF CloseFunction, Compiling, Placeholders
  <2>3. Current.kind # "loop" BY <2>2 DEF SlotsInv
  <2> QED BY <2>1, <2>2, <2>3, SlotsClose
<1>5. CASE \/ UNCHANGED vars \/ Idle \/ \E o \in Obj : Forget(o)
           \/ \E s \in Session, many \in BOOLEAN : Start(s, many)
           \/ \E n \in Arity : CallSite(n)
           \/ Warn \/ Resume \/ \E s \in Session : Overwrite(s)
  <2>1. UNCHANGED <<ctxs, held, heap>>
    BY <1>5 DEF vars, Idle, Forget, Start, CallSite, Warn, Resume, Overwrite
  <2> QED BY <2>1, SlotsQuiet DEF Used
<1>6. ASSUME NEW kind \in {"function", "promise"}, Open(kind) PROVE SlotsInv' BY <1>6, SlotsOpen
<1> QED BY <1>1, <1>2, <1>3, <1>4, <1>5, <1>6, SlotsUse, SlotsSwitch, SlotsOpenLoop, SlotsCloseLoop,
           SlotsAlloc DEF Next

\* Instructions read their constants from the right slots, in code under construction and
\* in native SEXPs, however loops, nested functions and collections interleave.
THEOREM SlotsRight == Spec => []SlotsMatch
<1>1. Init => SlotsInv
  <2> SUFFICES ASSUME Init PROVE SlotsInv
    OBVIOUS
  <2>1. ctxs = <<>> /\ held = <<>> /\ \A o \in Obj : ~Used(o) BY DEF Init, Used
  <2> QED BY <2>1 DEF SlotsInv, PoolsFit
<1>2. SessionInv /\ SlotsInv => SlotsMatch
  <2> SUFFICES ASSUME SessionInv, SlotsInv PROVE SlotsMatch
    OBVIOUS
  <2>1. ASSUME NEW o \in Obj, Used(o), NEW r \in heap[o].used
        PROVE  r[1] <= Len(heap[o].pool) /\ heap[o].pool[r[1]] = r[2]
    BY <2>1 DEF SlotsInv, Fits
  <2>2. ASSUME ctxs # <<>>, NEW r \in Current.used
        PROVE  r[1] <= Len(Current.pool) /\ Current.pool[r[1]] = r[2]
    BY <2>2, CurrentIsFit DEF Fits
  <2> QED BY <2>1, <2>2 DEF SlotsMatch
<1> QED BY <1>1, <1>2, InitSession, NextSession, SlotsNext, PTL DEF Spec
=============================================================================
