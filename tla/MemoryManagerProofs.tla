------------------------- MODULE MemoryManagerProofs -------------------------
(* The memory of MemoryManager.tla for any number of modules, sections of    *)
(* any size and alignment, any page size and whatever addresses the system   *)
(* maps.                                                                     *)
EXTENDS MemoryManager, TLAPS

-----------------------------------------------------------------------------
(* The invariant *)

Free == [base : Nat, size : Nat]
Block == [base : Nat \ {0}, size : Nat \ {0}, mgr : Manager, group : Group]
Section == [mgr : Manager, group : Group, base : Nat \ {0}, size : Nat \ {0},
            align : Nat \ {0}, map : BOOLEAN]

Types ==
    /\ status \in [Manager -> {"none", "open", "finalized", "recorded", "deleted", "stopped"}]
    /\ failed \subseteq Manager
    /\ DOMAIN rights \subseteq Block /\ \A b \in DOMAIN rights : rights[b] \subseteq CodeRights
    /\ free \in [Manager -> [Group -> Seq(Free)]]
    /\ sections \subseteq Section
    /\ stackmap \in [Manager -> Free]

\* Blocks, sections and free regions do not overlap; a section and a region
\* are in a block of their manager and group.
In(r, m, g) == \E b \in DOMAIN rights : b.mgr = m /\ b.group = g /\ Within(r, b)
BlocksApart == \A b, c \in DOMAIN rights : b = c \/ Apart(b, c)
SectionsIn == \A s \in sections : In(s, s.mgr, s.group) /\ s.base % s.align = 0
FreeIn == \A m \in Manager, g \in Group : \A i \in DOMAIN free[m][g] : In(free[m][g][i], m, g)
Disjoint == \A s, t \in sections : s = t \/ Apart(s, t)
FreeApart ==
    \A m \in Manager, g \in Group : \A i, j \in DOMAIN free[m][g] :
        i = j \/ Apart(free[m][g][i], free[m][g][j])
Unused ==
    \A s \in sections : \A g \in Group : \A i \in DOMAIN free[s.mgr][g] : Apart(s, free[s.mgr][g][i])
Layout == BlocksApart /\ SectionsIn /\ FreeIn /\ Disjoint /\ FreeApart /\ Unused

\* Blocks have rights by the state of their manager.
Rights ==
    /\ \A b \in DOMAIN rights :
          /\ status[b.mgr] # "none" /\ "read" \in rights[b]
          /\ b.group = "rw" \/ status[b.mgr] \in {"open", "stopped"} => "write" \in rights[b]
          /\ status[b.mgr] \in {"finalized", "recorded", "deleted"} /\ b.mgr \notin failed =>
                /\ b.group = "code" => {"write", "exec"} \subseteq rights[b]
                /\ b.group = "ro" => "write" \notin rights[b]
    /\ \A m \in failed : status[m] \in {"finalized", "recorded", "deleted"}

\* A manager knows the stack map of its module, which has no other.
Maps ==
    \A t \in sections : t.map =>
        /\ \A u \in sections : u.map /\ u.mgr = t.mgr => u = t
        /\ status[t.mgr] \in {"open", "finalized", "recorded"} => stackmap[t.mgr] = Region(t.base, t.size)

\* Statepoints are those of code whose module has been recorded.
Points ==
    /\ \A pc \in DOMAIN statepoint :
          /\ statepoint[pc].map # NullMap
          /\ \E s \in sections : /\ s.group = "code" /\ status[s.mgr] \in {"recorded", "deleted"}
                                 /\ pc \in Returns(s)
    /\ \A s, t \in sections :
          s.group = "code" /\ t.map /\ s.mgr = t.mgr /\ status[s.mgr] \in {"recorded", "deleted"} =>
              \A pc \in Returns(s) :
                  /\ pc \in DOMAIN statepoint
                  /\ statepoint[pc] = [fun |-> s.base, map |-> Region(t.base, t.size)]

MMInv == Types /\ Layout /\ Rights /\ Maps /\ Points

-----------------------------------------------------------------------------
(* Arithmetic *)

LEMMA Division ==
    ASSUME NEW x \in Nat, NEW A \in Nat \ {0}
    PROVE  /\ x \div A \in Nat
           /\ (x \div A) * A <= x /\ x < (x \div A) * A + A
OBVIOUS

LEMMA Multiple == ASSUME NEW k \in Nat, NEW A \in Nat \ {0} PROVE (k * A) % A = 0
OBVIOUS

\* A region of the required size has room for the section behind the first
\* address that is aligned.
LEMMA Room ==
    ASSUME NEW base \in Nat, NEW size \in Nat \ {0}, NEW A \in Nat \ {0}, NEW room \in Nat,
           room >= RequiredSize(size, A)
    PROVE  /\ AlignedAddr(base, A) \in Nat /\ AlignedAddr(base, A) % A = 0
           /\ base <= AlignedAddr(base, A)
           /\ AlignedAddr(base, A) + size <= base + room
<1> DEFINE q == (base + A - 1) \div A
           p == (size + A - 1) \div A
<1>1. base + A - 1 \in Nat /\ size + A - 1 \in Nat
  OBVIOUS
<1>2. q \in Nat /\ q * A <= base + A - 1 /\ base + A - 1 < q * A + A
  BY <1>1, Division
<1>3. p \in Nat /\ p * A <= size + A - 1 /\ size + A - 1 < p * A + A
  BY <1>1, Division
<1>4. AlignedAddr(base, A) = q * A /\ RequiredSize(size, A) = A * (p + 1)
  BY DEF AlignedAddr, RequiredSize
<1> HIDE DEF q, p
<1>5. q * A \in Nat /\ (q * A) % A = 0
  BY <1>2, Multiple
<1>6. A * (p + 1) = p * A + A /\ p * A \in Nat
  BY <1>3
<1> QED BY <1>2, <1>3, <1>4, <1>5, <1>6

LEMMA RequiredPositive ==
    ASSUME NEW size \in Nat \ {0}, NEW A \in Nat \ {0}
    PROVE  RequiredSize(size, A) \in Nat \ {0}
<1> DEFINE p == (size + A - 1) \div A
<1>1. p \in Nat
  BY Division
<1> HIDE DEF p
<1>2. A * (p + 1) = A * p + A /\ A * p \in Nat
  BY <1>1
<1> QED BY <1>2 DEF RequiredSize, p

LEMMA WholePages ==
    ASSUME NEW need \in Nat \ {0}
    PROVE  LET size == ((need + PageSize - 1) \div PageSize) * PageSize
           IN  size \in Nat \ {0} /\ size >= need
<1> DEFINE k == (need + PageSize - 1) \div PageSize
<1>1. k \in Nat /\ need + PageSize - 1 < k * PageSize + PageSize
  BY NumbersAssumption, Division
<1> HIDE DEF k
<1>2. k * PageSize \in Nat /\ k * PageSize >= need
  BY <1>1, NumbersAssumption
<1> QED BY <1>2 DEF k

-----------------------------------------------------------------------------
LEMMA MMInvInit == Init => MMInv
<1> SUFFICES ASSUME Init PROVE MMInv
  OBVIOUS
<1>1. DOMAIN rights = {} /\ sections = {} /\ DOMAIN statepoint = {} /\ failed = {}
  BY DEF Init
<1>2. Types
  <2>1. NoFree \in [Group -> Seq(Free)] /\ NullMap \in Free
    BY DEF NoFree, NullMap, Region, Free
  <2> QED BY <1>1, <2>1 DEF Types, Init
<1>3. \A m \in Manager, g \in Group : DOMAIN free[m][g] = {}
  BY DEF Init, NoFree
<1> QED BY <1>1, <1>2, <1>3
        DEF MMInv, Layout, BlocksApart, SectionsIn, FreeIn, Disjoint, FreeApart, Unused, Rights, Maps, Points

-----------------------------------------------------------------------------
(* Where sections lie *)

Sized(x) == x.base \in Nat /\ x.size \in Nat

LEMMA Narrow ==
    ASSUME NEW x, NEW y, NEW z, Sized(x), Sized(y), Sized(z), Within(x, y)
    PROVE  /\ Apart(y, z) => Apart(x, z) /\ Apart(z, x)
           /\ Within(y, z) => Within(x, z)
           /\ Apart(z, y) => Apart(x, z) /\ Apart(z, x)
BY DEF Sized, Within, Apart

LEMMA OtherBlocks ==
    ASSUME Types, BlocksApart, NEW x, NEW y, Sized(x), Sized(y),
           NEW m, NEW g, NEW n, NEW h, In(x, m, g), In(y, n, h), ~(m = n /\ g = h)
    PROVE  Apart(x, y)
<1>1. PICK b \in DOMAIN rights : b.mgr = m /\ b.group = g /\ Within(x, b)
  BY DEF In
<1>2. PICK c \in DOMAIN rights : c.mgr = n /\ c.group = h /\ Within(y, c)
  BY DEF In
<1>3. Apart(b, c)
  BY <1>1, <1>2 DEF BlocksApart
<1>4. Sized(b) /\ Sized(c)
  BY DEF Types, Block, Sized
<1>5. Apart(x, c)
  BY <1>1, <1>3, <1>4, Narrow
<1> QED BY <1>2, <1>4, <1>5, Narrow

LEMMA Requested ==
    ASSUME NEW r \in Requests
    PROVE  /\ GroupOf(r) = r.group /\ r.group \in Group /\ r.size \in Nat \ {0}
           /\ Alignment(r) \in Nat \ {0} /\ r.map \in BOOLEAN
BY RequestsAssumption, NumbersAssumption DEF GroupOf, Alignment

LEMMA FreeSized ==
    ASSUME Types, NEW m \in Manager, NEW g \in Group, NEW i \in DOMAIN free[m][g]
    PROVE  free[m][g][i] \in Free /\ Sized(free[m][g][i])
<1>1. free[m][g] \in Seq(Free)
  BY DEF Types
<1>2. free[m][g][i] \in Free
  BY <1>1
<1> QED BY <1>2 DEF Free, Sized

\* The section that an allocation in memory x of manager m and group g hands
\* out, and the rest.
New(m, r, addr) ==
    [mgr |-> m, group |-> r.group, base |-> addr, size |-> r.size, align |-> Alignment(r), map |-> r.map]

LEMMA Cut ==
    ASSUME NEW m \in Manager, NEW r \in Requests, NEW x, Sized(x),
           x.size >= RequiredSize(r.size, Alignment(r))
    PROVE  LET addr == AlignedAddr(x.base, Alignment(r))
               rest == Rest(addr, r.size, x.base + x.size)
           IN  /\ addr \in Nat /\ x.base <= addr
               /\ New(m, r, addr).mgr = m /\ New(m, r, addr).group = r.group
               /\ New(m, r, addr).map = r.map
               /\ New(m, r, addr).base = addr /\ New(m, r, addr).size = r.size
               /\ addr % New(m, r, addr).align = 0
               /\ rest \in Free /\ Sized(rest) /\ Sized(New(m, r, addr))
               /\ Within(rest, x) /\ Within(New(m, r, addr), x)
               /\ Apart(New(m, r, addr), rest) /\ Apart(rest, New(m, r, addr))
<1> DEFINE addr == AlignedAddr(x.base, Alignment(r))
<1>1. /\ addr \in Nat /\ addr % Alignment(r) = 0 /\ x.base <= addr
      /\ addr + r.size <= x.base + x.size
  BY Requested, Room DEF Sized
<1>2. r.size \in Nat \ {0} /\ x.base \in Nat /\ x.size \in Nat
  BY Requested DEF Sized
<1> HIDE DEF addr
<1>3. LET rest == Rest(addr, r.size, x.base + x.size)
      IN  rest.base = addr + r.size /\ rest.size = x.base + x.size - addr - r.size /\ rest \in Free
  BY <1>1, <1>2 DEF Rest, Region, Free
<1>4. LET new == New(m, r, addr)
      IN  /\ new.mgr = m /\ new.group = r.group /\ new.map = r.map /\ new.base = addr
          /\ new.size = r.size /\ new.align = Alignment(r)
  BY DEF New
<1> QED BY <1>1, <1>2, <1>3, <1>4 DEF Within, Apart, Sized, addr

LEMMA ReuseLayout ==
    ASSUME Types, Layout, NEW m \in Manager, NEW r \in Requests, Reuse(m, r)
    PROVE  Layout'
<1> DEFINE g == r.group
           A == Alignment(r)
<1>0. g \in Group /\ GroupOf(r) = g
  BY Requested
<1>1. PICK i \in Fits(m, r) :
        LET region == free[m][g][i]
            addr == AlignedAddr(region.base, A)
        IN  /\ free' = [free EXCEPT ![m][g][i] = Rest(addr, r.size, region.base + region.size)]
            /\ Answer(m, r, addr)
  BY <1>0 DEF Reuse
<1> DEFINE region == free[m][g][i]
           addr == AlignedAddr(region.base, A)
           rest == Rest(addr, r.size, region.base + region.size)
           new == New(m, r, addr)
<1>2. i \in DOMAIN free[m][g] /\ region.size >= RequiredSize(r.size, A)
  BY <1>0 DEF Fits
<1>3. Sized(region)
  BY <1>0, <1>2, FreeSized
<1>4. /\ rest \in Free /\ Sized(rest) /\ Sized(new)
      /\ Within(rest, region) /\ Within(new, region) /\ Apart(new, rest) /\ Apart(rest, new)
      /\ new.mgr = m /\ new.group = g /\ new.base % new.align = 0
  BY <1>2, <1>3, Cut
<1>5. sections' = sections \cup {new} /\ rights' = rights
  BY <1>1 DEF Answer, New, Reuse
<1>6. /\ \A n \in Manager, h \in Group : DOMAIN free'[n][h] = DOMAIN free[n][h]
      /\ \A n \in Manager, h \in Group : \A j \in DOMAIN free[n][h] :
            ~(n = m /\ h = g /\ j = i) => free'[n][h][j] = free[n][h][j]
      /\ free'[m][g][i] = rest
  <2>1. free' = [free EXCEPT ![m] = [free[m] EXCEPT ![g] = [free[m][g] EXCEPT ![i] = rest]]]
    BY <1>1
  <2> HIDE DEF rest, g, region
  <2>2. free \in [Manager -> [Group -> Seq(Free)]]
    BY DEF Types
  <2> QED BY <1>0, <1>2, <2>1, <2>2 DEF region
<1> HIDE DEF region, addr, rest, new, g, A
<1>7. In(region, m, g)
  BY <1>0, <1>2 DEF Layout, FreeIn, region
<1>8. In(rest, m, g) /\ In(new, m, g)
  BY <1>3, <1>4, <1>7, Narrow DEF In, Types, Block, Sized
<1>9. \A t \in sections : Sized(t) /\ t.mgr \in Manager /\ t.group \in Group
  BY DEF Types, Section, Sized
<1>10. \A t \in sections : Apart(t, region)
  <2> SUFFICES ASSUME NEW t \in sections PROVE Apart(t, region)
    OBVIOUS
  <2>1. CASE t.mgr = m
    BY <1>0, <1>2, <2>1 DEF Layout, Unused, region
  <2>2. CASE t.mgr # m
    BY <1>3, <1>7, <1>9, <2>2, OtherBlocks DEF Layout, SectionsIn
  <2> QED BY <2>1, <2>2
<1>11. \A n \in Manager, h \in Group : \A j \in DOMAIN free[n][h] :
          ~(n = m /\ h = g /\ j = i) => Apart(free[n][h][j], region)
  <2> SUFFICES ASSUME NEW n \in Manager, NEW h \in Group, NEW j \in DOMAIN free[n][h],
                      ~(n = m /\ h = g /\ j = i)
               PROVE  Apart(free[n][h][j], region)
    OBVIOUS
  <2>1. CASE n = m /\ h = g
    BY <1>0, <1>2, <2>1 DEF Layout, FreeApart, region
  <2>2. CASE ~(n = m /\ h = g)
    BY <1>3, <1>7, <2>2, FreeSized, OtherBlocks DEF Layout, FreeIn
  <2> QED BY <2>1, <2>2
<1>12. BlocksApart'
  BY <1>5 DEF Layout, BlocksApart
<1>13. SectionsIn'
  BY <1>4, <1>5, <1>8 DEF Layout, SectionsIn, In
<1>14. FreeIn'
  BY <1>5, <1>6, <1>8 DEF Layout, FreeIn, In
<1>15. \A t \in sections : Apart(t, new) /\ Apart(new, t) /\ Apart(t, rest)
  BY <1>3, <1>4, <1>9, <1>10, Narrow
<1>16. Disjoint'
  BY <1>5, <1>15 DEF Layout, Disjoint
<1>17. \A n \in Manager, h \in Group : \A j \in DOMAIN free[n][h] :
          ~(n = m /\ h = g /\ j = i) =>
             /\ Apart(free[n][h][j], rest) /\ Apart(rest, free[n][h][j])
             /\ Apart(new, free[n][h][j])
  <2> SUFFICES ASSUME NEW n \in Manager, NEW h \in Group, NEW j \in DOMAIN free[n][h],
                      ~(n = m /\ h = g /\ j = i)
               PROVE  /\ Apart(free[n][h][j], rest) /\ Apart(rest, free[n][h][j])
                      /\ Apart(new, free[n][h][j])
    OBVIOUS
  <2> DEFINE y == free[n][h][j]
  <2>1. Sized(y) /\ Apart(y, region)
    BY <1>11, FreeSized
  <2> HIDE DEF y
  <2> QED BY <1>3, <1>4, <2>1, Narrow DEF y
<1>18. FreeApart'
  BY <1>6, <1>17 DEF Layout, FreeApart
<1>19. Unused'
  <2> SUFFICES ASSUME NEW t \in sections', NEW h \in Group, NEW j \in DOMAIN free'[t.mgr][h]
               PROVE  Apart(t, free'[t.mgr][h][j])
    BY DEF Unused
  <2>1. t.mgr \in Manager /\ j \in DOMAIN free[t.mgr][h]
    BY <1>4, <1>5, <1>6, <1>9
  <2>2. CASE t.mgr = m /\ h = g /\ j = i
    BY <1>4, <1>5, <1>6, <1>15, <2>2
  <2>3. CASE ~(t.mgr = m /\ h = g /\ j = i)
    <3>1. free'[t.mgr][h][j] = free[t.mgr][h][j]
      BY <1>6, <2>1, <2>3
    <3>2. CASE t = new
      BY <1>17, <2>1, <2>3, <3>1, <3>2
    <3>3. CASE t \in sections
      BY <2>1, <3>1, <3>3 DEF Layout, Unused
    <3> QED BY <1>5, <3>2, <3>3
  <2> QED BY <2>2, <2>3
<1> QED BY <1>12, <1>13, <1>14, <1>16, <1>18, <1>19 DEF Layout

LEMMA Remainder == ASSUME NEW x \in Nat PROVE x % UnsignedLimit \in Nat /\ x % UnsignedLimit <= x
BY NumbersAssumption

LEMMA MapLayout ==
    ASSUME Types, Layout, NEW m \in Manager, NEW r \in Requests, Map(m, r)
    PROVE  Layout'
<1> DEFINE g == r.group
           A == Alignment(r)
           pages == (RequiredSize(r.size, A) + PageSize - 1) \div PageSize
<1>0. g \in Group /\ GroupOf(r) = g /\ A \in Nat \ {0} /\ r.size \in Nat \ {0}
  BY Requested
<1>1. PICK base \in Base :
        LET block == [base |-> base, size |-> pages * PageSize, mgr |-> m, group |-> g]
            addr == AlignedAddr(base, A)
            rest == Rest(addr, r.size, base + block.size)
            kept == Region(rest.base, rest.size % UnsignedLimit)
        IN  /\ \A b \in DOMAIN rights : Apart(block, b)
            /\ rights' = [b \in DOMAIN rights \cup {block} |->
                             IF b = block THEN {"read", "write"} ELSE rights[b]]
            /\ free' = IF kept.size > Spare THEN [free EXCEPT ![m][g] = Append(@, kept)] ELSE free
            /\ Answer(m, r, addr)
  BY <1>0 DEF Map
<1> DEFINE block == [base |-> base, size |-> pages * PageSize, mgr |-> m, group |-> g]
           addr == AlignedAddr(block.base, A)
           rest == Rest(addr, r.size, block.base + block.size)
           kept == Region(rest.base, rest.size % UnsignedLimit)
           new == New(m, r, addr)
           last == Len(free[m][g]) + 1
<1>2. /\ block.size \in Nat \ {0} /\ block.size >= RequiredSize(r.size, A)
      /\ block.base \in Nat \ {0} /\ block.mgr = m /\ block.group = g /\ block.base = base
  <2>1. RequiredSize(r.size, A) \in Nat \ {0}
    BY <1>0, RequiredPositive
  <2> HIDE DEF A
  <2>2. pages * PageSize \in Nat \ {0} /\ pages * PageSize >= RequiredSize(r.size, A)
    BY <2>1, WholePages
  <2> QED BY <2>2, NumbersAssumption
<1>3. Sized(block)
  BY <1>2 DEF Sized
<1>4. /\ rest \in Free /\ Sized(rest) /\ Sized(new)
      /\ Within(rest, block) /\ Within(new, block) /\ Apart(new, rest)
      /\ new.mgr = m /\ new.group = g /\ new.base % new.align = 0
  <2> HIDE DEF block
  <2> QED BY <1>2, <1>3, Cut
<1>5. /\ sections' = sections \cup {new} /\ DOMAIN rights' = DOMAIN rights \cup {block}
      /\ \A b \in DOMAIN rights : Apart(block, b)
      /\ free' = IF kept.size > Spare THEN [free EXCEPT ![m][g] = Append(@, kept)] ELSE free
  BY <1>1 DEF Answer, New
<1> HIDE DEF pages, block, addr, new, g, A
<1>6. Sized(kept) /\ kept \in Free /\ Within(kept, block) /\ Apart(new, kept)
  <2>1. kept.base = rest.base /\ kept.size = rest.size % UnsignedLimit
    BY DEF Region
  <2> HIDE DEF kept, rest
  <2>2. rest.base \in Nat /\ rest.size \in Nat /\ kept.size \in Nat /\ kept.size <= rest.size
    BY <1>4, <2>1, Remainder DEF Sized
  <2>3. Within(kept, rest) /\ Sized(kept)
    BY <2>1, <2>2 DEF Within, Sized
  <2>4. Within(kept, block)
    BY <1>3, <1>4, <2>3, Narrow
  <2>5. Apart(kept, new) /\ Apart(new, kept)
    BY <1>4, <2>1, <2>2 DEF Apart, Sized
  <2>6. kept \in Free
    BY <2>1, <2>2 DEF kept, Region, Free
  <2> QED BY <2>3, <2>4, <2>5, <2>6
<1> HIDE DEF kept, rest
<1>7. \A n \in Manager, h \in Group : \A j \in DOMAIN free'[n][h] :
          \/ j \in DOMAIN free[n][h] /\ free'[n][h][j] = free[n][h][j]
          \/ n = m /\ h = g /\ j = last /\ free'[n][h][j] = kept
  <2>1. free \in [Manager -> [Group -> Seq(Free)]]
    BY DEF Types
  <2>0. CASE ~(kept.size > Spare)
    BY <1>5, <2>0
  <2> SUFFICES ASSUME kept.size > Spare
               PROVE  \A n \in Manager, h \in Group : \A j \in DOMAIN free'[n][h] :
                         \/ j \in DOMAIN free[n][h] /\ free'[n][h][j] = free[n][h][j]
                         \/ n = m /\ h = g /\ j = last /\ free'[n][h][j] = kept
    BY <2>0
  <2>2. free' = [free EXCEPT ![m] = [free[m] EXCEPT ![g] = Append(free[m][g], kept)]]
    BY <1>5
  <2>3. \A n \in Manager, h \in Group :
           free'[n][h] = IF n = m /\ h = g THEN Append(free[m][g], kept) ELSE free[n][h]
    BY <1>0, <2>1, <2>2
  <2>4. free[m][g] \in Seq(Free)
    BY <1>0, <2>1
  <2>5. \A j \in DOMAIN Append(free[m][g], kept) :
           \/ j \in DOMAIN free[m][g] /\ Append(free[m][g], kept)[j] = free[m][g][j]
           \/ j = last /\ Append(free[m][g], kept)[j] = kept
    BY <1>6, <2>4
  <2> HIDE DEF last
  <2> SUFFICES ASSUME NEW n \in Manager, NEW h \in Group, NEW j \in DOMAIN free'[n][h]
               PROVE  \/ j \in DOMAIN free[n][h] /\ free'[n][h][j] = free[n][h][j]
                      \/ n = m /\ h = g /\ j = last /\ free'[n][h][j] = kept
    OBVIOUS
  <2>6. CASE n = m /\ h = g
    BY <2>3, <2>5, <2>6
  <2>7. CASE ~(n = m /\ h = g)
    BY <2>3, <2>7
  <2> QED BY <2>6, <2>7
<1> HIDE DEF last
<1>8. \A t \in sections : Sized(t) /\ t.mgr \in Manager /\ t.group \in Group
  BY DEF Types, Section, Sized
<1>9. \A b \in DOMAIN rights : Sized(b)
  BY DEF Types, Block, Sized
<1>10. \A x, n, h : Sized(x) /\ In(x, n, h) => Apart(x, block)
  <2> SUFFICES ASSUME NEW x, NEW n, NEW h, Sized(x), In(x, n, h) PROVE Apart(x, block)
    OBVIOUS
  <2>1. PICK b \in DOMAIN rights : Within(x, b)
    BY DEF In
  <2> QED BY <1>3, <1>5, <1>9, <2>1, Narrow
<1>11. \A t \in sections : Apart(t, block)
  BY <1>8, <1>10 DEF Layout, SectionsIn
<1>12. \A n \in Manager, h \in Group : \A j \in DOMAIN free[n][h] : Apart(free[n][h][j], block)
  BY <1>10, FreeSized DEF Layout, FreeIn
<1>13. \A x, n, h : In(x, n, h) => (In(x, n, h))'
  BY <1>5 DEF In
<1>14. (In(kept, m, g))' /\ (In(new, m, g))'
  BY <1>2, <1>4, <1>5, <1>6 DEF In
<1>15. BlocksApart'
  BY <1>3, <1>5, <1>9 DEF Layout, BlocksApart, Apart, Sized
<1>16. SectionsIn'
  BY <1>4, <1>5, <1>13, <1>14 DEF Layout, SectionsIn
<1>17. FreeIn'
  BY <1>7, <1>13, <1>14 DEF Layout, FreeIn
<1>18. \A t \in sections : Apart(t, new) /\ Apart(new, t) /\ Apart(t, kept)
  BY <1>3, <1>4, <1>6, <1>8, <1>11, Narrow
<1>19. Disjoint'
  BY <1>5, <1>18 DEF Layout, Disjoint
<1>20. \A n \in Manager, h \in Group : \A j \in DOMAIN free[n][h] :
           /\ Apart(free[n][h][j], kept) /\ Apart(kept, free[n][h][j])
           /\ Apart(new, free[n][h][j])
  <2> SUFFICES ASSUME NEW n \in Manager, NEW h \in Group, NEW j \in DOMAIN free[n][h]
               PROVE  /\ Apart(free[n][h][j], kept) /\ Apart(kept, free[n][h][j])
                      /\ Apart(new, free[n][h][j])
    OBVIOUS
  <2> DEFINE y == free[n][h][j]
  <2>1. Sized(y) /\ Apart(y, block)
    BY <1>12, FreeSized
  <2> HIDE DEF y
  <2> QED BY <1>3, <1>4, <1>6, <2>1, Narrow DEF y
<1>21. FreeApart'
  BY <1>7, <1>20 DEF Layout, FreeApart
<1>22. Unused'
  <2> SUFFICES ASSUME NEW t \in sections', NEW h \in Group, NEW j \in DOMAIN free'[t.mgr][h]
               PROVE  Apart(t, free'[t.mgr][h][j])
    BY DEF Unused
  <2>1. t.mgr \in Manager
    BY <1>4, <1>5, <1>8
  <2>2. CASE free'[t.mgr][h][j] = kept
    BY <1>5, <1>6, <1>18, <2>2
  <2>3. CASE j \in DOMAIN free[t.mgr][h] /\ free'[t.mgr][h][j] = free[t.mgr][h][j]
    <3>1. CASE t = new
      BY <1>20, <2>1, <2>3, <3>1
    <3>2. CASE t \in sections
      BY <2>1, <2>3, <3>2 DEF Layout, Unused
    <3> QED BY <1>5, <3>1, <3>2
  <2> QED BY <1>7, <2>1, <2>2, <2>3
<1> QED BY <1>15, <1>16, <1>17, <1>19, <1>21, <1>22 DEF Layout

\* The other actions hand nothing out; free regions may go.
LEMMA LayoutKept ==
    ASSUME Types, Layout, DOMAIN rights' = DOMAIN rights, sections' = sections,
           \A n \in Manager, h \in Group : free'[n][h] = free[n][h] \/ free'[n][h] = <<>>
    PROVE  Layout'
<1>1. \A n \in Manager, h \in Group : \A j \in DOMAIN free'[n][h] :
          j \in DOMAIN free[n][h] /\ free'[n][h] = free[n][h]
  OBVIOUS
<1>2. \A s \in sections : s.mgr \in Manager
  BY DEF Types, Section
<1>3. BlocksApart' /\ SectionsIn' /\ Disjoint'
  BY DEF Layout, BlocksApart, SectionsIn, Disjoint, In
<1>4. FreeIn' /\ FreeApart'
  BY <1>1 DEF Layout, FreeIn, FreeApart, In
<1>5. Unused'
  BY <1>1, <1>2 DEF Layout, Unused
<1> QED BY <1>3, <1>4, <1>5 DEF Layout

-----------------------------------------------------------------------------
(* The actions *)

LEMMA CreateStep == ASSUME MMInv, NEW m \in Manager, Create(m) PROVE MMInv'
<1> USE DEF MMInv
<1>1. /\ status[m] = "none" /\ status' = [status EXCEPT ![m] = "open"]
      /\ UNCHANGED <<failed, rights, free, sections, stackmap, statepoint>>
  BY DEF Create
<1>2. Types'
  BY <1>1 DEF Types
<1>3. Layout'
  BY <1>1, LayoutKept
<1>4. \A n \in Manager : n # m => status'[n] = status[n]
  BY <1>1 DEF Types
<1>5. \A b \in DOMAIN rights : b.mgr \in Manager /\ b.mgr # m
  BY <1>1 DEF Types, Block, Rights
<1>6. \A s \in sections : s.mgr \in Manager /\ s.mgr # m
  BY <1>1, <1>5 DEF Types, Section, Layout, SectionsIn, In
<1>7. Rights'
  BY <1>1, <1>4, <1>5 DEF Rights, Types
<1>8. Maps'
  BY <1>1, <1>4, <1>6 DEF Maps
<1>9. Points'
  BY <1>1, <1>4, <1>6 DEF Points, Returns
<1> QED BY <1>2, <1>3, <1>7, <1>8, <1>9

\* A module has one stack map, and its code has no statepoints yet.
LEMMA AnswerStep ==
    ASSUME MMInv, NEW m \in Manager, NEW r \in Requests, NEW addr, Loads(m, r), Answer(m, r, addr),
           Types', Layout'
    PROVE  Maps' /\ Points'
<1> USE DEF MMInv
<1> DEFINE new == New(m, r, addr)
<1>1. /\ sections' = sections \cup {new} /\ status' = status /\ statepoint' = statepoint
      /\ stackmap' = IF r.map THEN [stackmap EXCEPT ![m] = Region(addr, r.size)] ELSE stackmap
      /\ status[m] = "open" /\ (r.map => \A s \in sections : s.mgr = m => ~s.map)
  BY DEF Answer, New, Loads, Of
<1>2. new.mgr = m /\ new.map = r.map /\ new.base = addr /\ new.size = r.size
  BY DEF New
<1> HIDE DEF new
<1>3. \A n \in Manager : stackmap'[n] = IF r.map /\ n = m THEN Region(addr, r.size) ELSE stackmap[n]
  BY <1>1 DEF Types
<1>4. \A s \in sections : s.mgr \in Manager
  BY DEF Types, Section
<1>5. Maps'
  <2> SUFFICES ASSUME NEW t \in sections', t.map
               PROVE  /\ \A u \in sections' : u.map /\ u.mgr = t.mgr => u = t
                      /\ status[t.mgr] \in {"open", "finalized", "recorded"} =>
                            stackmap'[t.mgr] = Region(t.base, t.size)
    BY <1>1 DEF Maps
  <2>1. CASE t = new
    BY <1>1, <1>2, <1>3, <2>1
  <2>2. CASE t \in sections
    BY <1>1, <1>2, <1>3, <1>4, <2>2 DEF Maps
  <2> QED BY <1>1, <2>1, <2>2
<1>6. Points'
  BY <1>1, <1>2 DEF Points, Returns
<1> QED BY <1>5, <1>6

LEMMA ReuseStep == ASSUME MMInv, NEW m \in Manager, NEW r \in Requests, Reuse(m, r) PROVE MMInv'
<1> USE DEF MMInv
<1>1. Layout'
  BY ReuseLayout
<1>2. r.group \in Group /\ GroupOf(r) = r.group /\ r.size \in Nat \ {0} /\ r.map \in BOOLEAN
      /\ Alignment(r) \in Nat \ {0}
  BY Requested
<1>3. PICK i \in Fits(m, r) :
        LET region == free[m][r.group][i]
            addr == AlignedAddr(region.base, Alignment(r))
        IN  /\ free' = [free EXCEPT ![m][r.group][i] = Rest(addr, r.size, region.base + region.size)]
            /\ Answer(m, r, addr)
  BY <1>2 DEF Reuse
<1> DEFINE region == free[m][r.group][i]
           addr == AlignedAddr(region.base, Alignment(r))
           rest == Rest(addr, r.size, region.base + region.size)
<1>4. i \in DOMAIN free[m][r.group] /\ region.size >= RequiredSize(r.size, Alignment(r))
  BY <1>2 DEF Fits
<1>5. Sized(region) /\ region.base # 0
  <2>1. Sized(region) /\ In(region, m, r.group)
    BY <1>2, <1>4, FreeSized DEF Layout, FreeIn
  <2> HIDE DEF region
  <2> QED BY <2>1 DEF In, Within, Sized, Types, Block
<1>6. /\ free' = [free EXCEPT ![m][r.group][i] = rest] /\ Answer(m, r, addr)
      /\ rights' = rights /\ Loads(m, r)
  BY <1>3 DEF Reuse
<1> HIDE DEF region
<1>7. rest \in Free /\ addr \in Nat \ {0}
  BY <1>4, <1>5, Cut DEF Sized
<1>8. New(m, r, addr) \in Section /\ Region(addr, r.size) \in Free
  BY <1>2, <1>7 DEF New, Section, Region, Free
<1> HIDE DEF addr, rest
<1>9. Types'
  <2>1. free' \in [Manager -> [Group -> Seq(Free)]]
    BY <1>2, <1>4, <1>6, <1>7 DEF Types
  <2>2. /\ sections' = sections \cup {New(m, r, addr)} /\ status' = status /\ failed' = failed
        /\ stackmap' = IF r.map THEN [stackmap EXCEPT ![m] = Region(addr, r.size)] ELSE stackmap
    BY <1>6 DEF Answer, New
  <2> QED BY <1>6, <1>8, <2>1, <2>2 DEF Types
<1>10. Rights'
  BY <1>6 DEF Rights, Answer
<1>11. Maps' /\ Points'
  BY <1>1, <1>6, <1>9, AnswerStep
<1> QED BY <1>1, <1>9, <1>10, <1>11

LEMMA MapStep == ASSUME MMInv, NEW m \in Manager, NEW r \in Requests, Map(m, r) PROVE MMInv'
<1> USE DEF MMInv
<1> DEFINE g == r.group
           A == Alignment(r)
           pages == (RequiredSize(r.size, A) + PageSize - 1) \div PageSize
<1>1. Layout'
  BY MapLayout
<1>2. g \in Group /\ GroupOf(r) = g /\ r.size \in Nat \ {0} /\ r.map \in BOOLEAN /\ A \in Nat \ {0}
  BY Requested
<1>3. PICK base \in Base :
        LET block == [base |-> base, size |-> pages * PageSize, mgr |-> m, group |-> g]
            addr == AlignedAddr(base, A)
            rest == Rest(addr, r.size, base + block.size)
            kept == Region(rest.base, rest.size % UnsignedLimit)
        IN  /\ rights' = [b \in DOMAIN rights \cup {block} |->
                             IF b = block THEN {"read", "write"} ELSE rights[b]]
            /\ free' = IF kept.size > Spare THEN [free EXCEPT ![m][g] = Append(@, kept)] ELSE free
            /\ Answer(m, r, addr)
  BY <1>2 DEF Map
<1> DEFINE block == [base |-> base, size |-> pages * PageSize, mgr |-> m, group |-> g]
           addr == AlignedAddr(block.base, A)
           rest == Rest(addr, r.size, block.base + block.size)
           kept == Region(rest.base, rest.size % UnsignedLimit)
<1>4. /\ block.size \in Nat \ {0} /\ block.size >= RequiredSize(r.size, A)
      /\ block.base \in Nat \ {0} /\ block.mgr = m /\ block.group = g /\ block.base = base
      /\ block \in Block
  <2>1. RequiredSize(r.size, A) \in Nat \ {0}
    BY <1>2, RequiredPositive
  <2> HIDE DEF A
  <2>2. pages * PageSize \in Nat \ {0} /\ pages * PageSize >= RequiredSize(r.size, A)
    BY <2>1, WholePages
  <2> HIDE DEF pages
  <2> QED BY <1>2, <2>2, NumbersAssumption DEF Block
<1>5. /\ rights' = [b \in DOMAIN rights \cup {block} |->
                       IF b = block THEN {"read", "write"} ELSE rights[b]]
      /\ free' = IF kept.size > Spare THEN [free EXCEPT ![m][g] = Append(@, kept)] ELSE free
      /\ Answer(m, r, addr) /\ Loads(m, r)
  BY <1>3 DEF Map
<1> HIDE DEF pages, block
<1>6. addr \in Nat \ {0} /\ rest \in Free
  BY <1>4, Cut DEF Sized
<1>7. New(m, r, addr) \in Section /\ Region(addr, r.size) \in Free
  BY <1>2, <1>6 DEF New, Section, Region, Free
<1> HIDE DEF addr, rest, A
<1>8. kept \in Free
  BY <1>6, Remainder DEF Region, Free
<1> HIDE DEF kept
<1>9. Types'
  <2>1. free' \in [Manager -> [Group -> Seq(Free)]]
    BY <1>2, <1>5, <1>8 DEF Types
  <2>2. /\ sections' = sections \cup {New(m, r, addr)} /\ status' = status /\ failed' = failed
        /\ stackmap' = IF r.map THEN [stackmap EXCEPT ![m] = Region(addr, r.size)] ELSE stackmap
    BY <1>5 DEF Answer, New
  <2>3. stackmap' \in [Manager -> Free]
    BY <1>7, <2>2 DEF Types
  <2>4. DOMAIN rights' \subseteq Block /\ \A b \in DOMAIN rights' : rights'[b] \subseteq CodeRights
    BY <1>4, <1>5 DEF Types, CodeRights
  <2> QED BY <1>7, <2>1, <2>2, <2>3, <2>4 DEF Types
<1>10. Rights'
  <2>1. status[m] = "open" /\ status' = status /\ failed' = failed
    BY <1>5 DEF Loads, Answer
  <2>2. \A b \in DOMAIN rights' :
           \/ b \in DOMAIN rights /\ rights'[b] = rights[b]
           \/ b.mgr = m /\ rights'[b] = {"read", "write"}
    BY <1>4, <1>5
  <2> QED BY <2>1, <2>2 DEF Rights
<1>11. Maps' /\ Points'
  BY <1>1, <1>5, <1>9, AnswerStep
<1> QED BY <1>1, <1>9, <1>10, <1>11

LEMMA FailStep == ASSUME MMInv, NEW m \in Manager, NEW r \in Requests, Fail(m, r) PROVE MMInv'
<1> USE DEF MMInv
<1>1. /\ status[m] = "open" /\ status' = [status EXCEPT ![m] = "stopped"]
      /\ stackmap' = IF r.map THEN [stackmap EXCEPT ![m] = NullMap] ELSE stackmap
      /\ UNCHANGED <<failed, rights, free, sections, statepoint>>
  BY DEF Fail, Loads
<1>2. Types'
  <2>1. NullMap \in Free
    BY DEF NullMap, Region, Free
  <2> QED BY <1>1, <2>1 DEF Types
<1>3. Layout'
  BY <1>1, LayoutKept
<1>4. \A n \in Manager : status'[n] = IF n = m THEN "stopped" ELSE status[n]
  BY <1>1 DEF Types
<1>5. \A n \in Manager : n # m => stackmap'[n] = stackmap[n]
  BY <1>1 DEF Types
<1>6. \A s \in sections : s.mgr \in Manager
  BY DEF Types, Section
<1>7. \A b \in DOMAIN rights : b.mgr \in Manager
  BY DEF Types, Block
<1>8. Rights'
  <2>1. m \notin failed
    BY <1>1 DEF Rights
  <2> QED BY <1>1, <1>4, <1>7, <2>1 DEF Rights, Types
<1>9. Maps'
  BY <1>1, <1>4, <1>5, <1>6 DEF Maps
<1>10. Points'
  BY <1>1, <1>4, <1>6 DEF Points, Returns
<1> QED BY <1>2, <1>3, <1>8, <1>9, <1>10

LEMMA FinalizeStep == ASSUME MMInv, NEW m \in Manager, FinalizeMemory(m) PROVE MMInv'
<1> USE DEF MMInv
<1>1. PICK code \in SUBSET Blocks(m, "code"), data \in SUBSET Blocks(m, "ro") :
          LET codeDone == code = Blocks(m, "code")
              dataDone == data = Blocks(m, "ro")
          IN  /\ ~codeDone => data = {}
              /\ rights' = [b \in DOMAIN rights |->
                    IF b \in code THEN CodeRights ELSE IF b \in data THEN DataRights ELSE rights[b]]
              /\ free' = [free EXCEPT ![m] =
                    [h \in Group |-> IF h = "code" \/ (h = "ro" /\ codeDone) THEN <<>> ELSE @[h]]]
              /\ failed' = IF codeDone /\ dataDone THEN failed ELSE failed \cup {m}
  BY DEF FinalizeMemory
<1>2. /\ status[m] = "open" /\ status' = [status EXCEPT ![m] = "finalized"]
      /\ UNCHANGED <<sections, stackmap, statepoint>>
  BY DEF FinalizeMemory
<1>3. \A n \in Manager, h \in Group : free'[n][h] = free[n][h] \/ free'[n][h] = <<>>
  BY <1>1 DEF Types
<1>4. free' \in [Manager -> [Group -> Seq(Free)]]
  <2>1. \A n \in Manager : free'[n] \in [Group -> Seq(Free)]
    BY <1>1 DEF Types
  <2>2. free' = [n \in Manager |-> free'[n]]
    BY <1>1 DEF Types
  <2> QED BY <2>1, <2>2
<1>5. /\ DOMAIN rights' = DOMAIN rights
      /\ \A b \in DOMAIN rights :
            /\ b \in code => b.mgr = m /\ b.group = "code" /\ rights'[b] = CodeRights
            /\ b \in data => b.mgr = m /\ b.group = "ro" /\ rights'[b] = DataRights
            /\ b \notin code /\ b \notin data => rights'[b] = rights[b]
  BY <1>1 DEF Blocks
<1>6. /\ failed' = failed \/ failed' = failed \cup {m}
      /\ m \notin failed' => \A b \in DOMAIN rights : b.mgr = m =>
            (b.group = "code" => b \in code) /\ (b.group = "ro" => b \in data)
  BY <1>1 DEF Blocks
<1>7. Types'
  <2>1. DOMAIN rights' \subseteq Block /\ \A b \in DOMAIN rights' : rights'[b] \subseteq CodeRights
    BY <1>5 DEF Types, CodeRights, DataRights
  <2> QED BY <1>2, <1>4, <1>6, <2>1 DEF Types
<1>8. Layout'
  BY <1>2, <1>3, <1>5, LayoutKept
<1>9. \A n \in Manager : status'[n] = IF n = m THEN "finalized" ELSE status[n]
  BY <1>2 DEF Types
<1>10. \A s \in sections : s.mgr \in Manager
  BY DEF Types, Section
<1>11. \A b \in DOMAIN rights : b.mgr \in Manager
  BY DEF Types, Block
<1>12. Rights'
  <2>1. \A n \in failed' : status'[n] \in {"finalized", "recorded", "deleted"}
    BY <1>6, <1>9 DEF Rights, Types
  <2>2. ASSUME NEW b \in DOMAIN rights, b.mgr = m
        PROVE  /\ status'[m] = "finalized" /\ "read" \in rights'[b]
               /\ b.group = "rw" => "write" \in rights'[b]
               /\ m \notin failed' =>
                    /\ b.group = "code" => {"write", "exec"} \subseteq rights'[b]
                    /\ b.group = "ro" => "write" \notin rights'[b]
    BY <1>5, <1>6, <1>9, <2>2 DEF Rights, CodeRights, DataRights
  <2>3. ASSUME NEW b \in DOMAIN rights, b.mgr # m
        PROVE  rights'[b] = rights[b] /\ status'[b.mgr] = status[b.mgr]
               /\ (b.mgr \in failed' <=> b.mgr \in failed)
    BY <1>5, <1>6, <1>9, <1>11, <2>3
  <2> QED BY <1>5, <2>1, <2>2, <2>3 DEF Rights
<1>13. Maps'
  BY <1>2, <1>9, <1>10 DEF Maps
<1>14. Points'
  BY <1>2, <1>9, <1>10 DEF Points, Returns
<1> QED BY <1>7, <1>8, <1>12, <1>13, <1>14

\* An address belongs to the code of one section.
LEMMA OneReturn ==
    ASSUME Types, Layout, NEW s \in sections, NEW t \in sections, NEW pc \in Returns(s), pc \in Returns(t)
    PROVE  s = t
<1>1. s.base \in Nat /\ s.size \in Nat /\ t.base \in Nat /\ t.size \in Nat
  BY DEF Types, Section
<1>2. s = t \/ Apart(s, t)
  BY DEF Layout, Disjoint
<1>3. pc \in Int /\ s.base < pc /\ pc < s.base + s.size /\ t.base < pc /\ pc < t.base + t.size
  BY <1>1 DEF Returns
<1> QED BY <1>1, <1>2, <1>3 DEF Apart

LEMMA RecordStep == ASSUME MMInv, NEW m \in Manager, RecordStackmaps(m) PROVE MMInv'
<1> USE DEF MMInv
<1> DEFINE code == {s \in Of(m) : HasMap(m) /\ s.group = "code"}
           pcs == UNION {Returns(s) : s \in code}
           Where(pc) == CHOOSE s \in code : pc \in Returns(s)
<1>1. /\ status[m] = "finalized" /\ status' = [status EXCEPT ![m] = "recorded"]
      /\ UNCHANGED <<failed, rights, free, sections, stackmap>>
      /\ statepoint' = [pc \in DOMAIN statepoint \cup pcs |->
              IF pc \in DOMAIN statepoint THEN statepoint[pc] ELSE Record_(m, Where(pc))]
  BY DEF RecordStackmaps
<1>2. Types'
  BY <1>1 DEF Types
<1>3. Layout'
  BY <1>1, LayoutKept
<1>4. \A n \in Manager : status'[n] = IF n = m THEN "recorded" ELSE status[n]
  BY <1>1 DEF Types
<1>5. \A s \in sections : s.mgr \in Manager
  BY DEF Types, Section
<1>6. \A b \in DOMAIN rights : b.mgr \in Manager
  BY DEF Types, Block
<1>7. Rights'
  BY <1>1, <1>4, <1>6 DEF Rights, Types
<1>8. Maps'
  BY <1>1, <1>4, <1>5 DEF Maps
<1>9. code = {s \in sections : s.mgr = m /\ stackmap[m] # NullMap /\ s.group = "code"}
  BY DEF Of, HasMap
<1>10. ASSUME NEW s \in code, NEW pc \in Returns(s)
       PROVE  /\ pc \in pcs /\ Where(pc) = s /\ pc \notin DOMAIN statepoint
  <2>1. pc \in pcs
    OBVIOUS
  <2>2. Where(pc) \in code /\ pc \in Returns(Where(pc))
    OBVIOUS
  <2> HIDE DEF pcs, Where, code
  <2>3. Where(pc) = s
    BY <1>9, <2>2, OneReturn
  <2>4. ASSUME pc \in DOMAIN statepoint PROVE FALSE
    <3>1. PICK t \in sections : status[t.mgr] \in {"recorded", "deleted"} /\ pc \in Returns(t)
      BY <2>4 DEF Points
    <3>2. t = s
      BY <1>9, <3>1, OneReturn
    <3> QED BY <1>1, <1>9, <3>1, <3>2
  <2> QED BY <2>1, <2>3, <2>4
<1>11. \A pc \in pcs : \E s \in code : pc \in Returns(s)
  OBVIOUS
<1> HIDE DEF code, pcs, Where
<1>12. \A pc \in DOMAIN statepoint' :
          /\ statepoint'[pc].map # NullMap
          /\ \E s \in sections : /\ s.group = "code" /\ status'[s.mgr] \in {"recorded", "deleted"}
                                 /\ pc \in Returns(s)
  <2> SUFFICES ASSUME NEW pc \in DOMAIN statepoint'
               PROVE  /\ statepoint'[pc].map # NullMap
                      /\ \E s \in sections : /\ s.group = "code" /\ status'[s.mgr] \in {"recorded", "deleted"}
                                             /\ pc \in Returns(s)
    OBVIOUS
  <2>1. CASE pc \in DOMAIN statepoint
    BY <1>1, <1>4, <1>5, <2>1 DEF Points
  <2>2. CASE pc \in pcs
    <3>1. PICK s \in code : pc \in Returns(s)
      BY <1>11, <2>2
    <3>2. statepoint'[pc] = Record_(m, s)
      BY <1>1, <1>10, <3>1
    <3> QED BY <1>4, <1>9, <3>1, <3>2 DEF Record_
  <2> QED BY <1>1, <2>1, <2>2
<1>13. ASSUME NEW s \in sections, NEW t \in sections, NEW pc \in Returns(s),
              s.group = "code", t.map, s.mgr = t.mgr, status'[s.mgr] \in {"recorded", "deleted"}
       PROVE  /\ pc \in DOMAIN statepoint'
              /\ statepoint'[pc] = [fun |-> s.base, map |-> Region(t.base, t.size)]
  <2>1. CASE s.mgr # m
    BY <1>1, <1>4, <1>5, <1>13, <2>1 DEF Points
  <2>2. CASE s.mgr = m
    <3>1. stackmap[m] = Region(t.base, t.size)
      BY <1>1, <1>13, <2>2 DEF Maps
    <3>2. t.base \in Nat \ {0}
      BY DEF Types, Section
    <3>3. stackmap[m] # NullMap
      BY <3>1, <3>2 DEF NullMap, Region
    <3>4. s \in code
      BY <1>9, <1>13, <2>2, <3>3
    <3>5. pc \in pcs /\ pc \notin DOMAIN statepoint /\ Where(pc) = s
      BY <1>10, <3>4
    <3> QED BY <1>1, <3>1, <3>5 DEF Record_
  <2> QED BY <2>1, <2>2
<1>14. sections' = sections
  BY <1>1
<1> HIDE DEF MMInv
<1>15. Points'
  BY <1>12, <1>13, <1>14 DEF Points
<1> QED BY <1>2, <1>3, <1>7, <1>8, <1>15 DEF MMInv

LEMMA DeleteStep == ASSUME MMInv, NEW m \in Manager, Delete(m) PROVE MMInv'
<1> USE DEF MMInv
<1>1. /\ status[m] = "recorded" /\ status' = [status EXCEPT ![m] = "deleted"]
      /\ free' = [free EXCEPT ![m] = NoFree] /\ stackmap' = [stackmap EXCEPT ![m] = NullMap]
      /\ rights' = [b \in DOMAIN rights |-> rights[b]]
      /\ UNCHANGED <<failed, sections, statepoint>>
  BY DEF Delete, Released
<1>2. NoFree \in [Group -> Seq(Free)] /\ NullMap \in Free /\ \A h \in Group : NoFree[h] = <<>>
  BY DEF NoFree, NullMap, Region, Free
<1>3. Types'
  BY <1>1, <1>2 DEF Types
<1>4. Layout'
  <2>1. \A n \in Manager, h \in Group : free'[n][h] = free[n][h] \/ free'[n][h] = <<>>
    BY <1>1, <1>2 DEF Types
  <2> QED BY <1>1, <2>1, LayoutKept
<1>5. \A n \in Manager : status'[n] = IF n = m THEN "deleted" ELSE status[n]
  BY <1>1 DEF Types
<1>6. \A s \in sections : s.mgr \in Manager
  BY DEF Types, Section
<1>7. \A b \in DOMAIN rights : b.mgr \in Manager
  BY DEF Types, Block
<1>8. Rights'
  BY <1>1, <1>5, <1>7 DEF Rights, Types
<1>9. \A n \in Manager : n # m => stackmap'[n] = stackmap[n]
  BY <1>1 DEF Types
<1>10. Maps'
  BY <1>1, <1>5, <1>6, <1>9 DEF Maps
<1>11. Points'
  BY <1>1, <1>5, <1>6 DEF Points, Returns
<1> QED BY <1>3, <1>4, <1>8, <1>10, <1>11

LEMMA StutterStep == ASSUME MMInv, UNCHANGED vars PROVE MMInv'
<1>1. /\ status' = status /\ failed' = failed /\ rights' = rights /\ free' = free
      /\ sections' = sections /\ stackmap' = stackmap /\ statepoint' = statepoint
  BY DEF vars
<1>2. Layout'
  BY <1>1 DEF MMInv, Layout, BlocksApart, SectionsIn, FreeIn, Disjoint, FreeApart, Unused, In
<1>3. Rights' /\ Maps' /\ Points' /\ Types'
  BY <1>1 DEF MMInv, Rights, Maps, Points, Types, Returns
<1> QED BY <1>2, <1>3 DEF MMInv

LEMMA MMInvAlways == Spec => []MMInv
<1>1. MMInv /\ [Next]_vars => MMInv'
  BY CreateStep, ReuseStep, MapStep, FailStep, FinalizeStep, RecordStep, DeleteStep, StutterStep
     DEF Next
<1> QED BY MMInvInit, <1>1, PTL DEF Spec

-----------------------------------------------------------------------------
(* The theorems *)

\* Sections and regions have sizes, whatever is asked for and mapped.
THEOREM MemoryType == Spec => []MMTypeOK
<1>1. MMInv => MMTypeOK
  <2> SUFFICES ASSUME MMInv PROVE MMTypeOK
    OBVIOUS
  <2>1. \A m \in Manager, g \in Group : \A i \in DOMAIN free[m][g] :
            free[m][g][i].base \in Nat /\ free[m][g][i].size \in Nat
    BY FreeSized DEF MMInv, Sized
  <2>2. \A pc \in DOMAIN statepoint : pc \in Nat \ {0} /\ statepoint[pc].map # NullMap
    <3>1. ASSUME NEW s \in sections, NEW pc \in Returns(s) PROVE pc \in Nat \ {0}
      BY DEF MMInv, Types, Section, Returns
    <3> QED BY <3>1 DEF MMInv, Points
  <2> QED BY <2>1, <2>2 DEF MMInv, MMTypeOK, Types, Block, Section
<1> QED BY MMInvAlways, <1>1, PTL

\* No byte is handed out twice, in all the time that the program runs.
THEOREM MemoryApart == Spec => []SectionsApart
<1>1. MMInv => SectionsApart
  BY DEF MMInv, SectionsApart, Layout, SectionsIn, In, Disjoint, Unused
<1> QED BY MMInvAlways, <1>1, PTL

\* What a section may be used for, whatever shares its pages.
THEOREM MemoryRights == Spec => []RightsMatch
<1>1. MMInv => RightsMatch
  <2> SUFFICES ASSUME MMInv, NEW s \in sections
               PROVE  \E b \in DOMAIN rights :
                        /\ Within(s, b) /\ "read" \in rights[b]
                        /\ s.group = "rw" \/ status[s.mgr] \in {"open", "stopped"} => "write" \in rights[b]
                        /\ status[s.mgr] \in {"finalized", "recorded", "deleted"} /\ s.mgr \notin failed =>
                              /\ s.group = "code" => {"write", "exec"} \subseteq rights[b]
                              /\ s.group = "ro" => "write" \notin rights[b]
    BY DEF RightsMatch
  <2>1. PICK b \in DOMAIN rights : b.mgr = s.mgr /\ b.group = s.group /\ Within(s, b)
    BY DEF MMInv, Layout, SectionsIn, In
  <2> QED BY <2>1 DEF MMInv, Rights
<1> QED BY MMInvAlways, <1>1, PTL

\* The scan finds the record of the code that it looks for, in a stack map that
\* is still there.
THEOREM MemoryStatepoints == Spec => []StatepointsOwn
<1>1. MMInv => StatepointsOwn
  <2> SUFFICES ASSUME MMInv, NEW s \in sections, NEW t \in sections,
                      s.group = "code", t.map, s.mgr = t.mgr, status[s.mgr] \in {"recorded", "deleted"}
               PROVE  /\ \A pc \in Returns(s) :
                            /\ pc \in DOMAIN statepoint
                            /\ statepoint[pc] = [fun |-> s.base, map |-> Region(t.base, t.size)]
                      /\ \E b \in DOMAIN rights : Within(t, b) /\ "read" \in rights[b]
    BY DEF StatepointsOwn
  <2>1. \E b \in DOMAIN rights : Within(t, b) /\ "read" \in rights[b]
    BY DEF MMInv, Layout, SectionsIn, In, Rights
  <2> QED BY <2>1 DEF MMInv, Points
<1> QED BY MMInvAlways, <1>1, PTL
=============================================================================
