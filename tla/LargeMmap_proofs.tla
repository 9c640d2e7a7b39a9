-------------------------- MODULE LargeMmap_proofs --------------------------
(***************************************************************************)
(* Proofs about LargeMmap: chunks_ lists what the program holds, headers   *)
(* know their places, blocks stay apart, whatever holes are mapped again.  *)
(***************************************************************************)
EXTENDS LargeMmap, FiniteSetTheorems, SequenceTheorems, TLAPS

----------------------------------------------------------------------------
(* The inductive invariant.                                                *)

(* The pages of a chunk the program holds, and of a thread's operation.    *)
Block(h)  == Span(header[h].beg, header[h].pages)
OpSpan(t) == Span(op[t].beg, op[t].pages)
Owns(t)   == op[t].pc \in {"mapped", "headed"}

(* A free between munmap and the fixed mapping has the mutex.              *)
Holder == \A t \in Thread : op[t].pc = "unmapped" <=> mutex = t

(* chunks_ has every chunk once, and its header says where.                *)
Listed == 
  /\ \A i, j \in DOMAIN chunks : chunks[i] = chunks[j] => i = j
  /\ Elements(chunks) = live
Indexed == 
  \A i \in DOMAIN chunks : chunks[i] \in DOMAIN header /\ header[chunks[i]].idx = i
SortedSo == 
  sorted => \A i, j \in DOMAIN chunks : i < j => chunks[i] < chunks[j]

(* The header and the user's bytes lie in the pages of the chunk.          *)
Within(at, beg, pages, size) == 
  beg <= at /\ at + size < beg + pages /\ Span(beg, pages) \subseteq Page
Placed ==
  /\ \A h \in live : Within(h, header[h].beg, header[h].pages, header[h].size)
  /\ \A t \in Thread : op[t].pc # "idle" => 
       Within(op[t].at, op[t].beg, op[t].pages, op[t].size)
Mapped ==
  /\ \A h \in live : Block(h) \subseteq DOMAIN access
  /\ \A t \in Thread : Owns(t) => OpSpan(t) \subseteq DOMAIN access

(* A header that was written is there as long as its page can be accessed. *)
Headed == 
  \A t \in Thread : op[t].pc = "headed" /\ Writable(op[t].at) =>
    /\ op[t].at \in DOMAIN header
    /\ header[op[t].at] = 
         [beg |-> op[t].beg, pages |-> op[t].pages, size |-> op[t].size, idx |-> 0]

(* No page is in two chunks, nor in a chunk and in an operation, whose     *)
(* pages only a free's hole may share.                                     *)
Apart ==
  /\ \A g, h \in live : g # h => Block(g) \cap Block(h) = {}
  /\ \A h \in live, t \in Thread : op[t].pc # "idle" => Block(h) \cap OpSpan(t) = {}
  /\ \A t, u \in Thread : t # u /\ Owns(t) /\ Owns(u) => OpSpan(t) \cap OpSpan(u) = {}

(* The pages of sets of chunks add up, for all chunks to allocated.        *)
Measure(F, S) ==
  /\ F \in [SUBSET S -> Nat] /\ F[{}] = 0
  /\ \A T \in SUBSET S : \A x \in S \ T : F[T \cup {x}] = header[x].pages + F[T]
Counted == \E F : Measure(F, live) /\ F[live] = allocated

LargeInv ==
  /\ TypeOK /\ Holder /\ Listed /\ Indexed /\ SortedSo
  /\ Placed /\ Mapped /\ Headed /\ Apart /\ Counted

----------------------------------------------------------------------------
(* Sums.                                                                   *)

(* The sum over a finite set is what any measure says of it.               *)
LEMMA SumIsMeasure ==
  ASSUME NEW S, IsFiniteSet(S), NEW F, Measure(F, S)
  PROVE  MapThenSumSet(LAMBDA h : header[h].pages, S) = F[S]
<1> DEFINE pick(s) == CHOOSE x \in s : TRUE
           Body(f) == [s \in SUBSET S |-> IF s = {} THEN 0 
                         ELSE header[pick(s)].pages + f[s \ {pick(s)}]]
           iter == CHOOSE f : f = Body(f)
<1>1. MapThenSumSet(LAMBDA h : header[h].pages, S) = iter[S]
  BY Zenon DEF MapThenSumSet, MapThenFoldSet
<1>2. \A s \in SUBSET S : s # {} => pick(s) \in s
  BY Zenon
<1>3. /\ F \in [SUBSET S -> Nat] /\ F[{}] = 0
      /\ \A T \in SUBSET S : \A x \in S \ T : F[T \cup {x}] = header[x].pages + F[T]
  BY DEF Measure
<1> HIDE DEF pick
<1>4. ASSUME NEW s \in SUBSET S, s # {}
      PROVE  F[s] = header[pick(s)].pages + F[s \ {pick(s)}]
  <2> DEFINE x == pick(s)
             r == s \ {x}
  <2>1. x \in s /\ r \in SUBSET S /\ x \in S \ r /\ r \cup {x} = s
    BY <1>2, <1>4
  <2>2. F[r \cup {x}] = header[x].pages + F[r]
    BY <1>3, <2>1
  <2> QED BY <2>1, <2>2
<1>5. F = Body(F)
  BY <1>3, <1>4
<1>6. iter = Body(iter)
  <2> HIDE DEF Body
  <2> QED BY <1>5
<1>7. \A s \in SUBSET S : 
        iter[s] = IF s = {} THEN 0 ELSE header[pick(s)].pages + iter[s \ {pick(s)}]
  <2> HIDE DEF iter
  <2> QED BY <1>6
<1> HIDE DEF iter, Body
<1> DEFINE Wrong == {s \in SUBSET S : iter[s] # F[s]}
<1>8. CASE Wrong = {}
  BY <1>1, <1>8
<1>9. CASE Wrong # {}
  <2>1. IsWellFoundedOn(StrictSubsetOrdering(S), SUBSET S)
    BY FS_StrictSubsetOrderingWellFounded, FS_FiniteSubsetsOfFinite
  <2>2. Wrong \subseteq SUBSET S
    OBVIOUS
  <2> HIDE DEF Wrong
  <2>3. PICK s \in Wrong : \A r \in Wrong : <<r, s>> \notin StrictSubsetOrdering(S)
    BY <1>9, <2>1, <2>2, WFMin
  <2> USE DEF Wrong
  <2>4. s # {}
    BY <1>3, <1>7, <2>2
  <2> DEFINE r == s \ {pick(s)}
  <2>5. r \in SUBSET S /\ r \subseteq s /\ r # s /\ s \in SUBSET S
    BY <1>2, <2>2, <2>4
  <2>6. <<r, s>> \in StrictSubsetOrdering(S)
    <3> HIDE DEF r
    <3> QED BY <2>5 DEF StrictSubsetOrdering
  <2>7. iter[r] = F[r]
    BY <2>3, <2>5, <2>6
  <2> QED BY <1>4, <1>7, <2>3, <2>4, <2>5, <2>7
<1> QED BY <1>8, <1>9

----------------------------------------------------------------------------
(* Sorting.                                                                *)

OneToOne(s) == \A i, j \in DOMAIN s : s[i] = s[j] => i = j
Increasing(s) == \A i, j \in DOMAIN s : i < j => s[i] < s[j]

(* A sequence without repetitions has as many elements as places.          *)
LEMMA ElementsCount ==
  ASSUME NEW s \in Seq(Page), OneToOne(s)
  PROVE  IsFiniteSet(Elements(s)) /\ Cardinality(Elements(s)) = Len(s)
<1> DEFINE D == 1..Len(s)
           E == Elements(s)
           f == [i \in D |-> s[i]]
<1>1. Len(s) \in Nat /\ DOMAIN s = D
  OBVIOUS
<1>2. f \in [D -> E] /\ (\A i, j \in D : f[i] = f[j] => i = j) /\ \A e \in E : \E i \in D : f[i] = e
  BY <1>1 DEF OneToOne, Elements
<1>3. f \in Bijection(D, E)
  BY <1>2 DEF Bijection, Injection, Surjection, IsInjective
<1>4. ExistsBijection(D, E)
  BY <1>3 DEF ExistsBijection
<1> HIDE DEF D, E, f
<1>5. IsFiniteSet(D) /\ Cardinality(D) = Len(s)
  <2>1. IsFiniteSet(1..Len(s)) /\ Cardinality(1..Len(s)) = IF 1 > Len(s) THEN 0 ELSE Len(s) - 1 + 1
    BY <1>1, FS_Interval
  <2>2. Cardinality(1..Len(s)) = Len(s)
    BY <1>1, <2>1
  <2> QED BY <2>1, <2>2 DEF D
<1>6. IsFiniteSet(E) /\ Cardinality(E) = Len(s)
  BY <1>4, <1>5, FS_Bijection
<1> QED BY <1>6 DEF E

(* InOrder sorts: the i-th place has the element with i - 1 smaller ones.  *)
LEMMA InOrderSorts ==
  ASSUME NEW s \in Seq(Page), OneToOne(s)
  PROVE  /\ InOrder(s) \in Seq(Page) /\ Len(InOrder(s)) = Len(s)
         /\ DOMAIN InOrder(s) = 1..Len(s)
         /\ Elements(InOrder(s)) = Elements(s)
         /\ OneToOne(InOrder(s)) /\ Increasing(InOrder(s))
<1> DEFINE E == Elements(s)
           n == Len(s)
           below(h) == {g \in E : g < h}
           rank(h) == Cardinality(below(h))
           ranks == [h \in E |-> rank(h)]
<1>1. n \in Nat
  OBVIOUS
<1>2. IsFiniteSet(E) /\ Cardinality(E) = n
  BY ElementsCount
<1>3. E \subseteq Page /\ Page \subseteq Nat
  <2>1. Page \subseteq Nat
    BY LargeAssumption DEF Page
  <2>2. \A i \in DOMAIN s : s[i] \in Page
    BY ElementOfSeq
  <2> QED BY <2>1, <2>2 DEF Elements
<1> HIDE DEF E, n
<1>4. ASSUME NEW h \in E 
      PROVE  below(h) \subseteq E /\ IsFiniteSet(below(h)) /\ rank(h) \in Nat /\ rank(h) < n
  <2> DEFINE B == below(h)
  <2>1. B \in SUBSET E /\ B # E
    BY <1>3
  <2> HIDE DEF B
  <2>2. IsFiniteSet(B) /\ Cardinality(B) <= n /\ Cardinality(B) # n
    BY <1>2, <2>1, FS_Subset
  <2>3. Cardinality(B) \in Nat
    BY <2>2, FS_CardinalityType
  <2>4. Cardinality(B) < n
    BY <1>1, <2>2, <2>3
  <2> QED BY <2>1, <2>2, <2>3, <2>4 DEF B
<1>5. ASSUME NEW g \in E, NEW h \in E, g < h PROVE rank(g) < rank(h)
  <2> DEFINE A == below(g)
             B == below(h)
  <2> g \in Nat /\ h \in Nat /\ \A e \in E : e \in Nat
    BY <1>3
  <2>0. \A e \in E : e < g => e < h
    BY <1>5
  <2>1. A \in SUBSET B /\ A # B
    <3>1. A \subseteq B
      BY <2>0
    <3>2. g \in B /\ g \notin A
      BY <1>5
    <3> QED BY <3>1, <3>2
  <2>2. IsFiniteSet(B) /\ Cardinality(A) \in Nat /\ Cardinality(B) \in Nat
    BY <1>4
  <2> HIDE DEF A, B
  <2>3. Cardinality(A) <= Cardinality(B) /\ Cardinality(A) # Cardinality(B)
    BY <2>1, <2>2, FS_Subset
  <2>4. Cardinality(A) < Cardinality(B)
    BY <2>2, <2>3
  <2> QED BY <2>4 DEF A, B
<1>6. ASSUME NEW g \in E, NEW h \in E, rank(g) = rank(h) PROVE g = h
  <2>1. g \in Nat /\ h \in Nat /\ rank(g) \in Nat /\ rank(h) \in Nat
    BY <1>3, <1>4
  <2> HIDE DEF rank
  <2>2. ~(g < h) /\ ~(h < g)
    BY <1>5, <1>6, <2>1
  <2> QED BY <2>1, <2>2
<1>7. ASSUME NEW i \in 1..n PROVE \E h \in E : rank(h) = i - 1
  <2> DEFINE R == 0..(n - 1)
  <2>1. IsFiniteSet(R) /\ Cardinality(R) = n
    <3>1. n - 1 \in Int /\ IsFiniteSet(0..(n - 1)) 
          /\ Cardinality(0..(n - 1)) = IF 0 > n - 1 THEN 0 ELSE n - 1 - 0 + 1
      BY <1>1, FS_Interval
    <3>2. Cardinality(0..(n - 1)) = n
      BY <1>1, <3>1
    <3> QED BY <3>1, <3>2
  <2>2. ranks \in Injection(E, R)
    <3>1. \A h \in E : rank(h) \in R
      <4>1. \A h \in E : rank(h) \in Nat /\ rank(h) < n
        BY <1>4
      <4> HIDE DEF rank
      <4> QED BY <1>1, <4>1
    <3>2. \A g, h \in E : rank(g) = rank(h) => g = h
      BY <1>6
    <3> HIDE DEF rank, R
    <3> QED BY <3>1, <3>2 DEF Injection, IsInjective
  <2> HIDE DEF ranks, R
  <2>3. ranks \in Surjection(E, R)
    BY <1>2, <2>1, <2>2, FS_Injection
  <2>4. i - 1 \in R
    BY <1>1 DEF R
  <2>5. PICK h \in E : ranks[h] = i - 1
    BY <2>3, <2>4 DEF Surjection
  <2> QED BY <2>5 DEF ranks
<1> DEFINE o == InOrder(s)
<1>8. o = [i \in 1..n |-> CHOOSE h \in E : rank(h) = i - 1]
  BY DEF InOrder, E, n
<1> HIDE DEF rank, o
<1>9. \A i \in 1..n : o[i] \in E /\ rank(o[i]) = i - 1
  BY <1>7, <1>8
<1>10. o \in Seq(Page) /\ Len(o) = n /\ DOMAIN o = 1..n
  <2>1. o \in [1..n -> Page]
    BY <1>3, <1>8, <1>9
  <2> QED BY <1>1, <2>1
<1>11. Elements(o) = E
  <2>1. \A i \in 1..n : o[i] \in E
    BY <1>9
  <2>2. ASSUME NEW h \in E PROVE \E i \in 1..n : o[i] = h
    <3> DEFINE i == rank(h) + 1
    <3>0. rank(h) \in Nat /\ rank(h) < n
      BY <1>4
    <3>1. i \in 1..n /\ rank(h) = i - 1
      BY <1>1, <3>0
    <3> HIDE DEF i
    <3>2. o[i] = h
      BY <1>6, <1>9, <3>1
    <3> QED BY <3>1, <3>2
  <2> QED BY <1>10, <2>1, <2>2 DEF Elements
<1>12. Increasing(o)
  <2> SUFFICES ASSUME NEW i \in 1..n, NEW j \in 1..n, i < j PROVE o[i] < o[j]
    BY <1>10 DEF Increasing
  <2>1. o[i] \in E /\ o[j] \in E /\ rank(o[i]) = i - 1 /\ rank(o[j]) = j - 1
    BY <1>9
  <2>2. rank(o[i]) < rank(o[j]) 
    BY <1>1, <2>1
  <2>3. o[i] \in Nat /\ o[j] \in Nat /\ rank(o[i]) \in Nat /\ rank(o[j]) \in Nat
    BY <1>3, <1>4, <2>1
  <2>4. ~(o[j] < o[i]) /\ o[i] # o[j]
    BY <1>5, <2>1, <2>2, <2>3
  <2> QED BY <2>3, <2>4
<1>13. OneToOne(o)
  <2> SUFFICES ASSUME NEW i \in 1..n, NEW j \in 1..n, o[i] = o[j] PROVE i = j
    BY <1>10 DEF OneToOne
  <2>1. i - 1 = j - 1
    BY <1>9
  <2> QED BY <1>1, <2>1
<1> QED BY <1>10, <1>11, <1>12, <1>13 DEF o, n, E

----------------------------------------------------------------------------
(* Consequences of the invariant.                                          *)

(* Every chunk the program holds has a header that can be read, within its *)
(* own block; an operation's header lies within its span.                  *)
LEMMA OwnPlace ==
  ASSUME LargeInv
  PROVE  /\ \A h \in live : /\ h \in Block(h) /\ h \in Page /\ h \in DOMAIN header 
                            /\ header[h] \in HeaderType
         /\ \A t \in Thread : op[t].pc # "idle" => op[t].at \in OpSpan(t)
<1>1. TypeOK /\ Listed /\ Indexed /\ Placed
  BY DEF LargeInv
<1>2. ASSUME NEW h \in live 
      PROVE  h \in Block(h) /\ h \in Page /\ h \in DOMAIN header /\ header[h] \in HeaderType
  <2>1. h \in Elements(chunks) /\ h \in Page
    BY <1>1 DEF Listed, TypeOK
  <2>2. h \in DOMAIN header
    BY <1>1, <2>1 DEF Elements, Indexed
  <2>3. header[h] \in HeaderType
    BY <1>1, <2>2 DEF TypeOK
  <2>4. Within(h, header[h].beg, header[h].pages, header[h].size)
    BY <1>1 DEF Placed
  <2>5. h \in Block(h)
    BY <2>1, <2>3, <2>4, LargeAssumption DEF Within, Block, Span, HeaderType, Page
  <2> QED BY <2>1, <2>2, <2>3, <2>5
<1>3. ASSUME NEW t \in Thread, op[t].pc # "idle" PROVE op[t].at \in OpSpan(t)
  <2>1. Within(op[t].at, op[t].beg, op[t].pages, op[t].size)
    BY <1>1, <1>3 DEF Placed
  <2>2. op[t] \in OpType
    BY <1>1 DEF TypeOK
  <2> QED BY <2>1, <2>2, LargeAssumption DEF Within, OpSpan, Span, OpType
<1> QED BY <1>2, <1>3

(* A step that leaves chunks_ and the held chunks' headers alone keeps     *)
(* what is said of them.                                                   *)
LEMMA ArrayKept ==
  ASSUME LargeInv, UNCHANGED <<chunks, sorted, allocated, live>>,
         \A h \in live : h \in DOMAIN header' /\ header'[h] = header[h]
  PROVE  Listed' /\ Indexed' /\ SortedSo' /\ Counted'
         /\ (\A h \in live : Block(h)' = Block(h) 
               /\ Within(h, header[h].beg, header[h].pages, header[h].size)')
<1>1. Listed /\ Indexed /\ SortedSo /\ Counted /\ Placed
  BY DEF LargeInv
<1>2. Listed' /\ SortedSo'
  BY <1>1 DEF Listed, SortedSo, Elements
<1>3. \A i \in DOMAIN chunks : chunks[i] \in live
  BY <1>1 DEF Listed, Elements
<1>4. Indexed'
  BY <1>1, <1>3 DEF Indexed
<1>5. Counted'
  <2>1. PICK F : Measure(F, live) /\ F[live] = allocated
    BY <1>1 DEF Counted
  <2>2. Measure(F, live)'
    BY <2>1 DEF Measure
  <2> QED BY <2>1, <2>2 DEF Counted
<1>6. \A h \in live : Block(h)' = Block(h) 
        /\ Within(h, header[h].beg, header[h].pages, header[h].size)'
  BY <1>1 DEF Block, Span, Placed, Within, Page
<1> QED BY <1>2, <1>4, <1>5, <1>6

----------------------------------------------------------------------------
(* The initial state, and each step.                                       *)

(* Initially nothing is mapped, listed or held.                            *)
LEMMA InvInit == Init => LargeInv
<1> SUFFICES ASSUME Init PROVE LargeInv
  OBVIOUS
<1>1. TypeOK
  <2>1. chunks \in Seq(Page) /\ Len(chunks) = 0 /\ Len(chunks) <= MaxChunks
    BY LargeAssumption DEF Init
  <2>2. DOMAIN access = {} /\ DOMAIN header = {}
    BY DEF Init
  <2>3. op \in [Thread -> OpType]
    BY LargeAssumption DEF Init, Idle, OpType
  <2>4. sorted \in BOOLEAN /\ allocated \in Nat /\ mutex = NoThread /\ live = {} /\ fate = "running"
    BY DEF Init
  <2> QED BY <2>1, <2>2, <2>3, <2>4 DEF TypeOK
<1>2. Holder
  BY LargeAssumption DEF Init, Holder, Idle
<1>3. Listed /\ Indexed /\ SortedSo
  BY DEF Init, Listed, Indexed, SortedSo, Elements
<1>4. Placed /\ Mapped /\ Headed /\ Apart
  BY DEF Init, Placed, Mapped, Headed, Apart, Idle, Owns
<1>5. Counted
  <2> DEFINE F == [S \in SUBSET {} |-> 0]
  <2>1. Measure(F, {})
    BY DEF Measure
  <2> QED BY <2>1 DEF Counted, Init
<1> QED BY <1>1, <1>2, <1>3, <1>4, <1>5 DEF LargeInv

(* A failed CHECK or a fault stops the program and changes nothing else.   *)
LEMMA DieStep ==
  ASSUME LargeInv, NEW how \in {"fault", "check_failed"}, Die(how)
  PROVE  LargeInv'
<1>1. UNCHANGED <<chunks, sorted, allocated, header, access, mutex, live, op>> /\ fate' = how
  BY DEF Die, arrayVars, memoryVars
<1>2. TypeOK'
  BY <1>1 DEF LargeInv, TypeOK
<1>3. Holder' /\ Listed' /\ Indexed' /\ SortedSo' 
  BY <1>1 DEF LargeInv, Holder, Listed, Indexed, SortedSo, Elements
<1>4. Placed' /\ Mapped' /\ Headed'
  BY <1>1 DEF LargeInv, Placed, Within, Span, Mapped, Headed, Block, OpSpan, Owns, Writable
<1>5. Apart' /\ Counted'
  BY <1>1 DEF LargeInv, Apart, Block, OpSpan, Span, Owns, Counted, Measure
<1> QED BY <1>2, <1>3, <1>4, <1>5 DEF LargeInv

(* The address of the header, aligned with what follows it, leaves room    *)
(* for the user's bytes.                                                   *)
LEMMA Aligned ==
  ASSUME NEW beg \in Page, NEW size \in Sizes, NEW align \in Alignments,
         Span(beg, MapSize(size, align)) \subseteq Page
  PROVE  /\ Within(AlignUp(beg + 1, align) - 1, beg, MapSize(size, align), size)
         /\ AlignUp(beg + 1, align) - 1 \in Page
         /\ MapSize(size, align) \in Nat
<1> DEFINE x == beg + 1
           r == x % align
           pages == MapSize(size, align)
<1>1. x \in Nat /\ align \in Nat \ {0} /\ size \in Nat \ {0} /\ beg \in Nat
  BY LargeAssumption DEF Page
<1>2. r \in 0..(align - 1)
  BY <1>1
<1>3. AlignUp(x, align) = IF r = 0 THEN x ELSE x + align - r
  BY DEF AlignUp
<1> HIDE DEF r, x
<1>4. AlignUp(x, align) \in Nat /\ x <= AlignUp(x, align) /\ AlignUp(x, align) <= x + align - 1
  BY <1>1, <1>2, <1>3
<1>5. pages \in Nat /\ (align = 1 => pages = size + 1) /\ (align > 1 => pages = size + 1 + align)
  BY <1>1 DEF MapSize
<1> HIDE DEF pages
<1> DEFINE at == AlignUp(x, align) - 1
<1>6. at \in Nat /\ beg <= at /\ at + size < beg + pages
  BY <1>1, <1>4, <1>5 DEF x
<1> HIDE DEF at
<1>7. at \in Span(beg, pages)
  BY <1>1, <1>5, <1>6 DEF Span
<1>8. at \in Page
  BY <1>7 DEF pages
<1> QED BY <1>5, <1>6, <1>8 DEF Within, pages, at, x

(* A new mapping takes pages nobody has.                                   *)
LEMMA MapStep ==
  ASSUME LargeInv, NEW t \in Thread, NEW size \in Sizes, NEW align \in Alignments,
         Map(t, size, align)
  PROVE  LargeInv'
<1> DEFINE pages == MapSize(size, align)
<1>1. PICK beg \in Page : 
        /\ Span(beg, pages) \subseteq Page \ DOMAIN access
        /\ access' = Over(access, Span(beg, pages), "rw")
        /\ op' = [op EXCEPT ![t] = 
                    [pc |-> "mapped", at |-> AlignUp(beg + 1, align) - 1, 
                     beg |-> beg, pages |-> pages, size |-> size]]
  BY DEF Map
<1> DEFINE at == AlignUp(beg + 1, align) - 1
           New == Span(beg, pages)
<1>2. op[t].pc = "idle" /\ UNCHANGED <<chunks, sorted, allocated, header, mutex, live, fate>>
  BY DEF Map, At, arrayVars
<1>3. Within(at, beg, pages, size) /\ at \in Page /\ pages \in Nat /\ size \in Nat
  BY <1>1, Aligned, LargeAssumption
<1>4. TypeOK /\ Holder /\ Placed /\ Mapped /\ Headed /\ Apart
  BY DEF LargeInv
<1> HIDE DEF at, pages
<1>5. DOMAIN access' = DOMAIN access \cup New /\ New \cap DOMAIN access = {}
      /\ (\A p \in DOMAIN access : access'[p] = access[p])
      /\ (\A p \in New : access'[p] = "rw")
  BY <1>1 DEF Over
<1>6. /\ op' \in [Thread -> OpType] /\ op'[t].pc = "mapped" /\ op'[t].at = at /\ op'[t].beg = beg
      /\ op'[t].pages = pages /\ op'[t].size = size 
      /\ \A u \in Thread : u # t => op'[u] = op[u]
  <2>1. op \in [Thread -> OpType]
    BY <1>4 DEF TypeOK
  <2>2. [pc |-> "mapped", at |-> at, beg |-> beg, pages |-> pages, size |-> size] \in OpType
    BY <1>3, LargeAssumption DEF OpType, Page
  <2> QED BY <1>1, <2>1, <2>2 DEF at
<1>7. TypeOK'
  BY <1>1, <1>2, <1>4, <1>5, <1>6 DEF TypeOK
<1>8. Holder'
  BY <1>2, <1>4, <1>6 DEF Holder
<1>9. \A h \in live : h \in DOMAIN header' /\ header'[h] = header[h]
  BY <1>2, OwnPlace
<1>10. Listed' /\ Indexed' /\ SortedSo' /\ Counted' 
       /\ \A h \in live : Block(h)' = Block(h) 
            /\ Within(h, header[h].beg, header[h].pages, header[h].size)'
  BY <1>2, <1>9, ArrayKept
<1>11. OpSpan(t)' = New /\ \A u \in Thread : u # t => OpSpan(u)' = OpSpan(u) /\ (Owns(u)' <=> Owns(u))
  BY <1>6 DEF OpSpan, Span, Owns
<1>12. Placed'
  <2>1. \A u \in Thread : op'[u].pc # "idle" => 
          Within(op'[u].at, op'[u].beg, op'[u].pages, op'[u].size)
    BY <1>3, <1>4, <1>6 DEF Placed
  <2> QED BY <1>2, <1>10, <2>1 DEF Placed, Within, Span
<1>13. Mapped'
  <2>1. \A u \in Thread : Owns(u)' => OpSpan(u)' \subseteq DOMAIN access'
    BY <1>4, <1>5, <1>11 DEF Mapped
  <2>2. \A h \in live' : Block(h)' \subseteq DOMAIN access'
    BY <1>2, <1>4, <1>5, <1>10 DEF Mapped
  <2> QED BY <2>1, <2>2 DEF Mapped, Block, OpSpan, Span, Owns
<1>14. Headed'
  <2> SUFFICES ASSUME NEW u \in Thread, op'[u].pc = "headed", Writable(op[u].at)'
               PROVE  (op[u].at \in DOMAIN header
                        /\ header[op[u].at] = [beg |-> op[u].beg, pages |-> op[u].pages, 
                                               size |-> op[u].size, idx |-> 0])'
    BY DEF Headed, Writable
  <2>1. u # t /\ op'[u] = op[u]
    BY <1>6
  <2>2. op[u].at \in DOMAIN access
    BY <1>4, <2>1, OwnPlace DEF Mapped, Owns
  <2>3. Writable(op[u].at)
    BY <1>5, <2>1, <2>2 DEF Writable
  <2> QED BY <1>2, <1>4, <2>1, <2>3 DEF Headed
<1>15. Apart'
  <2>1. \A g, h \in live' : g # h => Block(g)' \cap Block(h)' = {}
    BY <1>2, <1>4, <1>10 DEF Apart
  <2>2. \A h \in live', u \in Thread : op'[u].pc # "idle" => Block(h)' \cap OpSpan(u)' = {}
    <3>1. \A h \in live : Block(h) \cap New = {}
      BY <1>4, <1>5 DEF Mapped
    <3> QED BY <1>2, <1>4, <1>6, <1>10, <1>11, <3>1 DEF Apart
  <2>3. \A v, u \in Thread : v # u /\ Owns(v)' /\ Owns(u)' => OpSpan(v)' \cap OpSpan(u)' = {}
    <3>1. \A u \in Thread : Owns(u) => OpSpan(u) \cap New = {}
      BY <1>4, <1>5 DEF Mapped
    <3> QED BY <1>4, <1>11, <3>1 DEF Apart
  <2> QED BY <2>1, <2>2, <2>3 DEF Apart, Block, OpSpan, Span, Owns
<1> QED BY <1>7, <1>8, <1>10, <1>12, <1>13, <1>14, <1>15 DEF LargeInv

(* The header is written in pages only this operation has.                 *)
LEMMA WriteHeaderStep ==
  ASSUME LargeInv, NEW t \in Thread, WriteHeader(t)
  PROVE  LargeInv'
<1> DEFINE h == op[t].at
           new == [beg |-> op[t].beg, pages |-> op[t].pages, size |-> op[t].size, idx |-> 0]
<1>1. /\ op[t].pc = "mapped" /\ Writable(h) /\ header' = Over(header, {h}, new)
      /\ op' = [op EXCEPT ![t].pc = "headed"]
      /\ UNCHANGED <<chunks, sorted, allocated, access, mutex, live, fate>>
  BY DEF WriteHeader, At, arrayVars
<1>2. TypeOK /\ Holder /\ Placed /\ Mapped /\ Headed /\ Apart
  BY DEF LargeInv
<1>3. op[t] \in OpType /\ Owns(t) /\ h \in OpSpan(t)
      /\ Within(h, op[t].beg, op[t].pages, op[t].size) /\ h \in DOMAIN access
  <2>1. op[t] \in OpType /\ Owns(t) /\ h \in OpSpan(t)
    BY <1>1, <1>2, OwnPlace DEF TypeOK, Owns
  <2>2. Within(h, op[t].beg, op[t].pages, op[t].size)
    BY <1>1, <1>2 DEF Placed
  <2>3. h \in DOMAIN access
    BY <1>1 DEF Writable
  <2> QED BY <2>1, <2>2, <2>3
<1>4. new \in HeaderType
  <2>1. op[t].pages \in Nat /\ op[t].size \in Nat /\ op[t].beg \in 0..NumPages /\ 0 \in 0..MaxChunks
    BY <1>3, LargeAssumption DEF OpType
  <2>2. op[t].beg \in OpSpan(t) /\ OpSpan(t) \subseteq Page
    BY <1>3, <2>1, LargeAssumption DEF OpSpan, Span, Within, OpType
  <2> QED BY <2>1, <2>2 DEF HeaderType
<1> HIDE DEF new
<1>5. DOMAIN header' = DOMAIN header \cup {h} /\ header'[h] = new
      /\ \A p \in DOMAIN header : p # h => header'[p] = header[p]
  BY <1>1 DEF Over
<1>6. /\ op' \in [Thread -> OpType] /\ op'[t].pc = "headed" /\ op'[t].at = op[t].at
      /\ op'[t].beg = op[t].beg /\ op'[t].pages = op[t].pages /\ op'[t].size = op[t].size 
      /\ \A u \in Thread : u # t => op'[u] = op[u]
  <2>1. op \in [Thread -> OpType] /\ op' = [op EXCEPT ![t].pc = "headed"]
    BY <1>1, <1>2 DEF TypeOK
  <2>2. [op[t] EXCEPT !.pc = "headed"] \in OpType
    BY <1>3 DEF OpType
  <2> QED BY ONLY <2>1, <2>2, t \in Thread DEF OpType
<1>7. TypeOK'
  <2>1. DOMAIN header' \subseteq DOMAIN access' /\ \A p \in DOMAIN header' : header'[p] \in HeaderType
    BY <1>1, <1>2, <1>3, <1>4, <1>5 DEF TypeOK
  <2> QED BY <1>1, <1>2, <1>6, <2>1 DEF TypeOK
<1>8. Holder'
  BY <1>1, <1>2, <1>6 DEF Holder
<1>9. \A g \in live : g \in DOMAIN header' /\ header'[g] = header[g]
  <2>1. \A g \in live : Block(g) \cap OpSpan(t) = {}
    BY <1>1, <1>2 DEF Apart
  <2> QED BY <1>3, <1>5, <2>1, OwnPlace
<1>10. Listed' /\ Indexed' /\ SortedSo' /\ Counted' 
       /\ \A g \in live : Block(g)' = Block(g) 
            /\ Within(g, header[g].beg, header[g].pages, header[g].size)'
  BY <1>1, <1>9, ArrayKept
<1>11. \A u \in Thread : OpSpan(u)' = OpSpan(u) /\ (Owns(u)' <=> Owns(u))
         /\ (op'[u].pc # "idle" <=> op[u].pc # "idle")
  BY <1>1, <1>6 DEF OpSpan, Span, Owns
<1>12. Placed'
  <2>1. \A u \in Thread : op'[u].pc # "idle" => 
          Within(op'[u].at, op'[u].beg, op'[u].pages, op'[u].size)
    BY <1>2, <1>3, <1>6 DEF Placed
  <2> QED BY <1>1, <1>10, <2>1 DEF Placed, Within, Span
<1>13. Mapped'
  <2>1. \A u \in Thread : Owns(u)' => OpSpan(u)' \subseteq DOMAIN access'
    BY <1>1, <1>2, <1>11 DEF Mapped
  <2>2. \A g \in live' : Block(g)' \subseteq DOMAIN access'
    BY <1>1, <1>2, <1>10 DEF Mapped
  <2> QED BY <2>1, <2>2 DEF Mapped, Block, OpSpan, Span, Owns
<1>14. Headed'
  <2> SUFFICES ASSUME NEW u \in Thread, op'[u].pc = "headed", Writable(op[u].at)'
               PROVE  (op[u].at \in DOMAIN header
                        /\ header[op[u].at] = [beg |-> op[u].beg, pages |-> op[u].pages, 
                                               size |-> op[u].size, idx |-> 0])'
    BY DEF Headed, Writable
  <2>1. CASE u = t
    BY <1>5, <1>6, <2>1 DEF new
  <2>2. CASE u # t
    <3>1. op'[u] = op[u] /\ Writable(op[u].at)
      BY <1>1, <1>6, <2>2 DEF Writable
    <3>2. op[u].at # h
      <4>1. OpSpan(t) \cap OpSpan(u) = {} 
        BY <1>2, <1>3, <2>2, <3>1 DEF Apart, Owns
      <4> QED BY <1>3, <3>1, <4>1, OwnPlace
    <3> QED BY <1>2, <1>5, <3>1, <3>2 DEF Headed
  <2> QED BY <2>1, <2>2
<1>15. Apart'
  <2>1. \A g, k \in live' : g # k => Block(g)' \cap Block(k)' = {}
    BY <1>1, <1>2, <1>10 DEF Apart
  <2>2. \A g \in live', u \in Thread : op'[u].pc # "idle" => Block(g)' \cap OpSpan(u)' = {}
    BY <1>1, <1>2, <1>10, <1>11 DEF Apart
  <2>3. \A v, u \in Thread : v # u /\ Owns(v)' /\ Owns(u)' => OpSpan(v)' \cap OpSpan(u)' = {}
    BY <1>2, <1>11 DEF Apart
  <2> QED BY <2>1, <2>2, <2>3 DEF Apart, Block, OpSpan, Span, Owns
<1> QED BY <1>7, <1>8, <1>10, <1>12, <1>13, <1>14, <1>15 DEF LargeInv

(* The chunk joins chunks_: everything but the sum of the pages.           *)
LEMMA EnlistStep ==
  ASSUME LargeInv, NEW t \in Thread, Enlist(t)
  PROVE  LargeInv'
<1>0. PICK h, n : h = op[t].at /\ n = Len(chunks) + 1
  OBVIOUS
<1>1. /\ op[t].pc = "headed" /\ mutex = NoThread /\ Len(chunks) < MaxChunks /\ Writable(h)
      /\ chunks' = Append(chunks, h) /\ sorted' = FALSE 
      /\ header' = [header EXCEPT ![h].idx = n]
      /\ allocated' = allocated + op[t].pages /\ live' = live \cup {h}
      /\ op' = [op EXCEPT ![t] = Idle] /\ UNCHANGED <<access, mutex, fate>>
  BY <1>0 DEF Enlist, At
<1>2. TypeOK /\ Holder /\ Listed /\ Indexed /\ Placed /\ Mapped /\ Headed /\ Apart /\ Counted
  BY DEF LargeInv
<1>3. op[t] \in OpType /\ Owns(t) /\ h \in OpSpan(t) /\ OpSpan(t) \subseteq Page
      /\ Within(h, op[t].beg, op[t].pages, op[t].size)
  <2>1. op[t] \in OpType /\ Owns(t) /\ h \in OpSpan(t)
    BY <1>0, <1>1, <1>2, OwnPlace DEF TypeOK, Owns
  <2>2. Within(h, op[t].beg, op[t].pages, op[t].size)
    BY <1>0, <1>1, <1>2 DEF Placed
  <2> QED BY <2>1, <2>2 DEF Within, OpSpan
<1>4. h \in DOMAIN header
      /\ header[h] = [beg |-> op[t].beg, pages |-> op[t].pages, size |-> op[t].size, idx |-> 0]
  BY <1>0, <1>1, <1>2 DEF Headed
<1>5. h \notin live /\ h \in Page /\ \A g \in live : g # h
  BY <1>1, <1>2, <1>3, OwnPlace DEF Apart
<1>6. chunks \in Seq(Page) /\ n \in Nat /\ n \in 0..MaxChunks /\ n = Len(chunks) + 1
      /\ Len(chunks) \in Nat /\ DOMAIN chunks = 1..Len(chunks)
  BY <1>0, <1>1, <1>2, LargeAssumption DEF TypeOK
<1>7. /\ DOMAIN header' = DOMAIN header 
      /\ header'[h].beg = op[t].beg /\ header'[h].pages = op[t].pages 
      /\ header'[h].size = op[t].size /\ header'[h].idx = n /\ header'[h] \in HeaderType
      /\ \A p \in DOMAIN header : p # h => header'[p] = header[p]
  <2>1. DOMAIN header' = DOMAIN header /\ \A p \in DOMAIN header : p # h => header'[p] = header[p]
    BY <1>1
  <2>2. header'[h] = [header[h] EXCEPT !.idx = n]
    BY <1>1, <1>4
  <2>3. header[h] \in HeaderType
    BY <1>2, <1>4 DEF TypeOK
  <2>4. header'[h] = [beg |-> op[t].beg, pages |-> op[t].pages, size |-> op[t].size, idx |-> n]
    BY <1>4, <2>2
  <2> QED BY <1>6, <2>1, <2>2, <2>3, <2>4 DEF HeaderType
<1>8. /\ op' \in [Thread -> OpType] /\ op'[t] = Idle
      /\ \A u \in Thread : u # t => op'[u] = op[u]
  <2>1. op \in [Thread -> OpType]
    BY <1>2 DEF TypeOK
  <2>2. Idle \in OpType
    BY LargeAssumption DEF Idle, OpType
  <2> QED BY <1>1, <2>1, <2>2
<1>9. chunks' \in Seq(Page) /\ Len(chunks') = n /\ DOMAIN chunks' = 1..n /\ chunks'[n] = h
      /\ \A i \in DOMAIN chunks : chunks'[i] = chunks[i] /\ chunks[i] \in live
  <2>1. \A i \in DOMAIN chunks : chunks[i] \in live
    BY <1>2 DEF Listed, Elements
  <2> QED BY <1>1, <1>5, <1>6, <2>1
<1>10. \A u \in Thread : op[u].pc # "unmapped"
  BY <1>1, <1>2, LargeAssumption DEF Holder
<1>11. Counted'
  <2>1. PICK F : Measure(F, live) /\ F[live] = allocated
    BY <1>2 DEF Counted
  <2>2. /\ F \in [SUBSET live -> Nat] /\ F[{}] = 0
        /\ \A T \in SUBSET live : \A x \in live \ T : F[T \cup {x}] = header[x].pages + F[T]
    BY <2>1 DEF Measure
  <2> DEFINE G == [S \in SUBSET live' |-> F[S \ {h}] + (IF h \in S THEN op[t].pages ELSE 0)]
  <2>3. \A S \in SUBSET live' : S \ {h} \in SUBSET live
    BY <1>1
  <2>4. op[t].pages \in Nat
    BY <1>3 DEF OpType
  <2>5. G \in [SUBSET live' -> Nat] /\ G[{}] = 0
    BY <2>2, <2>3, <2>4
  <2>6. ASSUME NEW T \in SUBSET live', NEW x \in live' \ T
        PROVE  G[T \cup {x}] = header'[x].pages + G[T]
    <3>0. T \cup {x} \in SUBSET live' /\ T \ {h} \in SUBSET live /\ F[T \ {h}] \in Nat
      BY <2>2, <2>3
    <3>1. CASE x = h
      <4>1. (T \cup {x}) \ {h} = T \ {h} /\ h \in T \cup {x} /\ h \notin T
        BY <3>1
      <4>2. G[T \cup {x}] = F[T \ {h}] + op[t].pages /\ G[T] = F[T \ {h}] + 0
        BY <3>0, <4>1
      <4> HIDE DEF G
      <4> QED BY <1>7, <2>4, <3>0, <3>1, <4>2
    <3>2. CASE x # h
      <4> DEFINE R == T \ {h}
      <4>1. (T \cup {x}) \ {h} = R \cup {x} /\ x \in live \ R /\ (h \in T \cup {x} <=> h \in T)
        BY <1>1, <3>2
      <4>2. F[R \cup {x}] = header[x].pages + F[R]
        BY <2>2, <3>0, <4>1
      <4>3. header'[x].pages = header[x].pages /\ header[x].pages \in Nat
        BY <1>7, <3>2, <4>1, OwnPlace DEF HeaderType
      <4>4. G[T \cup {x}] = F[R \cup {x}] + (IF h \in T THEN op[t].pages ELSE 0)
        BY <3>0, <4>1
      <4>5. G[T] = F[R] + (IF h \in T THEN op[t].pages ELSE 0)
        OBVIOUS
      <4> HIDE DEF G, R
      <4> QED BY <2>4, <3>0, <4>2, <4>3, <4>4, <4>5 DEF R
    <3> QED BY <3>1, <3>2
  <2>7. G[live'] = allocated'
    <3>1. live' \ {h} = live /\ h \in live'
      BY <1>1, <1>5
    <3> QED BY <1>1, <2>1, <3>1
  <2> HIDE DEF G
  <2>8. PICK K : K = G
    OBVIOUS
  <2>9. Measure(K, live)' /\ K[live'] = allocated'
    BY <2>5, <2>6, <2>7, <2>8 DEF Measure
  <2> QED BY <2>9 DEF Counted
<1>12. TypeOK'
  <2>1. allocated' \in Nat
    BY <1>1, <1>2, <1>3 DEF TypeOK, OpType
  <2>2. live' \subseteq Page
    BY <1>1, <1>2, <1>5 DEF TypeOK
  <2>3. \A p \in DOMAIN header' : header'[p] \in HeaderType
    BY <1>2, <1>7 DEF TypeOK
  <2>4. chunks' \in Seq(Page) /\ Len(chunks') <= MaxChunks /\ sorted' \in BOOLEAN
    <3>1. n <= MaxChunks
      BY <1>6, LargeAssumption
    <3> QED BY <1>1, <1>9, <3>1
  <2>5. /\ DOMAIN access' \subseteq Page /\ DOMAIN header' \subseteq DOMAIN access'
        /\ \A p \in DOMAIN access' : access'[p] \in {"rw", "none"}
        /\ mutex' \in Thread \cup {NoThread} /\ fate' \in {"running", "fault", "check_failed"}
    BY <1>1, <1>2, <1>7 DEF TypeOK
  <2> QED BY <1>8, <2>1, <2>2, <2>3, <2>4, <2>5 DEF TypeOK
<1>13. Holder'
  BY <1>1, <1>2, <1>8, <1>10, LargeAssumption DEF Holder, Idle
<1>14. Listed'
  <2>1. \A i, j \in DOMAIN chunks' : chunks'[i] = chunks'[j] => i = j
    BY <1>2, <1>5, <1>6, <1>9 DEF Listed
  <2>2. Elements(chunks') = Elements(chunks) \cup {h}
    BY <1>6, <1>9 DEF Elements
  <2> QED BY <1>1, <1>2, <2>1, <2>2 DEF Listed, Elements
<1>15. Indexed' /\ SortedSo'
  <2>1. \A i \in DOMAIN chunks' : chunks'[i] \in DOMAIN header' /\ header'[chunks'[i]].idx = i
    BY <1>2, <1>4, <1>5, <1>6, <1>7, <1>9 DEF Indexed
  <2> QED BY <1>1, <2>1 DEF Indexed, SortedSo
<1>16. Block(h)' = OpSpan(t) /\ \A g \in live : Block(g)' = Block(g) /\ header'[g] = header[g]
  <2>1. \A g \in live : header'[g] = header[g]
    BY <1>5, <1>7, OwnPlace
  <2> QED BY <1>1, <1>7, <2>1 DEF Block, OpSpan, Span
<1>17. \A u \in Thread : OpSpan(u)' = (IF u = t THEN OpSpan(u)' ELSE OpSpan(u)) 
         /\ (Owns(u)' <=> u # t /\ Owns(u))
  BY <1>8 DEF OpSpan, Span, Owns, Idle
<1>18. Placed'
  <2>1. \A u \in Thread : op'[u].pc # "idle" => 
          Within(op'[u].at, op'[u].beg, op'[u].pages, op'[u].size)
    BY <1>2, <1>8 DEF Placed, Idle
  <2>2. \A g \in live' : Within(g, header'[g].beg, header'[g].pages, header'[g].size)
    <3>1. Within(h, header'[h].beg, header'[h].pages, header'[h].size)
      BY <1>3, <1>7
    <3>2. \A g \in live : Within(g, header'[g].beg, header'[g].pages, header'[g].size)
      BY <1>2, <1>16 DEF Placed
    <3> QED BY <1>1, <3>1, <3>2 
  <2> QED BY <2>1, <2>2 DEF Placed, Within, Span, Page
<1>19. Mapped'
  <2>1. \A u \in Thread : Owns(u)' => OpSpan(u)' \subseteq DOMAIN access'
    BY <1>1, <1>2, <1>17 DEF Mapped
  <2>2. \A g \in live' : Block(g)' \subseteq DOMAIN access'
    BY <1>1, <1>2, <1>3, <1>16 DEF Mapped
  <2> QED BY <2>1, <2>2 DEF Mapped, Block, OpSpan, Span, Owns
<1>20. Headed'
  <2> SUFFICES ASSUME NEW u \in Thread, op'[u].pc = "headed", Writable(op[u].at)'
               PROVE  (op[u].at \in DOMAIN header
                        /\ header[op[u].at] = [beg |-> op[u].beg, pages |-> op[u].pages, 
                                               size |-> op[u].size, idx |-> 0])'
    BY DEF Headed, Writable
  <2>1. u # t /\ op'[u] = op[u] /\ Writable(op[u].at)
    BY <1>1, <1>8 DEF Writable, Idle
  <2>2. OpSpan(t) \cap OpSpan(u) = {} 
    BY <1>2, <1>3, <2>1 DEF Apart, Owns
  <2>3. op[u].at # h
    BY <1>3, <2>1, <2>2, OwnPlace
  <2> QED BY <1>2, <1>7, <2>1, <2>3 DEF Headed
<1>21. Apart'
  <2>1. \A g \in live : Block(g) \cap OpSpan(t) = {}
    BY <1>1, <1>2 DEF Apart
  <2>2. \A g, k \in live' : g # k => Block(g)' \cap Block(k)' = {}
    BY <1>1, <1>2, <1>16, <2>1 DEF Apart
  <2>3. \A u \in Thread : u # t /\ op[u].pc # "idle" => OpSpan(t) \cap OpSpan(u) = {}
    <3>1. \A u \in Thread : op[u].pc # "idle" => Owns(u)
      BY <1>2, <1>10 DEF Owns, TypeOK, OpType
    <3> QED BY <1>2, <1>3, <3>1 DEF Apart
  <2>4. \A g \in live', u \in Thread : op'[u].pc # "idle" => Block(g)' \cap OpSpan(u)' = {}
    <3>1. \A u \in Thread : op'[u].pc # "idle" => u # t /\ op[u].pc # "idle" /\ OpSpan(u)' = OpSpan(u)
      BY <1>8, <1>17 DEF Idle
    <3> QED BY <1>1, <1>2, <1>16, <2>3, <3>1 DEF Apart
  <2>5. \A v, u \in Thread : v # u /\ Owns(v)' /\ Owns(u)' => OpSpan(v)' \cap OpSpan(u)' = {}
    BY <1>2, <1>17 DEF Apart
  <2> QED BY <2>2, <2>4, <2>5 DEF Apart, Block, OpSpan, Span, Owns
<1> QED BY <1>11, <1>12, <1>13, <1>14, <1>15, <1>18, <1>19, <1>20, <1>21 DEF LargeInv

(* A chunk leaves chunks_, the last takes its place, and its pages become  *)
(* a hole, which only the thread with the mutex has.                       *)
LEMMA UnmapStep ==
  ASSUME LargeInv, NEW t \in Thread, NEW h \in live,
         op[t].pc = "idle", mutex = NoThread, KnowsItsPlace(h), Unmap(t, h)
  PROVE  LargeInv'
<1>0. PICK i, n, last : i = header[h].idx /\ n = Len(chunks) /\ last = chunks[n]
  OBVIOUS
<1>1. /\ chunks' = [j \in 1..(n - 1) |-> IF j = i THEN last ELSE chunks[j]]
      /\ sorted' = FALSE /\ allocated' = allocated - header[h].pages
      /\ header' = Drop([header EXCEPT ![last].idx = i], Block(h))
      /\ access' = Drop(access, Block(h))
      /\ mutex' = t /\ live' = live \ {h}
      /\ op' = [op EXCEPT ![t] = [pc |-> "unmapped", at |-> h, beg |-> header[h].beg, 
                                  pages |-> header[h].pages, size |-> header[h].size]]
      /\ fate' = fate
  BY <1>0 DEF Unmap, MoveLast, Reindexed, Last, PagesOf, Block
<1>2. TypeOK /\ Holder /\ Listed /\ Indexed /\ Placed /\ Mapped /\ Headed /\ Apart /\ Counted
  BY DEF LargeInv
<1>3. /\ h \in Block(h) /\ h \in Page /\ h \in DOMAIN header /\ header[h] \in HeaderType
      /\ Within(h, header[h].beg, header[h].pages, header[h].size)
  BY <1>2, OwnPlace DEF Placed
<1>4. chunks \in Seq(Page) /\ n \in Nat /\ n <= MaxChunks /\ DOMAIN chunks = 1..n
      /\ i \in 1..n /\ chunks[i] = h /\ n \in 1..n
  BY <1>0, <1>2 DEF TypeOK, KnowsItsPlace
<1>5. last \in live /\ last \in DOMAIN header /\ (last = h <=> i = n) /\ last \in Page
      /\ \A j \in 1..n : chunks[j] \in live
  <2>1. \A j \in 1..n : chunks[j] \in live
    BY <1>2, <1>4 DEF Listed, Elements
  <2>2. last = chunks[n]
    BY <1>0
  <2> QED BY <1>2, <1>4, <2>1, <2>2, OwnPlace DEF Listed
<1>6. \A g \in live' : g \in live /\ g # h /\ g \in DOMAIN header /\ g \notin Block(h)
  BY <1>1, <1>2, OwnPlace DEF Apart
<1>7. /\ DOMAIN header' = DOMAIN header \ Block(h)
      /\ \A p \in DOMAIN header' : 
           /\ header'[p].beg = header[p].beg /\ header'[p].pages = header[p].pages
           /\ header'[p].size = header[p].size /\ header'[p] \in HeaderType
           /\ header'[p].idx = (IF p = last THEN i ELSE header[p].idx)
           /\ (p # last => header'[p] = header[p])
  <2> DEFINE k == [header EXCEPT ![last].idx = i]
  <2>1. DOMAIN header' = DOMAIN header \ Block(h) /\ \A p \in DOMAIN header' : header'[p] = k[p]
    BY <1>1 DEF Drop
  <2>2. ASSUME NEW p \in DOMAIN header'
        PROVE  /\ k[p].beg = header[p].beg /\ k[p].pages = header[p].pages
               /\ k[p].size = header[p].size /\ k[p] \in HeaderType
               /\ k[p].idx = (IF p = last THEN i ELSE header[p].idx)
               /\ (p # last => k[p] = header[p])
    <3>1. header[p] \in HeaderType /\ p \in DOMAIN header
      BY <1>2, <2>1 DEF TypeOK
    <3>2. i \in 0..MaxChunks
      BY <1>4, LargeAssumption
    <3>3. k[p] = IF p = last THEN [header[p] EXCEPT !.idx = i] ELSE header[p]
      BY <3>1
    <3> HIDE DEF k
    <3> QED BY <3>1, <3>2, <3>3 DEF HeaderType
  <2> HIDE DEF k
  <2> QED BY <2>1, <2>2
<1>8. /\ op' \in [Thread -> OpType] /\ op'[t].pc = "unmapped" /\ op'[t].at = h
      /\ op'[t].beg = header[h].beg /\ op'[t].pages = header[h].pages 
      /\ op'[t].size = header[h].size
      /\ \A u \in Thread : u # t => op'[u] = op[u]
  <2>1. op \in [Thread -> OpType]
    BY <1>2 DEF TypeOK
  <2>2. [pc |-> "unmapped", at |-> h, beg |-> header[h].beg, 
         pages |-> header[h].pages, size |-> header[h].size] \in OpType
    BY <1>3, LargeAssumption DEF OpType, HeaderType, Page
  <2> QED BY <1>1, <2>1, <2>2
<1>9. /\ chunks' \in Seq(Page) /\ Len(chunks') = n - 1 /\ DOMAIN chunks' = 1..(n - 1)
      /\ \A j \in 1..(n - 1) : chunks'[j] = IF j = i THEN last ELSE chunks[j]
  <2>1. \A j \in 1..(n - 1) : chunks[j] \in Page
    BY <1>4, ElementOfSeq
  <2>2. n - 1 \in Nat
    BY <1>4
  <2>3. chunks' \in [1..(n - 1) -> Page]
    BY <1>1, <1>5, <2>1
  <2> QED BY <1>1, <2>2, <2>3
<1>10. Counted'
  <2>1. PICK F : Measure(F, live) /\ F[live] = allocated
    BY <1>2 DEF Counted
  <2>2. /\ F \in [SUBSET live -> Nat] /\ F[{}] = 0
        /\ \A T \in SUBSET live : \A x \in live \ T : F[T \cup {x}] = header[x].pages + F[T]
    BY <2>1 DEF Measure
  <2>3. PICK G : G = [S \in SUBSET live' |-> F[S]]
    OBVIOUS
  <2>4. SUBSET live' \subseteq SUBSET live
    BY <1>1
  <2>5. G \in [SUBSET live' -> Nat] /\ G[{}] = 0
    BY <2>2, <2>3, <2>4
  <2>6. \A T \in SUBSET live' : \A x \in live' \ T : G[T \cup {x}] = header'[x].pages + G[T]
    <3> SUFFICES ASSUME NEW T \in SUBSET live', NEW x \in live' \ T
                 PROVE  G[T \cup {x}] = header'[x].pages + G[T]
      OBVIOUS
    <3>1. T \cup {x} \in SUBSET live' /\ T \in SUBSET live /\ x \in live \ T
      BY <1>1
    <3>2. header'[x].pages = header[x].pages
      BY <1>6, <1>7
    <3> QED BY <2>2, <2>3, <3>1, <3>2
  <2>7. G[live'] = allocated'
    <3> DEFINE R == live'
    <3>1. R \in SUBSET live /\ h \in live \ R /\ R \cup {h} = live
      BY <1>1
    <3>2. F[live] = header[h].pages + F[R] /\ F[R] \in Nat
      BY <2>2, <3>1
    <3>3. G[R] = F[R] /\ header[h].pages \in Nat
      BY <1>3, <2>3 DEF HeaderType
    <3> HIDE DEF R
    <3>4. G[R] = allocated - header[h].pages
      BY <2>1, <3>2, <3>3
    <3> QED BY <1>1, <3>4 DEF R
  <2>8. Measure(G, live)'
    BY <2>5, <2>6 DEF Measure
  <2> QED BY <2>7, <2>8 DEF Counted
<1>11. TypeOK'
  <2>1. chunks' \in Seq(Page) /\ Len(chunks') <= MaxChunks /\ sorted' \in BOOLEAN
    <3>1. n - 1 <= MaxChunks
      BY <1>4, LargeAssumption
    <3> QED BY <1>1, <1>9, <3>1
  <2>2. allocated' \in Nat
    BY <1>10 DEF Counted, Measure
  <2>3. live' \subseteq Page
    BY <1>1, <1>2 DEF TypeOK
  <2>4. /\ DOMAIN access' \subseteq Page /\ DOMAIN header' \subseteq DOMAIN access'
        /\ \A p \in DOMAIN access' : access'[p] \in {"rw", "none"}
    BY <1>1, <1>2, <1>7 DEF TypeOK, Drop
  <2>5. mutex' \in Thread \cup {NoThread} /\ fate' \in {"running", "fault", "check_failed"}
    BY <1>1, <1>2 DEF TypeOK
  <2>6. \A p \in DOMAIN header' : header'[p] \in HeaderType
    BY <1>7
  <2> QED BY <1>8, <2>1, <2>2, <2>3, <2>4, <2>5, <2>6 DEF TypeOK
<1>12. Holder'
  <2>1. \A u \in Thread : op[u].pc # "unmapped"
    BY <1>2, LargeAssumption DEF Holder
  <2> QED BY <1>1, <1>8, <2>1 DEF Holder
<1>13. Listed'
  <2>1. \A j, k \in DOMAIN chunks' : chunks'[j] = chunks'[k] => j = k
    <3>1. \A j, k \in 1..n : chunks[j] = chunks[k] => j = k
      BY <1>2, <1>4 DEF Listed
    <3>2. \A j \in 1..(n - 1) : j \in 1..n /\ j # n
      BY <1>4
    <3>3. \A j \in 1..(n - 1) : chunks[j] # last
      BY <1>0, <1>4, <3>1, <3>2
    <3>4. \A j, k \in 1..(n - 1) : chunks'[j] = chunks'[k] => j = k
      <4>1. \A j \in 1..(n - 1) : chunks'[j] = IF j = i THEN last ELSE chunks[j]
        BY <1>9
      <4>2. \A j, k \in 1..(n - 1) : chunks[j] = chunks[k] => j = k
        BY <3>1, <3>2
      <4> QED BY <3>3, <4>1, <4>2
    <3> QED BY <1>9, <3>4
  <2>2. \A j \in 1..(n - 1) : chunks'[j] \in live'
    <3>1. \A j \in 1..(n - 1) : j \in 1..n /\ j # n
      BY <1>4
    <3> QED BY <1>1, <1>2, <1>4, <1>5, <1>9, <3>1 DEF Listed
  <2>3. \A g \in live' : \E j \in 1..(n - 1) : chunks'[j] = g
    <3> SUFFICES ASSUME NEW g \in live' PROVE \E j \in 1..(n - 1) : chunks'[j] = g
      OBVIOUS
    <3>1. PICK j \in 1..n : chunks[j] = g
      BY <1>2, <1>4, <1>6 DEF Listed, Elements
    <3>2. j # i
      BY <1>4, <1>6, <3>1
    <3>3. CASE j = n
      <4>1. i \in 1..(n - 1) /\ g = last
        BY <1>0, <1>4, <3>1, <3>2, <3>3
      <4> QED BY <1>9, <4>1
    <3>4. CASE j # n
      <4>1. j \in 1..(n - 1)
        BY <1>4, <3>4
      <4> QED BY <1>9, <3>1, <3>2, <4>1
    <3> QED BY <3>3, <3>4
  <2>4. Elements(chunks') = live'
    BY <1>9, <2>2, <2>3 DEF Elements
  <2> QED BY <2>1, <2>4 DEF Listed, Elements
<1>14. Indexed' /\ SortedSo'
  <2>1. ASSUME NEW j \in 1..(n - 1)
        PROVE  chunks'[j] \in DOMAIN header' /\ header'[chunks'[j]].idx = j
    <3>0. j \in 1..n /\ j # n
      BY <1>4
    <3>1. chunks'[j] \in live'
      BY <1>9, <1>13 DEF Listed, Elements
    <3>2. chunks'[j] \in DOMAIN header'
      BY <1>6, <1>7, <3>1
    <3>3. CASE j = i
      BY <1>7, <1>9, <3>2, <3>3
    <3>4. CASE j # i
      <4>1. chunks'[j] = chunks[j] /\ chunks[j] # last /\ header[chunks[j]].idx = j
        BY <1>0, <1>2, <1>4, <1>9, <3>0, <3>4 DEF Listed, Indexed
      <4> QED BY <1>7, <3>2, <4>1
    <3> QED BY <3>2, <3>3, <3>4
  <2> QED BY <1>1, <1>9, <2>1 DEF Indexed, SortedSo
<1>15. OpSpan(t)' = Block(h) /\ \A u \in Thread : u # t => OpSpan(u)' = OpSpan(u) 
  BY <1>8 DEF OpSpan, Block, Span
<1>16. \A u \in Thread : Owns(u)' <=> u # t /\ Owns(u)
  BY <1>8 DEF Owns
<1>17. \A g \in live' : Block(g)' = Block(g) /\ g \in DOMAIN header'
  BY <1>6, <1>7 DEF Block, Span
<1>18. Placed'
  <2>1. \A u \in Thread : op'[u].pc # "idle" => 
          Within(op'[u].at, op'[u].beg, op'[u].pages, op'[u].size)
    BY <1>2, <1>3, <1>8 DEF Placed
  <2>2. \A g \in live' : Within(g, header'[g].beg, header'[g].pages, header'[g].size)
    BY <1>2, <1>6, <1>7, <1>17 DEF Placed
  <2> QED BY <2>1, <2>2 DEF Placed, Within, Span, Page
<1>19. Mapped'
  <2>0. DOMAIN access' = DOMAIN access \ Block(h)
    BY <1>1 DEF Drop
  <2>1. \A u \in Thread : Owns(u) => u # t /\ OpSpan(u) \cap Block(h) = {}
    BY <1>2 DEF Apart, Owns
  <2>2. \A u \in Thread : Owns(u)' => OpSpan(u)' \subseteq DOMAIN access'
    BY <1>2, <1>15, <1>16, <2>0, <2>1 DEF Mapped
  <2>3. \A g \in live' : Block(g)' \subseteq DOMAIN access'
    <3>1. \A g \in live' : Block(g) \cap Block(h) = {}
      BY <1>2, <1>6 DEF Apart
    <3> QED BY <1>2, <1>6, <1>17, <2>0, <3>1 DEF Mapped
  <2> QED BY <2>2, <2>3 DEF Mapped, Block, OpSpan, Span, Owns
<1>20. Headed'
  <2> SUFFICES ASSUME NEW u \in Thread, op'[u].pc = "headed", Writable(op[u].at)'
               PROVE  (op[u].at \in DOMAIN header
                        /\ header[op[u].at] = [beg |-> op[u].beg, pages |-> op[u].pages, 
                                               size |-> op[u].size, idx |-> 0])'
    BY DEF Headed, Writable
  <2>1. u # t /\ op'[u] = op[u]
    BY <1>8
  <2>2. Writable(op[u].at)
    BY <1>1, <2>1 DEF Writable, Drop
  <2>3. op[u].at \notin Block(h) /\ op[u].at # last
    <3>1. OpSpan(u) \cap Block(h) = {} /\ OpSpan(u) \cap Block(last) = {}
      BY <1>2, <1>5, <2>1 DEF Apart
    <3> QED BY <1>5, <2>1, <3>1, OwnPlace
  <2> QED BY <1>2, <1>7, <2>1, <2>2, <2>3 DEF Headed
<1>21. Apart'
  <2>1. \A g, k \in live' : g # k => Block(g)' \cap Block(k)' = {}
    BY <1>2, <1>6, <1>17 DEF Apart
  <2>2. \A g \in live', u \in Thread : op'[u].pc # "idle" => Block(g)' \cap OpSpan(u)' = {}
    BY <1>2, <1>6, <1>8, <1>15, <1>17 DEF Apart
  <2>3. \A v, u \in Thread : v # u /\ Owns(v)' /\ Owns(u)' => OpSpan(v)' \cap OpSpan(u)' = {}
    BY <1>2, <1>15, <1>16 DEF Apart
  <2> QED BY <2>1, <2>2, <2>3 DEF Apart, Block, OpSpan, Span, Owns
<1> QED BY <1>10, <1>11, <1>12, <1>13, <1>14, <1>18, <1>19, <1>20, <1>21 DEF LargeInv

(* The hole loses its access; the chunks held are elsewhere.               *)
LEMMA ReserveStep ==
  ASSUME LargeInv, NEW t \in Thread, Reserve(t)
  PROVE  LargeInv'
<1>1. /\ op[t].pc = "unmapped" /\ access' = Over(access, OpSpan(t), "none")
      /\ header' = Drop(header, OpSpan(t)) /\ mutex' = NoThread
      /\ op' = [op EXCEPT ![t] = Idle] /\ UNCHANGED <<chunks, sorted, allocated, live, fate>>
  BY DEF Reserve, At, arrayVars, Reserved, OpSpan
<1>2. TypeOK /\ Holder /\ Placed /\ Mapped /\ Headed /\ Apart
  BY DEF LargeInv
<1>3. /\ op' \in [Thread -> OpType] /\ op'[t] = Idle
      /\ \A u \in Thread : u # t => op'[u] = op[u]
  <2>1. op \in [Thread -> OpType]
    BY <1>2 DEF TypeOK
  <2>2. Idle \in OpType
    BY LargeAssumption DEF Idle, OpType
  <2> QED BY <1>1, <2>1, <2>2
<1>4. \A p : p \in DOMAIN header' <=> p \in DOMAIN header /\ p \notin OpSpan(t)
  BY <1>1 DEF Drop
<1>5. \A p \in DOMAIN header' : header'[p] = header[p]
  BY <1>1 DEF Drop
<1>6. DOMAIN access' = DOMAIN access \cup OpSpan(t)
      /\ \A p \in DOMAIN access' : 
           access'[p] = IF p \in OpSpan(t) THEN "none" ELSE access[p]
  BY <1>1 DEF Over
<1>7. TypeOK'
  <2>1. OpSpan(t) \subseteq Page
    BY <1>1, <1>2 DEF Placed, Within, OpSpan
  <2>2. /\ DOMAIN access' \subseteq Page /\ DOMAIN header' \subseteq DOMAIN access'
        /\ \A p \in DOMAIN access' : access'[p] \in {"rw", "none"}
    BY <1>2, <1>4, <1>6, <2>1 DEF TypeOK
  <2>3. \A p \in DOMAIN header' : header'[p] \in HeaderType
    BY <1>2, <1>4, <1>5 DEF TypeOK
  <2> QED BY <1>1, <1>2, <1>3, <2>2, <2>3 DEF TypeOK
<1>8. Holder'
  BY <1>1, <1>2, <1>3, LargeAssumption DEF Holder, Idle
<1>9. \A h \in live : h \in DOMAIN header' /\ header'[h] = header[h]
  BY <1>1, <1>2, <1>4, <1>5, OwnPlace DEF Apart
<1>10. Listed' /\ Indexed' /\ SortedSo' /\ Counted' 
       /\ \A h \in live : Block(h)' = Block(h) 
            /\ Within(h, header[h].beg, header[h].pages, header[h].size)'
  BY <1>1, <1>9, ArrayKept
<1>11. \A u \in Thread : op'[u].pc # "idle" => u # t /\ op'[u] = op[u] /\ OpSpan(u)' = OpSpan(u)
  BY <1>3 DEF OpSpan, Span, Idle
<1>12. \A u \in Thread : Owns(u)' <=> u # t /\ Owns(u)
  BY <1>3 DEF Owns, Idle
<1>13. Placed'
  <2>1. \A u \in Thread : op'[u].pc # "idle" => 
          Within(op'[u].at, op'[u].beg, op'[u].pages, op'[u].size)
    BY <1>2, <1>11 DEF Placed
  <2> QED BY <1>1, <1>10, <2>1 DEF Placed, Within, Span
<1>14. Mapped'
  <2>1. \A u \in Thread : Owns(u)' => OpSpan(u)' \subseteq DOMAIN access'
    BY <1>2, <1>6, <1>11, <1>12 DEF Mapped, Owns
  <2>2. \A h \in live' : Block(h)' \subseteq DOMAIN access'
    BY <1>1, <1>2, <1>6, <1>10 DEF Mapped
  <2> QED BY <2>1, <2>2 DEF Mapped, Block, OpSpan, Span, Owns
<1>15. Headed'
  <2> SUFFICES ASSUME NEW u \in Thread, op'[u].pc = "headed", Writable(op[u].at)'
               PROVE  (op[u].at \in DOMAIN header
                        /\ header[op[u].at] = [beg |-> op[u].beg, pages |-> op[u].pages, 
                                               size |-> op[u].size, idx |-> 0])'
    BY DEF Headed, Writable
  <2>1. u # t /\ op'[u] = op[u]
    BY <1>11
  <2>2. op[u].at \notin OpSpan(t) /\ Writable(op[u].at)
    BY <1>6, <2>1 DEF Writable
  <2> QED BY <1>2, <1>4, <1>5, <2>1, <2>2 DEF Headed
<1>16. Apart'
  <2>1. \A g, h \in live' : g # h => Block(g)' \cap Block(h)' = {}
    BY <1>1, <1>2, <1>10 DEF Apart
  <2>2. \A h \in live', u \in Thread : op'[u].pc # "idle" => Block(h)' \cap OpSpan(u)' = {}
    BY <1>1, <1>2, <1>10, <1>11 DEF Apart
  <2>3. \A v, u \in Thread : v # u /\ Owns(v)' /\ Owns(u)' => OpSpan(v)' \cap OpSpan(u)' = {}
    BY <1>2, <1>11, <1>12 DEF Apart, Owns
  <2> QED BY <2>1, <2>2, <2>3 DEF Apart, Block, OpSpan, Span, Owns
<1> QED BY <1>7, <1>8, <1>10, <1>13, <1>14, <1>15, <1>16 DEF LargeInv

(* Sorting only changes the order, and the headers are told.               *)
LEMMA SortStep ==
  ASSUME LargeInv, Sort, \A h \in Elements(chunks) : Readable(h)
  PROVE  LargeInv'
<1>1. /\ chunks' = InOrder(chunks) /\ sorted' = TRUE
      /\ header' = [h \in DOMAIN header |-> 
                      IF h \notin Elements(chunks) THEN header[h]
                      ELSE [header[h] EXCEPT !.idx = 
                              CHOOSE i \in DOMAIN chunks : InOrder(chunks)[i] = h]]
      /\ UNCHANGED <<allocated, access, mutex, live, op, fate>>
  BY DEF Sort
<1>2. TypeOK /\ Holder /\ Listed /\ Indexed /\ Placed /\ Mapped /\ Headed /\ Apart /\ Counted
  BY DEF LargeInv
<1>3. chunks \in Seq(Page) /\ Len(chunks) <= MaxChunks /\ Len(chunks) \in Nat 
      /\ DOMAIN chunks = 1..Len(chunks) /\ OneToOne(chunks) /\ Elements(chunks) = live
  BY <1>2 DEF TypeOK, Listed, OneToOne
<1>4. /\ chunks' \in Seq(Page) /\ Len(chunks') = Len(chunks) /\ DOMAIN chunks' = DOMAIN chunks
      /\ Elements(chunks') = live /\ OneToOne(chunks') /\ Increasing(chunks')
  BY <1>1, <1>3, InOrderSorts
<1>5. PICK idx : idx = [h \in live |-> CHOOSE i \in DOMAIN chunks : chunks'[i] = h]
  OBVIOUS
<1>6. \A h \in live : idx[h] \in DOMAIN chunks /\ chunks'[idx[h]] = h
  <2>1. \A h \in live : \E i \in DOMAIN chunks : chunks'[i] = h
    BY <1>4 DEF Elements
  <2> QED BY <1>5, <2>1
<1>7. \A i \in DOMAIN chunks : idx[chunks'[i]] = i /\ chunks'[i] \in live
  <2>1. \A i \in DOMAIN chunks : chunks'[i] \in live
    BY <1>4 DEF Elements
  <2> QED BY <1>4, <1>6, <2>1 DEF OneToOne
<1>8. /\ DOMAIN header' = DOMAIN header 
      /\ \A h \in DOMAIN header : h \notin live => header'[h] = header[h]
      /\ \A h \in live : header'[h] = [header[h] EXCEPT !.idx = idx[h]]
  <2>1. \A h \in live : h \in DOMAIN header
    BY OwnPlace
  <2>2. \A h \in live : idx[h] = CHOOSE i \in DOMAIN chunks : InOrder(chunks)[i] = h
    BY <1>1, <1>5
  <2> QED BY <1>1, <1>3, <2>1, <2>2
<1>9. \A h \in live : 
        /\ h \in DOMAIN header /\ header'[h].beg = header[h].beg /\ header'[h].pages = header[h].pages 
        /\ header'[h].size = header[h].size /\ header'[h].idx = idx[h] /\ header'[h] \in HeaderType
  <2> SUFFICES ASSUME NEW h \in live
               PROVE  /\ h \in DOMAIN header /\ header'[h].beg = header[h].beg 
                      /\ header'[h].pages = header[h].pages /\ header'[h].size = header[h].size 
                      /\ header'[h].idx = idx[h] /\ header'[h] \in HeaderType
    OBVIOUS
  <2>1. h \in DOMAIN header /\ header[h] \in HeaderType
    BY OwnPlace
  <2>2. idx[h] \in 0..MaxChunks
    BY <1>3, <1>6, LargeAssumption
  <2>3. header'[h] = [header[h] EXCEPT !.idx = idx[h]]
    BY <1>8
  <2> QED BY <2>1, <2>2, <2>3 DEF HeaderType
<1>10. TypeOK'
  <2>1. \A p \in DOMAIN header' : header'[p] \in HeaderType
    BY <1>2, <1>8, <1>9 DEF TypeOK
  <2> QED BY <1>1, <1>2, <1>3, <1>4, <1>8, <2>1 DEF TypeOK
<1>11. Holder'
  BY <1>1, <1>2 DEF Holder
<1>12. Listed' /\ Indexed' /\ SortedSo'
  <2>1. Listed'
    BY <1>1, <1>4 DEF Listed, OneToOne, Elements
  <2>2. Indexed'
    BY <1>4, <1>7, <1>8, <1>9 DEF Indexed
  <2>3. SortedSo'
    BY <1>4 DEF SortedSo, Increasing
  <2> QED BY <2>1, <2>2, <2>3
<1>13. \A h \in live : Block(h)' = Block(h)
  BY <1>9 DEF Block, Span
<1>14. Placed' /\ Mapped'
  <2>1. \A h \in live : Within(h, header'[h].beg, header'[h].pages, header'[h].size)
    BY <1>2, <1>9 DEF Placed
  <2>2. Placed'
    BY <1>1, <1>2, <2>1 DEF Placed, Within, Span
  <2>3. Mapped'
    BY <1>1, <1>2, <1>13 DEF Mapped, Block, OpSpan, Span, Owns
  <2> QED BY <2>2, <2>3
<1>15. Headed'
  <2> SUFFICES ASSUME NEW u \in Thread, op[u].pc = "headed", Writable(op[u].at)
               PROVE  op[u].at \in DOMAIN header' /\ header'[op[u].at] = header[op[u].at]
    BY <1>1, <1>2 DEF Headed, Writable
  <2>1. op[u].at \in DOMAIN header /\ op[u].at \notin live
    BY <1>2, OwnPlace DEF Headed, Apart
  <2> QED BY <1>8, <2>1
<1>16. Apart'
  <2>1. \A g, h \in live' : g # h => Block(g)' \cap Block(h)' = {}
    BY <1>1, <1>2, <1>13 DEF Apart
  <2>2. \A h \in live', u \in Thread : op'[u].pc # "idle" => Block(h)' \cap OpSpan(u)' = {}
    BY <1>1, <1>2, <1>13 DEF Apart, OpSpan
  <2>3. \A v, u \in Thread : v # u /\ Owns(v)' /\ Owns(u)' => OpSpan(v)' \cap OpSpan(u)' = {}
    BY <1>1, <1>2 DEF Apart, OpSpan, Owns
  <2> QED BY <2>1, <2>2, <2>3 DEF Apart, Block, OpSpan, Span, Owns
<1>17. Counted'
  <2>1. PICK F : Measure(F, live) /\ F[live] = allocated
    BY <1>2 DEF Counted
  <2>2. Measure(F, live)'
    <3>1. live' = live /\ \A h \in live : header'[h].pages = header[h].pages
      BY <1>1, <1>9
    <3> QED BY <2>1, <3>1 DEF Measure
  <2> QED BY <1>1, <2>1, <2>2 DEF Counted
<1> QED BY <1>10, <1>11, <1>12, <1>14, <1>15, <1>16, <1>17 DEF LargeInv

(* A step that changes nothing.                                            *)
LEMMA StutterStep ==
  ASSUME LargeInv, UNCHANGED vars
  PROVE  LargeInv'
<1>1. UNCHANGED <<chunks, sorted, allocated, header, access, mutex, live, op>> /\ fate' = fate
  BY DEF vars, arrayVars, memoryVars
<1>2. TypeOK' /\ Holder' /\ Listed' /\ Indexed' /\ SortedSo' 
  BY <1>1 DEF LargeInv, TypeOK, Holder, Listed, Indexed, SortedSo, Elements
<1>3. Placed' /\ Mapped' /\ Headed'
  BY <1>1 DEF LargeInv, Placed, Within, Span, Mapped, Headed, Block, OpSpan, Owns, Writable
<1>4. Apart' /\ Counted'
  BY <1>1 DEF LargeInv, Apart, Block, OpSpan, Span, Owns, Counted, Measure
<1> QED BY <1>2, <1>3, <1>4 DEF LargeInv

(* Every step keeps the invariant.                                         *)
LEMMA InvStep == LargeInv /\ [Next]_vars => LargeInv'
<1> SUFFICES ASSUME LargeInv, [Next]_vars PROVE LargeInv'
  OBVIOUS
<1>1. CASE UNCHANGED vars
  BY <1>1, StutterStep
<1>2. ASSUME NEW t \in Thread, Allocate(t) PROVE LargeInv'
  <2>1. ASSUME NEW size \in Sizes, NEW align \in Alignments, Map(t, size, align) PROVE LargeInv'
    BY <2>1, MapStep
  <2>2. CASE WriteHeader(t)
    BY <2>2, WriteHeaderStep
  <2>3. CASE Enlist(t)
    BY <2>3, EnlistStep
  <2>4. CASE AllocateDies(t)
    BY <2>4, DieStep DEF AllocateDies
  <2> QED BY <1>2, <2>1, <2>2, <2>3, <2>4 DEF Allocate
<1>3. ASSUME NEW t \in Thread, Deallocate(t) PROVE LargeInv'
  <2>1. ASSUME NEW h \in live, Delist(t, h) PROVE LargeInv'
    <3>1. op[t].pc = "idle" /\ mutex = NoThread
      BY <2>1 DEF Delist, At
    <3>2. \/ Die("fault") \/ Die("check_failed") 
          \/ KnowsItsPlace(h) /\ Unmap(t, h)
      BY <2>1 DEF Delist
    <3> QED BY <3>1, <3>2, DieStep, UnmapStep
  <2>2. CASE Reserve(t)
    BY <2>2, ReserveStep
  <2> QED BY <1>3, <2>1, <2>2 DEF Deallocate
<1>4. ASSUME NEW t \in Thread, EnsureSorted(t) PROVE LargeInv'
  <2>1. \/ Die("fault") 
        \/ Sort /\ \A h \in Elements(chunks) : Readable(h)
    BY <1>4 DEF EnsureSorted
  <2> QED BY <2>1, DieStep, SortStep
<1> QED BY <1>1, <1>2, <1>3, <1>4 DEF Next

----------------------------------------------------------------------------
(* The theorems.                                                           *)

(* The inductive invariant holds in every reachable state.                 *)
THEOREM LargeInvariantHolds == Spec => []LargeInv
BY InvInit, InvStep, PTL DEF Spec

(* Every variable has its type; no count goes below zero, and a page with  *)
(* a header is mapped.                                                     *)
THEOREM LargeTypesHold == Spec => []TypeOK
<1>1. LargeInv => TypeOK
  BY DEF LargeInv
<1> QED BY <1>1, LargeInvariantHolds, PTL

(* Whoever has the mutex can read the header of every listed chunk, which  *)
(* says where it is in chunks_: the CHECKs of the walks cannot fail.       *)
THEOREM HeadersKnowTheirPlaces == Spec => []ChunksAnswer
<1>1. LargeInv => ChunksAnswer
  BY DEF LargeInv, Indexed, ChunksAnswer, Readable
<1> QED BY <1>1, LargeInvariantHolds, PTL

(* chunks_ has each chunk the program holds once, and the statistics count *)
(* the pages of exactly those.                                             *)
THEOREM TheArrayIsTheProgramsChunks == Spec => []Enlisted
<1>1. LargeInv => Enlisted
  <2> SUFFICES ASSUME LargeInv PROVE Enlisted
    OBVIOUS
  <2>1. TypeOK /\ Listed /\ Counted
    BY DEF LargeInv
  <2>2. IsFiniteSet(live) /\ Cardinality(live) = Len(chunks) /\ Elements(chunks) = live
    BY <2>1, ElementsCount DEF TypeOK, Listed, OneToOne
  <2>3. PICK F : Measure(F, live) /\ F[live] = allocated
    BY <2>1 DEF Counted
  <2>4. MapThenSumSet(LAMBDA h : header[h].pages, live) = allocated
    BY <2>2, <2>3, SumIsMeasure
  <2>5. MapThenSumSet(LAMBDA h : header[h].pages, Elements(chunks)) = allocated
    BY <2>2, <2>4
  <2> QED BY <2>2, <2>5 DEF Enlisted
<1> QED BY <1>1, LargeInvariantHolds, PTL

(* No page of a chunk in chunks_ loses its access, and of a chunk on its   *)
(* way there only one that the fixed mapping over a free's hole covers.    *)
THEOREM AccessIsLostInHolesOnly == Spec => OnlyHolesLost
<1> DEFINE Kept(p) == 
             /\ \A h \in live \cap live' : p \notin Span(header[h].beg, header[h].pages)
             /\ \A t \in Thread : 
                  op[t].pc \in {"mapped", "headed"} /\ p \in Span(op[t].beg, op[t].pages) =>
                    \E u \in Thread : 
                      op[u].pc = "unmapped" /\ p \in Span(op[u].beg, op[u].pages)
           AllKept == \A p \in Page : Writable(p) /\ ~Writable(p)' => Kept(p)
<1>1. LargeInv /\ [Next]_vars => [AllKept]_vars
  <2> SUFFICES ASSUME LargeInv, Next, NEW p \in Page, Writable(p), ~Writable(p)'
               PROVE  Kept(p)
    OBVIOUS
  <2>1. access' # access
    BY DEF Writable
  <2>2. ASSUME NEW t \in Thread, NEW size \in Sizes, NEW align \in Alignments, Map(t, size, align) 
        PROVE FALSE
    <3>1. \A q \in DOMAIN access : q \in DOMAIN access' /\ (access[q] = "rw" => access'[q] = "rw")
      BY <2>2 DEF Map, Over
    <3> QED BY <3>1 DEF Writable
  <2>3. ASSUME NEW t \in Thread, NEW g \in live, op[t].pc = "idle", mutex = NoThread, Unmap(t, g) 
        PROVE  Kept(p)
    <3>1. access' = Drop(access, Block(g)) /\ live' = live \ {g}
      BY <2>3 DEF Unmap, Block
    <3>2. p \in Block(g)
      BY <3>1 DEF Writable, Drop
    <3>3. \A h \in live' : p \notin Block(h)
      BY <3>1, <3>2 DEF LargeInv, Apart
    <3>4. \A u \in Thread : op[u].pc # "idle" => p \notin OpSpan(u)
      BY <3>2 DEF LargeInv, Apart
    <3> QED BY <3>3, <3>4 DEF Block, OpSpan
  <2>4. ASSUME NEW t \in Thread, Reserve(t) PROVE Kept(p)
    <3>1. op[t].pc = "unmapped" /\ access' = Over(access, OpSpan(t), "none") /\ live' = live
      BY <2>4 DEF Reserve, At, Reserved, OpSpan
    <3>2. p \in OpSpan(t)
      BY <3>1 DEF Writable, Over
    <3>3. \A h \in live : p \notin Block(h)
      BY <3>1, <3>2 DEF LargeInv, Apart
    <3> QED BY <3>1, <3>2, <3>3 DEF Block, OpSpan
  <2>5. PICK t \in Thread : Allocate(t) \/ Deallocate(t) \/ EnsureSorted(t)
    BY DEF Next
  <2>6. ~EnsureSorted(t)
    BY <2>1 DEF EnsureSorted, Sort, Die, memoryVars
  <2>7. CASE Allocate(t)
    BY <2>1, <2>2, <2>7 DEF Allocate, WriteHeader, Enlist, AllocateDies, Die, memoryVars
  <2>8. CASE Deallocate(t)
    <3>1. CASE \E g \in live : Delist(t, g)
      BY <2>1, <2>3, <3>1 DEF Delist, At, Die, memoryVars
    <3> QED BY <2>4, <2>8, <3>1 DEF Deallocate
  <2> QED BY <2>5, <2>6, <2>7, <2>8
<1> QED BY <1>1, LargeInvariantHolds, PTL DEF Spec, OnlyHolesLost

----------------------------------------------------------------------------
(* The lookups.                                                            *)

(* A set of numbers that is not empty has a smallest one.                  *)
LEMMA SmallestOne ==
  ASSUME NEW T \in SUBSET Nat, T # {}
  PROVE  \E x \in T : \A y \in T : x <= y
<1>1. PICK x \in T : \A y \in T : ~ (<<y, x>> \in OpToRel(<, Nat))
  BY NatLessThanWellFounded, WFMin
<1>2. \A y \in T : y < x => <<y, x>> \in OpToRel(<, Nat)
  BY DEF OpToRel
<1>3. \A y \in T : ~(y < x)
  BY <1>1, <1>2
<1> QED BY <1>3

(* The binary search stops, at one or two places around p's.               *)
LEMMA SearchNarrows ==
  ASSUME NEW s \in Seq(Nat), Len(s) >= 1, Increasing(s), NEW p \in Nat, s[1] <= p
  PROVE  \E b, e \in DOMAIN s : 
           /\ Narrow(s, p) = <<b, e>> /\ e \in {b, b + 1} 
           /\ s[b] <= p /\ \A j \in DOMAIN s : e < j => p < s[j]
<1> DEFINE n == Len(s)
           D == (1..n) \X (1..n)
           width(w) == w[2] - w[1]
           mid(w) == (w[1] + w[2]) \div 2
           lower(w) == <<w[1], mid(w) - 1>>
           upper(w) == <<mid(w), w[2]>>
           Body(f) == [w \in D |-> IF width(w) < 2 THEN w 
                                   ELSE IF p < s[mid(w)] THEN f[lower(w)] ELSE f[upper(w)]]
           found == CHOOSE f : f = Body(f)
<1>1. Narrow(s, p) = found[<<1, n>>]
  BY DEF Narrow
<1>2. n \in Nat /\ n >= 1 /\ DOMAIN s = 1..n /\ \A i \in 1..n : s[i] \in Nat
  BY ElementOfSeq
<1> HIDE DEF n, found
<1>3. ASSUME NEW w \in D, ~(width(w) < 2)
      PROVE  /\ mid(w) \in 1..n /\ w[1] < mid(w) /\ mid(w) < w[2]
             /\ lower(w) \in D /\ upper(w) \in D /\ w = <<w[1], w[2]>>
             /\ width(lower(w)) \in Nat /\ width(lower(w)) < width(w)
             /\ width(upper(w)) \in Nat /\ width(upper(w)) < width(w)
  <2>1. PICK a \in 1..n, b \in 1..n : w = <<a, b>> /\ w[1] = a /\ w[2] = b
    OBVIOUS
  <2> DEFINE m == (a + b) \div 2
  <2>2. a \in Nat /\ b \in Nat /\ b >= a + 2
    BY <1>2, <1>3, <2>1
  <2>3. m \in Nat /\ a < m /\ m < b
    BY <2>2
  <2>4. mid(w) = m
    BY <2>1
  <2> HIDE DEF m, mid
  <2>5. mid(w) \in 1..n /\ a < mid(w) /\ mid(w) < b /\ mid(w) - 1 \in 1..n
    BY <1>2, <2>1, <2>2, <2>3, <2>4
  <2>6. lower(w) = <<a, mid(w) - 1>> /\ upper(w) = <<mid(w), b>>
    BY <2>1
  <2>7. width(lower(w)) = mid(w) - 1 - a /\ width(upper(w)) = b - mid(w) /\ width(w) = b - a
    BY <2>1, <2>6
  <2> HIDE DEF lower, upper, width
  <2>8. lower(w) \in D /\ upper(w) \in D
    BY <2>1, <2>5, <2>6
  <2>9. /\ width(lower(w)) \in Nat /\ width(lower(w)) < width(w)
        /\ width(upper(w)) \in Nat /\ width(upper(w)) < width(w)
    <3>1. PICK c \in 1..n : c = mid(w)
      BY <2>5
    <3>2. a < c /\ c < b /\ c - 1 \in 1..n /\ c \in Nat
      BY <1>2, <2>5, <3>1
    <3>3. c - 1 - a \in Nat /\ c - 1 - a < b - a /\ b - c \in Nat /\ b - c < b - a
      BY <2>2, <3>2
    <3> QED BY <2>7, <3>1, <3>3
  <2> QED BY <2>1, <2>5, <2>8, <2>9
<1>4. \A w \in D : width(w) \in Int
  BY <1>2
<1> HIDE DEF mid, lower, upper, width
<1>5. /\ \A f \in [D -> D] : Body(f) \in [D -> D]
      /\ \A f : \A w \in D : 
           Body(f)[w] = IF width(w) < 2 THEN w 
                        ELSE IF p < s[mid(w)] THEN f[lower(w)] ELSE f[upper(w)]
  BY <1>3
<1> HIDE DEF Body
<1> DEFINE Upto(f, k) == \A w \in D : width(w) < k => f[w] = Body(f)[w]
           Bad == {k \in Nat : \A f \in [D -> D] : ~Upto(f, k)}
<1>6. Bad = {}
  <2> SUFFICES ASSUME Bad # {} PROVE FALSE
    OBVIOUS
  <2>1. PICK k \in Bad : \A j \in Bad : k <= j
    <3>1. Bad \in SUBSET Nat
      OBVIOUS
    <3> HIDE DEF Bad
    <3> QED BY <3>1, SmallestOne
  <2>2. k \in Nat /\ \A f \in [D -> D] : ~Upto(f, k)
    BY <2>1
  <2>3. k # 0
    <3> SUFFICES ASSUME k = 0 PROVE FALSE
      OBVIOUS
    <3> DEFINE g == [w \in D |-> w]
    <3>1. \A w \in D : width(w) < 0 => g[w] = Body(g)[w]
      BY <1>4, <1>5
    <3>2. g \in [D -> D] 
      OBVIOUS
    <3> HIDE DEF g
    <3> QED BY <2>2, <3>1, <3>2
  <2>4. PICK f \in [D -> D] : Upto(f, k - 1)
    <3>1. k - 1 \in Nat /\ ~(k <= k - 1)
      BY <2>2, <2>3
    <3> HIDE DEF Upto
    <3> QED BY <2>1, <3>1
  <2> DEFINE g == Body(f)
  <2>5. g \in [D -> D]
    BY <1>5
  <2>6. ASSUME NEW w \in D, width(w) < k PROVE g[w] = Body(g)[w]
    <3>1. CASE width(w) < 2
      BY <1>5, <3>1
    <3>2. CASE ~(width(w) < 2)
      <4>1. lower(w) \in D /\ upper(w) \in D /\ width(lower(w)) < k - 1 /\ width(upper(w)) < k - 1
        <5>1. /\ lower(w) \in D /\ upper(w) \in D 
              /\ width(lower(w)) < width(w) /\ width(upper(w)) < width(w)
          BY <1>3, <3>2
        <5>2. width(w) \in Int /\ width(lower(w)) \in Int /\ width(upper(w)) \in Int
          BY <1>4, <5>1
        <5> HIDE DEF width, lower, upper, D
        <5> QED BY ONLY <2>2, <2>6, <5>1, <5>2
      <4>2. g[lower(w)] = f[lower(w)] /\ g[upper(w)] = f[upper(w)]
        BY <2>4, <4>1
      <4>3. Body(g)[w] = IF p < s[mid(w)] THEN g[lower(w)] ELSE g[upper(w)]
        BY <1>5, <3>2
      <4>4. g[w] = IF p < s[mid(w)] THEN f[lower(w)] ELSE f[upper(w)]
        BY <1>5, <3>2
      <4> QED BY <4>2, <4>3, <4>4
    <3> QED BY <3>1, <3>2
  <2> HIDE DEF g
  <2> QED BY <2>2, <2>5, <2>6
<1>7. found = Body(found)
  <2>1. n + 1 \in Nat
    BY <1>2
  <2>2. PICK f \in [D -> D] : Upto(f, n + 1)
    <3> HIDE DEF Upto
    <3> QED BY <1>6, <2>1
  <2>3. \A w \in D : width(w) < n + 1
    BY <1>2 DEF width
  <2>4. Body(f) \in [D -> D] /\ \A w \in D : f[w] = Body(f)[w]
    BY <1>5, <2>2, <2>3
  <2>5. f = Body(f)
    BY <2>4
  <2> QED BY <2>5 DEF found
<1>8. \A w \in D : found[w] = IF width(w) < 2 THEN w 
                      ELSE IF p < s[mid(w)] THEN found[lower(w)] ELSE found[upper(w)]
  BY <1>5, <1>7
<1> HIDE DEF found
<1> DEFINE Around(w) == /\ w \in D /\ w[1] <= w[2] /\ s[w[1]] <= p 
                        /\ \A j \in 1..n : w[2] < j => p < s[j]
           Wrong == {w \in D : Around(w) /\ ~(Around(found[w]) /\ width(found[w]) < 2)}
<1>9. Wrong = {}
  <2> SUFFICES ASSUME Wrong # {} PROVE FALSE
    OBVIOUS
  <2>1. PICK w \in Wrong : \A v \in Wrong : width(w) <= width(v)
    <3> DEFINE T == {width(v) : v \in Wrong}
    <3>1. \A v \in Wrong : width(v) \in Nat
      BY <1>2 DEF width
    <3>2. T \in SUBSET Nat /\ T # {}
      BY <3>1
    <3> HIDE DEF T, Wrong
    <3>3. PICK k \in T : \A j \in T : k <= j
      BY <3>2, SmallestOne
    <3> QED BY <3>3 DEF T
  <2>2. w \in D /\ Around(w) /\ ~(Around(found[w]) /\ width(found[w]) < 2)
    BY <2>1
  <2>3. ~(width(w) < 2)
    BY <1>8, <2>2
  <2>4. /\ mid(w) \in 1..n /\ w[1] < mid(w) /\ mid(w) < w[2] /\ lower(w) \in D /\ upper(w) \in D
        /\ width(lower(w)) \in Nat /\ width(lower(w)) < width(w)
        /\ width(upper(w)) \in Nat /\ width(upper(w)) < width(w)
    BY <1>3, <2>2, <2>3
  <2>5. width(w) \in Int
    BY <1>4, <2>2
  <2>6. lower(w) \notin Wrong /\ upper(w) \notin Wrong
    <3> HIDE DEF Wrong
    <3> QED BY <2>1, <2>4, <2>5
  <2>7. w[1] \in 1..n /\ w[2] \in 1..n
    BY <2>2
  <2>8. CASE p < s[mid(w)]
    <3>1. lower(w)[1] = w[1] /\ lower(w)[2] = mid(w) - 1
      BY DEF lower
    <3>2. \A j \in 1..n : mid(w) - 1 < j => p < s[j]
      <4> SUFFICES ASSUME NEW j \in 1..n, mid(w) - 1 < j PROVE p < s[j]
        OBVIOUS
      <4> DEFINE m == mid(w)
      <4>0. m \in 1..n /\ m - 1 < j /\ p < s[m] /\ j \in 1..n
        BY <2>4, <2>8
      <4> HIDE DEF m
      <4>1. j = m \/ m < j
        BY ONLY <1>2, <4>0
      <4>2. m < j => s[m] < s[j]
        <5>1. m \in DOMAIN s /\ j \in DOMAIN s
          BY ONLY <1>2, <4>0
        <5> QED BY ONLY <5>1, Increasing(s) DEF Increasing
      <4>3. s[m] \in Nat /\ s[j] \in Nat /\ p \in Nat
        BY ONLY <1>2, <4>0
      <4> QED BY ONLY <4>0, <4>1, <4>2, <4>3
    <3>3. Around(lower(w))
      BY <1>2, <2>2, <2>4, <2>7, <3>1, <3>2
    <3>4. found[w] = found[lower(w)]
      BY <1>8, <2>2, <2>3, <2>8
    <3> HIDE DEF Around
    <3> QED BY <2>2, <2>4, <2>6, <3>3, <3>4
  <2>9. CASE ~(p < s[mid(w)])
    <3>1. upper(w)[1] = mid(w) /\ upper(w)[2] = w[2]
      BY DEF upper
    <3>2. s[mid(w)] <= p
      <4>1. s[mid(w)] \in Nat
        BY <1>2, <2>4
      <4> QED BY <2>9, <4>1
    <3>3. Around(upper(w))
      BY <1>2, <2>2, <2>4, <2>7, <3>1, <3>2
    <3>4. found[w] = found[upper(w)]
      BY <1>8, <2>2, <2>3, <2>9
    <3> HIDE DEF Around
    <3> QED BY <2>2, <2>4, <2>6, <3>3, <3>4
  <2> QED BY <2>8, <2>9
<1> DEFINE all == <<1, n>>
<1>10. all \in D /\ Around(all)
  BY <1>2
<1>11. Around(found[all]) /\ width(found[all]) < 2
  <2> HIDE DEF all, Around
  <2> QED BY <1>9, <1>10
<1>12. PICK b \in 1..n, e \in 1..n : found[all] = <<b, e>>
  <2>1. found[all] \in (1..n) \X (1..n)
    BY <1>11
  <2> HIDE DEF all
  <2> QED BY <2>1
<1>13. b <= e /\ e - b < 2 /\ s[b] <= p /\ \A j \in 1..n : e < j => p < s[j]
  BY <1>11, <1>12 DEF width
<1>14. e \in {b, b + 1}
  BY <1>2, <1>12, <1>13
<1> QED BY <1>1, <1>2, <1>12, <1>13, <1>14

(* The nearest header below a page decides whose the page is.              *)
LEMMA NearestDecides ==
  ASSUME LargeInv, NEW p \in Nat
  PROVE  /\ (\A g \in live : ~(g <= p)) => BlockOf(p) = None
         /\ \A near \in live : near <= p /\ (\A g \in live : g <= p => g <= near) =>
              BlockOf(p) = IF End(near) <= p THEN None ELSE User(near)
<1> DEFINE around == {h \in Elements(chunks) : h <= p /\ p < End(h)}
<1>1. BlockOf(p) = IF around = {} THEN None ELSE User(CHOOSE h \in around : TRUE)
  BY DEF BlockOf
<1>2. Elements(chunks) = live /\ Apart
  BY DEF LargeInv, Listed
<1>3. \A h \in live : /\ h \in Nat /\ header[h].beg \in Nat /\ End(h) \in Nat 
                      /\ header[h].beg <= h /\ h < End(h)
                      /\ \A q \in Nat : header[h].beg <= q /\ q < End(h) => q \in Block(h)
  <2> SUFFICES ASSUME NEW h \in live
               PROVE  /\ h \in Nat /\ header[h].beg \in Nat /\ End(h) \in Nat 
                      /\ header[h].beg <= h /\ h < End(h)
                      /\ \A q \in Nat : header[h].beg <= q /\ q < End(h) => q \in Block(h)
    OBVIOUS
  <2>1. h \in Page /\ h \in Block(h) /\ header[h] \in HeaderType
    BY OwnPlace
  <2> QED BY <2>1, LargeAssumption DEF Page, HeaderType, Block, Span, End
<1>4. (\A g \in live : ~(g <= p)) => BlockOf(p) = None
  BY <1>1, <1>2
<1>5. ASSUME NEW near \in live, near <= p, \A g \in live : g <= p => g <= near
      PROVE  BlockOf(p) = IF End(near) <= p THEN None ELSE User(near)
  <2>1. ASSUME NEW g \in live, g <= p, p < End(g) PROVE g = near
    <3>1. near \in Block(g)
      BY <1>3, <1>5, <2>1
    <3>2. near \in Block(near)
      BY OwnPlace
    <3> QED BY <1>2, <3>1, <3>2 DEF Apart
  <2>2. CASE End(near) <= p
    <3>1. around = {}
      BY <1>2, <1>3, <2>1, <2>2
    <3> QED BY <1>1, <2>2, <3>1
  <2>3. CASE ~(End(near) <= p)
    <3>1. near \in around /\ \A g \in around : g = near
      BY <1>2, <1>3, <1>5, <2>1, <2>3
    <3> HIDE DEF around
    <3>2. (CHOOSE h \in around : TRUE) = near
      BY <3>1
    <3> QED BY <1>1, <2>3, <3>1, <3>2
  <2> QED BY <2>2, <2>3
<1> QED BY <1>4, <1>5

(* The linear search finds the chunk a page lies in.                       *)
LEMMA LinearSearch ==
  ASSUME LargeInv, NEW p \in Nat
  PROVE  GetBlockBegin(p) = BlockOf(p)
<1> DEFINE below == {h \in Elements(chunks) : h <= p}
           near == CHOOSE h \in below : \A g \in below : g <= h
<1>1. Elements(chunks) = live /\ live \subseteq Nat
  BY LargeAssumption DEF LargeInv, Listed, TypeOK, Page
<1>2. GetBlockBegin(p) = IF below = {} THEN None ELSE IF End(near) <= p THEN None ELSE User(near)
  BY DEF GetBlockBegin
<1>3. CASE below = {}
  BY <1>1, <1>2, <1>3, NearestDecides
<1>4. CASE below # {}
  <2>1. \E h \in below : \A g \in below : g <= h
    <3> DEFINE T == {p - h : h \in below}
    <3>1. T \in SUBSET Nat /\ T # {}
      <4>1. ASSUME NEW h \in below PROVE p - h \in Nat
        <5>1. h \in Nat /\ h <= p
          BY <1>1
        <5> QED BY <5>1
      <4> HIDE DEF below
      <4> QED BY <1>4, <4>1
    <3> HIDE DEF T, below
    <3>2. PICK d \in T : \A e \in T : d <= e
      BY <3>1, SmallestOne
    <3>3. PICK h \in below : d = p - h
      BY <3>2 DEF T
    <3>4. \A g \in below : p - h <= p - g
      BY <3>2, <3>3 DEF T
    <3>5. \A g \in below : g \in Nat
      BY <1>1 DEF below
    <3>6. \A g \in below : g <= h
      BY <3>3, <3>4, <3>5
    <3> QED BY <3>6
  <2>2. near \in below /\ \A g \in below : g <= near
    <3> HIDE DEF below
    <3> QED BY <2>1
  <2> HIDE DEF near
  <2>3. near \in live /\ near <= p /\ \A g \in live : g <= p => g <= near
    BY <1>1, <2>2
  <2>4. GetBlockBegin(p) = IF End(near) <= p THEN None ELSE User(near)
    BY <1>2, <1>4
  <2> QED BY <2>3, <2>4, NearestDecides
<1> QED BY <1>3, <1>4

(* So does the binary search, in a sorted copy or in place.                *)
LEMMA FastSearch ==
  ASSUME LargeInv, NEW p \in Nat
  PROVE  GetBlockBeginFast(p) = BlockOf(p)
<1>1. PICK s : s = IF sorted THEN chunks ELSE InOrder(chunks)
  OBVIOUS
<1> DEFINE n == Len(s)
           h == s[Candidate(s, p)]
<1>2. GetBlockBeginFast(p) = 
        IF n = 0 THEN None
        ELSE IF p < s[1] \/ p >= s[n] + header[s[n]].pages THEN None
        ELSE IF End(h) <= p \/ p < header[h].beg THEN None ELSE User(h)
  BY <1>1 DEF GetBlockBeginFast
<1>3. TypeOK /\ Listed /\ SortedSo /\ Page \subseteq Nat /\ live \subseteq Nat
  BY LargeAssumption DEF LargeInv, TypeOK, Page
<1>4. s \in Seq(Page) /\ Increasing(s) /\ Elements(s) = live
  <2>1. chunks \in Seq(Page) /\ OneToOne(chunks) /\ Elements(chunks) = live
    BY <1>3 DEF TypeOK, Listed, OneToOne
  <2>2. sorted => Increasing(chunks)
    BY <1>3 DEF SortedSo, Increasing
  <2> QED BY <1>1, <2>1, <2>2, InOrderSorts
<1>5. n \in Nat /\ DOMAIN s = 1..n /\ s \in Seq(Nat) 
  <2>1. n \in Nat /\ DOMAIN s = 1..n /\ s \in [1..n -> Page]
    BY <1>4
  <2>2. s \in [1..n -> Nat]
    BY <1>3, <2>1
  <2> QED BY <2>1, <2>2
<1>6. \A i \in 1..n : s[i] \in live /\ s[i] \in Nat
  BY <1>3, <1>4, <1>5 DEF Elements
<1>7. \A g \in live : \E i \in 1..n : s[i] = g
  BY <1>4, <1>5 DEF Elements
<1>8. \A g \in live : /\ header[g].beg \in Nat /\ header[g].pages \in Nat /\ header[g].beg <= g
  <2>1. \A g \in live : header[g] \in HeaderType /\ Within(g, header[g].beg, header[g].pages, header[g].size)
    BY OwnPlace DEF LargeInv, Placed
  <2> QED BY <1>3, <2>1 DEF HeaderType, Within
<1> HIDE DEF n, h
<1>9. CASE n = 0
  BY <1>2, <1>7, <1>9, NearestDecides
<1>10. CASE n # 0 /\ p < s[1]
  <2>1. \A i \in 1..n : i = 1 \/ s[1] < s[i]
    BY <1>4, <1>5, <1>10 DEF Increasing
  <2>2. \A g \in live : ~(g <= p)
    <3> SUFFICES ASSUME NEW i \in 1..n PROVE ~(s[i] <= p)
      BY <1>7
    <3>1. s[i] \in Nat /\ s[1] \in Nat
      BY <1>5, <1>6, <1>10
    <3>2. i = 1 \/ s[1] < s[i]
      BY <2>1
    <3> QED BY <1>10, <3>1, <3>2
  <2> QED BY <1>2, <1>10, <2>2, NearestDecides
<1>11. CASE n # 0 /\ ~(p < s[1])
  <2>1. s[1] \in Nat /\ s[n] \in Nat /\ s[1] <= p /\ n >= 1
    BY <1>5, <1>6, <1>11
  <2>2. CASE p >= s[n] + header[s[n]].pages
    <3>1. s[n] \in live /\ header[s[n]].pages \in Nat /\ header[s[n]].beg \in Nat /\ header[s[n]].beg <= s[n]
      BY <1>5, <1>6, <1>8, <2>1
    <3>2. s[n] <= p /\ End(s[n]) <= p
      BY <2>1, <2>2, <3>1 DEF End
    <3>3. \A g \in live : g <= s[n]
      <4> SUFFICES ASSUME NEW i \in 1..n PROVE s[i] <= s[n]
        BY <1>7
      <4>1. i = n \/ s[i] < s[n]
        BY <1>4, <1>5, <2>1 DEF Increasing
      <4> QED BY <1>6, <2>1, <4>1
    <3> QED BY <1>2, <1>11, <2>2, <3>1, <3>2, <3>3, NearestDecides
  <2>3. CASE ~(p >= s[n] + header[s[n]].pages)
    <3>1. PICK b, e \in 1..n : 
            /\ Narrow(s, p) = <<b, e>> /\ e \in {b, b + 1} 
            /\ s[b] <= p /\ \A j \in 1..n : e < j => p < s[j]
      BY <1>4, <1>5, <2>1, SearchNarrows DEF n
    <3>2. PICK c \in 1..n : c = Candidate(s, p) /\ s[c] <= p /\ \A j \in 1..n : c < j => p < s[j]
      <4>1. Candidate(s, p) = IF b < e /\ p >= s[e] THEN e ELSE b
        BY <3>1 DEF Candidate
      <4>2. CASE b < e /\ p >= s[e]
        BY <1>6, <3>1, <4>1, <4>2
      <4>3. CASE ~(b < e /\ p >= s[e])
        <5>1. \A j \in 1..n : b < j => j = e \/ e < j
          BY <1>5, <3>1
        <5>2. \A j \in 1..n : b < j => p < s[j]
          <6> SUFFICES ASSUME NEW j \in 1..n, b < j PROVE p < s[j]
            OBVIOUS
          <6>1. j = e \/ e < j
            BY <5>1
          <6>2. s[j] \in Nat
            BY <1>6
          <6> QED BY <3>1, <4>3, <6>1, <6>2
        <5> QED BY <3>1, <4>1, <4>3, <5>2
      <4> QED BY <4>2, <4>3
    <3>3. h = s[c] /\ h \in live /\ h \in Nat /\ h <= p
      BY <1>6, <3>2 DEF h
    <3>4. \A g \in live : g <= p => g <= h
      <4> SUFFICES ASSUME NEW i \in 1..n, s[i] <= p PROVE s[i] <= s[c]
        BY <1>7, <3>3
      <4>1. s[i] \in Nat /\ s[c] \in Nat
        BY <1>6
      <4>2. ~(c < i)
        BY <3>2, <4>1
      <4>3. i = c \/ i < c
        BY <1>5, <4>2
      <4>4. i < c => s[i] < s[c]
        BY <1>4, <1>5 DEF Increasing
      <4> QED BY <4>1, <4>3, <4>4
    <3>5. ~(p < header[h].beg)
      BY <1>8, <3>3
    <3>6. GetBlockBeginFast(p) = IF End(h) <= p THEN None ELSE User(h)
      BY <1>2, <1>11, <2>3, <3>5
    <3> QED BY <3>3, <3>4, <3>6, NearestDecides
  <2> QED BY <2>2, <2>3
<1> QED BY <1>9, <1>10, <1>11

(* Both lookups find, for every page, exactly the chunk it lies in.        *)
THEOREM TheLookupsAgree == Spec => []LookupsAgree
<1>1. LargeInv => LookupsAgree
  BY LinearSearch, FastSearch, LargeAssumption DEF LookupsAgree
<1> QED BY <1>1, LargeInvariantHolds, PTL
=============================================================================
