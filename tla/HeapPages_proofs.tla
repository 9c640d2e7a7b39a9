-------------------------- MODULE HeapPages_proofs --------------------------
(***************************************************************************)
(* The arithmetic of pages, type correctness of AliasingHeap, and that     *)
(* chunks own their virtual pages and pages of freed chunks never come     *)
(* back, for any number of threads and classes.                            *)
(*                                                                         *)
(* TypeOK is not inductive by itself: that a list operation yields a well- *)
(* typed list needs references to lead to objects of the same Ppage        *)
(* (IndexOK).  The argument for the pages follows an address from a region *)
(* (Unclaimed) to the range of one cache (Fresh), to a chunk being handed  *)
(* out, and from there to the pages that were handed out (Settled), which  *)
(* it never leaves.                                                        *)
(***************************************************************************)
EXTENDS HeapInvariant, TLAPS

----------------------------------------------------------------------------
(* The arithmetic of pages.                                                *)

(* Rounding down yields the page-aligned address at most a page below.     *)
LEMMA RoundDownBounds ==
  ASSUME NEW x \in Nat
  PROVE  /\ RoundDownTo(x) \in Nat
         /\ RoundDownTo(x) <= x
         /\ x < RoundDownTo(x) + PageSize
         /\ OffsetOf(x) \in Nat /\ OffsetOf(x) < PageSize
         /\ x = RoundDownTo(x) + OffsetOf(x)
  BY PageSizeAssumption DEF RoundDownTo, OffsetOf

(* An aligned address is its own page.                                     *)
LEMMA RoundDownOfAligned ==
  ASSUME NEW x \in Nat, Aligned(x)
  PROVE  RoundDownTo(x) = x
<1>1. x = RoundDownTo(x) + OffsetOf(x) /\ RoundDownTo(x) \in Nat
  BY RoundDownBounds
<1>2. OffsetOf(x) = 0
  BY DEF Aligned
<1> QED BY ONLY <1>1, <1>2

(* A number is its page times the page size and its offset.                *)
LEMMA PageAndOffset ==
  ASSUME NEW x \in Nat
  PROVE  /\ x \div PageSize \in Nat
         /\ x = PageSize * (x \div PageSize) + OffsetOf(x)
  BY PageSizeAssumption DEF OffsetOf

(* The offset of a sum of pages and less than a page.                      *)
LEMMA MultipleAligned ==
  ASSUME NEW q \in Int, NEW r \in 0..(PageSize - 1)
  PROVE  OffsetOf(PageSize * q + r) = r
  BY PageSizeAssumption DEF OffsetOf

(* The result of rounding down is aligned.                                 *)
LEMMA RoundDownAligned ==
  ASSUME NEW x \in Nat
  PROVE  Aligned(RoundDownTo(x))
<1>1. RoundDownTo(x) = PageSize * (x \div PageSize) + 0
  BY PageAndOffset, PageSizeAssumption DEF RoundDownTo, OffsetOf
<1>2. x \div PageSize \in Int /\ 0 \in 0..(PageSize - 1)
  BY PageAndOffset, PageSizeAssumption
<1> QED
  BY <1>1, <1>2, MultipleAligned DEF Aligned

(* Multiples of p are equal or p apart; so are aligned addresses.          *)
LEMMA MultiplesApart ==
  ASSUME NEW p \in Nat \ {0}, NEW a \in Nat, NEW b \in Nat, 
         a % p = 0, b % p = 0, a < b
  PROVE  a + p <= b
<1>1. /\ a = p * (a \div p) /\ b = p * (b \div p)
      /\ a \div p \in Nat /\ b \div p \in Nat
  OBVIOUS
<1> DEFINE m == a \div p
           n == b \div p
<1>2. m \in Nat /\ n \in Nat /\ a = p * m /\ b = p * n
  BY <1>1
<1> HIDE DEF m, n
<1>3. m < n
  BY <1>2
<1>4. p * (m + 1) <= p * n
  BY <1>2, <1>3
<1>5. p * (m + 1) = p * m + p
  BY <1>2
<1> QED
  BY <1>2, <1>4, <1>5

(* The next multiple.                                                      *)
LEMMA MultipleNext ==
  ASSUME NEW p \in Nat \ {0}, NEW a \in Nat, a % p = 0
  PROVE  (a + p) % p = 0
<1>1. PICK q \in Nat : a = p * q
  <2>1. a \div p \in Nat /\ a = p * (a \div p)
    OBVIOUS
  <2> QED BY <2>1
<1>2. a + p = p * (q + 1) + 0 /\ q + 1 \in Nat
  BY <1>1
<1>3. \A n \in Nat : (p * n + 0) % p = 0
  OBVIOUS
<1>4. (p * (q + 1) + 0) % p = 0
  BY <1>2, <1>3
<1> QED
  BY <1>2, <1>4, Zenon

(* Aligned addresses are equal or a page apart.                            *)
LEMMA AlignedApart ==
  ASSUME NEW a \in Nat, NEW b \in Nat, Aligned(a), Aligned(b), a < b
  PROVE  a + PageSize <= b
  BY MultiplesApart, PageSizeAssumption DEF Aligned, OffsetOf

(* Any number of aligned sizes is aligned.                                 *)
LEMMA AlignedProduct ==
  ASSUME NEW a \in Nat, NEW n \in Nat, Aligned(a)
  PROVE  Aligned(a * n)
<1>1. PICK q \in Nat : a = PageSize * q
  <2>1. a \div PageSize \in Nat /\ a = PageSize * (a \div PageSize)
    BY PageAndOffset, PageSizeAssumption DEF Aligned
  <2> QED BY <2>1
<1>2. PICK m \in Nat : a * n = PageSize * m + 0
  <2>1. q * n \in Nat /\ a * n = PageSize * (q * n) + 0
    BY <1>1, PageSizeAssumption
  <2> QED BY <2>1, Zenon
<1>3. 0 \in 0..(PageSize - 1)
  BY PageSizeAssumption
<1>4. OffsetOf(PageSize * m + 0) = 0
  BY <1>3, MultipleAligned
<1> QED
  BY <1>2, <1>4, Zenon DEF Aligned

(* An aligned summand does not change the offset.                          *)
LEMMA AlignedSum ==
  ASSUME NEW a \in Nat, NEW b \in Nat, Aligned(a)
  PROVE  OffsetOf(a + b) = OffsetOf(b)
<1>1. PICK q \in Nat : a = PageSize * q
  <2>1. a \div PageSize \in Nat /\ a = PageSize * (a \div PageSize)
    BY PageAndOffset, PageSizeAssumption DEF Aligned
  <2> QED BY <2>1
<1>2. PICK n \in Nat, r \in 0..(PageSize - 1) : b = PageSize * n + r /\ r = OffsetOf(b)
  <2>1. b \div PageSize \in Nat /\ b = PageSize * (b \div PageSize) + OffsetOf(b)
    BY PageAndOffset
  <2>2. OffsetOf(b) \in 0..(PageSize - 1)
    BY PageSizeAssumption DEF OffsetOf
  <2> QED BY <2>1, <2>2
<1>3. a + b = PageSize * (q + n) + r
  BY <1>1, <1>2, PageSizeAssumption
<1>4. q + n \in Int
  OBVIOUS
<1> QED
  BY <1>2, <1>3, <1>4, MultipleAligned

(* The address below an offset: the base found by rounding is the only     *)
(* aligned address less than a page below.                                 *)
LEMMA RoundDownUnique ==
  ASSUME NEW x \in Nat, NEW b \in Nat, Aligned(b), b <= x, x < b + PageSize
  PROVE  RoundDownTo(x) = b
<1>1. Aligned(RoundDownTo(x)) /\ RoundDownTo(x) \in Nat
  BY RoundDownAligned, RoundDownBounds
<1>2. ~(RoundDownTo(x) < b)
  BY <1>1, AlignedApart, RoundDownBounds, PageSizeAssumption
<1>3. ~(b < RoundDownTo(x))
  BY <1>1, AlignedApart, RoundDownBounds, PageSizeAssumption
<1> QED
  BY <1>1, <1>2, <1>3

(* Rounding keeps the order.                                               *)
LEMMA RoundDownMonotone ==
  ASSUME NEW x \in Nat, NEW y \in Nat, x <= y
  PROVE  RoundDownTo(x) <= RoundDownTo(y)
<1>1. /\ RoundDownTo(x) \in Nat /\ Aligned(RoundDownTo(x)) /\ RoundDownTo(x) <= x
      /\ RoundDownTo(y) \in Nat /\ Aligned(RoundDownTo(y)) /\ y < RoundDownTo(y) + PageSize
  BY RoundDownAligned, RoundDownBounds
<1>2. CASE RoundDownTo(y) < RoundDownTo(x)
  BY <1>1, <1>2, AlignedApart, PageSizeAssumption
<1> QED
  BY <1>1, <1>2

----------------------------------------------------------------------------
(* Types.                                                                  *)

(* A piece is not empty and not longer than what remains.                  *)
LEMMA PartialSizeBounds ==
  ASSUME NEW v \in Nat, NEW r \in Nat, IsPartial(v, r)
  PROVE  /\ PartialSize(v, r) \in Nat
         /\ 0 < PartialSize(v, r) /\ PartialSize(v, r) <= r
         /\ PartialSize(v, r) + OffsetOf(v) <= PageSize
         /\ PartialSize(v, r) < PageSize
<1>1. OffsetOf(v) \in Nat /\ OffsetOf(v) < PageSize
  BY RoundDownBounds
<1> QED
  BY <1>1, PageSizeAssumption DEF IsPartial, PartialSize, Least, Aligned

(* The whole pages at the front of a piece are some, and within it.        *)
LEMMA WholeSizeBounds ==
  ASSUME NEW v \in Nat, NEW r \in Nat, IsWhole(v, r)
  PROVE  /\ WholeSize(r) \in Nat
         /\ 0 < WholeSize(r) /\ WholeSize(r) <= r
         /\ r < WholeSize(r) + PageSize
         /\ Aligned(WholeSize(r)) /\ Aligned(v)
<1>1. /\ RoundDownTo(r) \in Nat /\ RoundDownTo(r) <= r 
      /\ r < RoundDownTo(r) + PageSize /\ Aligned(RoundDownTo(r))
  BY RoundDownBounds, RoundDownAligned
<1> QED
  BY <1>1, PageSizeAssumption DEF IsWhole, WholeSize

(* The i-th page of an aligned range has a number below the number of      *)
(* pages of the range.                                                     *)
LEMMA PageNumber ==
  ASSUME NEW x \in Nat, NEW y \in Nat, x < y, Aligned(y)
  PROVE  /\ x \div PageSize \in Nat /\ y \div PageSize \in Nat
         /\ x \div PageSize < y \div PageSize
<1>1. /\ x \div PageSize \in Nat /\ y \div PageSize \in Nat
      /\ x = PageSize * (x \div PageSize) + OffsetOf(x)
      /\ y = PageSize * (y \div PageSize)
  BY PageAndOffset, PageSizeAssumption DEF Aligned
<1>2. OffsetOf(x) \in Nat
  BY RoundDownBounds
<1> QED
  BY <1>1, <1>2, PageSizeAssumption

(* The pages of a range begin within it or at its first page.              *)
LEMMA PagesOfNat ==
  ASSUME NEW b \in Nat, NEW s \in Nat
  PROVE  /\ PagesOf(b, s) \subseteq Nat
         /\ \A a \in PagesOf(b, s) : Aligned(a) /\ RoundDownTo(b) <= a /\ a < b + s
<1>1. RoundDownTo(b) \in Nat
  BY RoundDownBounds
<1> QED
  BY <1>1 DEF PagesOf

(***************************************************************************)
(* The list operations keep references within a Ppage.                     *)
(***************************************************************************)
(* What an operation on a list of S leaves: a header and links that stay   *)
(* in S, and unchanged links except at x and its neighbour.                *)
Outcome(S, n, pv, nx, r, P, N) ==
  /\ r.list \in Vlist /\ r.list.first \in S /\ r.list.last \in S
  /\ r.prev \in Seq(Int) /\ Len(r.prev) = n
  /\ r.next \in Seq(Int) /\ Len(r.next) = n
  /\ \A i \in 1..n : r.prev[i] = pv[i] \/ (i \in P /\ r.prev[i] \in S)
  /\ \A i \in 1..n : r.next[i] = nx[i] \/ (i \in N /\ r.next[i] \in S)

(* push_back stores links from a given set only, if it reads such.         *)
LEMMA PushBackLinks ==
  ASSUME NEW S \in SUBSET Int, Null \in S,
         NEW list \in Vlist, list.first \in S, list.last \in S, 
         NEW n \in Nat, NEW pv \in Seq(Int), NEW nx \in Seq(Int), 
         Len(pv) = n, Len(nx) = n,
         NEW x \in 1..n, x \in S, NEW r, r = PushBack(list, pv, nx, x)
  PROVE  Outcome(S, n, pv, nx, r, {x}, {x, list.last})
<1>1. CASE IsEmpty(list)
  <2>1. /\ r.list = [size |-> 1, first |-> x, last |-> x]
        /\ r.prev = [pv EXCEPT ![x] = Null]
        /\ r.next = [nx EXCEPT ![x] = Null]
    BY <1>1 DEF PushBack
  <2>2. r.list \in Vlist /\ r.list.first \in S /\ r.list.last \in S
    BY <2>1 DEF Vlist
  <2> QED
    BY <2>1, <2>2 DEF Outcome
<1>2. CASE ~IsEmpty(list)
  <2>1. /\ r.list = [size |-> list.size + 1, first |-> list.first, last |-> x]
        /\ r.prev = [pv EXCEPT ![x] = list.last]
        /\ r.next = [nx EXCEPT ![x] = Null, ![list.last] = x]
    BY <1>2 DEF PushBack
  <2>2. r.list \in Vlist /\ r.list.first \in S /\ r.list.last \in S
    BY <2>1 DEF Vlist
  <2> DEFINE l == list.last
  <2>0. l \in Int /\ l \in S /\ x \in Int /\ Null \in Int
    OBVIOUS
  <2> HIDE DEF l
  <2>3. /\ r.prev \in Seq(Int) /\ Len(r.prev) = n
        /\ \A i \in 1..n : r.prev[i] = pv[i] \/ (i = x /\ r.prev[i] \in S)
    <3>1. r.prev = [pv EXCEPT ![x] = l]
      BY <2>1 DEF l
    <3> QED BY <3>1, <2>0
  <2>4. /\ r.next \in Seq(Int) /\ Len(r.next) = n
        /\ \A i \in 1..n : r.next[i] = nx[i] \/ (i \in {x, l} /\ r.next[i] \in S)
    <3> DEFINE m == [nx EXCEPT ![x] = Null]
    <3>1. r.next = [m EXCEPT ![l] = x]
      BY <2>1 DEF l
    <3>2. /\ m \in Seq(Int) /\ Len(m) = n
          /\ \A i \in 1..n : m[i] = IF i = x THEN Null ELSE nx[i]
      BY <2>0
    <3> HIDE DEF m
    <3>3. r.next \in Seq(Int) /\ Len(r.next) = n
      <4>1. m \in [1..n -> Int]
        BY <3>2
      <4>2. r.next \in [1..n -> Int]
        BY <4>1, <3>1, <2>0
      <4> QED BY <4>2
    <3>4. \A i \in 1..n : r.next[i] = IF i = l THEN x ELSE m[i]
      BY <3>1, <3>2, <2>0
    <3> QED BY <3>2, <3>3, <3>4, <2>0
  <2> QED
    BY <2>2, <2>3, <2>4 DEF l, Outcome
<1> QED
  BY <1>1, <1>2

(* So does remove.                                                         *)
LEMMA RemoveLinks ==
  ASSUME NEW S \in SUBSET Int, Null \in S,
         NEW list \in Vlist, list.first \in S, list.last \in S, 
         NEW n \in Nat, NEW pv \in Seq(Int), NEW nx \in Seq(Int), 
         Len(pv) = n, Len(nx) = n,
         NEW x \in 1..n, pv[x] \in S, nx[x] \in S, 
         NEW r, r = Remove(list, pv, nx, x)
  PROVE  Outcome(S, n, pv, nx, r, {x, nx[x]}, {x, pv[x]})
<1>1. CASE IsEmpty(list)
  <2>1. r.list = list /\ r.prev = pv /\ r.next = nx
    BY <1>1 DEF Remove
  <2> QED
    BY <2>1 DEF Outcome
<1>2. CASE ~IsEmpty(list)
  <2>1. /\ r.list = [size  |-> list.size - 1,
                     first |-> IF pv[x] = Null THEN nx[x] ELSE list.first,
                     last  |-> IF nx[x] = Null THEN pv[x] ELSE list.last]
        /\ r.prev = [i \in DOMAIN pv |-> 
                       IF i = x THEN Null ELSE IF i = nx[x] THEN pv[x] ELSE pv[i]]
        /\ r.next = [i \in DOMAIN nx |-> 
                       IF i = x THEN Null ELSE IF i = pv[x] THEN nx[x] ELSE nx[i]]
    BY <1>2 DEF Remove
  <2>2. r.list \in Vlist /\ r.list.first \in S /\ r.list.last \in S
    BY <2>1 DEF Vlist
  <2>3. /\ r.prev \in Seq(Int) /\ Len(r.prev) = n
        /\ \A i \in 1..n : r.prev[i] = pv[i] \/ (i \in {x, nx[x]} /\ r.prev[i] \in S)
    BY <2>1
  <2>4. /\ r.next \in Seq(Int) /\ Len(r.next) = n
        /\ \A i \in 1..n : r.next[i] = nx[i] \/ (i \in {x, pv[x]} /\ r.next[i] \in S)
    BY <2>1
  <2> QED
    BY <2>2, <2>3, <2>4 DEF Outcome
<1> QED
  BY <1>1, <1>2

(* The links of a Ppage's list are such a set.                             *)
LEMMA LinkSets ==
  ASSUME ListTypes, ListsOK, NEW p \in DOMAIN ppage
  PROVE  /\ Links(vpage, p) \in SUBSET Int /\ Null \in Links(vpage, p)
         /\ ppage[p] \in Vlist /\ EmptyList \in Vlist
         /\ ppage[p].first \in Links(vpage, p) /\ ppage[p].last \in Links(vpage, p)
         /\ DOMAIN vpage = 1..Len(vpage) /\ Len(vpage) \in Nat
         /\ EmptyList.first \in Links(vpage, p) /\ EmptyList.last \in Links(vpage, p)
<1>1. DOMAIN vpage = 1..Len(vpage) /\ Len(vpage) \in Nat
  BY DEF ListTypes
<1>2. ppage[p] \in Vlist
  BY DEF ListTypes
<1>3. EmptyList \in Vlist /\ EmptyList.first = Null /\ EmptyList.last = Null
  BY DEF EmptyList, Vlist, Null
<1> QED
  BY <1>1, <1>2, <1>3 DEF ListsOK, Links, Null, Wild

(* Appending a Vpage to the list of its Ppage.                             *)
LEMMA PushVpageOK ==
  ASSUME ListTypes, MapTypes, ListsOK, MapsOK,
         NEW p \in DOMAIN ppage, NEW list, list \in {ppage[p], EmptyList},
         NEW addr \in Int, PushVpage(p, list, addr)
  PROVE  /\ ListTypes' /\ MapTypes' /\ ListsOK' /\ MapsOK'
         /\ DOMAIN ppage' = DOMAIN ppage
<1> DEFINE n  == Len(vpage) + 1
           pv == Append(prev, Null)
           nx == Append(next, Null)
           S  == Links(vpage, p) \cup {n}
<1> USE DEF ListTypes
<1>0. /\ n \in Nat /\ n \in Int /\ n \in 1..n /\ DOMAIN vpage = 1..(n - 1) /\ p \in Nat
      /\ Null \in Int /\ Null \in Links(vpage, p) /\ Links(vpage, p) \subseteq Int
      /\ list \in Vlist /\ list.first \in Links(vpage, p) /\ list.last \in Links(vpage, p)
  BY LinkSets DEF Null
<1>1. /\ pv \in Seq(Int) /\ Len(pv) = n /\ nx \in Seq(Int) /\ Len(nx) = n
      /\ \A i \in 1..(n - 1) : pv[i] = prev[i] /\ nx[i] = next[i]
      /\ pv[n] = Null /\ nx[n] = Null
  BY <1>0
<1>2. /\ vpage' \in Seq(Vpage) /\ Len(vpage') = n /\ DOMAIN vpage' = 1..n
      /\ \A v \in 1..(n - 1) : vpage'[v] = vpage[v]
      /\ vpage'[n].page = p
  <2>1. NewVpage(addr, p) \in Vpage /\ NewVpage(addr, p).page = p
    BY <1>0 DEF NewVpage, Vpage
  <2>2. vpage' = Append(vpage, NewVpage(addr, p))
    BY DEF PushVpage
  <2> QED BY <2>1, <2>2, <1>0
<1>3. PICK r : /\ r = PushBack(list, pv, nx, n)
               /\ ppage' = [ppage EXCEPT ![p] = r.list] /\ prev' = r.prev /\ next' = r.next
  BY DEF PushVpage
<1>4. /\ r.list \in Vlist /\ r.list.first \in S /\ r.list.last \in S
      /\ r.prev \in Seq(Int) /\ Len(r.prev) = n
      /\ r.next \in Seq(Int) /\ Len(r.next) = n
      /\ \A i \in 1..n : r.prev[i] = pv[i] \/ (i = n /\ r.prev[i] \in S)
      /\ \A i \in 1..n : r.next[i] = nx[i] \/ (i \in {n, list.last} /\ r.next[i] \in S)
  <2>1. S \in SUBSET Int /\ Null \in S /\ list.first \in S /\ list.last \in S
        /\ n \in S /\ n \in 1..n
    BY <1>0
  <2> HIDE DEF S, pv, nx, n
  <2>2. list \in Vlist /\ n \in Nat /\ r = PushBack(list, pv, nx, n)
    BY <1>0, <1>3
  <2>3. /\ pv \in Seq(Int) /\ nx \in Seq(Int) /\ Len(pv) = n /\ Len(nx) = n
    BY <1>1
  <2>4. Outcome(S, n, pv, nx, r, {n}, {n, list.last})
    BY ONLY <2>1, <2>2, <2>3, PushBackLinks
  <2> QED BY ONLY <2>4 DEF Outcome
<1> HIDE DEF pv, nx
<1>5. ListTypes' /\ DOMAIN ppage' = DOMAIN ppage
  BY <1>2, <1>3, <1>4
<1>6. \A q : Links(vpage', q) = Links(vpage, q) \cup (IF q = p THEN {n} ELSE {})
  <2> SUFFICES ASSUME NEW q 
               PROVE  Links(vpage', q) = Links(vpage, q) \cup (IF q = p THEN {n} ELSE {})
    OBVIOUS
  <2>1. DOMAIN vpage' = DOMAIN vpage \cup {n} /\ n \notin DOMAIN vpage
    BY <1>0, <1>2
  <2>2. (\A v \in DOMAIN vpage : vpage'[v] = vpage[v]) /\ vpage'[n].page = p
    BY <1>0, <1>2
  <2> HIDE DEF n
  <2>3. {v \in DOMAIN vpage' : vpage'[v].page = q} 
          = {v \in DOMAIN vpage : vpage[v].page = q} \cup (IF q = p THEN {n} ELSE {})
    BY ONLY <2>1, <2>2
  <2> QED BY ONLY <2>3 DEF Links
<1>7. \A q \in DOMAIN ppage : ppage'[q] = IF q = p THEN r.list ELSE ppage[q]
  BY <1>3
<1>8. ListsOK'
  <2>1. \A q \in DOMAIN ppage' : /\ ppage'[q].first \in Links(vpage', q) 
                                 /\ ppage'[q].last \in Links(vpage', q)
    BY <1>4, <1>5, <1>6, <1>7 DEF ListsOK
  <2>2. ASSUME NEW v \in 1..n
        PROVE  /\ vpage'[v].page \in DOMAIN ppage'
               /\ prev'[v] \in Links(vpage', vpage'[v].page)
               /\ next'[v] \in Links(vpage', vpage'[v].page)
    <3>0. /\ prev'[v] = pv[v] \/ (v = n /\ prev'[v] \in S)
          /\ next'[v] = nx[v] \/ (v \in {n, list.last} /\ next'[v] \in S)
      BY <1>3, <1>4
    <3>1. CASE v = n
      <4>1. vpage'[v].page = p /\ Links(vpage', p) = S
        BY <3>1, <1>2, <1>6
      <4>2. prev'[v] \in S /\ next'[v] \in S
        BY <3>0, <3>1, <1>0, <1>1
      <4> QED BY <4>1, <4>2, <1>5
    <3>2. CASE v # n
      <4> HIDE DEF n
      <4>1. v \in 1..(n - 1) /\ v \in DOMAIN vpage /\ vpage'[v] = vpage[v]
        BY <3>2, <1>0, <1>2
      <4>2. prev'[v] = prev[v] /\ (next'[v] = next[v] \/ (v = list.last /\ next'[v] \in S))
        BY <4>1, <3>0, <3>2, <1>1
      <4>3. v = list.last => vpage[v].page = p
        BY <4>1, <1>0 DEF Links, Null, Wild
      <4>4. /\ vpage[v].page \in DOMAIN ppage
            /\ prev[v] \in Links(vpage, vpage[v].page)
            /\ next[v] \in Links(vpage, vpage[v].page)
        BY <4>1 DEF ListsOK
      <4>5. /\ Links(vpage, vpage[v].page) \subseteq Links(vpage', vpage[v].page)
            /\ Links(vpage', p) = S
        BY <1>6
      <4> QED
        BY <4>1, <4>2, <4>3, <4>4, <4>5, <1>5
    <3> QED BY <3>1, <3>2
  <2> QED BY <2>1, <2>2, <1>2 DEF ListsOK
<1>9. MapTypes' /\ MapsOK'
  <2>1. forkmap' = Put(forkmap, addr, n) /\ pagemap' = Put(pagemap, addr, p)
    BY DEF PushVpage, Register
  <2>2. /\ DOMAIN forkmap' = DOMAIN forkmap \cup {addr}
        /\ DOMAIN pagemap' = DOMAIN pagemap \cup {addr}
        /\ \A b \in DOMAIN forkmap' : forkmap'[b] = IF b = addr THEN n ELSE forkmap[b]
        /\ \A b \in DOMAIN pagemap' : pagemap'[b] = IF b = addr THEN p ELSE pagemap[b]
    BY <2>1 DEF Put
  <2> HIDE DEF n
  <2>3. MapTypes'
    BY <2>2, <1>0 DEF MapTypes
  <2>4. ASSUME NEW b \in DOMAIN forkmap'
        PROVE  /\ pagemap'[b] \in DOMAIN ppage'
               /\ forkmap'[b] \in DOMAIN vpage'
               /\ vpage'[forkmap'[b]].page = pagemap'[b]
    <3>1. CASE b = addr
      BY <3>1, <2>2, <1>0, <1>2, <1>5
    <3>2. CASE b # addr
      <4>1. b \in DOMAIN forkmap /\ forkmap'[b] = forkmap[b] /\ pagemap'[b] = pagemap[b]
        BY <3>2, <2>2 DEF MapsOK
      <4>2. /\ pagemap[b] \in DOMAIN ppage /\ forkmap[b] \in 1..(n - 1)
            /\ vpage[forkmap[b]].page = pagemap[b]
        BY <4>1, <1>0 DEF MapsOK
      <4>3. forkmap[b] \in 1..n
        BY <4>2, <1>0
      <4> QED BY <4>1, <4>2, <4>3, <1>2, <1>5
    <3> QED BY <3>1, <3>2
  <2>5. DOMAIN forkmap' = DOMAIN pagemap'
    BY <2>2 DEF MapsOK
  <2> QED BY <2>3, <2>4, <2>5 DEF MapsOK
<1> QED
  BY <1>5, <1>8, <1>9

(* A new Ppage with its first Vpage, which is in no list.                  *)
LEMMA NewPpageOK ==
  ASSUME ListTypes, MapTypes, ListsOK, MapsOK, NEW addr \in Int, 
         NEW link \in StaleLinks,
         ppage' = Append(ppage, EmptyList),
         vpage' = Append(vpage, NewVpage(addr, Len(ppage) + 1)),
         prev' = Append(prev, link), next' = Append(next, link),
         Register(addr, Len(vpage) + 1, Len(ppage) + 1)
  PROVE  /\ ListTypes' /\ MapTypes' /\ ListsOK' /\ MapsOK'
         /\ DOMAIN ppage' = DOMAIN ppage \cup {Len(ppage) + 1}
<1> DEFINE n == Len(vpage) + 1
           p == Len(ppage) + 1
<1> USE DEF ListTypes
<1>1. /\ n \in Nat /\ n \in 1..n /\ DOMAIN vpage = 1..(n - 1) 
      /\ p \in Nat /\ p \in 1..p /\ DOMAIN ppage = 1..(p - 1)
      /\ link \in {Null, Wild} /\ link \in Int
      /\ EmptyList \in Vlist /\ EmptyList.first = Null /\ EmptyList.last = Null
  BY HeapAssumption DEF EmptyList, Vlist, Null, Wild
<1>2. /\ vpage' \in Seq(Vpage) /\ Len(vpage') = n /\ DOMAIN vpage' = 1..n
      /\ \A v \in 1..(n - 1) : vpage'[v] = vpage[v]
      /\ vpage'[n].page = p
  <2>1. NewVpage(addr, p) \in Vpage /\ NewVpage(addr, p).page = p
    BY <1>1 DEF NewVpage, Vpage
  <2> QED BY <2>1, <1>1
<1>3. /\ prev' \in Seq(Int) /\ Len(prev') = n /\ next' \in Seq(Int) /\ Len(next') = n
      /\ \A v \in 1..(n - 1) : prev'[v] = prev[v] /\ next'[v] = next[v]
      /\ prev'[n] = link /\ next'[n] = link
  BY <1>1
<1>4. /\ ppage' \in Seq(Vlist) /\ DOMAIN ppage' = 1..p
      /\ \A q \in 1..(p - 1) : ppage'[q] = ppage[q]
      /\ ppage'[p] = EmptyList
  BY <1>1
<1>5. Register(addr, n, p)
  OBVIOUS
<1> HIDE DEF n, p, ListTypes
<1>6. \A q : Links(vpage, q) \subseteq Links(vpage', q) /\ {Null, Wild} \subseteq Links(vpage', q)
  BY <1>1, <1>2 DEF Links
<1>7. \A q \in DOMAIN ppage : q \in DOMAIN ppage' /\ ppage'[q] = ppage[q]
  BY <1>1, <1>4
<1>8. ListsOK'
  <2>1. \A q \in DOMAIN ppage' : /\ ppage'[q].first \in Links(vpage', q) 
                                 /\ ppage'[q].last \in Links(vpage', q)
    <3> SUFFICES ASSUME NEW q \in 1..p
                 PROVE  /\ ppage'[q].first \in Links(vpage', q) 
                        /\ ppage'[q].last \in Links(vpage', q)
      BY <1>4
    <3>1. CASE q = p
      BY <3>1, <1>1, <1>4, <1>6
    <3>2. CASE q # p
      <4>1. q \in DOMAIN ppage
        BY <3>2, <1>1
      <4> QED BY <4>1, <1>6, <1>7 DEF ListsOK
    <3> QED BY <3>1, <3>2
  <2>2. ASSUME NEW v \in 1..n
        PROVE  /\ vpage'[v].page \in DOMAIN ppage'
               /\ prev'[v] \in Links(vpage', vpage'[v].page)
               /\ next'[v] \in Links(vpage', vpage'[v].page)
    <3>1. CASE v = n
      BY <3>1, <1>1, <1>2, <1>3, <1>4, <1>6
    <3>2. CASE v # n
      <4>0. v \in 1..(n - 1)
        BY <3>2, <1>1
      <4>1. /\ v \in DOMAIN vpage /\ vpage'[v] = vpage[v]
            /\ prev'[v] = prev[v] /\ next'[v] = next[v]
        BY <4>0, <1>1, <1>2, <1>3
      <4>2. /\ vpage[v].page \in DOMAIN ppage
            /\ prev[v] \in Links(vpage, vpage[v].page)
            /\ next[v] \in Links(vpage, vpage[v].page)
        BY <4>1 DEF ListsOK
      <4> QED BY <4>1, <4>2, <1>6, <1>7
    <3> QED BY <3>1, <3>2
  <2> QED BY <2>1, <2>2, <1>2 DEF ListsOK
<1>9. MapTypes' /\ MapsOK'
  <2>2. /\ DOMAIN forkmap' = DOMAIN forkmap \cup {addr}
        /\ DOMAIN pagemap' = DOMAIN pagemap \cup {addr}
        /\ \A b \in DOMAIN forkmap' : forkmap'[b] = IF b = addr THEN n ELSE forkmap[b]
        /\ \A b \in DOMAIN pagemap' : pagemap'[b] = IF b = addr THEN p ELSE pagemap[b]
    BY <1>5 DEF Put, Register
  <2>3. MapTypes'
    BY <2>2, <1>1 DEF MapTypes
  <2>4. ASSUME NEW b \in DOMAIN forkmap'
        PROVE  /\ pagemap'[b] \in DOMAIN ppage'
               /\ forkmap'[b] \in DOMAIN vpage'
               /\ vpage'[forkmap'[b]].page = pagemap'[b]
    <3>1. CASE b = addr
      BY <3>1, <2>2, <1>1, <1>2, <1>4
    <3>2. CASE b # addr
      <4>1. b \in DOMAIN forkmap /\ forkmap'[b] = forkmap[b] /\ pagemap'[b] = pagemap[b]
        BY <3>2, <2>2 DEF MapsOK
      <4>2. /\ pagemap[b] \in DOMAIN ppage /\ forkmap[b] \in 1..(n - 1)
            /\ vpage[forkmap[b]].page = pagemap[b]
        BY <4>1, <1>1 DEF MapsOK
      <4>3. forkmap[b] \in 1..n
        BY <4>2, <1>1
      <4> QED BY <4>1, <4>2, <4>3, <1>2, <1>7
    <3> QED BY <3>1, <3>2
  <2>5. DOMAIN forkmap' = DOMAIN pagemap'
    BY <2>2 DEF MapsOK
  <2> QED BY <2>3, <2>4, <2>5 DEF MapsOK
<1>10. DOMAIN ppage' = DOMAIN ppage \cup {p}
  BY <1>1, <1>4
<1> QED
  BY <1>2, <1>3, <1>4, <1>8, <1>9, <1>10 DEF p, ListTypes

(* Taking a Vpage out of the list of its Ppage and out of both maps.       *)
LEMMA RemoveVpageOK ==
  ASSUME ListTypes, MapTypes, ListsOK, MapsOK, NEW b \in DOMAIN forkmap,
         NEW r, r = Remove(ppage[pagemap[b]], prev, next, forkmap[b]),
         ppage' = [ppage EXCEPT ![pagemap[b]] = r.list],
         prev' = r.prev, next' = r.next, vpage' = vpage,
         forkmap' = Drop(forkmap, {b}), pagemap' = Drop(pagemap, {b})
  PROVE  /\ ListTypes' /\ MapTypes' /\ ListsOK' /\ MapsOK'
         /\ DOMAIN ppage' = DOMAIN ppage
<1> DEFINE p == pagemap[b]
           x == forkmap[b]
           n == Len(vpage)
           S == Links(vpage, p)
<1>1. /\ p \in DOMAIN ppage /\ x \in 1..n /\ n \in Nat /\ vpage[x].page = p
      /\ DOMAIN vpage = 1..n
  BY DEF MapsOK, ListTypes
<1>2. /\ S \in SUBSET Int /\ Null \in S /\ ppage[p] \in Vlist 
      /\ ppage[p].first \in S /\ ppage[p].last \in S
  BY <1>1, LinkSets
<1>3. prev[x] \in S /\ next[x] \in S
  BY <1>1 DEF ListsOK
<1>4. prev \in Seq(Int) /\ next \in Seq(Int) /\ Len(prev) = n /\ Len(next) = n
  BY DEF ListTypes
<1>5. r = Remove(ppage[p], prev, next, x) /\ ppage' = [ppage EXCEPT ![p] = r.list]
  OBVIOUS
<1>6. /\ r.list \in Vlist /\ r.list.first \in S /\ r.list.last \in S
      /\ prev' \in Seq(Int) /\ Len(prev') = n
      /\ next' \in Seq(Int) /\ Len(next') = n
      /\ \A i \in 1..n : prev'[i] = prev[i] \/ (i \in {x, next[x]} /\ prev'[i] \in S)
      /\ \A i \in 1..n : next'[i] = next[i] \/ (i \in {x, prev[x]} /\ next'[i] \in S)
  <2> HIDE DEF S, x, n, p
  <2>1. /\ r.list \in Vlist /\ r.list.first \in S /\ r.list.last \in S
        /\ r.prev \in Seq(Int) /\ Len(r.prev) = n
        /\ r.next \in Seq(Int) /\ Len(r.next) = n
        /\ \A i \in 1..n : r.prev[i] = prev[i] \/ (i \in {x, next[x]} /\ r.prev[i] \in S)
        /\ \A i \in 1..n : r.next[i] = next[i] \/ (i \in {x, prev[x]} /\ r.next[i] \in S)
    <3>1. /\ S \in SUBSET Int /\ Null \in S /\ ppage[p] \in Vlist
          /\ ppage[p].first \in S /\ ppage[p].last \in S
      BY <1>2
    <3>2. /\ n \in Nat /\ x \in 1..n /\ prev[x] \in S /\ next[x] \in S
      BY <1>1, <1>3
    <3>3. r = Remove(ppage[p], prev, next, x)
      BY <1>5
    <3>4. Outcome(S, n, prev, next, r, {x, next[x]}, {x, prev[x]})
      BY ONLY <1>4, <3>1, <3>2, <3>3, RemoveLinks
    <3> QED BY ONLY <3>4 DEF Outcome
  <2> QED BY <2>1
<1> HIDE DEF x, n, p
<1>7. ListTypes' /\ DOMAIN ppage' = DOMAIN ppage
  <2>0. ppage \in Seq(Vlist)
    BY DEF ListTypes
  <2>1. ppage' \in Seq(Vlist) /\ DOMAIN ppage' = DOMAIN ppage
    BY ONLY <2>0, <1>1, <1>5, <1>6
  <2> QED BY <1>6, <2>1 DEF ListTypes, n
<1>8. ListsOK'
  <2>1. \A q \in DOMAIN ppage' : /\ ppage'[q].first \in Links(vpage, q) 
                                 /\ ppage'[q].last \in Links(vpage, q)
    BY <1>5, <1>6, <1>7 DEF ListsOK
  <2>2. ASSUME NEW v \in 1..n
        PROVE  /\ prev'[v] \in Links(vpage, vpage[v].page)
               /\ next'[v] \in Links(vpage, vpage[v].page)
    <3>1. v \in {x, next[x], prev[x]} => vpage[v].page = p
      BY <1>1, <1>3 DEF Links, Null, Wild
    <3>2. prev[v] \in Links(vpage, vpage[v].page) /\ next[v] \in Links(vpage, vpage[v].page)
      BY <1>1 DEF ListsOK
    <3> QED BY <1>6, <3>1, <3>2
  <2> QED BY <2>1, <2>2, <1>1, <1>7 DEF ListsOK
<1>9. MapTypes' /\ MapsOK'
  BY <1>7 DEF MapTypes, MapsOK, Drop
<1> QED
  BY <1>7, <1>8, <1>9

(***************************************************************************)
(* Calls, caches and memory.                                               *)
(***************************************************************************)
LEMMA Regions ==
  ASSUME CacheTypes, NEW c \in Class
  PROVE  RegionBegin(c) \in Nat /\ RegionBegin(c + 1) \in Nat /\ NextRange(c) \in Nat
<1>1. c \in Nat /\ RegionSize \in Nat /\ SpaceBeg \in Nat
  BY HeapAssumption DEF Class
<1>2. RegionBegin(c) \in Nat /\ RegionBegin(c + 1) \in Nat
  BY <1>1 DEF RegionBegin
<1> QED
  BY <1>2 DEF NextRange, CacheTypes

(* A call that begins is a call.                                           *)
LEMMA NewCallType ==
  ASSUME NEW kind \in {"malloc", "free"}, NEW c \in Class, NEW beg \in Nat
  PROVE  NewCall(kind, c, beg) \in Call
  BY HeapAssumption DEF NewCall, Call

(* So is one that passed a piece.                                          *)
LEMMA AdvanceType ==
  ASSUME op \in [Thread -> Call], NEW t \in Thread, 
         NEW size \in Nat, size <= op[t].remain, Advance(t, size)
  PROVE  /\ op' \in [Thread -> Call]
         /\ \A u \in Thread : u # t => op'[u] = op[u]
         /\ op'[t].kind = op[t].kind /\ op'[t].cls = op[t].cls /\ op'[t].beg = op[t].beg
         /\ op'[t].vaddr = op[t].vaddr + size /\ op'[t].remain = op[t].remain - size
<1> DEFINE call == op[t]
<1>1. call \in Call /\ size <= call.remain
  OBVIOUS
<1> HIDE DEF call
<1>2. /\ Behind(call, size) \in Call
      /\ Behind(call, size).kind = call.kind /\ Behind(call, size).cls = call.cls
      /\ Behind(call, size).beg = call.beg
      /\ Behind(call, size).vaddr = call.vaddr + size
      /\ Behind(call, size).remain = call.remain - size
  <2>1. /\ call.vaddr + size \in Nat /\ call.remain - size \in Nat
        /\ call.kind \in {"idle", "malloc", "free"} /\ call.cls \in Class /\ call.beg \in Nat
    BY <1>1 DEF Call
  <2> QED BY <2>1 DEF Call, Behind
<1>3. op' = [op EXCEPT ![t] = Behind(call, size)]
  BY DEF Advance, call
<1> HIDE DEF Behind
<1> QED
  BY <1>2, <1>3 DEF call

(* The piece a call is at.                                                 *)
LEMMA PieceType ==
  ASSUME op \in [Thread -> Call], NEW t \in Thread, 
         IsPartial(op[t].vaddr, op[t].remain)
  PROVE  /\ PieceBase(t) \in Nat
         /\ PieceSlot(t).offset \in Nat /\ PieceSlot(t).offset < PageSize
         /\ PieceSlot(t).size \in Nat /\ PieceSlot(t).size <= op[t].remain
         /\ op[t].cls \in Class /\ ClassSize[op[t].cls] \in Nat \ {0}
<1>1. /\ op[t].vaddr \in Nat /\ op[t].remain \in Nat /\ op[t].cls \in Class
  BY DEF Call
<1> QED
  BY <1>1, RoundDownBounds, PartialSizeBounds, HeapAssumption DEF PieceBase, PieceSlot, Slot

(* The slots a fresh page offers.                                          *)
LEMMA PopulateType ==
  ASSUME NEW offset \in Nat, offset < PageSize, NEW csize \in Nat \ {0}
  PROVE  Populate(offset, csize) \in Seq([offset : Nat, size : Nat])
<1> DEFINE n == (PageSize - 1 - offset) \div csize
           m == (offset + (csize - 1)) \div csize
<1>1. n \in Nat /\ csize * n <= PageSize - 1 - offset
  BY PageSizeAssumption
<1>2. m \in Nat /\ csize * m <= offset + (csize - 1)
  OBVIOUS
<1> HIDE DEF n, m
<1>3. ASSUME NEW k \in 1..n
      PROVE  BackSlots(offset, csize)[k] \in [offset : Nat, size : Nat]
  <2>1. k * csize \in Nat /\ k * csize <= csize * n
    BY <1>1
  <2>2. offset + k * csize \in Nat /\ PageSize - (offset + k * csize) \in Nat
    BY <2>1, <1>1, PageSizeAssumption
  <2> QED BY <2>2, <1>1 DEF BackSlots, Slot, Least, n
<1>4. ASSUME NEW k \in 1..m
      PROVE  FrontSlots(offset, csize)[k] \in [offset : Nat, size : Nat]
  <2>1. (k - 1) * csize \in Nat /\ (k - 1) * csize <= csize * (m - 1)
    BY <1>2
  <2>2. csize * (m - 1) = csize * m - csize
    BY <1>2
  <2>3. offset - (k - 1) * csize \in Nat
    BY <2>1, <2>2, <1>2
  <2> QED BY <2>1, <2>3, <1>2 DEF FrontSlots, Slot, Least, m
<1>5. /\ BackSlots(offset, csize) \in Seq([offset : Nat, size : Nat])
      /\ FrontSlots(offset, csize) \in Seq([offset : Nat, size : Nat])
  <2>1. DOMAIN BackSlots(offset, csize) = 1..n /\ DOMAIN FrontSlots(offset, csize) = 1..m
    BY DEF BackSlots, FrontSlots, n, m
  <2>2. /\ BackSlots(offset, csize) = [k \in 1..n |-> BackSlots(offset, csize)[k]]
        /\ FrontSlots(offset, csize) = [k \in 1..m |-> FrontSlots(offset, csize)[k]]
    BY <2>1 DEF BackSlots, FrontSlots, n, m
  <2>3. /\ BackSlots(offset, csize) \in [1..n -> [offset : Nat, size : Nat]]
        /\ FrontSlots(offset, csize) \in [1..m -> [offset : Nat, size : Nat]]
    BY <2>2, <1>3, <1>4, Zenon
  <2> DEFINE T == [offset : Nat, size : Nat]
             B == BackSlots(offset, csize)
             F == FrontSlots(offset, csize)
  <2>4. B \in [1..n -> T] /\ F \in [1..m -> T]
    BY <2>3
  <2> HIDE DEF B, F, T
  <2>5. B \in Seq(T) /\ F \in Seq(T)
    BY ONLY <2>4, <1>1, <1>2
  <2> QED BY <2>5 DEF B, F, T
<1> QED
  BY <1>5 DEF Populate

(* A list of freed slots without one of them.                              *)
LEMMA WithoutType ==
  ASSUME NEW list \in Seq(Freed), NEW i \in DOMAIN list
  PROVE  /\ Without(list, i) \in Seq(Freed)
         /\ \A j \in DOMAIN Without(list, i) : 
              \E k \in DOMAIN list : Without(list, i)[j] = list[k]
<1>1. Len(list) - 1 \in Nat /\ DOMAIN list = 1..Len(list)
  OBVIOUS
<1>2. ASSUME NEW j \in 1..(Len(list) - 1)
      PROVE  /\ Without(list, i)[j] \in Freed
             /\ \E k \in DOMAIN list : Without(list, i)[j] = list[k]
  <2>1. j \in DOMAIN list /\ j + 1 \in DOMAIN list
    BY <1>1
  <2> QED BY <2>1 DEF Without
<1>3. /\ DOMAIN Without(list, i) = 1..(Len(list) - 1)
      /\ Without(list, i) = [j \in 1..(Len(list) - 1) |-> Without(list, i)[j]]
  BY DEF Without
<1>4. Without(list, i) \in Seq(Freed)
  BY <1>1, <1>2, <1>3
<1> QED
  BY <1>2, <1>3, <1>4

(* One free list changes.                                                  *)
LEMMA FreeListType ==
  ASSUME CacheTypes, FreedOK, NEW t \in Thread, NEW c \in Class,
         NEW list \in Seq(Freed), 
         free' = [free EXCEPT ![t][c] = list],
         UNCHANGED <<pos, lower, upper>>,
         DOMAIN ppage \subseteq DOMAIN ppage',
         \A i \in DOMAIN list : list[i].page \in DOMAIN ppage'
  PROVE  CacheTypes' /\ FreedOK'
<1>1. free \in [Thread -> [Class -> Seq(Freed)]]
  BY DEF CacheTypes
<1>2. free' \in [Thread -> [Class -> Seq(Freed)]]
  BY <1>1
<1>3. \A u \in Thread, d \in Class : 
        free'[u][d] = IF u = t /\ d = c THEN list ELSE free[u][d]
  BY <1>1
<1>4. FreedOK'
  BY <1>3 DEF FreedOK
<1> QED
  BY <1>2, <1>4 DEF CacheTypes

(* A partial page is mapped, to a frame that exists or to a new one.       *)
LEMMA MapPage ==
  ASSUME MemoryTypes, NEW b \in Nat, NEW f \in Nat, frames' \in {frames, frames + 1},
         f \in 1..frames', NEW slot \in Freed,
         vm' = Put(vm, b, f), held' = Put(held, b, slot), UNCHANGED retired
  PROVE  MemoryTypes'
<1>1. /\ DOMAIN vm' = DOMAIN vm \cup {b} /\ DOMAIN held' = DOMAIN held \cup {b}
      /\ \A d \in DOMAIN vm' : vm'[d] = IF d = b THEN f ELSE vm[d]
      /\ \A d \in DOMAIN held' : held'[d] = IF d = b THEN slot ELSE held[d]
  BY DEF Put
<1>2. frames' \in Nat /\ 1..frames \subseteq 1..frames'
  BY DEF MemoryTypes
<1> QED
  BY <1>1, <1>2 DEF MemoryTypes

(***************************************************************************)
(* Type correctness.                                                       *)
(***************************************************************************)
LEMMA TypeInit == Init => TypeInv
<1> SUFFICES ASSUME Init PROVE TypeInv
  OBVIOUS
<1>1. CacheTypes /\ FreedOK
  BY DEF Init, CacheTypes, FreedOK
<1>2. ListTypes /\ ListsOK
  BY DEF Init, ListTypes, ListsOK
<1>3. MapTypes /\ MapsOK /\ MemoryTypes
  BY DEF Init, MapTypes, MapsOK, MemoryTypes
<1>4. CallTypes
  BY HeapAssumption DEF Init, CallTypes, Idle, Call, Fate, Class
<1> QED
  BY <1>1, <1>2, <1>3, <1>4 DEF TypeInv, TypeOK, IndexOK

(* A step that leaves the lists and maps alone.                            *)
LEMMA ListsUnchanged ==
  ASSUME TypeInv, UNCHANGED listVars, UNCHANGED mapVars
  PROVE  /\ ListTypes' /\ ListsOK' /\ MapTypes' /\ MapsOK' 
         /\ DOMAIN ppage' = DOMAIN ppage
<1>1. \A p : Links(vpage', p) = Links(vpage, p)
  BY DEF listVars, Links
<1> QED
  BY <1>1 DEF TypeInv, TypeOK, IndexOK, listVars, mapVars, ListTypes, ListsOK, MapTypes, MapsOK

(* The end of the process changes nothing else.                            *)
LEMMA DieTypes ==
  ASSUME TypeInv, NEW how \in Fate, Die(how)
  PROVE  TypeInv'
<1>1. ListTypes' /\ ListsOK' /\ MapTypes' /\ MapsOK' /\ DOMAIN ppage' = DOMAIN ppage
  BY ListsUnchanged DEF Die
<1>2. CacheTypes' /\ MemoryTypes' /\ CallTypes' /\ FreedOK'
  BY <1>1 DEF Die, TypeInv, TypeOK, IndexOK, cacheVars, memoryVars, 
              CacheTypes, MemoryTypes, CallTypes, FreedOK
<1> QED
  BY <1>1, <1>2 DEF TypeInv, TypeOK, IndexOK

(* The pieces of a malloc that has found a slot.                           *)
LEMMA TakeSlotTypes ==
  ASSUME TypeInv, NEW t \in Thread, NEW i \in DOMAIN free[t][op[t].cls], TakeSlot(t, i),
         DOMAIN ppage' = DOMAIN ppage
  PROVE  /\ CacheTypes' /\ FreedOK' /\ CallTypes'
         /\ free[t][op[t].cls][i].page \in DOMAIN ppage
         /\ PieceBase(t) \in Nat
         /\ \A p \in DOMAIN ppage : PageSlot(p, PieceSlot(t)) \in Freed
<1> DEFINE c == op[t].cls
           list == Without(free[t][c], i)
<1>1. op \in [Thread -> Call] /\ free \in [Thread -> [Class -> Seq(Freed)]]
  BY DEF TypeInv, TypeOK, CallTypes, CacheTypes
<1>2. /\ PieceBase(t) \in Nat /\ c \in Class
      /\ PieceSlot(t).offset \in Nat /\ PieceSlot(t).size \in Nat 
      /\ PieceSlot(t).size <= op[t].remain
  BY <1>1, PieceType DEF TakeSlot, AtPartial
<1>3. free[t][c] \in Seq(Freed) /\ i \in DOMAIN free[t][c]
  BY <1>1, <1>2
<1>4. list \in Seq(Freed) /\ \A j \in DOMAIN list : \E k \in DOMAIN free[t][c] : list[j] = free[t][c][k]
  BY <1>3, WithoutType
<1>5. \A k \in DOMAIN free[t][c] : free[t][c][k].page \in DOMAIN ppage
  BY <1>2 DEF TypeInv, IndexOK, FreedOK
<1>6. free' = [free EXCEPT ![t][c] = list]
  BY DEF TakeSlot
<1> HIDE DEF c, list
<1>7. CacheTypes' /\ FreedOK'
  <2>1. CacheTypes /\ FreedOK /\ UNCHANGED <<pos, lower, upper>>
    BY DEF TypeInv, TypeOK, IndexOK, TakeSlot
  <2>2. \A j \in DOMAIN list : list[j].page \in DOMAIN ppage'
    BY <1>4, <1>5
  <2> QED BY <1>2, <1>4, <1>6, <2>1, <2>2, FreeListType
<1>8. CallTypes'
  <2>1. op' \in [Thread -> Call]
    BY <1>1, <1>2, AdvanceType DEF TakeSlot
  <2> QED BY <2>1 DEF TypeInv, TypeOK, CallTypes, TakeSlot
<1>9. DOMAIN ppage \subseteq Nat
  BY DEF TypeInv, TypeOK, ListTypes
<1> QED
  BY <1>2, <1>3, <1>5, <1>7, <1>8, <1>9 DEF PageSlot, Freed, c

(* Every step of the allocator keeps the types and the references.         *)
LEMMA TypeStep == TypeInv /\ [Next]_vars => TypeInv'
<1> SUFFICES ASSUME TypeInv, [Next]_vars PROVE TypeInv'
  OBVIOUS
<1> USE DEF TypeInv, TypeOK, IndexOK
<1>0. CASE UNCHANGED vars
  <2>1. ListTypes' /\ ListsOK' /\ MapTypes' /\ MapsOK' /\ DOMAIN ppage' = DOMAIN ppage
    BY <1>0, ListsUnchanged DEF vars
  <2>2. CacheTypes' /\ FreedOK' /\ MemoryTypes' /\ CallTypes'
    BY <1>0, <2>1 DEF vars, cacheVars, memoryVars, CacheTypes, FreedOK, MemoryTypes, CallTypes
  <2> QED BY <2>1, <2>2
<1>1. ASSUME NEW t \in Thread, NEW c \in Class, StartMalloc(t, c) PROVE TypeInv'
  <2>1. ListTypes' /\ ListsOK' /\ MapTypes' /\ MapsOK' /\ DOMAIN ppage' = DOMAIN ppage
    BY <1>1, ListsUnchanged DEF StartMalloc
  <2>2. NewCall("malloc", c, lower[t][c]) \in Call
    BY NewCallType DEF CacheTypes
  <2>3. CacheTypes' /\ FreedOK' /\ MemoryTypes'
    BY <1>1, <2>1 DEF StartMalloc, cacheVars, memoryVars, CacheTypes, FreedOK, MemoryTypes
  <2>4. CallTypes'
    BY <1>1, <2>2 DEF StartMalloc, CallTypes
  <2> QED BY <2>1, <2>3, <2>4
<1>2. ASSUME NEW t \in Thread, NEW c \in Class, Refill(t, c) PROVE TypeInv'
  <2>1. ListTypes' /\ ListsOK' /\ MapTypes' /\ MapsOK' /\ DOMAIN ppage' = DOMAIN ppage
    BY <1>2, ListsUnchanged DEF Refill
  <2>2. NextRange(c) \in Nat /\ PopulateSize \in Nat
    BY Regions, HeapAssumption
  <2>3. NewCall("malloc", c, NextRange(c)) \in Call
    BY <2>2, NewCallType
  <2>4. CacheTypes'
    <3>1. NextRange(c) + PopulateSize \in Nat
      BY <2>2
    <3> QED BY <1>2, <2>2, <3>1 DEF Refill, CacheTypes
  <2>5. FreedOK' /\ MemoryTypes'
    BY <1>2, <2>1 DEF Refill, memoryVars, FreedOK, MemoryTypes
  <2>6. CallTypes'
    BY <1>2, <2>3 DEF Refill, CallTypes
  <2> QED BY <2>1, <2>4, <2>5, <2>6
<1>3. ASSUME NEW t \in Thread, NEW c \in Class, Exhausted(t, c) PROVE TypeInv'
  BY <1>3, DieTypes DEF Exhausted, Fate
<1>4. ASSUME NEW t \in Thread, NEW i \in DOMAIN free[t][op[t].cls], MallocOwn(t, i) 
      PROVE TypeInv'
  <2> DEFINE p == free[t][op[t].cls][i].page
             b == PieceBase(t)
  <2>1. p \in DOMAIN ppage /\ PushVpage(p, EmptyList, b) /\ TakeSlot(t, i) /\ b \in Nat
    <3>1. op \in [Thread -> Call] /\ op[t].cls \in Class
      BY DEF CallTypes, Call
    <3> QED BY <1>4, <3>1, PieceType DEF MallocOwn, TakeSlot, AtPartial, FreedOK
  <2>2. ListTypes' /\ ListsOK' /\ MapTypes' /\ MapsOK' /\ DOMAIN ppage' = DOMAIN ppage
    BY <2>1, PushVpageOK
  <2>3. CacheTypes' /\ FreedOK' /\ CallTypes' /\ PageSlot(p, PieceSlot(t)) \in Freed
    BY <2>1, <2>2, TakeSlotTypes
  <2>4. /\ vm' = Put(vm, b, frames + 1) /\ frames' = frames + 1
        /\ held' = Put(held, b, PageSlot(p, PieceSlot(t))) /\ UNCHANGED retired
    BY <1>4 DEF MallocOwn, TakeSlot
  <2>5. MemoryTypes /\ frames \in Nat
    BY DEF MemoryTypes
  <2> HIDE DEF b
  <2>6. MemoryTypes'
    <3>1. frames + 1 \in Nat /\ frames + 1 \in 1..frames'
      BY <2>4, <2>5
    <3> QED BY <2>1, <2>3, <2>4, <2>5, <3>1, MapPage
  <2> QED BY <2>2, <2>3, <2>6
<1>5. ASSUME NEW t \in Thread, NEW i \in DOMAIN free[t][op[t].cls], MallocAlias(t, i) 
      PROVE TypeInv'
  <2> DEFINE p == free[t][op[t].cls][i].page
             b == PieceBase(t)
             src == vpage[Front(ppage[p])].addr
             res == IF src \in DOMAIN vm THEN b ELSE MapFailed
  <2>1. p \in DOMAIN ppage /\ PushVpage(p, ppage[p], res) /\ TakeSlot(t, i) 
        /\ b \in Nat /\ res \in Int
    <3>1. op \in [Thread -> Call] /\ op[t].cls \in Class
      BY DEF CallTypes, Call
    <3>2. p \in DOMAIN ppage
      BY <3>1 DEF FreedOK
    <3>3. PushVpage(p, ppage[p], res) /\ TakeSlot(t, i) 
      BY <1>5 DEF MallocAlias
    <3>4. b \in Nat
      BY <3>1, <3>3, PieceType DEF TakeSlot, AtPartial
    <3> HIDE DEF p, b, src
    <3>5. res \in Int
      BY ONLY <3>4 DEF MapFailed, res
    <3> HIDE DEF res
    <3> QED BY <3>2, <3>3, <3>4, <3>5
  <2>2. ListTypes' /\ ListsOK' /\ MapTypes' /\ MapsOK' /\ DOMAIN ppage' = DOMAIN ppage
    BY <2>1, PushVpageOK
  <2>3. CacheTypes' /\ FreedOK' /\ CallTypes' /\ PageSlot(p, PieceSlot(t)) \in Freed
    BY <2>1, <2>2, TakeSlotTypes
  <2>4. /\ vm' = IF src \in DOMAIN vm THEN Put(vm, b, vm[src]) ELSE vm
        /\ held' = IF src \in DOMAIN vm THEN Put(held, b, PageSlot(p, PieceSlot(t))) ELSE held
        /\ frames' = frames /\ retired' = retired
    BY <1>5 DEF MallocAlias, TakeSlot
  <2> HIDE DEF b, src
  <2>5. MemoryTypes'
    <3>1. CASE src \in DOMAIN vm
      <4>1. vm[src] \in Nat /\ vm[src] \in 1..frames' /\ MemoryTypes
        BY <3>1, <2>4 DEF MemoryTypes
      <4> QED BY <2>1, <2>3, <2>4, <3>1, <4>1, MapPage
    <3>2. CASE src \notin DOMAIN vm
      BY <2>4, <3>2 DEF MemoryTypes
    <3> QED BY <3>1, <3>2
  <2> QED BY <2>2, <2>3, <2>5
<1>6. ASSUME NEW t \in Thread, NEW i \in DOMAIN free[t][op[t].cls], MallocDies(t, i) 
      PROVE TypeInv'
  BY <1>6, DieTypes DEF MallocDies, Fate
<1>7. ASSUME NEW t \in Thread, MallocFresh(t) PROVE TypeInv'
  <2> DEFINE c    == op[t].cls
             slot == PieceSlot(t)
             b    == PieceBase(t)
             p    == Len(ppage) + 1
             more == Populate(slot.offset, ClassSize[c])
             list == [k \in DOMAIN more |-> PageSlot(p, more[k])]
  <2>0. op \in [Thread -> Call] /\ IsPartial(op[t].vaddr, op[t].remain)
    BY <1>7 DEF CallTypes, MallocFresh, AtPartial
  <2>1. /\ b \in Nat /\ c \in Class /\ ClassSize[c] \in Nat \ {0}
        /\ slot.offset \in Nat /\ slot.offset < PageSize
        /\ slot.size \in Nat /\ slot.size <= op[t].remain
        /\ p \in Nat /\ PageSlot(p, slot) \in Freed
    BY <2>0, PieceType DEF ListTypes, PageSlot, Freed
  <2>2. PICK link \in StaleLinks : prev' = Append(prev, link) /\ next' = Append(next, link)
    BY <1>7 DEF MallocFresh
  <2>3. ListTypes' /\ ListsOK' /\ MapTypes' /\ MapsOK' /\ DOMAIN ppage' = DOMAIN ppage \cup {p}
    <3>1. /\ ppage' = Append(ppage, EmptyList)
          /\ vpage' = Append(vpage, NewVpage(b, p))
          /\ Register(b, Len(vpage) + 1, p)
      BY <1>7 DEF MallocFresh
    <3> HIDE DEF b
    <3>2. b \in Int
      BY ONLY <2>1
    <3> QED BY <2>2, <3>1, <3>2, NewPpageOK
  <2>4. list \in Seq(Freed) /\ \A k \in DOMAIN list : list[k].page = p
    <3>1. more \in Seq([offset : Nat, size : Nat])
      BY <2>1, PopulateType
    <3> HIDE DEF more
    <3>2. ASSUME NEW k \in DOMAIN more 
          PROVE  PageSlot(p, more[k]) \in Freed /\ PageSlot(p, more[k]).page = p
      <4> DEFINE T == [offset : Nat, size : Nat]
      <4>1. more \in Seq(T)
        BY <3>1
      <4> HIDE DEF T
      <4>2. more[k] \in T
        BY ONLY <4>1, k \in DOMAIN more
      <4>3. more[k].offset \in Nat /\ more[k].size \in Nat
        BY <4>2 DEF T
      <4> QED BY <2>1, <4>3 DEF PageSlot, Freed
    <3>3. DOMAIN more = 1..Len(more) /\ Len(more) \in Nat
      BY <3>1
    <3> HIDE DEF more
    <3>4. list \in [1..Len(more) -> Freed] /\ \A k \in DOMAIN list : list[k].page = p
      BY <3>2, <3>3
    <3> HIDE DEF list
    <3> QED BY ONLY <3>3, <3>4
  <2>5. free[t][c] \in Seq(Freed) /\ free' = [free EXCEPT ![t][c] = free[t][c] \o list]
    BY <1>7, <2>1 DEF MallocFresh, CacheTypes
  <2>6. /\ free[t][c] \o list \in Seq(Freed)
        /\ \A k \in DOMAIN (free[t][c] \o list) : (free[t][c] \o list)[k].page \in DOMAIN ppage'
    <3>1. \A k \in DOMAIN free[t][c] : free[t][c][k].page \in DOMAIN ppage'
      BY <2>1, <2>3 DEF FreedOK
    <3> DEFINE old == free[t][c]
    <3>2. old \in Seq(Freed) /\ \A k \in DOMAIN old : old[k].page \in DOMAIN ppage'
      BY <2>5, <3>1
    <3>3. p \in DOMAIN ppage'
      BY <2>3
    <3> HIDE DEF list, old, p
    <3>4. \A k \in DOMAIN (old \o list) : 
            \/ k \in DOMAIN old /\ (old \o list)[k] = old[k]
            \/ k - Len(old) \in DOMAIN list /\ (old \o list)[k] = list[k - Len(old)]
      BY ONLY <2>4, <3>2
    <3>5. old \o list \in Seq(Freed)
      BY ONLY <2>4, <3>2
    <3> QED BY <2>4, <3>2, <3>3, <3>4, <3>5 DEF old
  <2>7. CacheTypes' /\ FreedOK'
    <3>1. CacheTypes /\ FreedOK /\ UNCHANGED <<pos, lower, upper>> /\ DOMAIN ppage \subseteq DOMAIN ppage'
      BY <1>7, <2>3 DEF MallocFresh
    <3> HIDE DEF list, c
    <3> QED BY <2>1, <2>5, <2>6, <3>1, FreeListType
  <2>8. MemoryTypes'
    <3>1. /\ vm' = Put(vm, b, frames + 1) /\ frames' = frames + 1
          /\ held' = Put(held, b, PageSlot(p, slot)) /\ UNCHANGED retired
      BY <1>7 DEF MallocFresh
    <3>2. MemoryTypes /\ frames + 1 \in Nat /\ frames + 1 \in 1..frames'
      BY <3>1 DEF MemoryTypes
    <3> HIDE DEF b, p, slot
    <3> QED BY <2>1, <3>1, <3>2, MapPage
  <2>9. CallTypes'
    <3>1. op' \in [Thread -> Call]
      BY <1>7, <2>0, <2>1, AdvanceType DEF MallocFresh
    <3> QED BY <1>7, <3>1 DEF CallTypes, MallocFresh
  <2> QED BY <2>3, <2>7, <2>8, <2>9
<1>8. ASSUME NEW t \in Thread, MallocWhole(t) PROVE TypeInv'
  <2> DEFINE size == WholeSize(op[t].remain)
             vaddr == op[t].vaddr
             new == PagesOf(vaddr, size)
  <2>0. /\ op \in [Thread -> Call] /\ IsWhole(vaddr, op[t].remain)
        /\ vaddr \in Nat /\ op[t].remain \in Nat
    BY <1>8 DEF CallTypes, MallocWhole, AtWhole, Call
  <2>1. size \in Nat /\ 0 < size /\ size <= op[t].remain /\ Aligned(size) /\ Aligned(vaddr)
    BY <2>0, WholeSizeBounds
  <2>2. ListTypes' /\ ListsOK' /\ MapTypes' /\ MapsOK' /\ DOMAIN ppage' = DOMAIN ppage
    BY <1>8, ListsUnchanged DEF MallocWhole
  <2>3. CacheTypes' /\ FreedOK'
    BY <1>8, <2>2 DEF MallocWhole, cacheVars, CacheTypes, FreedOK
  <2>4. CallTypes'
    <3>1. op' \in [Thread -> Call]
      BY <1>8, <2>0, <2>1, AdvanceType DEF MallocWhole
    <3> QED BY <1>8, <3>1 DEF CallTypes, MallocWhole
  <2>5. new \subseteq Nat /\ \A b \in new : b - vaddr \in Nat /\ b - vaddr < size
    <3> HIDE DEF vaddr, size
    <3>1. RoundDownTo(vaddr) = vaddr
      BY <2>0, <2>1, RoundDownOfAligned
    <3> QED BY <2>0, <2>1, <3>1, PagesOfNat DEF new
  <2>6. \A b \in new : frames + 1 + ((b - vaddr) \div PageSize) \in 1..frames'
    <3>1. frames' = frames + (size \div PageSize) /\ frames \in Nat
      BY <1>8 DEF MallocWhole, MemoryTypes
    <3> SUFFICES ASSUME NEW b \in new 
                 PROVE  frames + 1 + ((b - vaddr) \div PageSize) \in 1..frames'
      OBVIOUS
    <3> DEFINE k == (b - vaddr) \div PageSize
               n == size \div PageSize
    <3>2. k \in Nat /\ n \in Nat /\ k < n
      BY <2>1, <2>5, PageNumber
    <3> HIDE DEF k, n
    <3>3. frames + 1 + k \in 1..(frames + n)
      BY <3>1, <3>2
    <3> QED BY <3>1, <3>3 DEF k, n
  <2>7. MemoryTypes'
    <3>1. /\ DOMAIN vm' = DOMAIN vm \cup new
          /\ \A b \in DOMAIN vm' : vm'[b] = IF b \in new 
                                           THEN frames + 1 + ((b - vaddr) \div PageSize) 
                                           ELSE vm[b]
          /\ UNCHANGED <<held, retired>>
          /\ frames' = frames + (size \div PageSize)
      BY <1>8 DEF MallocWhole
    <3>2. size \div PageSize \in Nat
      BY <2>1, PageAndOffset
    <3>3. frames' \in Nat /\ 1..frames \subseteq 1..frames'
      BY <3>1, <3>2 DEF MemoryTypes
    <3> HIDE DEF new, vaddr
    <3> QED BY <2>5, <2>6, <3>1, <3>3 DEF MemoryTypes
  <2> QED BY <2>2, <2>3, <2>4, <2>7
<1>9. ASSUME NEW t \in Thread, FinishMalloc(t) PROVE TypeInv'
  <2>1. ListTypes' /\ ListsOK' /\ MapTypes' /\ MapsOK' /\ DOMAIN ppage' = DOMAIN ppage
    BY <1>9, ListsUnchanged DEF FinishMalloc
  <2>2. op[t] \in Call /\ op[t].cls \in Class /\ op[t].beg \in Nat /\ Idle \in Call
    BY HeapAssumption DEF CallTypes, Call, Idle, Class
  <2>3. CacheTypes'
    <3>1. lower[t][op[t].cls] + Stride(op[t].cls) \in Nat
      BY <2>2, HeapAssumption DEF CacheTypes, Stride
    <3> QED BY <1>9, <2>2, <3>1 DEF FinishMalloc, CacheTypes
  <2>4. FreedOK' /\ MemoryTypes'
    BY <1>9, <2>1 DEF FinishMalloc, memoryVars, FreedOK, MemoryTypes
  <2>5. CallTypes'
    BY <1>9, <2>2 DEF FinishMalloc, CallTypes, Chunk
  <2> QED BY <2>1, <2>3, <2>4, <2>5
<1>10. ASSUME NEW t \in Thread, StartFree(t) PROVE TypeInv'
  <2>1. ListTypes' /\ ListsOK' /\ MapTypes' /\ MapsOK' /\ DOMAIN ppage' = DOMAIN ppage
    BY <1>10, ListsUnchanged DEF StartFree
  <2>2. CacheTypes' /\ FreedOK' /\ MemoryTypes'
    BY <1>10, <2>1 DEF StartFree, cacheVars, memoryVars, CacheTypes, FreedOK, MemoryTypes
  <2>3. CallTypes'
    <3>1. PICK ch \in live : live' = live \ {ch} /\ op' = [op EXCEPT ![t] = NewCall("free", ch.cls, ch.beg)]
      BY <1>10 DEF StartFree
    <3>2. NewCall("free", ch.cls, ch.beg) \in Call
      BY NewCallType DEF CallTypes, Chunk
    <3> QED BY <1>10, <3>1, <3>2 DEF StartFree, CallTypes
  <2> QED BY <2>1, <2>2, <2>3
<1>11. ASSUME NEW t \in Thread, FreePartial(t) PROVE TypeInv'
  <2> DEFINE c == op[t].cls
             b == PieceBase(t)
             slot == PieceSlot(t)
  <2>0. op \in [Thread -> Call] /\ IsPartial(op[t].vaddr, op[t].remain)
    BY <1>11 DEF CallTypes, FreePartial, AtPartial
  <2>1. /\ b \in DOMAIN forkmap /\ c \in Class
        /\ slot.offset \in Nat /\ slot.size \in Nat /\ slot.size <= op[t].remain
    BY <1>11, <2>0, PieceType DEF FreePartial, Known
  <2>2. PICK r : /\ r = Remove(ppage[pagemap[b]], prev, next, forkmap[b])
                 /\ ppage' = [ppage EXCEPT ![pagemap[b]] = r.list]
                 /\ prev' = r.prev /\ next' = r.next
    BY <1>11 DEF FreePartial
  <2>3. ListTypes' /\ ListsOK' /\ MapTypes' /\ MapsOK' /\ DOMAIN ppage' = DOMAIN ppage
    <3>1. vpage' = vpage /\ forkmap' = Drop(forkmap, {b}) /\ pagemap' = Drop(pagemap, {b})
      BY <1>11 DEF FreePartial, Unregister
    <3> HIDE DEF b
    <3> QED BY <2>1, <2>2, <3>1, RemoveVpageOK
  <2>4. pagemap[b] \in DOMAIN ppage /\ DOMAIN ppage \subseteq Nat
    BY <2>1 DEF MapsOK, ListTypes
  <2> DEFINE f == PageSlot(pagemap[b], slot)
             old == free[t][c]
  <2>5. f \in Freed /\ f.page \in DOMAIN ppage'
    BY <2>1, <2>3, <2>4 DEF PageSlot, Freed
  <2>6. /\ old \in Seq(Freed) /\ free' = [free EXCEPT ![t][c] = Append(old, f)]
        /\ \A k \in DOMAIN old : old[k].page \in DOMAIN ppage'
    BY <1>11, <2>1, <2>3 DEF FreePartial, CacheTypes, FreedOK
  <2>7. CacheTypes' /\ FreedOK'
    <3>1. CacheTypes /\ FreedOK /\ UNCHANGED <<pos, lower, upper>>
      BY <1>11 DEF FreePartial
    <3> HIDE DEF old, f, c
    <3>2. Append(old, f) \in Seq(Freed) /\ \A k \in DOMAIN Append(old, f) : Append(old, f)[k].page \in DOMAIN ppage'
      BY <2>5, <2>6
    <3> QED BY <2>1, <2>3, <2>6, <3>1, <3>2, FreeListType
  <2>8. MemoryTypes'
    BY <1>11 DEF FreePartial, memoryVars, MemoryTypes
  <2>9. CallTypes'
    <3>1. op' \in [Thread -> Call]
      BY <1>11, <2>0, <2>1, AdvanceType DEF FreePartial
    <3> QED BY <1>11, <3>1 DEF CallTypes, FreePartial
  <2> QED BY <2>3, <2>7, <2>8, <2>9
<1>12. ASSUME NEW t \in Thread, FreeDies(t) PROVE TypeInv'
  BY <1>12, DieTypes DEF FreeDies, Fate
<1>13. ASSUME NEW t \in Thread, FreeWhole(t) PROVE TypeInv'
  <2>1. ListTypes' /\ ListsOK' /\ MapTypes' /\ MapsOK' /\ DOMAIN ppage' = DOMAIN ppage
    BY <1>13, ListsUnchanged DEF FreeWhole
  <2>2. CacheTypes' /\ FreedOK' /\ MemoryTypes'
    BY <1>13, <2>1 DEF FreeWhole, cacheVars, memoryVars, CacheTypes, FreedOK, MemoryTypes
  <2>3. op' \in [Thread -> Call]
    <3>1. /\ op \in [Thread -> Call] /\ IsWhole(op[t].vaddr, op[t].remain)
          /\ op[t].vaddr \in Nat /\ op[t].remain \in Nat
      BY <1>13 DEF CallTypes, FreeWhole, AtWhole, Call
    <3> QED BY <1>13, <3>1, WholeSizeBounds, AdvanceType DEF FreeWhole
  <2> QED BY <1>13, <2>1, <2>2, <2>3 DEF CallTypes, FreeWhole
<1>14. ASSUME NEW t \in Thread, FinishFree(t) PROVE TypeInv'
  <2>1. ListTypes' /\ ListsOK' /\ MapTypes' /\ MapsOK' /\ DOMAIN ppage' = DOMAIN ppage
    BY <1>14, ListsUnchanged DEF FinishFree
  <2>2. CacheTypes' /\ FreedOK'
    BY <1>14, <2>1 DEF FinishFree, cacheVars, CacheTypes, FreedOK
  <2>3. MemoryTypes'
    <3> DEFINE gone == PagesOf(op[t].beg, ClassSize[op[t].cls])
    <3>1. gone \subseteq Nat
      BY PagesOfNat, HeapAssumption DEF CallTypes, Call
    <3>2. /\ vm' = Drop(vm, gone) /\ held' = Drop(held, gone) 
          /\ retired' = retired \cup gone /\ frames' = frames
      BY <1>14 DEF FinishFree
    <3> HIDE DEF gone
    <3> QED BY <3>1, <3>2 DEF MemoryTypes, Drop
  <2>4. CallTypes'
    <3>1. Idle \in Call
      BY HeapAssumption DEF Idle, Call, Class
    <3> QED BY <1>14, <3>1 DEF FinishFree, CallTypes
  <2> QED BY <2>1, <2>2, <2>3, <2>4
<1> HIDE DEF TypeInv
<1> QED
  BY <1>0, <1>1, <1>2, <1>3, <1>4, <1>5, <1>6, <1>7, <1>8, <1>9, <1>10, <1>11, 
     <1>12, <1>13, <1>14 DEF Next, Malloc, Free

(* The allocator's variables always have their types, for all numbers of   *)
(* threads, class sizes and page sizes: no piece is longer than what is    *)
(* left of its chunk (Allocate, Deallocate) and no list operation yields   *)
(* anything but a Vpage of its Ppage, null or an unwritten pointer.        *)
THEOREM TypeCorrect == Spec => []TypeOK
<1>1. TypeInv => TypeOK
  BY DEF TypeInv
<1> QED
  BY TypeInit, TypeStep, <1>1, PTL DEF Spec

----------------------------------------------------------------------------
(* The addresses of chunks.                                                *)

(* The pages of a chunk lie between its rounded address and its end.       *)
LEMMA PagesBounds ==
  ASSUME NEW ch, ch.beg \in Nat, ch.cls \in Class
  PROVE  /\ Pages(ch) \subseteq Nat
         /\ \A b \in Pages(ch) : RoundDownTo(ch.beg) <= b /\ b < ch.beg + ClassSize[ch.cls]
  BY PagesOfNat, HeapAssumption DEF Pages

(* A chunk that malloc works on is part of the range of its cache.         *)
LEMMA MallocFromFresh ==
  ASSUME TypeOK, CallOK, NEW t \in Mallocing
  PROVE  /\ op[t].cls \in Class
         /\ Pages(InCall(t)) \subseteq Fresh(t, op[t].cls)
<1> DEFINE c == op[t].cls
<1>1. /\ t \in Thread /\ t \in Busy /\ c \in Class /\ op[t].beg \in Nat
      /\ lower[t][c] \in Nat /\ upper[t][c] \in Nat
  BY DEF TypeOK, CacheTypes, CallTypes, Call, Mallocing, Busy
<1>2. op[t].beg = lower[t][c] /\ op[t].beg + ClassSize[c] <= upper[t][c]
  BY <1>1 DEF CallOK, Mallocing
<1>3. /\ Pages(InCall(t)) \subseteq Nat
      /\ \A b \in Pages(InCall(t)) : RoundDownTo(op[t].beg) <= b /\ b < op[t].beg + ClassSize[c]
  BY <1>1, PagesBounds DEF InCall
<1>4. ClassSize[c] \in Nat /\ RoundDownTo(op[t].beg) \in Nat
  BY <1>1, HeapAssumption, RoundDownBounds
<1>5. ASSUME NEW b \in Pages(InCall(t)) PROVE b \in Fresh(t, c)
  BY <1>1, <1>2, <1>3, <1>4, <1>5 DEF Fresh
<1> QED
  BY <1>1, <1>5

(* The pages of freed, live and dying chunks are settled.                  *)
LEMMA InSettled ==
  /\ retired \subseteq Settled
  /\ \A x \in live : Pages(x) \subseteq Settled
  /\ \A t \in Freeing : Pages(InCall(t)) \subseteq Settled
  BY DEF Settled

(* The two properties follow from the invariant.                           *)
LEMMA AddressInvImplies == 
  ASSUME TypeOK, AddressInv
  PROVE  PagesExclusive /\ NoRevival
<1> USE DEF AddressInv
<1>1. \A t \in Busy : t \in Thread /\ (t \in Mallocing \/ t \in Freeing)
  BY DEF Busy, Mallocing, Freeing, TypeOK, CallTypes, Call
<1>2. \A t \in Mallocing : /\ t \in Thread /\ op[t].cls \in Class
                           /\ Pages(InCall(t)) \subseteq Fresh(t, op[t].cls)
                           /\ Settled \cap Fresh(t, op[t].cls) = {}
  BY MallocFromFresh DEF Mallocing, SettledApart
<1>3. \A t \in Mallocing : Pages(InCall(t)) \cap Settled = {}
  BY <1>2
<1>4. \A t, u \in Mallocing : t # u => Pages(InCall(t)) \cap Pages(InCall(u)) = {}
  <2> SUFFICES ASSUME NEW t \in Mallocing, NEW u \in Mallocing, t # u
               PROVE  Pages(InCall(t)) \cap Pages(InCall(u)) = {}
    OBVIOUS
  <2>1. Fresh(t, op[t].cls) \cap Fresh(u, op[u].cls) = {}
    BY <1>2 DEF FreshDisjoint
  <2> QED BY <1>2, <2>1
<1>5. PagesExclusive
  <2>1. \A t \in Busy, x \in live : Pages(InCall(t)) \cap Pages(x) = {}
    BY <1>1, <1>3, InSettled DEF SettledExclusive
  <2>2. \A t, u \in Busy : t # u => Pages(InCall(t)) \cap Pages(InCall(u)) = {}
    BY <1>1, <1>3, <1>4, InSettled DEF SettledExclusive
  <2> QED BY <2>1, <2>2 DEF PagesExclusive, SettledExclusive
<1>6. NoRevival
  <2>1. \A t \in Busy : Pages(InCall(t)) \cap retired = {}
    BY <1>1, <1>3, InSettled DEF SettledExclusive
  <2>2. \A t \in Mallocing : Reached(t) \subseteq Pages(InCall(t)) /\ t \in Busy
    BY DEF Reached, Mallocing, Busy
  <2>3. retired \cap DOMAIN vm = {}
    BY <1>1, <2>1, <2>2 DEF MappedOwned, SettledExclusive
  <2> QED BY <2>1, <2>3 DEF NoRevival, SettledExclusive
<1> QED
  BY <1>5, <1>6

(* Initially nothing was given out.                                        *)
LEMMA AddressInit == Init => AddressInv
<1> SUFFICES ASSUME Init PROVE AddressInv
  OBVIOUS
<1>1. Busy = {} /\ Freeing = {} /\ Mallocing = {}
  BY DEF Init, Busy, Freeing, Mallocing, Idle
<1>2. Settled = {}
  BY <1>1 DEF Settled, Init
<1>3. RangesOK
  <2> SUFFICES ASSUME NEW c \in Class
               PROVE  /\ RegionBegin(c) \in Nat /\ Aligned(RegionBegin(c))
                      /\ NextRange(c) = RegionBegin(c) 
                      /\ (NextRange(c) - RegionBegin(c)) % PopulateSize = 0
    BY DEF RangesOK
  <2>1. c \in Nat /\ RegionSize \in Nat /\ SpaceBeg \in Nat /\ Aligned(RegionSize)
        /\ Aligned(SpaceBeg) /\ PopulateSize \in Nat \ {0}
    <3>1. 0 \in Class /\ ClassSize[0] \in Nat \ {0} /\ ClassSize[0] <= PopulateSize /\ PopulateSize \in Nat
      BY HeapAssumption DEF Class
    <3> QED BY <3>1, HeapAssumption DEF Class
  <2>2. RegionSize * c \in Nat /\ Aligned(RegionSize * c)
    BY <2>1, AlignedProduct
  <2>3. Aligned(SpaceBeg + RegionSize * c)
    <3> DEFINE r == RegionSize * c
    <3>1. r \in Nat /\ Aligned(r)
      BY <2>2
    <3> HIDE DEF r
    <3>2. Aligned(SpaceBeg + r)
      BY <2>1, <3>1, AlignedSum DEF Aligned
    <3> QED BY <3>2 DEF r
  <2>4. RegionBegin(c) \in Nat /\ Aligned(RegionBegin(c))
    BY <2>1, <2>2, <2>3 DEF RegionBegin
  <2>5. NextRange(c) = RegionBegin(c)
    BY DEF NextRange, Init
  <2>6. (NextRange(c) - RegionBegin(c)) % PopulateSize = 0
    BY <2>1, <2>4, <2>5
  <2> QED BY <2>4, <2>5, <2>6
<1>4. \A t \in Thread, c \in Class : Fresh(t, c) = {}
  <2> SUFFICES ASSUME NEW t \in Thread, NEW c \in Class PROVE Fresh(t, c) = {}
    OBVIOUS
  <2>1. lower[t][c] = 0 /\ upper[t][c] = 0 /\ RoundDownTo(0) = 0
    BY RoundDownBounds DEF Init
  <2> QED BY <2>1 DEF Fresh
<1> QED
  BY <1>1, <1>2, <1>3, <1>4 DEF AddressInv, CallOK, FreshDisjoint, SettledApart,
                                SettledExclusive, MappedOwned, Init

(***************************************************************************)
(* Regions and ranges.                                                     *)
(***************************************************************************)
LEMMA PopulatePositive == PopulateSize \in Nat \ {0}
<1>1. 0 \in Class /\ ClassSize[0] \in Nat \ {0} /\ ClassSize[0] <= PopulateSize /\ PopulateSize \in Nat
  BY HeapAssumption DEF Class
<1> QED
  BY <1>1

(* A range taken from a region ends within the region.                     *)
LEMMA RangeFits ==
  ASSUME CacheTypes, RangesOK, NEW c \in Class, NextRange(c) < RegionBegin(c + 1)
  PROVE  /\ NextRange(c) + PopulateSize <= RegionBegin(c + 1)
         /\ Aligned(NextRange(c)) /\ Aligned(NextRange(c) + PopulateSize)
         /\ (NextRange(c) + PopulateSize - RegionBegin(c)) % PopulateSize = 0
<1> DEFINE a == NextRange(c) - RegionBegin(c)
<1>1. /\ NextRange(c) \in Nat /\ RegionBegin(c) \in Nat /\ RegionBegin(c + 1) \in Nat
      /\ a \in Nat /\ a % PopulateSize = 0 /\ Aligned(NextRange(c))
  BY Regions DEF RangesOK
<1>2. /\ RegionSize \in Nat /\ RegionSize % PopulateSize = 0 
      /\ PopulateSize \in Nat \ {0} /\ Aligned(PopulateSize)
  BY HeapAssumption, PopulatePositive
<1>3. RegionBegin(c + 1) = RegionBegin(c) + RegionSize
  <2>1. c \in Nat /\ RegionSize \in Nat /\ SpaceBeg \in Nat
    BY HeapAssumption DEF Class
  <2>2. RegionSize * (c + 1) = RegionSize * c + RegionSize /\ RegionSize * c \in Nat
    BY <2>1
  <2> QED BY <2>1, <2>2 DEF RegionBegin
<1>4. a < RegionSize
  BY <1>1, <1>2, <1>3
<1> HIDE DEF a
<1>5. a + PopulateSize <= RegionSize
  BY <1>1, <1>2, <1>4, MultiplesApart
<1>6. Aligned(NextRange(c) + PopulateSize)
  BY <1>1, <1>2, AlignedSum DEF Aligned
<1>7. (a + PopulateSize) % PopulateSize = 0
  BY <1>1, <1>2, MultipleNext
<1> QED
  BY <1>1, <1>2, <1>3, <1>5, <1>6, <1>7 DEF a

(* The regions of two classes do not meet.                                 *)
LEMMA RegionsApart ==
  ASSUME NEW c \in Class, NEW d \in Class, c < d
  PROVE  RegionBegin(c + 1) <= RegionBegin(d)
<1>1. c \in Nat /\ d \in Nat /\ RegionSize \in Nat /\ SpaceBeg \in Nat
  BY HeapAssumption DEF Class
<1>2. PICK k \in Nat : d = c + 1 + k
  <2>1. d - (c + 1) \in Nat /\ d = c + 1 + (d - (c + 1))
    BY <1>1
  <2> QED BY <2>1
<1>3. RegionSize * d = RegionSize * (c + 1) + RegionSize * k
  BY <1>1, <1>2
<1>4. RegionSize * k \in Nat /\ RegionSize * d \in Nat /\ RegionSize * (c + 1) \in Nat
  BY <1>1, <1>2
<1> QED
  BY <1>1, <1>3, <1>4 DEF RegionBegin

(* The regions of two classes do not meet.                                 *)
LEMMA UnclaimedDisjoint ==
  ASSUME CacheTypes, RangesOK, NEW c \in Class, NEW d \in Class, c # d
  PROVE  Unclaimed(c) \cap Unclaimed(d) = {}
<1>1. /\ RegionBegin(c) \in Nat /\ RegionBegin(c + 1) \in Nat /\ NextRange(c) \in Nat
      /\ RegionBegin(d) \in Nat /\ RegionBegin(d + 1) \in Nat /\ NextRange(d) \in Nat
      /\ NextRange(c) >= RegionBegin(c) /\ NextRange(d) >= RegionBegin(d)
      /\ c \in Nat /\ d \in Nat
  <2>1. \A e \in Class : RegionBegin(e) \in Nat /\ RegionBegin(e + 1) \in Nat /\ NextRange(e) \in Nat
    BY Regions
  <2>2. NextRange(c) >= RegionBegin(c) /\ NextRange(d) >= RegionBegin(d)
    BY DEF RangesOK
  <2>3. c \in Nat /\ d \in Nat
    BY HeapAssumption DEF Class
  <2> QED BY <2>1, <2>2, <2>3
<1>2. RegionBegin(c + 1) <= RegionBegin(d) \/ RegionBegin(d + 1) <= RegionBegin(c)
  BY <1>1, RegionsApart
<1> QED
  BY <1>1, <1>2 DEF Unclaimed

(***************************************************************************)
(* The steps.                                                              *)
(***************************************************************************)
(* A piece of a call is done; malloc may have mapped pages of its chunk.   *)
LEMMA AdvanceAddress ==
  ASSUME TypeOK, AddressInv, NEW t \in Busy, NEW size \in Nat, size <= op[t].remain,
         Advance(t, size), UNCHANGED <<pos, lower, upper, live, retired>>,
         NEW new, DOMAIN vm' \subseteq DOMAIN vm \cup new,
         new # {} => t \in Mallocing /\ size > 0,
         \A b \in new : b \in Pages(InCall(t)) /\ b < op[t].vaddr + size,
         size = op[t].remain \/ Aligned(op[t].vaddr + size)
  PROVE  AddressInv'
<1> USE DEF AddressInv
<1>1. /\ t \in Thread /\ op \in [Thread -> Call]
      /\ op[t].vaddr \in Nat /\ op[t].remain \in Nat /\ op[t].beg \in Nat
  BY DEF Busy, TypeOK, CallTypes, Call
<1>2. /\ op' \in [Thread -> Call]
      /\ \A u \in Thread : u # t => op'[u] = op[u]
      /\ op'[t].kind = op[t].kind /\ op'[t].cls = op[t].cls /\ op'[t].beg = op[t].beg
      /\ op'[t].vaddr = op[t].vaddr + size /\ op'[t].remain = op[t].remain - size
  BY <1>1, AdvanceType
<1>3. /\ Busy' = Busy /\ Mallocing' = Mallocing /\ Freeing' = Freeing
      /\ \A u \in Thread : InCall(u)' = InCall(u)
  BY <1>2 DEF Busy, Mallocing, Freeing, InCall
<1>4. CallOK'
  <2> SUFFICES ASSUME NEW u \in Busy
               PROVE  /\ op'[u].vaddr >= op'[u].beg
                      /\ op'[u].vaddr + op'[u].remain = op'[u].beg + ClassSize[op'[u].cls]
                      /\ op'[u].vaddr = op'[u].beg \/ Aligned(op'[u].vaddr) \/ op'[u].remain = 0
                      /\ op'[u].kind = "malloc" => 
                           /\ op'[u].beg = lower[u][op'[u].cls]
                           /\ op'[u].beg + ClassSize[op'[u].cls] <= upper[u][op'[u].cls]
    BY <1>3 DEF CallOK
  <2>1. CASE u # t
    BY <2>1, <1>2 DEF CallOK, Busy
  <2>2. CASE u = t
    <3>1. ClassSize[op[t].cls] \in Nat
      BY <1>1, HeapAssumption DEF Call
    <3> QED BY <2>2, <3>1, <1>1, <1>2 DEF CallOK
  <2> QED BY <2>1, <2>2
<1>5. \A u \in Freeing : u \in Thread
  BY DEF Freeing
<1>6. /\ \A x : Pages(x)' = Pages(x)
      /\ Settled' = Settled
      /\ \A u, c : Fresh(u, c)' = Fresh(u, c)
      /\ \A c : NextRange(c)' = NextRange(c) /\ Unclaimed(c)' = Unclaimed(c)
  <2>1. \A u \in Freeing : Pages(InCall(u)') = Pages(InCall(u))
    BY <1>3, <1>5
  <2> QED BY <2>1, <1>3 DEF Pages, Settled, Fresh, NextRange, Unclaimed
<1>7. RangesOK' /\ FreshDisjoint' /\ SettledApart'
  BY <1>6 DEF RangesOK, FreshDisjoint, SettledApart
<1>8. SettledExclusive'
  <2>1. \A u \in Freeing : Pages(InCall(u)') = Pages(InCall(u))
    BY <1>3, <1>5
  <2> QED BY <2>1, <1>3, <1>6 DEF SettledExclusive
<1>9. MappedOwned'
  <2> SUFFICES ASSUME NEW b \in DOMAIN vm'
               PROVE  \/ \E x \in live : b \in Pages(x)
                      \/ \E u \in Freeing : b \in Pages(InCall(u))
                      \/ \E u \in Mallocing : b \in Reached(u)'
    BY <1>3, <1>5 DEF MappedOwned, Pages
  <2>1. CASE b \in new
    <3>1. /\ t \in Mallocing /\ b \in Pages(InCall(t)) /\ b < op'[t].vaddr
          /\ op'[t].vaddr # op'[t].beg
      BY <2>1, <1>1, <1>2 DEF CallOK
    <3> QED BY <3>1, <1>1, <1>3 DEF Reached, Pages
  <2>2. CASE b \notin new
    <3>1. b \in DOMAIN vm
      BY <2>2
    <3>2. \A u \in Mallocing : b \in Reached(u) => b \in Reached(u)'
      <4> SUFFICES ASSUME NEW u \in Mallocing, b \in Reached(u) PROVE b \in Reached(u)'
        OBVIOUS
      <4>1. u \in Thread /\ b \in Pages(InCall(u)) /\ b < op[u].vaddr /\ op[u].vaddr # op[u].beg
        BY DEF Reached, Mallocing
      <4>2. b < op'[u].vaddr /\ op'[u].vaddr # op'[u].beg
        <5>1. b \in Nat
          BY <4>1 , <1>1, PagesOfNat, HeapAssumption DEF Pages, InCall, Call
        <5>2. op[t].vaddr >= op[t].beg
          BY DEF CallOK
        <5> QED BY <4>1, <5>1, <5>2, <1>1, <1>2
      <4>3. Pages(InCall(u)') = Pages(InCall(u))
        BY <4>1, <1>3
      <4> QED BY <4>1, <4>2, <4>3 DEF Reached, Pages
    <3> QED BY <3>1, <3>2 DEF MappedOwned
  <2> QED BY <2>1, <2>2
<1> QED
  BY <1>4, <1>7, <1>8, <1>9

(* Where the pages of a call are.                                          *)
LEMMA CallPages ==
  ASSUME TypeOK, NEW t \in Thread
  PROVE  /\ op[t].cls \in Class /\ op[t].beg \in Nat /\ op[t].vaddr \in Nat /\ op[t].remain \in Nat
         /\ ClassSize[op[t].cls] \in Nat \ {0}
         /\ Pages(InCall(t)) = 
              {b \in RoundDownTo(op[t].beg)..(op[t].beg + ClassSize[op[t].cls] - 1) : Aligned(b)}
         /\ RoundDownTo(op[t].beg) \in Nat
<1>1. op[t].cls \in Class /\ op[t].beg \in Nat /\ op[t].vaddr \in Nat /\ op[t].remain \in Nat
  BY DEF TypeOK, CallTypes, Call
<1> QED
  BY <1>1, HeapAssumption, RoundDownBounds DEF Pages, InCall, PagesOf

(* The page of a partial piece is a page of the chunk, before the end of   *)
(* the piece.                                                              *)
LEMMA PieceInChunk ==
  ASSUME TypeOK, CallOK, NEW t \in Busy, IsPartial(op[t].vaddr, op[t].remain)
  PROVE  /\ PieceBase(t) \in Pages(InCall(t))
         /\ PieceSlot(t).size \in Nat /\ 0 < PieceSlot(t).size 
         /\ PieceSlot(t).size <= op[t].remain
         /\ PieceBase(t) < op[t].vaddr + PieceSlot(t).size
         /\ PieceSlot(t).size = op[t].remain \/ Aligned(op[t].vaddr + PieceSlot(t).size)
<1> DEFINE v == op[t].vaddr
           r == op[t].remain
           s == PartialSize(v, r)
           b == RoundDownTo(v)
<1>1. /\ t \in Thread /\ v \in Nat /\ r \in Nat /\ op[t].beg \in Nat
      /\ op[t].beg <= v /\ v + r = op[t].beg + ClassSize[op[t].cls]
      /\ ClassSize[op[t].cls] \in Nat
      /\ Pages(InCall(t)) = 
              {x \in RoundDownTo(op[t].beg)..(op[t].beg + ClassSize[op[t].cls] - 1) : Aligned(x)}
      /\ RoundDownTo(op[t].beg) \in Nat
  BY CallPages DEF Busy, CallOK
<1>2. s \in Nat /\ 0 < s /\ s <= r /\ s + OffsetOf(v) <= PageSize /\ PieceSlot(t).size = s
  BY <1>1, PartialSizeBounds DEF PieceSlot, Slot
<1>3. b \in Nat /\ b <= v /\ Aligned(b) /\ v = b + OffsetOf(v) /\ OffsetOf(v) \in Nat
  BY <1>1, RoundDownBounds, RoundDownAligned
<1>4. RoundDownTo(op[t].beg) <= b
  BY <1>1, RoundDownMonotone
<1>5. s = r \/ s = PageSize - OffsetOf(v)
  BY DEF PartialSize, Least
<1> HIDE DEF v, r, s, b
<1>6. b \in Pages(InCall(t)) /\ b < v + s
  BY <1>1, <1>2, <1>3, <1>4
<1>7. s = r \/ Aligned(v + s)
  <2>1. CASE s = PageSize - OffsetOf(v)
    <3>1. v + s = b + PageSize /\ PageSize \in Nat
      BY <2>1, <1>3, PageSizeAssumption
    <3>2. OffsetOf(PageSize) = 0
      BY PageSizeAssumption DEF OffsetOf
    <3> QED BY <3>1, <3>2, <1>3, AlignedSum DEF Aligned
  <2> QED BY <2>1, <1>5
<1> QED
  BY <1>2, <1>6, <1>7 DEF v, r, s, b, PieceBase

(* The whole pages at the front of a piece lie in the chunk.               *)
LEMMA WholeInChunk ==
  ASSUME TypeOK, CallOK, NEW t \in Busy, IsWhole(op[t].vaddr, op[t].remain)
  PROVE  LET size == WholeSize(op[t].remain) IN
         /\ size \in Nat /\ 0 < size /\ size <= op[t].remain /\ Aligned(op[t].vaddr + size)
         /\ \A b \in PagesOf(op[t].vaddr, size) : 
              b \in Pages(InCall(t)) /\ b < op[t].vaddr + size
<1> DEFINE v == op[t].vaddr
           r == op[t].remain
           s == WholeSize(r)
<1>1. /\ t \in Thread /\ v \in Nat /\ r \in Nat /\ op[t].beg \in Nat
      /\ op[t].beg <= v /\ v + r = op[t].beg + ClassSize[op[t].cls]
      /\ ClassSize[op[t].cls] \in Nat
      /\ Pages(InCall(t)) = 
              {x \in RoundDownTo(op[t].beg)..(op[t].beg + ClassSize[op[t].cls] - 1) : Aligned(x)}
      /\ RoundDownTo(op[t].beg) \in Nat
  BY CallPages DEF Busy, CallOK
<1>2. s \in Nat /\ 0 < s /\ s <= r /\ Aligned(s) /\ Aligned(v)
  BY <1>1, WholeSizeBounds
<1>3. RoundDownTo(op[t].beg) <= RoundDownTo(v) /\ RoundDownTo(v) \in Nat
  BY <1>1, RoundDownMonotone, RoundDownBounds
<1>4. PagesOf(v, s) \subseteq Nat /\ \A x \in PagesOf(v, s) : Aligned(x) /\ RoundDownTo(v) <= x /\ x < v + s
  BY <1>1, <1>2, PagesOfNat
<1> HIDE DEF v, r, s
<1>5. \A x \in PagesOf(v, s) : x \in Pages(InCall(t)) /\ x < v + s
  BY <1>1, <1>2, <1>3, <1>4
<1>6. Aligned(v + s)
  BY <1>1, <1>2, AlignedSum DEF Aligned
<1> QED
  BY <1>2, <1>5, <1>6 DEF v, r, s

(* Steps that touch no address keep the invariant.                         *)
LEMMA AddressUnchanged ==
  ASSUME AddressInv, UNCHANGED <<pos, lower, upper, live, retired, op, vm>>
  PROVE  AddressInv'
<1> USE DEF AddressInv
<1>1. /\ Busy' = Busy /\ Mallocing' = Mallocing /\ Freeing' = Freeing
      /\ \A u : InCall(u)' = InCall(u)
  BY DEF Busy, Mallocing, Freeing, InCall
<1>2. /\ \A x : Pages(x)' = Pages(x)
      /\ \A u : Pages(InCall(u)') = Pages(InCall(u))
      /\ \A u, c : Fresh(u, c)' = Fresh(u, c)
      /\ \A c : NextRange(c)' = NextRange(c) /\ Unclaimed(c)' = Unclaimed(c)
  BY <1>1 DEF Pages, Fresh, NextRange, Unclaimed
<1>3. Settled' = Settled
  BY <1>1, <1>2 DEF Settled
<1>4. CallOK'
  BY <1>1 DEF CallOK
<1>5. RangesOK' /\ FreshDisjoint' /\ SettledApart'
  BY <1>2, <1>3 DEF RangesOK, FreshDisjoint, SettledApart
<1>6. SettledExclusive'
  BY <1>1, <1>2 DEF SettledExclusive
<1>7. MappedOwned'
  BY <1>1, <1>2 DEF MappedOwned, Reached
<1> QED
  BY <1>4, <1>5, <1>6, <1>7

(* A thread without a call begins a malloc in the range of its cache.      *)
LEMMA NewMallocAddress ==
  ASSUME TypeOK, TypeOK', AddressInv, NEW t \in Thread, NEW c \in Class,
         op[t].kind = "idle",
         op' = [op EXCEPT ![t] = NewCall("malloc", c, lower'[t][c])],
         lower'[t][c] + ClassSize[c] <= upper'[t][c],
         \A u \in Thread, d \in Class : 
            <<u, d>> # <<t, c>> => lower'[u][d] = lower[u][d] /\ upper'[u][d] = upper[u][d],
         RangesOK', FreshDisjoint',
         \A u \in Thread, d \in Class : Settled \cap Fresh(u, d)' = {},
         \A d \in Class : Unclaimed(d)' \subseteq Unclaimed(d),
         UNCHANGED <<live, retired, vm>>
  PROVE  AddressInv'
<1> USE DEF AddressInv
<1>1. /\ op \in [Thread -> Call]
      /\ \A u \in Thread : u # t => op'[u] = op[u]
      /\ op'[t].kind = "malloc" /\ op'[t].cls = c /\ op'[t].beg = lower'[t][c]
      /\ op'[t].vaddr = lower'[t][c] /\ op'[t].remain = ClassSize[c]
  BY DEF TypeOK, CallTypes, NewCall
<1>2. /\ Busy' = Busy \cup {t} /\ t \notin Busy
      /\ Mallocing' = Mallocing \cup {t} /\ t \notin Mallocing
      /\ Freeing' = Freeing /\ t \notin Freeing
      /\ \A u \in Busy : InCall(u)' = InCall(u) /\ op'[u] = op[u] /\ u \in Thread
  BY <1>1 DEF Busy, Mallocing, Freeing, InCall
<1>3. /\ \A x : Pages(x)' = Pages(x)
      /\ Mallocing \subseteq Busy /\ Freeing \subseteq Busy
      /\ \A u \in Busy : Pages(InCall(u)') = Pages(InCall(u))
  BY <1>2 DEF Pages, Mallocing, Freeing, Busy
<1>4. Settled' = Settled
  BY <1>2, <1>3 DEF Settled
<1>5. CallOK'
  <2> SUFFICES ASSUME NEW u \in Busy'
               PROVE  /\ op'[u].vaddr >= op'[u].beg
                      /\ op'[u].vaddr + op'[u].remain = op'[u].beg + ClassSize[op'[u].cls]
                      /\ op'[u].vaddr = op'[u].beg \/ Aligned(op'[u].vaddr) \/ op'[u].remain = 0
                      /\ op'[u].kind = "malloc" => 
                           /\ op'[u].beg = lower'[u][op'[u].cls]
                           /\ op'[u].beg + ClassSize[op'[u].cls] <= upper'[u][op'[u].cls]
    BY DEF CallOK
  <2>1. CASE u = t
    <3>1. lower'[t][c] \in Nat /\ ClassSize[c] \in Nat
      BY HeapAssumption DEF TypeOK, CacheTypes
    <3> QED BY <2>1, <3>1, <1>1
  <2>2. CASE u # t
    <3>1. u \in Busy /\ op'[u] = op[u] /\ op[u].cls \in Class
      BY <2>2, <1>1, <1>2 DEF Call
    <3>2. lower'[u][op[u].cls] = lower[u][op[u].cls] /\ upper'[u][op[u].cls] = upper[u][op[u].cls]
      BY <2>2, <3>1, <1>2
    <3> QED BY <3>1, <3>2 DEF CallOK
  <2> QED BY <2>1, <2>2
<1>6. SettledApart'
  BY <1>4 DEF SettledApart
<1>7. SettledExclusive'
  BY <1>2, <1>3 DEF SettledExclusive
<1>8. MappedOwned'
  <2>1. \A u \in Mallocing : Reached(u)' = Reached(u)
    BY <1>2, <1>3 DEF Reached
  <2> QED BY <1>2, <1>3, <2>1 DEF MappedOwned
<1> QED
  BY <1>5, <1>6, <1>7, <1>8

(* A chunk is cut from the range of the cache; its red zone is at least a  *)
(* page.                                                                   *)
LEMMA StartMallocAddress ==
  ASSUME TypeOK, TypeOK', AddressInv, NEW t \in Thread, NEW c \in Class, StartMalloc(t, c)
  PROVE  AddressInv'
<1>1. /\ op[t].kind = "idle" /\ UNCHANGED <<pos, lower, upper, live, retired, vm>>
      /\ op' = [op EXCEPT ![t] = NewCall("malloc", c, lower[t][c])]
      /\ lower[t][c] + ClassSize[c] <= upper[t][c]
  BY DEF StartMalloc, cacheVars, memoryVars
<1>2. /\ \A u, d : Fresh(u, d)' = Fresh(u, d)
      /\ \A d : NextRange(d)' = NextRange(d) /\ Unclaimed(d)' = Unclaimed(d)
  BY <1>1 DEF Fresh, NextRange, Unclaimed
<1>3. RangesOK' /\ FreshDisjoint' 
      /\ \A u \in Thread, d \in Class : Settled \cap Fresh(u, d)' = {}
  BY <1>2 DEF AddressInv, RangesOK, FreshDisjoint, SettledApart
<1> QED
  BY <1>1, <1>2, <1>3, NewMallocAddress

(* A range comes from the region, whose position moves past it.            *)
LEMMA RefillAddress ==
  ASSUME TypeOK, TypeOK', AddressInv, NEW t \in Thread, NEW c \in Class, Refill(t, c)
  PROVE  AddressInv'
<1> USE DEF AddressInv
<1> DEFINE a == NextRange(c)
<1>1. /\ op[t].kind = "idle" /\ UNCHANGED <<live, retired, vm>>
      /\ op' = [op EXCEPT ![t] = NewCall("malloc", c, a)]
      /\ pos' = [pos EXCEPT ![c] = a + PopulateSize]
      /\ lower' = [lower EXCEPT ![t][c] = a]
      /\ upper' = [upper EXCEPT ![t][c] = a + PopulateSize]
      /\ a < RegionBegin(c + 1)
  BY DEF Refill, memoryVars
<1>2. CacheTypes /\ a \in Nat /\ RegionBegin(c + 1) \in Nat /\ PopulateSize \in Nat \ {0}
      /\ RegionBegin(c) \in Nat /\ a >= RegionBegin(c)
  BY Regions, PopulatePositive DEF TypeOK, RangesOK
<1>3. /\ a + PopulateSize <= RegionBegin(c + 1) /\ Aligned(a) /\ Aligned(a + PopulateSize)
      /\ (a + PopulateSize - RegionBegin(c)) % PopulateSize = 0
  <2>1. CacheTypes /\ RangesOK /\ NextRange(c) < RegionBegin(c + 1) /\ c \in Class
    BY <1>1, <1>2
  <2> QED BY ONLY <2>1, RangeFits DEF a
<1>4. /\ lower'[t][c] = a /\ upper'[t][c] = a + PopulateSize
      /\ \A u \in Thread, d \in Class : 
            <<u, d>> # <<t, c>> => lower'[u][d] = lower[u][d] /\ upper'[u][d] = upper[u][d]
  BY <1>1 DEF TypeOK, CacheTypes
<1>5. /\ NextRange(c)' = a + PopulateSize
      /\ \A d \in Class : d # c => NextRange(d)' = NextRange(d)
  BY <1>1, <1>2 DEF NextRange, TypeOK, CacheTypes
<1> HIDE DEF a
<1>6. RangesOK'
  BY <1>2, <1>3, <1>5 DEF RangesOK
<1>7. /\ Unclaimed(c)' = (a + PopulateSize)..(RegionBegin(c + 1) - 1)
      /\ Unclaimed(c) = a..(RegionBegin(c + 1) - 1)
      /\ \A d \in Class : d # c => Unclaimed(d)' = Unclaimed(d)
  BY <1>5 DEF Unclaimed, a
<1>8. Unclaimed(c)' \subseteq Unclaimed(c)
  BY <1>2, <1>7
<1>9. Fresh(t, c)' = a..(a + PopulateSize - 1)
  <2>1. RoundDownTo(a) = a
    BY <1>2, <1>3, RoundDownOfAligned
  <2>2. Fresh(t, c)' = RoundDownTo(lower'[t][c])..(upper'[t][c] - 1)
    BY DEF Fresh
  <2>3. lower'[t][c] = a /\ upper'[t][c] = a + PopulateSize
    BY <1>4
  <2>4. RoundDownTo(lower'[t][c]) = a
    BY <2>1, <2>3
  <2>5. upper'[t][c] - 1 = a + PopulateSize - 1
    BY <2>3, <1>2
  <2> QED BY <2>2, <2>4, <2>5
<1>10. Fresh(t, c)' \subseteq Unclaimed(c) /\ Fresh(t, c)' \cap Unclaimed(c)' = {}
  BY <1>2, <1>3, <1>7, <1>9
<1>11. \A u \in Thread, d \in Class : <<u, d>> # <<t, c>> => Fresh(u, d)' = Fresh(u, d)
  BY <1>4 DEF Fresh
<1>12. \A d \in Class : Unclaimed(d)' \subseteq Unclaimed(d)
  BY <1>7, <1>8
<1>13. FreshDisjoint'
  <2>1. ASSUME NEW u \in Thread, NEW v \in Thread, NEW d \in Class, NEW e \in Class,
               <<u, d>> # <<v, e>>
        PROVE  Fresh(u, d)' \cap Fresh(v, e)' = {}
    <3>1. CASE <<u, d>> = <<t, c>>
      BY <2>1, <3>1, <1>10, <1>11 DEF FreshDisjoint
    <3>2. CASE <<v, e>> = <<t, c>>
      BY <2>1, <3>2, <1>10, <1>11 DEF FreshDisjoint
    <3>3. CASE <<u, d>> # <<t, c>> /\ <<v, e>> # <<t, c>>
      BY <2>1, <3>3, <1>11 DEF FreshDisjoint
    <3> QED BY <3>1, <3>2, <3>3
  <2>2. ASSUME NEW u \in Thread, NEW d \in Class, NEW e \in Class
        PROVE  Fresh(u, d)' \cap Unclaimed(e)' = {}
    <3>1. CASE <<u, d>> # <<t, c>>
      BY <3>1, <1>11, <1>12 DEF FreshDisjoint
    <3>2. CASE <<u, d>> = <<t, c>> /\ e = c
      BY <3>2, <1>10
    <3>3. CASE <<u, d>> = <<t, c>> /\ e # c
      BY <3>3, <1>2, <1>7, <1>10, UnclaimedDisjoint
    <3> QED BY <3>1, <3>2, <3>3
  <2> QED BY <2>1, <2>2 DEF FreshDisjoint
<1>14. \A u \in Thread, d \in Class : Settled \cap Fresh(u, d)' = {}
  BY <1>10, <1>11 DEF SettledApart
<1>15. lower'[t][c] + ClassSize[c] <= upper'[t][c]
  BY <1>2, <1>4, HeapAssumption
<1>16. op' = [op EXCEPT ![t] = NewCall("malloc", c, lower'[t][c])]
  BY <1>1, <1>4 DEF a
<1> HIDE DEF AddressInv
<1> QED
  BY <1>1, <1>4, <1>6, <1>12, <1>13, <1>14, <1>15, <1>16, NewMallocAddress

(* The chunk becomes the program's; behind it begins what is left.         *)
LEMMA FinishMallocAddress ==
  ASSUME TypeOK, TypeOK', AddressInv, NEW t \in Thread, FinishMalloc(t)
  PROVE  AddressInv'
<1> USE DEF AddressInv
<1>0. PICK c \in Class : c = op[t].cls
  BY DEF TypeOK, CallTypes, Call
<1> DEFINE low == lower[t][c]
           step == ClassSize[c] + RzSize
           new == InCall(t)
<1>1. /\ op[t].kind = "malloc" /\ op[t].remain = 0 /\ UNCHANGED <<pos, upper, retired, vm>>
      /\ lower' = [lower EXCEPT ![t][c] = low + step]
      /\ live' = live \cup {new} /\ op' = [op EXCEPT ![t] = Idle]
  BY <1>0 DEF FinishMalloc, AtEnd, memoryVars, InCall, Stride
<1>2. /\ t \in Mallocing /\ t \in Busy /\ c \in Class /\ low \in Nat /\ upper[t][c] \in Nat
      /\ op[t].beg = low /\ low + ClassSize[c] <= upper[t][c]
      /\ Pages(new) \subseteq Fresh(t, c) /\ op[t].beg \in Nat
      /\ ClassSize[c] \in Nat \ {0} /\ RzSize \in Nat /\ RzSize >= PageSize /\ step \in Nat
  <2>1. t \in Mallocing /\ t \in Busy
    BY <1>1 DEF Mallocing, Busy
  <2>2. c \in Class /\ Pages(new) \subseteq Fresh(t, c)
    BY <1>0, <2>1, MallocFromFresh
  <2>3. low \in Nat /\ upper[t][c] \in Nat /\ op[t].beg = low /\ low + ClassSize[c] <= upper[t][c]
    BY <1>0, <1>1, <2>1, <2>2 DEF TypeOK, CacheTypes, CallOK
  <2>4. ClassSize[c] \in Nat \ {0} /\ RzSize \in Nat /\ RzSize >= PageSize /\ step \in Nat
    BY <2>2, HeapAssumption
  <2> QED BY <2>1, <2>2, <2>3, <2>4
<1>3. /\ op \in [Thread -> Call] /\ op'[t] = Idle /\ \A u \in Thread : u # t => op'[u] = op[u]
  BY <1>1 DEF TypeOK, CallTypes
<1>4. /\ lower'[t][c] = low + step
      /\ \A u \in Thread, d \in Class : <<u, d>> # <<t, c>> => lower'[u][d] = lower[u][d]
  BY <1>1, <1>2 DEF TypeOK, CacheTypes
<1>5. /\ Busy' = Busy \ {t} /\ Mallocing' = Mallocing \ {t} /\ Freeing' = Freeing /\ t \notin Freeing
      /\ \A u \in Busy : u # t => InCall(u)' = InCall(u) /\ op'[u] = op[u] /\ u \in Thread
      /\ Freeing \subseteq Busy /\ Mallocing \subseteq Busy
  BY <1>1, <1>3 DEF Busy, Mallocing, Freeing, InCall, Idle
<1> HIDE DEF new
<1>6. /\ \A x : Pages(x)' = Pages(x)
      /\ \A u \in Busy : u # t => Pages(InCall(u)') = Pages(InCall(u))
      /\ \A d : NextRange(d)' = NextRange(d) /\ Unclaimed(d)' = Unclaimed(d)
  BY <1>1, <1>5 DEF Pages, NextRange, Unclaimed
<1>7. Settled' = Settled \cup Pages(new)
  BY <1>1, <1>5, <1>6 DEF Settled
<1>8. \A u \in Thread, d \in Class : <<u, d>> # <<t, c>> => Fresh(u, d)' = Fresh(u, d)
  BY <1>1, <1>4 DEF Fresh
<1>9. Fresh(t, c)' \subseteq Fresh(t, c) /\ Fresh(t, c)' \cap Pages(new) = {}
  <2> DEFINE from == RoundDownTo(low + step)
  <2>1. Fresh(t, c)' = from..(upper[t][c] - 1)
    <3>1. Fresh(t, c)' = RoundDownTo(lower'[t][c])..(upper'[t][c] - 1)
      BY DEF Fresh
    <3>2. upper'[t][c] = upper[t][c] /\ lower'[t][c] = low + step
      BY <1>1, <1>4
    <3>3. RoundDownTo(lower'[t][c]) = from
      BY <3>2
    <3> HIDE DEF from
    <3> QED BY <3>1, <3>2, <3>3
  <2>2. Fresh(t, c) = RoundDownTo(low)..(upper[t][c] - 1)
    BY DEF Fresh
  <2>3. low + step \in Nat /\ low <= low + step
    BY <1>2
  <2>4. /\ RoundDownTo(low) \in Nat /\ from \in Nat /\ RoundDownTo(low) <= from
        /\ low + step < from + PageSize
    BY <1>2, <2>3, RoundDownBounds, RoundDownMonotone
  <2>5. low + ClassSize[c] < from + 1
    BY <1>2, <2>4, PageSizeAssumption
  <2>6. Pages(new) \subseteq Nat /\ \A b \in Pages(new) : b < low + ClassSize[c]
    BY <1>0, <1>2, PagesBounds DEF InCall, new
  <2> HIDE DEF from, low, step
  <2> QED BY <1>2, <2>1, <2>2, <2>4, <2>5, <2>6
<1> HIDE DEF low, step
<1>10. CallOK'
  <2> SUFFICES ASSUME NEW u \in Busy, u # t
               PROVE  /\ op'[u].vaddr >= op'[u].beg
                      /\ op'[u].vaddr + op'[u].remain = op'[u].beg + ClassSize[op'[u].cls]
                      /\ op'[u].vaddr = op'[u].beg \/ Aligned(op'[u].vaddr) \/ op'[u].remain = 0
                      /\ op'[u].kind = "malloc" => 
                           /\ op'[u].beg = lower'[u][op'[u].cls]
                           /\ op'[u].beg + ClassSize[op'[u].cls] <= upper'[u][op'[u].cls]
    BY <1>5 DEF CallOK
  <2>1. op'[u] = op[u] /\ u \in Thread /\ op[u].cls \in Class
    BY <1>3, <1>5 DEF Call
  <2>2. lower'[u][op[u].cls] = lower[u][op[u].cls]
    BY <1>4, <2>1
  <2> QED BY <1>1, <2>1, <2>2 DEF CallOK
<1>11. RangesOK'
  BY <1>6 DEF RangesOK
<1>12. FreshDisjoint'
  <2>1. \A u \in Thread, d \in Class : Fresh(u, d)' \subseteq Fresh(u, d)
    <3> SUFFICES ASSUME NEW u \in Thread, NEW d \in Class
                 PROVE  Fresh(u, d)' \subseteq Fresh(u, d)
      OBVIOUS
    <3>1. CASE u = t /\ d = c
      BY <3>1, <1>9
    <3>2. CASE ~(u = t /\ d = c)
      BY <3>2, <1>8
    <3> QED BY <3>1, <3>2
  <2>2. ASSUME NEW u \in Thread, NEW v \in Thread, NEW d \in Class, NEW e \in Class,
               <<u, d>> # <<v, e>>
        PROVE  Fresh(u, d)' \cap Fresh(v, e)' = {}
    <3>1. Fresh(u, d) \cap Fresh(v, e) = {}
      BY <2>2 DEF FreshDisjoint
    <3> QED BY <2>1, <3>1
  <2>3. ASSUME NEW u \in Thread, NEW d \in Class, NEW e \in Class
        PROVE  Fresh(u, d)' \cap Unclaimed(e)' = {}
    <3>1. Fresh(u, d) \cap Unclaimed(e) = {} /\ Unclaimed(e)' = Unclaimed(e)
      BY <1>6 DEF FreshDisjoint
    <3> QED BY <2>1, <3>1
  <2> QED BY <2>2, <2>3 DEF FreshDisjoint
<1>13. SettledApart'
  <2>1. ASSUME NEW u \in Thread, NEW d \in Class 
        PROVE  Settled' \cap Fresh(u, d)' = {}
    <3>1. CASE u = t /\ d = c
      <4>1. Settled \cap Fresh(t, c) = {}
        BY <1>2 DEF SettledApart
      <4> QED BY <3>1, <4>1, <1>7, <1>9
    <3>2. CASE ~(u = t /\ d = c)
      <4>1. Fresh(t, c) \cap Fresh(u, d) = {}
        BY <3>2, <1>2 DEF FreshDisjoint
      <4> QED BY <3>2, <4>1, <1>2, <1>7, <1>8 DEF SettledApart
    <3> QED BY <3>1, <3>2
  <2>2. ASSUME NEW d \in Class PROVE Settled' \cap Unclaimed(d)' = {}
    <3>1. Fresh(t, c) \cap Unclaimed(d) = {}
      BY <1>2 DEF FreshDisjoint
    <3> QED BY <3>1, <1>2, <1>6, <1>7 DEF SettledApart
  <2> QED BY <2>1, <2>2 DEF SettledApart
<1>14. SettledExclusive'
  <2>1. Settled \cap Pages(new) = {}
    <3>1. Settled \cap Fresh(t, c) = {}
      BY <1>2 DEF SettledApart
    <3> QED BY <3>1, <1>2
  <2>2. /\ \A x \in live : Pages(x) \cap Pages(new) = {}
        /\ \A u \in Freeing : Pages(InCall(u)) \cap Pages(new) = {}
        /\ retired \cap Pages(new) = {}
    BY <2>1, InSettled
  <2>3. \A x, y \in live' : x # y => Pages(x) \cap Pages(y) = {}
    BY <1>1, <2>2 DEF SettledExclusive
  <2>4. \A x \in live' : Pages(x) \cap retired = {}
    BY <1>1, <2>2 DEF SettledExclusive
  <2>5. \A u \in Freeing, x \in live' : Pages(InCall(u)) \cap Pages(x) = {}
    BY <1>1, <2>2 DEF SettledExclusive
  <2>6. \A u \in Freeing : Pages(InCall(u)') = Pages(InCall(u))
    BY <1>5, <1>6
  <2> QED BY <1>1, <1>5, <1>6, <2>3, <2>4, <2>5, <2>6 DEF SettledExclusive
<1>15. MappedOwned'
  <2>1. \A u \in Mallocing : u # t => Reached(u)' = Reached(u)
    BY <1>5, <1>6 DEF Reached
  <2>2. Reached(t) \subseteq Pages(new)
    BY DEF Reached, new
  <2>3. \A u \in Freeing : Pages(InCall(u)') = Pages(InCall(u))
    BY <1>5, <1>6
  <2> SUFFICES ASSUME NEW b \in DOMAIN vm
               PROVE  \/ \E x \in live' : b \in Pages(x)
                      \/ \E u \in Freeing : b \in Pages(InCall(u)')
                      \/ \E u \in Mallocing \ {t} : b \in Reached(u)'
    BY <1>1, <1>5, <1>6 DEF MappedOwned
  <2> QED BY <1>1, <2>1, <2>2, <2>3 DEF MappedOwned
<1> QED
  BY <1>10, <1>11, <1>12, <1>13, <1>14, <1>15

(* A chunk passes from the program to a call of free.                      *)
LEMMA StartFreeAddress ==
  ASSUME TypeOK, TypeOK', AddressInv, NEW t \in Thread, StartFree(t)
  PROVE  AddressInv'
<1> USE DEF AddressInv
<1>1. PICK ch \in live : /\ live' = live \ {ch} 
                        /\ op' = [op EXCEPT ![t] = NewCall("free", ch.cls, ch.beg)]
  BY DEF StartFree
<1>2. op[t].kind = "idle" /\ UNCHANGED <<pos, lower, upper, retired, vm>>
  BY DEF StartFree, cacheVars, memoryVars
<1>3. /\ op \in [Thread -> Call] /\ \A u \in Thread : u # t => op'[u] = op[u]
      /\ op'[t].kind = "free" /\ op'[t].cls = ch.cls /\ op'[t].beg = ch.beg
      /\ op'[t].vaddr = ch.beg /\ op'[t].remain = ClassSize[ch.cls]
      /\ ch.beg \in Nat /\ ch.cls \in Class /\ ClassSize[ch.cls] \in Nat
      /\ InCall(t)' = ch
  BY <1>1, HeapAssumption DEF TypeOK, CallTypes, Chunk, NewCall, InCall
<1>4. /\ Busy' = Busy \cup {t} /\ t \notin Busy
      /\ Freeing' = Freeing \cup {t} /\ t \notin Freeing
      /\ Mallocing' = Mallocing /\ t \notin Mallocing
      /\ \A u \in Busy : InCall(u)' = InCall(u) /\ op'[u] = op[u] /\ u \in Thread
      /\ Freeing \subseteq Busy /\ Mallocing \subseteq Busy
  BY <1>2, <1>3 DEF Busy, Mallocing, Freeing, InCall
<1>5. /\ \A x : Pages(x)' = Pages(x)
      /\ \A u \in Busy : Pages(InCall(u)') = Pages(InCall(u))
      /\ Pages(InCall(t)') = Pages(ch)
      /\ \A u, d : Fresh(u, d)' = Fresh(u, d)
      /\ \A d : NextRange(d)' = NextRange(d) /\ Unclaimed(d)' = Unclaimed(d)
  BY <1>2, <1>3, <1>4 DEF Pages, Fresh, NextRange, Unclaimed
<1>6. Settled' = Settled
  <2>1. \A b : (\E x \in live : b \in Pages(x)) <=> 
                 b \in Pages(ch) \/ \E x \in live' : b \in Pages(x)
    BY <1>1
  <2>2. \A b : (\E u \in Freeing' : b \in Pages(InCall(u)')) <=>
                 b \in Pages(ch) \/ \E u \in Freeing : b \in Pages(InCall(u))
    BY <1>4, <1>5
  <2>3. \A b : b \in Settled <=> \/ b \in retired \/ \E x \in live : b \in Pages(x)
                                 \/ \E u \in Freeing : b \in Pages(InCall(u))
    BY DEF Settled
  <2>4. \A b : b \in Settled' <=> \/ b \in retired \/ \E x \in live' : b \in Pages(x)
                                  \/ \E u \in Freeing' : b \in Pages(InCall(u)')
    BY <1>2, <1>5 DEF Settled
  <2> QED BY <2>1, <2>2, <2>3, <2>4
<1>7. CallOK'
  <2> SUFFICES ASSUME NEW u \in Busy'
               PROVE  /\ op'[u].vaddr >= op'[u].beg
                      /\ op'[u].vaddr + op'[u].remain = op'[u].beg + ClassSize[op'[u].cls]
                      /\ op'[u].vaddr = op'[u].beg \/ Aligned(op'[u].vaddr) \/ op'[u].remain = 0
                      /\ op'[u].kind = "malloc" => 
                           /\ op'[u].beg = lower[u][op'[u].cls]
                           /\ op'[u].beg + ClassSize[op'[u].cls] <= upper[u][op'[u].cls]
    BY <1>2 DEF CallOK
  <2>1. CASE u = t
    BY <2>1, <1>3
  <2>2. CASE u # t
    BY <2>2, <1>4 DEF CallOK
  <2> QED BY <2>1, <2>2
<1>8. RangesOK' /\ FreshDisjoint' /\ SettledApart'
  BY <1>5, <1>6 DEF RangesOK, FreshDisjoint, SettledApart
<1>9. SettledExclusive'
  BY <1>1, <1>2, <1>4, <1>5 DEF SettledExclusive
<1>10. MappedOwned'
  <2>1. \A u \in Mallocing : Reached(u)' = Reached(u)
    BY <1>4, <1>5 DEF Reached
  <2> QED BY <1>1, <1>2, <1>4, <1>5, <2>1 DEF MappedOwned
<1> QED
  BY <1>7, <1>8, <1>9, <1>10

(* The pages of the chunk are made inaccessible and are never used again.  *)
LEMMA FinishFreeAddress ==
  ASSUME TypeOK, TypeOK', AddressInv, NEW t \in Thread, FinishFree(t)
  PROVE  AddressInv'
<1> USE DEF AddressInv
<1> DEFINE gone == Pages(InCall(t))
<1>1. /\ op[t].kind = "free" /\ UNCHANGED <<pos, lower, upper, live>>
      /\ DOMAIN vm' = DOMAIN vm \ gone /\ retired' = retired \cup gone
      /\ op' = [op EXCEPT ![t] = Idle]
  BY DEF FinishFree, AtEnd, cacheVars, Pages, InCall, Drop
<1>2. /\ op \in [Thread -> Call] /\ op'[t] = Idle /\ \A u \in Thread : u # t => op'[u] = op[u]
  BY <1>1 DEF TypeOK, CallTypes
<1>3. /\ Busy' = Busy \ {t} /\ Freeing' = Freeing \ {t} /\ t \in Freeing
      /\ Mallocing' = Mallocing /\ t \notin Mallocing
      /\ \A u \in Busy : u # t => InCall(u)' = InCall(u) /\ op'[u] = op[u] /\ u \in Thread
      /\ Freeing \subseteq Busy /\ Mallocing \subseteq Busy
  BY <1>1, <1>2 DEF Busy, Mallocing, Freeing, InCall, Idle
<1> HIDE DEF gone
<1>4. /\ \A x : Pages(x)' = Pages(x)
      /\ \A u \in Busy : u # t => Pages(InCall(u)') = Pages(InCall(u))
      /\ \A u, d : Fresh(u, d)' = Fresh(u, d)
      /\ \A d : NextRange(d)' = NextRange(d) /\ Unclaimed(d)' = Unclaimed(d)
  BY <1>1, <1>3 DEF Pages, Fresh, NextRange, Unclaimed
<1>5. Settled' = Settled
  <2>1. \A b : (\E u \in Freeing : b \in Pages(InCall(u))) <=>
                 b \in gone \/ \E u \in Freeing' : b \in Pages(InCall(u)')
    BY <1>3, <1>4 DEF gone
  <2>2. \A b : b \in Settled <=> \/ b \in retired \/ \E x \in live : b \in Pages(x)
                                 \/ \E u \in Freeing : b \in Pages(InCall(u))
    BY DEF Settled
  <2>3. \A b : b \in Settled' <=> \/ b \in retired' \/ \E x \in live : b \in Pages(x)
                                  \/ \E u \in Freeing' : b \in Pages(InCall(u)')
    BY <1>1, <1>4 DEF Settled
  <2> QED BY <1>1, <2>1, <2>2, <2>3
<1>6. CallOK'
  BY <1>1, <1>3 DEF CallOK
<1>7. RangesOK' /\ FreshDisjoint' /\ SettledApart'
  BY <1>4, <1>5 DEF RangesOK, FreshDisjoint, SettledApart
<1>8. SettledExclusive'
  <2>1. /\ \A x \in live : Pages(x) \cap gone = {}
        /\ \A u \in Freeing : u # t => Pages(InCall(u)) \cap gone = {}
    BY <1>3 DEF SettledExclusive, gone
  <2> QED BY <1>1, <1>3, <1>4, <2>1 DEF SettledExclusive
<1>9. MappedOwned'
  <2>1. \A u \in Mallocing : Reached(u)' = Reached(u)
    BY <1>3, <1>4 DEF Reached
  <2> SUFFICES ASSUME NEW b \in DOMAIN vm, b \notin gone
               PROVE  \/ \E x \in live : b \in Pages(x)
                      \/ \E u \in Freeing \ {t} : b \in Pages(InCall(u)')
                      \/ \E u \in Mallocing : b \in Reached(u)'
    BY <1>1, <1>3, <1>4 DEF MappedOwned
  <2> QED BY <1>3, <1>4, <2>1 DEF MappedOwned, gone
<1> QED
  BY <1>6, <1>7, <1>8, <1>9

(* Every step keeps the invariant.                                         *)
LEMMA AddressStep == TypeInv /\ AddressInv /\ [Next]_vars => AddressInv'
<1> SUFFICES ASSUME TypeInv, AddressInv, [Next]_vars PROVE AddressInv'
  OBVIOUS
<1>0. TypeOK /\ TypeOK' /\ CallOK
  BY TypeStep DEF TypeInv, AddressInv
<1>1. CASE UNCHANGED vars
  BY <1>1, AddressUnchanged DEF vars, cacheVars, memoryVars
<1>2. ASSUME NEW how, Die(how) PROVE AddressInv'
  BY <1>2, AddressUnchanged DEF Die, cacheVars, memoryVars
<1>3. ASSUME NEW t \in Thread, NEW i, TakeSlot(t, i), 
             vm' = vm \/ \E f : vm' = Put(vm, PieceBase(t), f)
      PROVE  AddressInv'
  <2>1. /\ t \in Mallocing /\ t \in Busy /\ IsPartial(op[t].vaddr, op[t].remain)
        /\ Advance(t, PieceSlot(t).size) /\ UNCHANGED <<pos, lower, upper, live, retired>>
    BY <1>3 DEF TakeSlot, AtPartial, Mallocing, Busy
  <2> DEFINE new == {PieceBase(t)}
  <2>2. DOMAIN vm' \subseteq DOMAIN vm \cup new
    BY <1>3 DEF Put
  <2>3. /\ \A b \in new : b \in Pages(InCall(t)) /\ b < op[t].vaddr + PieceSlot(t).size
        /\ PieceSlot(t).size \in Nat /\ 0 < PieceSlot(t).size 
        /\ PieceSlot(t).size <= op[t].remain
        /\ PieceSlot(t).size = op[t].remain \/ Aligned(op[t].vaddr + PieceSlot(t).size)
    BY <1>0, <2>1, PieceInChunk
  <2> HIDE DEF new
  <2> QED BY <1>0, <2>1, <2>2, <2>3, AdvanceAddress
<1>4. ASSUME NEW t \in Thread, MallocFresh(t) PROVE AddressInv'
  <2>1. /\ t \in Mallocing /\ t \in Busy /\ IsPartial(op[t].vaddr, op[t].remain)
        /\ Advance(t, PieceSlot(t).size) /\ UNCHANGED <<pos, lower, upper, live, retired>>
    BY <1>4 DEF MallocFresh, AtPartial, Mallocing, Busy
  <2> DEFINE new == {PieceBase(t)}
  <2>2. DOMAIN vm' \subseteq DOMAIN vm \cup new
    BY <1>4 DEF Put, MallocFresh
  <2>3. /\ \A b \in new : b \in Pages(InCall(t)) /\ b < op[t].vaddr + PieceSlot(t).size
        /\ PieceSlot(t).size \in Nat /\ 0 < PieceSlot(t).size 
        /\ PieceSlot(t).size <= op[t].remain
        /\ PieceSlot(t).size = op[t].remain \/ Aligned(op[t].vaddr + PieceSlot(t).size)
    BY <1>0, <2>1, PieceInChunk
  <2> HIDE DEF new
  <2> QED BY <1>0, <2>1, <2>2, <2>3, AdvanceAddress
<1>5. ASSUME NEW t \in Thread, MallocWhole(t) PROVE AddressInv'
  <2> DEFINE size == WholeSize(op[t].remain)
             new == PagesOf(op[t].vaddr, size)
  <2>1. /\ t \in Mallocing /\ t \in Busy /\ IsWhole(op[t].vaddr, op[t].remain)
        /\ Advance(t, size) /\ UNCHANGED <<pos, lower, upper, live, retired>>
        /\ DOMAIN vm' \subseteq DOMAIN vm \cup new
    BY <1>5 DEF MallocWhole, AtWhole, Mallocing, Busy, cacheVars
  <2>2. /\ size \in Nat /\ 0 < size /\ size <= op[t].remain /\ Aligned(op[t].vaddr + size)
        /\ \A b \in new : b \in Pages(InCall(t)) /\ b < op[t].vaddr + size
    BY <1>0, <2>1, WholeInChunk
  <2> HIDE DEF size, new
  <2> QED BY <1>0, <2>1, <2>2, AdvanceAddress
<1>6. ASSUME NEW t \in Thread, FreePartial(t) PROVE AddressInv'
  <2> DEFINE none == {}
  <2>1. /\ t \in Busy /\ IsPartial(op[t].vaddr, op[t].remain)
        /\ Advance(t, PieceSlot(t).size) /\ UNCHANGED <<pos, lower, upper, live, retired>>
        /\ DOMAIN vm' \subseteq DOMAIN vm \cup none
    BY <1>6 DEF FreePartial, AtPartial, Busy, memoryVars
  <2>2. /\ PieceSlot(t).size \in Nat /\ PieceSlot(t).size <= op[t].remain
        /\ PieceSlot(t).size = op[t].remain \/ Aligned(op[t].vaddr + PieceSlot(t).size)
    BY <1>0, <2>1, PieceInChunk
  <2>3. none = {}
    OBVIOUS
  <2> HIDE DEF none
  <2> QED BY <1>0, <2>1, <2>2, <2>3, AdvanceAddress
<1>7. ASSUME NEW t \in Thread, FreeWhole(t) PROVE AddressInv'
  <2> DEFINE size == WholeSize(op[t].remain)
             none == {}
  <2>1. /\ t \in Busy /\ IsWhole(op[t].vaddr, op[t].remain)
        /\ Advance(t, size) /\ UNCHANGED <<pos, lower, upper, live, retired>>
        /\ DOMAIN vm' \subseteq DOMAIN vm \cup none
    BY <1>7 DEF FreeWhole, AtWhole, Busy, cacheVars, memoryVars
  <2>2. /\ size \in Nat /\ size <= op[t].remain /\ Aligned(op[t].vaddr + size)
    BY <1>0, <2>1, WholeInChunk
  <2>3. none = {}
    OBVIOUS
  <2> HIDE DEF size, none
  <2> QED BY <1>0, <2>1, <2>2, <2>3, AdvanceAddress
<1>8. ASSUME NEW t \in Thread, NEW i, MallocOwn(t, i) \/ MallocAlias(t, i) PROVE AddressInv'
  BY <1>3, <1>8 DEF MallocOwn, MallocAlias
<1>9. ASSUME NEW t \in Thread, NEW c \in Class, 
             StartMalloc(t, c) \/ Refill(t, c) \/ Exhausted(t, c)
      PROVE  AddressInv'
  BY <1>0, <1>2, <1>9, StartMallocAddress, RefillAddress DEF Exhausted
<1>10. ASSUME NEW t \in Thread, NEW i, MallocDies(t, i) \/ FreeDies(t) PROVE AddressInv'
  BY <1>2, <1>10 DEF MallocDies, FreeDies
<1>11. ASSUME NEW t \in Thread, FinishMalloc(t) \/ StartFree(t) \/ FinishFree(t)
       PROVE  AddressInv'
  BY <1>0, <1>11, FinishMallocAddress, StartFreeAddress, FinishFreeAddress
<1> QED
  BY <1>1, <1>4, <1>5, <1>6, <1>7, <1>8, <1>9, <1>10, <1>11 DEF Next, Malloc, Free

(* So it holds always.                                                     *)
LEMMA AddressesInvariant == Spec => [](TypeInv /\ AddressInv)
<1>1. Init => TypeInv /\ AddressInv
  BY TypeInit, AddressInit
<1>2. TypeInv /\ AddressInv /\ [Next]_vars => (TypeInv /\ AddressInv)'
  BY TypeStep, AddressStep
<1> QED
  BY <1>1, <1>2, PTL DEF Spec

(* The pages of a chunk belong to no other chunk that is held, being       *)
(* handed out or being freed, whatever the number of threads, however they *)
(* interleave (GetFromAllocator, Allocate, Deallocate).                    *)
THEOREM PagesAreExclusive == Spec => []PagesExclusive
<1>1. TypeInv /\ AddressInv => PagesExclusive
  BY AddressInvImplies DEF TypeInv
<1> QED
  BY AddressesInvariant, <1>1, PTL

(* A page of a freed chunk is never mapped again and never given to        *)
(* another chunk (Deallocate, MmapFixedNoAccess): every access through a   *)
(* dangling pointer to the heap faults.                                    *)
THEOREM NoPageRevives == Spec => []NoRevival
<1>1. TypeInv /\ AddressInv => NoRevival
  BY AddressInvImplies DEF TypeInv
<1> QED
  BY AddressesInvariant, <1>1, PTL
=============================================================================
