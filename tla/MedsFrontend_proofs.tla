------------------------- MODULE MedsFrontend_proofs -------------------------
(***************************************************************************)
(* Proofs about MedsFrontend: its invariants hold for all sizes the        *)
(* assumption allows, for any requests and any number of threads.          *)
(***************************************************************************)
EXTENDS MedsFrontend, TLAPS

(* A chunk with its object, and what Allocate's arithmetic settles of it.  *)
Chunk == [beg : Nat, needed : Nat, primary : BOOLEAN, user : Nat, size : Nat]

Placed(ch) ==
  /\ ch \in Chunk
  /\ ch.beg % Granule = 0 /\ ch.user % Granule = 0
  /\ 0 < ch.size
  /\ ch.beg + MetaSize <= ch.user
  /\ ch.user + ch.size <= ch.beg + ch.needed
  /\ ch.primary => ch.needed <= ClassSize /\ ch.beg + ClassSize <= RegionSize
  /\ ~ch.primary => 
       /\ ch.beg % PageSize = 0 /\ RegionSize + PageSize <= ch.beg
       /\ ch.beg + RoundUpTo(ch.needed, PageSize) <= RegionSize + MmapSize

(* The operations of a thread: an allocation, with or without a chunk that *)
(* realloc still has to free, and a free.                                  *)
Allocates == {"poison", "check", "unpoison", "partial"}
Frees     == {"free", "remap", "release"}
Doing == [pc : Allocates, ch : Chunk, old : Chunk \cup {None}] 
           \cup [pc : Frees, ch : Chunk, old : {None}]

Types ==
  /\ shadow \in [Cell -> {Gone, Poison} \cup 0..(Granule - 1)]
  /\ mapped \subseteq Nat /\ spent \subseteq Nat
  /\ op \in [Thread -> {Idle} \cup Doing]
  /\ \A ch \in Held : Placed(ch)
  /\ process \in {"runs", "exhausted", "faulted"}

(* What is left of a thread's range, and of the region.                    *)
Fresh(t)  == (lower[t] \div PageSize)..(upper[t] \div PageSize - 1)
Unclaimed == (pos \div PageSize)..(RegionSize \div PageSize - 1)

Ranges ==
  /\ lower \in [Thread -> Nat] /\ upper \in [Thread -> Nat]
  /\ pos \in Nat /\ pos <= RegionSize /\ pos % RangeSize = 0
  /\ \A t \in Thread : 
       lower[t] % Granule = 0 /\ upper[t] % PageSize = 0 /\ upper[t] <= pos
  /\ \A t, u \in Thread : t # u => Fresh(t) \cap Fresh(u) = {}

(* Addresses are not handed out twice.                                     *)
NeverUsed ==
  /\ mapped \cap spent = {}
  /\ Unclaimed \cap (mapped \cup spent) = {}
  /\ \A t \in Thread : Fresh(t) \cap (mapped \cup spent) = {}

(* No chunk is in two hands, and no two chunks share a page.               *)
OneHand ==
  /\ \A t \in Busy : op[t].ch \notin live
  /\ \A t \in Busy : op[t].old # None => op[t].old \notin live
  /\ \A t, u \in Busy : t # u => op[t].ch # op[u].ch
  /\ \A t, u \in Busy : op[u].old # None => op[t].ch # op[u].old
  /\ \A t, u \in Busy : t # u /\ op[u].old # None => op[t].old # op[u].old

Apart == \A a, b \in Held : a = b \/ PagesOf(a) \cap PagesOf(b) = {}

(* The shadow of an object: its whole granules, the last partial one, and  *)
(* the rest of its chunk's pages.                                          *)
LastCell(ch) == 
  IF LastBytes(ch) = 0 THEN {} 
  ELSE {(ch.user + RoundDownTo(ch.size, Granule)) \div Granule}
Clear(ch) == \A c \in WholeCells(ch) : shadow[c] \in {0, Gone}
Ends(ch)  == \A c \in LastCell(ch) : shadow[c] \in {0, Gone, LastBytes(ch)}
Edge(ch)  == \A c \in LastCell(ch) : c \in wiped \/ shadow[c] = LastBytes(ch)
Dark(ch, cells) == 
  \A c \in CellsOf(PagesOf(ch)) \ cells : c \in wiped \/ shadow[c] = Poison

(* A shadow page is missing only between the two calls of a free.          *)
GoneWhileFreed ==
  \A c \in Cell : shadow[c] = Gone => 
    c \in wiped /\ \E t \in Busy : op[t].pc = "remap" /\ c \in Window(op[t].ch)

Wiped == \A t \in Busy : op[t].pc = "remap" => Window(op[t].ch) \subseteq wiped

ObjectShadow(ch) == 
  Clear(ch) /\ Ends(ch) /\ Edge(ch) /\ Dark(ch, WholeCells(ch) \cup LastCell(ch))

ShadowOfLive == \A ch \in live : ObjectShadow(ch)

(* ... of a chunk realloc still has to free, and of an allocation's chunk. *)
OldShadow(ch) == Clear(ch) /\ Ends(ch)
OwnShadow(ch, pc) ==
  /\ pc \in {"check", "unpoison"} => Dark(ch, {})
  /\ pc = "partial" => Clear(ch) /\ Dark(ch, WholeCells(ch))

ShadowOfOps ==
  \A t \in Busy : 
    /\ op[t].old # None => OldShadow(op[t].old)
    /\ OwnShadow(op[t].ch, op[t].pc)

FrontInv ==
  /\ Types /\ Ranges /\ NeverUsed /\ OneHand /\ Apart /\ DanglingTraps
  /\ GoneWhileFreed /\ Wiped /\ ShadowOfLive /\ ShadowOfOps

----------------------------------------------------------------------------
(* Arithmetic of multiples.                                                *)

(* A number is its quotient times n and a remainder.                       *)
LEMMA DivMod ==
  ASSUME NEW n \in Nat \ {0}, NEW x \in Nat
  PROVE  /\ x \div n \in Nat /\ x % n \in Nat /\ x % n < n
         /\ x = n * (x \div n) + (x % n)
  OBVIOUS

(* Quotient and remainder are unique.                                      *)
LEMMA DivUnique ==
  ASSUME NEW n \in Nat \ {0}, NEW q \in Nat, NEW r \in 0..(n - 1)
  PROVE  (n * q + r) % n = r /\ (n * q + r) \div n = q
  OBVIOUS

(* Division keeps the order.                                               *)
LEMMA DivMonotone ==
  ASSUME NEW n \in Nat \ {0}, NEW x \in Nat, NEW y \in Nat, x <= y
  PROVE  x \div n <= y \div n
<1> DEFINE a == x \div n
           b == y \div n
<1>1. a \in Nat /\ b \in Nat /\ n * a <= x /\ y < n * b + n
  BY DivMod
<1> HIDE DEF a, b
<1>2. CASE b < a
  <2>1. n * (b + 1) <= n * a /\ n * (b + 1) = n * b + n
    BY <1>1, <1>2
  <2> QED BY ONLY <1>1, <2>1, x <= y, n \in Nat, x \in Nat, y \in Nat, n * b \in Nat, n * a \in Nat
<1>3. a <= b
  BY <1>1, <1>2
<1> QED BY <1>3 DEF a, b

(* n further on the quotient is larger; so it is at the next multiple.     *)
LEMMA DivLess ==
  ASSUME NEW n \in Nat \ {0}, NEW x \in Nat, NEW y \in Nat, 
         x + n <= y \/ (x < y /\ y % n = 0)
  PROVE  x \div n < y \div n
<1> DEFINE a == x \div n
           b == y \div n
<1>1. /\ a \in Nat /\ b \in Nat 
      /\ n * a <= x /\ y < n * b + n /\ (y % n = 0 => y = n * b)
  BY DivMod
<1> HIDE DEF a, b
<1>2. n * a < n * b
  <2>1. n * a \in Nat /\ n * b \in Nat
    BY <1>1
  <2> QED BY <1>1, <2>1
<1>3. CASE b <= a
  BY <1>1, <1>2, <1>3
<1>4. a < b
  BY <1>1, <1>3
<1> QED BY <1>4 DEF a, b

(* Multiples: sums, differences, multiples of multiples.                   *)
LEMMA Multiple ==
  ASSUME NEW n \in Nat \ {0}, NEW x \in Nat, x % n = 0
  PROVE  x \div n \in Nat /\ x = n * (x \div n)
  BY DivMod

(* A multiple of n in a sum adds to the quotient only.                     *)
LEMMA MultipleSum ==
  ASSUME NEW n \in Nat \ {0}, NEW x \in Nat, NEW y \in Nat, x % n = 0
  PROVE  (x + y) % n = y % n /\ (x + y) \div n = x \div n + y \div n
<1> DEFINE a == x \div n
           b == y \div n
           r == y % n
<1>1. a \in Nat /\ b \in Nat /\ r \in 0..(n - 1) /\ x = n * a /\ y = n * b + r
  BY DivMod, Multiple
<1> HIDE DEF a, b, r
<1>2. x + y = n * (a + b) + r /\ a + b \in Nat
  BY <1>1
<1>3. (n * (a + b) + r) % n = r /\ (n * (a + b) + r) \div n = a + b
  BY <1>1, <1>2, DivUnique
<1>4. (x + y) % n = r /\ (x + y) \div n = a + b
  BY <1>2, <1>3, Zenon
<1> QED BY <1>4 DEF a, b, r

(* The sum of multiples of n is one.                                       *)
LEMMA MultiplesAdd ==
  ASSUME NEW n \in Nat \ {0}, NEW x \in Nat, NEW y \in Nat, x % n = 0, y % n = 0
  PROVE  x + y \in Nat /\ (x + y) % n = 0
<1>1. (x + y) % n = y % n
  BY MultipleSum
<1>2. x + y \in Nat
  OBVIOUS
<1> QED BY ONLY <1>1, <1>2, y % n = 0

(* A product is a multiple of its second factor.                           *)
LEMMA Product ==
  ASSUME NEW n \in Nat \ {0}, NEW q \in Nat
  PROVE  q * n \in Nat /\ (q * n) % n = 0 /\ (q * n) \div n = q
<1>1. n * q + 0 = q * n /\ q * n \in Nat
  OBVIOUS
<1>2. (n * q + 0) % n = 0 /\ (n * q + 0) \div n = q
  BY DivUnique
<1> QED BY <1>1, <1>2, Zenon

(* A multiple of a multiple of n is one.                                   *)
LEMMA MultipleOfMultiple ==
  ASSUME NEW n \in Nat \ {0}, NEW m \in Nat \ {0}, NEW x \in Nat, x % m = 0, m % n = 0
  PROVE  x % n = 0
<1>1. PICK a \in Nat : x = m * a
  BY Multiple
<1>2. PICK b \in Nat : m = n * b
  BY Multiple
<1>3. x = n * (b * a) + 0 /\ b * a \in Nat /\ 0 \in 0..(n - 1)
  BY <1>1, <1>2
<1>4. (n * (b * a) + 0) % n = 0
  BY <1>3, DivUnique
<1> QED BY <1>3, <1>4, Zenon

(* Multiples of n are equal or n apart.                                    *)
LEMMA MultiplesApart ==
  ASSUME NEW n \in Nat \ {0}, NEW x \in Nat, NEW y \in Nat, 
         x % n = 0, y % n = 0, x < y
  PROVE  x + n <= y
<1> DEFINE a == x \div n
           b == y \div n
<1>1. a \in Nat /\ b \in Nat /\ x = n * a /\ y = n * b
  BY Multiple
<1> HIDE DEF a, b
<1>2. a < b
  BY <1>1
<1>3. n * (a + 1) <= n * b /\ n * (a + 1) = n * a + n
  BY <1>1, <1>2
<1> QED BY <1>1, <1>3

(* Rounding.                                                               *)
LEMMA RoundDownBounds ==
  ASSUME NEW n \in Nat \ {0}, NEW x \in Nat
  PROVE  /\ RoundDownTo(x, n) \in Nat /\ RoundDownTo(x, n) % n = 0
         /\ RoundDownTo(x, n) <= x /\ x < RoundDownTo(x, n) + n
         /\ x = RoundDownTo(x, n) + (x % n)
<1> DEFINE a == x \div n
           r == x % n
<1>1. a \in Nat /\ r \in Nat /\ r < n /\ x = n * a + r
  BY DivMod
<1> HIDE DEF a, r
<1>2. x - r = n * a + 0 /\ n * a \in Nat /\ 0 \in 0..(n - 1)
  BY <1>1
<1>3. (n * a + 0) % n = 0
  BY <1>1, <1>2, DivUnique
<1>4. (x - r) % n = 0
  BY <1>2, <1>3, Zenon
<1>5. x - r \in Nat /\ x - r <= x /\ x < x - r + n /\ x = x - r + r
  BY <1>1, <1>2
<1> QED BY <1>4, <1>5 DEF RoundDownTo, r

(* Rounding up gives a multiple, less than n away.                         *)
LEMMA RoundUpBounds ==
  ASSUME NEW n \in Nat \ {0}, NEW x \in Nat
  PROVE  /\ RoundUpTo(x, n) \in Nat /\ RoundUpTo(x, n) % n = 0
         /\ x <= RoundUpTo(x, n) /\ RoundUpTo(x, n) < x + n
<1>1. x + n - 1 \in Nat
  OBVIOUS
<1>2. /\ RoundUpTo(x, n) \in Nat /\ RoundUpTo(x, n) % n = 0
      /\ RoundUpTo(x, n) <= x + n - 1 /\ x + n - 1 < RoundUpTo(x, n) + n
  BY <1>1, RoundDownBounds DEF RoundUpTo
<1> QED BY <1>2

(* It does not pass a multiple that is not less.                           *)
LEMMA RoundUpWithin ==
  ASSUME NEW n \in Nat \ {0}, NEW x \in Nat, NEW y \in Nat, x <= y, y % n = 0
  PROVE  RoundUpTo(x, n) <= y
<1>1. CASE y < RoundUpTo(x, n)
  BY <1>1, RoundUpBounds, MultiplesApart
<1> QED BY <1>1, RoundUpBounds

(* Nor does rounding down.                                                 *)
LEMMA RoundDownFrom ==
  ASSUME NEW n \in Nat \ {0}, NEW x \in Nat, NEW y \in Nat, y <= x, y % n = 0
  PROVE  y <= RoundDownTo(x, n)
<1>1. CASE RoundDownTo(x, n) < y
  BY <1>1, RoundDownBounds, MultiplesApart
<1> QED BY <1>1, RoundDownBounds

----------------------------------------------------------------------------
(* Chunks, pages and granules.                                             *)

Total == RegionSize + MmapSize

(* The sizes, and the bytes of shadowed memory, are numbers.               *)
LEMMA Sizes ==
  /\ PageSize \in Nat \ {0} /\ Granule \in Nat \ {0} /\ MetaSize \in Nat \ {0}
  /\ RedZone \in Nat \ {0} /\ ClassSize \in Nat \ {0} /\ RangeSize \in Nat \ {0}
  /\ RegionSize \in Nat \ {0} /\ MmapSize \in Nat
  /\ Total \in Nat \ {0}
  BY SizesAssumption DEF Total

(* All bounds of memory are whole granules and pages.                      *)
LEMMA WholeSizes ==
  /\ PageSize * Granule \in Nat \ {0}
  /\ RangeSize % Granule = 0 
  /\ RegionSize % PageSize = 0
  /\ Total % (PageSize * Granule) = 0 
  /\ Total % PageSize = 0 /\ Total % Granule = 0
<1>1. PageSize * Granule \in Nat \ {0}
  BY Sizes
<1>2. RangeSize % Granule = 0 /\ RegionSize % PageSize = 0
  BY Sizes, SizesAssumption, MultipleOfMultiple
<1>3. Total % (PageSize * Granule) = 0
  BY SizesAssumption DEF Total
<1>4. (PageSize * Granule + 0) % PageSize = 0
  BY Sizes, DivUnique
<1>5. (Granule * PageSize + 0) % Granule = 0
  BY Sizes, DivUnique
<1>6. /\ PageSize * Granule + 0 = PageSize * Granule 
      /\ Granule * PageSize + 0 = PageSize * Granule
  BY Sizes
<1>7. (PageSize * Granule) % PageSize = 0 /\ (PageSize * Granule) % Granule = 0
  BY <1>4, <1>5, <1>6, Zenon
<1>8. Total % PageSize = 0 /\ Total % Granule = 0
  <2> DEFINE m == PageSize * Granule
  <2>1. m \in Nat \ {0} /\ Total % m = 0 /\ m % PageSize = 0 /\ m % Granule = 0
    BY <1>1, <1>3, <1>7
  <2> HIDE DEF m
  <2> QED BY <2>1, Sizes, MultipleOfMultiple
<1> QED BY <1>1, <1>2, <1>3, <1>8

(* A byte's granule begins in the byte's page.                             *)
LEMMA CellPage ==
  ASSUME NEW b \in Nat
  PROVE  /\ b \div Granule \in Nat /\ (b \div Granule) * Granule \in Nat
         /\ (b \div Granule) * Granule <= b
         /\ ((b \div Granule) * Granule) \div PageSize = b \div PageSize
<1> DEFINE c == b \div Granule
           p == b \div PageSize
           x == PageSize * p
           y == c * Granule
<1>1. c \in Nat /\ p \in Nat /\ x \in Nat /\ y \in Nat /\ y <= b /\ x <= b
  BY Sizes, DivMod
<1>2. y = RoundDownTo(b, Granule)
  BY Sizes, DivMod DEF RoundDownTo
<1>3. x % Granule = 0 /\ x \div PageSize = p
  <2>1. x + 0 = x
    BY <1>1
  <2> HIDE DEF p
  <2>2. (PageSize * p + 0) % PageSize = 0 /\ (PageSize * p + 0) \div PageSize = p
    BY <1>1, Sizes, DivUnique
  <2>3. x % PageSize = 0 /\ x \div PageSize = p
    BY <2>1, <2>2, Zenon
  <2> HIDE DEF x
  <2> QED BY <1>1, <2>3, Sizes, SizesAssumption, MultipleOfMultiple
<1> HIDE DEF x, y
<1>4. x <= y
  BY <1>1, <1>2, <1>3, Sizes, RoundDownFrom
<1>5. x \div PageSize <= y \div PageSize /\ y \div PageSize <= b \div PageSize
  BY <1>1, <1>4, Sizes, DivMonotone
<1>6. y \div PageSize \in Nat
  BY <1>1, Sizes, DivMod
<1>7. y \div PageSize = p
  <2> HIDE DEF p
  <2>1. p <= y \div PageSize
    BY <1>3, <1>5
  <2>2. y \div PageSize <= p
    BY <1>5 DEF p
  <2> QED BY <1>1, <1>6, <2>1, <2>2
<1> QED BY <1>1, <1>7 DEF y

(* The granules of a range of bytes.                                       *)
LEMMA CellRange ==
  ASSUME NEW x \in Nat, NEW s \in Nat, 0 < s, x % Granule = 0,
         NEW c \in CellsIn(x, s)
  PROVE  c \in Nat /\ c * Granule \in Nat /\ x <= c * Granule /\ c * Granule < x + s
<1> DEFINE lo == x \div Granule
           y  == x + s - 1
           hi == y \div Granule
<1>1. y \in Nat /\ y < x + s
  OBVIOUS
<1>2. lo \in Nat /\ x = Granule * lo
  BY Sizes, Multiple
<1>3. hi \in Nat /\ Granule * hi <= y
  <2> HIDE DEF y
  <2> QED BY <1>1, Sizes, DivMod
<1>4. c \in lo..hi
  BY DEF CellsIn
<1> HIDE DEF lo, hi, y
<1>5. c \in Nat /\ lo <= c /\ c <= hi
  BY <1>2, <1>3, <1>4
<1>6. /\ Granule * lo <= Granule * c /\ Granule * c <= Granule * hi 
      /\ Granule * c = c * Granule /\ c * Granule \in Nat /\ Granule * hi \in Nat
  BY <1>2, <1>3, <1>5, Sizes
<1> QED BY <1>1, <1>2, <1>3, <1>5, <1>6

(* Conversely a byte of the range is in one of its granules.               *)
LEMMA ByteCell ==
  ASSUME NEW x \in Nat, NEW s \in Nat, NEW b \in Nat, x <= b, b < x + s
  PROVE  b \div Granule \in CellsIn(x, s)
<1>1. x + s - 1 \in Nat /\ b <= x + s - 1
  OBVIOUS
<1>2. x \div Granule <= b \div Granule /\ b \div Granule <= (x + s - 1) \div Granule
  BY <1>1, Sizes, DivMonotone
<1>3. b \div Granule \in Nat /\ x \div Granule \in Nat /\ (x + s - 1) \div Granule \in Nat
  BY <1>1, Sizes, DivMod
<1> QED BY <1>2, <1>3 DEF CellsIn

(* The granule of a byte of memory.                                        *)
LEMMA CellOfByte ==
  ASSUME NEW b \in Nat, b < Total
  PROVE  b \div Granule \in Cell
<1>1. b \div Granule < Total \div Granule
  BY Sizes, WholeSizes, DivLess
<1>2. b \div Granule \in Nat /\ Total \div Granule \in Nat
  BY Sizes, DivMod
<1> QED BY <1>1, <1>2 DEF Cell, Total

(* What lies between the ends of a chunk.                                  *)
End(ch) == ch.beg + GetActuallyAllocatedSize(ch)

(* A chunk's metadata, object and end are in this order, all of them       *)
(* within the shadowed memory.                                             *)
LEMMA ChunkBounds ==
  ASSUME NEW ch, Placed(ch)
  PROVE  /\ ch.beg \in Nat /\ ch.user \in Nat /\ ch.size \in Nat \ {0} /\ ch.needed \in Nat
         /\ ch.beg % Granule = 0 /\ ch.user % Granule = 0
         /\ GetActuallyAllocatedSize(ch) \in Nat \ {0} /\ End(ch) \in Nat
         /\ ch.beg + MetaSize <= ch.user 
         /\ ch.beg < ch.user /\ ch.user + ch.size <= End(ch) /\ End(ch) <= Total
<1>1. /\ ch.beg \in Nat /\ ch.user \in Nat /\ ch.size \in Nat /\ ch.needed \in Nat
      /\ ch.primary \in BOOLEAN
  BY DEF Placed, Chunk
<1>2. /\ ch.beg % Granule = 0 /\ ch.user % Granule = 0 /\ 0 < ch.size
      /\ ch.beg + MetaSize <= ch.user /\ ch.user + ch.size <= ch.beg + ch.needed
      /\ ch.primary => ch.needed <= ClassSize /\ ch.beg + ClassSize <= RegionSize
      /\ ~ch.primary => ch.beg + RoundUpTo(ch.needed, PageSize) <= Total
  BY DEF Placed, Total
<1>3. RoundUpTo(ch.needed, PageSize) \in Nat /\ ch.needed <= RoundUpTo(ch.needed, PageSize)
  BY <1>1, Sizes, RoundUpBounds
<1>4. /\ GetActuallyAllocatedSize(ch) \in Nat /\ ch.needed <= GetActuallyAllocatedSize(ch)
      /\ ch.beg + GetActuallyAllocatedSize(ch) <= Total
  <2>1. CASE ch.primary
    BY <1>1, <1>2, <2>1, Sizes DEF GetActuallyAllocatedSize, Total
  <2>2. CASE ~ch.primary
    BY <1>1, <1>2, <1>3, <2>2 DEF GetActuallyAllocatedSize
  <2> QED BY <2>1, <2>2
<1> DEFINE size == GetActuallyAllocatedSize(ch)
<1>5. End(ch) = ch.beg + size
  BY DEF End
<1> HIDE DEF size
<1>6. size \in Nat /\ ch.needed <= size /\ ch.beg + size <= Total
  BY <1>4 DEF size
<1>7. /\ 0 < ch.needed /\ ch.beg < ch.user /\ ch.user + ch.size <= ch.beg + size
      /\ ch.beg + size \in Nat
  <2>1. /\ ch.beg \in Nat /\ ch.user \in Nat /\ ch.size \in Nat /\ ch.needed \in Nat
        /\ size \in Nat /\ MetaSize \in Nat \ {0}
        /\ ch.beg + MetaSize <= ch.user /\ ch.user + ch.size <= ch.beg + ch.needed
        /\ ch.needed <= size
    BY <1>1, <1>2, <1>6, Sizes
  <2>2. ch.beg < ch.user
    BY ONLY <2>1
  <2> QED BY ONLY <2>1, <2>2
<1> QED BY <1>1, <1>2, <1>5, <1>6, <1>7 DEF size

(* The first and the last page of a chunk.                                 *)
LEMMA ChunkPages ==
  ASSUME NEW ch, Placed(ch)
  PROVE  \E lo, hi \in Nat :
           /\ PagesOf(ch) = lo..hi
           /\ lo <= ch.beg \div PageSize /\ hi = (End(ch) - 1) \div PageSize
           /\ ch.primary => lo = ch.beg \div PageSize
           /\ ~ch.primary => RegionSize \div PageSize <= lo
<1> DEFINE size == GetActuallyAllocatedSize(ch)
<1>1. /\ ch.beg \in Nat /\ size \in Nat \ {0} /\ End(ch) \in Nat /\ End(ch) = ch.beg + size
      /\ ch.primary \in BOOLEAN
  BY ChunkBounds DEF End, Placed, Chunk
<1>2. ch.beg \div PageSize \in Nat /\ (ch.beg + size - 1) \div PageSize \in Nat
  <2>1. ch.beg + size - 1 \in Nat
    BY <1>1
  <2> HIDE DEF size
  <2> QED BY <1>1, <2>1, Sizes, DivMod
<1>3. CASE ch.primary
  <2>1. PagesOf(ch) = (ch.beg \div PageSize)..((ch.beg + size - 1) \div PageSize)
    BY <1>3 DEF PagesOf, PagesIn, GetActuallyAllocatedSize
  <2> HIDE DEF size
  <2> QED BY <1>1, <1>2, <1>3, <2>1
<1>4. CASE ~ch.primary
  <2>1. /\ RegionSize + PageSize <= ch.beg /\ size = RoundUpTo(ch.needed, PageSize)
        /\ PagesOf(ch) = PagesIn(ch.beg - PageSize, size + PageSize)
    BY <1>4 DEF Placed, PagesOf, GetActuallyAllocatedSize
  <2> HIDE DEF size
  <2>2. /\ ch.beg - PageSize \in Nat /\ RegionSize <= ch.beg - PageSize
        /\ ch.beg - PageSize <= ch.beg
        /\ ch.beg - PageSize + (size + PageSize) - 1 = ch.beg + size - 1
    BY <1>1, <2>1, Sizes
  <2>3. PagesOf(ch) = ((ch.beg - PageSize) \div PageSize)..((ch.beg + size - 1) \div PageSize)
    BY <2>1, <2>2 DEF PagesIn
  <2> DEFINE b == ch.beg - PageSize
  <2>4. /\ b \div PageSize \in Nat /\ b \div PageSize <= ch.beg \div PageSize
        /\ RegionSize \div PageSize <= b \div PageSize
    <3>1. b \in Nat /\ RegionSize <= b /\ b <= ch.beg
      BY <2>2
    <3> HIDE DEF b
    <3> QED BY <1>1, <3>1, Sizes, DivMod, DivMonotone
  <2>5. PagesOf(ch) = (b \div PageSize)..((ch.beg + size - 1) \div PageSize)
    BY <2>3
  <2> HIDE DEF b
  <2> QED BY <1>1, <1>2, <1>4, <2>4, <2>5
<1> QED BY <1>1, <1>3, <1>4

(* Every byte of a chunk is in its pages, its granule in their granules.   *)
LEMMA ChunkBytes ==
  ASSUME NEW ch, Placed(ch), NEW b \in Nat, ch.beg <= b, b < End(ch)
  PROVE  /\ b \div PageSize \in PagesOf(ch) 
         /\ b \div Granule \in CellsOf(PagesOf(ch))
<1>1. PICK lo \in Nat, hi \in Nat :
           /\ PagesOf(ch) = lo..hi
           /\ lo <= ch.beg \div PageSize /\ hi = (End(ch) - 1) \div PageSize
  BY ChunkPages
<1>2. /\ ch.beg \in Nat /\ End(ch) \in Nat /\ End(ch) <= Total 
      /\ End(ch) - 1 \in Nat /\ b <= End(ch) - 1
  BY ChunkBounds
<1>3. ch.beg \div PageSize <= b \div PageSize /\ b \div PageSize <= hi
  BY <1>1, <1>2, Sizes, DivMonotone
<1>4. b \div PageSize \in Nat /\ ch.beg \div PageSize \in Nat
  BY <1>2, Sizes, DivMod
<1>5. b \div PageSize \in PagesOf(ch)
  BY <1>1, <1>3, <1>4
<1>6. b \div Granule \in Cell
  BY <1>2, CellOfByte, Sizes
<1> QED BY <1>5, <1>6, CellPage DEF CellsOf

(* The granules of a range within a chunk are in its pages.                *)
LEMMA CellsInside ==
  ASSUME NEW ch, Placed(ch), NEW x \in Nat, NEW s \in Nat, 0 < s, x % Granule = 0,
         ch.beg <= x, x + s <= End(ch)
  PROVE  CellsIn(x, s) \subseteq CellsOf(PagesOf(ch))
<1> SUFFICES ASSUME NEW c \in CellsIn(x, s)
             PROVE  c \in CellsOf(PagesOf(ch))
  OBVIOUS
<1> DEFINE b == c * Granule
<1>1. c \in Nat /\ b \in Nat /\ x <= b /\ b < x + s
  BY CellRange
<1>2. ch.beg \in Nat /\ End(ch) \in Nat
  BY ChunkBounds
<1>3. b \div Granule = c
  BY <1>1, Sizes, Product
<1>4. ch.beg <= b /\ b < End(ch)
  <2> HIDE DEF b
  <2> QED BY <1>1, <1>2
<1> HIDE DEF b
<1>5. b \div Granule \in CellsOf(PagesOf(ch))
  BY <1>1, <1>4, ChunkBytes
<1> QED BY <1>3, <1>5

(* The whole granules of the object, and the place of the last one.        *)
LEMMA ObjectCells ==
  ASSUME NEW ch, Placed(ch)
  PROVE  /\ WholeCells(ch) \subseteq CellsOf(PagesOf(ch))
         /\ LastCell(ch) \subseteq CellsOf(PagesOf(ch))
         /\ WholeCells(ch) \cap LastCell(ch) = {}
         /\ LastBytes(ch) \in 0..(Granule - 1)
<1> DEFINE whole == RoundDownTo(ch.size, Granule)
           last  == ch.user + whole
<1>1. /\ ch.beg \in Nat /\ ch.user \in Nat /\ ch.size \in Nat \ {0} /\ End(ch) \in Nat
      /\ ch.user % Granule = 0 /\ ch.beg < ch.user /\ ch.user + ch.size <= End(ch)
  BY ChunkBounds
<1>2. /\ whole \in Nat /\ whole % Granule = 0 /\ whole <= ch.size
      /\ ch.size = whole + LastBytes(ch)
  BY <1>1, Sizes, RoundDownBounds DEF LastBytes
<1>3. LastBytes(ch) \in Nat /\ LastBytes(ch) < Granule
  BY <1>1, Sizes, DivMod DEF LastBytes
<1>4. Granule <= ch.size => 0 < whole
  BY <1>1, <1>2, <1>3, Sizes
<1>5. WholeCells(ch) = IF ch.size < Granule THEN {} ELSE CellsIn(ch.user, whole)
  BY DEF WholeCells
<1>6. LastCell(ch) = IF LastBytes(ch) = 0 THEN {} ELSE {last \div Granule}
  BY DEF LastCell
<1> HIDE DEF whole
<1>7. WholeCells(ch) \subseteq CellsOf(PagesOf(ch))
  <2>1. CASE ch.size < Granule
    BY <1>5, <2>1
  <2>2. CASE Granule <= ch.size
    <3>1. 0 < whole /\ ch.beg <= ch.user /\ ch.user + whole <= End(ch)
      BY <1>1, <1>2, <1>3, <1>4, <2>2
    <3>2. CellsIn(ch.user, whole) \subseteq CellsOf(PagesOf(ch))
      BY <1>1, <1>2, <3>1, CellsInside
    <3> QED BY <1>5, <3>2
  <2> QED BY <1>1, Sizes, <2>1, <2>2
<1>8. last \in Nat /\ ch.beg <= last
  BY <1>1, <1>2
<1>9. LastCell(ch) \subseteq CellsOf(PagesOf(ch))
  <2>1. CASE LastBytes(ch) # 0
    <3>1. last < End(ch)
      BY <1>1, <1>2, <1>3, <2>1
    <3> HIDE DEF last
    <3>2. last \div Granule \in CellsOf(PagesOf(ch))
      BY <1>8, <3>1, ChunkBytes
    <3> QED BY <1>6, <3>2
  <2> QED BY <1>6, <2>1
<1>10. ASSUME NEW c \in WholeCells(ch), c \in LastCell(ch) PROVE FALSE
  <2>1. Granule <= ch.size /\ c \in CellsIn(ch.user, whole)
    BY <1>1, <1>5, <1>10, Sizes
  <2>2. c \in Nat /\ c * Granule \in Nat /\ c * Granule < last
    <3>1. /\ ch.user \in Nat /\ whole \in Nat /\ 0 < whole /\ ch.user % Granule = 0
          /\ ch.user + whole = last
      BY <1>1, <1>2, <1>4, <2>1, Sizes
    <3> HIDE DEF whole, last
    <3>2. c \in Nat /\ c * Granule \in Nat /\ c * Granule < ch.user + whole
      BY ONLY <2>1, <3>1, CellRange
    <3> QED BY ONLY <3>1, <3>2
  <2>3. last % Granule = 0
    <3>1. /\ Granule \in Nat \ {0} /\ ch.user \in Nat /\ ch.user % Granule = 0 
          /\ whole \in Nat /\ whole % Granule = 0 /\ last = ch.user + whole
      BY <1>1, <1>2, Sizes
    <3> HIDE DEF last, whole
    <3> QED BY ONLY <3>1, MultiplesAdd
  <2>4. last = Granule * (last \div Granule)
    <3> HIDE DEF last
    <3> QED BY <1>8, <2>3, Sizes, Multiple
  <2>5. c = last \div Granule
    BY <1>6, <1>10
  <2> HIDE DEF last
  <2> QED BY <2>2, <2>4, <2>5, Sizes
<1> QED BY <1>3, <1>7, <1>9, <1>10, Sizes

(* The shadow of the object's bytes: a whole granule, or the last one,     *)
(* whose byte counts the bytes in front.                                   *)
LEMMA UserBytes ==
  ASSUME NEW ch, Placed(ch), NEW b \in User(ch)
  PROVE  /\ b \in Nat /\ ch.beg <= b /\ b < End(ch)
         /\ \/ b \div Granule \in WholeCells(ch)
            \/ b \div Granule \in LastCell(ch) /\ b % Granule < LastBytes(ch)
<1> DEFINE whole == RoundDownTo(ch.size, Granule)
           last  == ch.user + whole
<1>1. /\ ch.beg \in Nat /\ ch.user \in Nat /\ ch.size \in Nat \ {0} /\ End(ch) \in Nat
      /\ ch.user % Granule = 0 /\ ch.beg < ch.user /\ ch.user + ch.size <= End(ch)
  BY ChunkBounds
<1>2. /\ whole \in Nat /\ whole % Granule = 0 /\ whole <= ch.size
      /\ ch.size = whole + LastBytes(ch)
  BY <1>1, Sizes, RoundDownBounds DEF LastBytes
<1>3. LastBytes(ch) \in Nat /\ LastBytes(ch) < Granule
  BY <1>1, Sizes, DivMod DEF LastBytes
<1>4. b \in Nat /\ ch.user <= b /\ b < ch.user + ch.size
  BY <1>1 DEF User
<1>5. b \in Nat /\ ch.beg <= b /\ b < End(ch)
  BY <1>1, <1>4
<1>6. WholeCells(ch) = IF ch.size < Granule THEN {} ELSE CellsIn(ch.user, whole)
  BY DEF WholeCells
<1>7. LastCell(ch) = IF LastBytes(ch) = 0 THEN {} ELSE {last \div Granule}
  BY DEF LastCell
<1> HIDE DEF whole
<1>8. last \in Nat /\ last % Granule = 0
  BY <1>1, <1>2, Sizes, MultiplesAdd
<1>9. CASE b < last
  <2>1. b \div Granule \in CellsIn(ch.user, whole)
    BY <1>1, <1>2, <1>4, <1>9, ByteCell
  <2>2. ~(ch.size < Granule)
    <3>1. CASE ch.size < Granule
      <4>1. 0 < whole /\ 0 + Granule <= whole
        <5>1. 0 < whole 
          BY <1>1, <1>2, <1>4, <1>9
        <5>2. 0 % Granule = 0
          BY Sizes
        <5> QED BY <1>2, <5>1, <5>2, Sizes, MultiplesApart
      <4> QED BY <1>1, <1>2, <3>1, <4>1, Sizes
    <3> QED BY <3>1
  <2> QED BY <1>5, <1>6, <2>1, <2>2
<1>10. CASE last <= b
  <2> DEFINE r == b - last
  <2>1. r \in Nat /\ r < LastBytes(ch) /\ b = last + r
    BY <1>1, <1>2, <1>3, <1>4, <1>8, <1>10
  <2> HIDE DEF r, last
  <2>2. r % Granule = r /\ r \div Granule = 0
    BY <1>3, <2>1, Sizes
  <2>3. b % Granule = r /\ b \div Granule = last \div Granule
    <3>1. (last + r) % Granule = r % Granule 
          /\ (last + r) \div Granule = last \div Granule + r \div Granule
      <4>1. Granule \in Nat \ {0} /\ last \in Nat /\ last % Granule = 0 /\ r \in Nat
        BY <1>8, <2>1, Sizes
      <4> QED BY ONLY <4>1, MultipleSum
    <3>2. last \div Granule \in Nat
      BY <1>8, Sizes, DivMod
    <3> QED BY <2>1, <2>2, <3>1, <3>2
  <2> QED BY <1>3, <1>5, <1>7, <2>1, <2>3
<1> QED BY <1>4, <1>8, <1>9, <1>10

(* The shadow of any other byte: no whole granule, nor among the counted   *)
(* bytes of the last one.                                                  *)
LEMMA OtherBytes ==
  ASSUME NEW ch, Placed(ch), NEW b \in Nat, b \notin User(ch)
  PROVE  /\ b \div Granule \notin WholeCells(ch)
         /\ b \div Granule \in LastCell(ch) => LastBytes(ch) <= b % Granule
<1> DEFINE whole == RoundDownTo(ch.size, Granule)
           last  == ch.user + whole
           c == b \div Granule
           r == b % Granule
<1>1. /\ ch.user \in Nat /\ ch.size \in Nat \ {0} /\ ch.user % Granule = 0
  BY ChunkBounds
<1>2. /\ whole \in Nat /\ whole % Granule = 0 /\ whole <= ch.size
      /\ ch.size = whole + LastBytes(ch)
  BY <1>1, Sizes, RoundDownBounds DEF LastBytes
<1>3. LastBytes(ch) \in Nat /\ LastBytes(ch) < Granule
  BY <1>1, Sizes, DivMod DEF LastBytes
<1>4. c \in Nat /\ r \in Nat /\ r < Granule /\ b = Granule * c + r
  BY Sizes, DivMod
<1>5. WholeCells(ch) = IF ch.size < Granule THEN {} ELSE CellsIn(ch.user, whole)
  BY DEF WholeCells
<1>6. LastCell(ch) = IF LastBytes(ch) = 0 THEN {} ELSE {last \div Granule}
  BY DEF LastCell
<1>7. b < ch.user \/ ch.user + ch.size <= b
  BY <1>1 DEF User
<1> HIDE DEF whole
<1>8. last \in Nat /\ last % Granule = 0
  BY <1>1, <1>2, Sizes, MultiplesAdd
<1>9. last = Granule * (last \div Granule)
  <2> HIDE DEF last
  <2> QED BY <1>8, Sizes, Multiple
<1> HIDE DEF c, r
<1>10. ASSUME c \in WholeCells(ch) PROVE FALSE
  <2> DEFINE g == c * Granule
  <2>1. Granule <= ch.size /\ c \in CellsIn(ch.user, whole)
    BY <1>1, <1>5, <1>10, Sizes
  <2>2. 0 < whole
    <3>1. whole # 0
      BY <1>2, <1>3, <2>1, Sizes
    <3> QED BY <1>2, <3>1
  <2>3. g \in Nat /\ ch.user <= g /\ g < last
    BY <1>1, <1>2, <2>1, <2>2, CellRange
  <2>4. g = Granule * c
    BY <1>4, Sizes
  <2>5. g % Granule = 0
    BY <1>4, Sizes, Product
  <2> HIDE DEF g, last
  <2>6. g + Granule <= last
    BY <1>8, <2>3, <2>5, Sizes, MultiplesApart
  <2>7. last <= ch.user + ch.size
    BY <1>1, <1>2 DEF last
  <2>8. b = g + r
    BY <1>4, <2>4
  <2> QED BY <1>1, <1>4, <1>7, <1>8, <2>3, <2>6, <2>7, <2>8, Sizes
<1>11. ASSUME c \in LastCell(ch) PROVE LastBytes(ch) <= r
  <2>1. c = last \div Granule
    BY <1>6, <1>11
  <2>2. last = Granule * c
    BY <1>9, <2>1
  <2>3. b = last + r /\ last <= b
    BY <1>4, <1>8, <2>2
  <2>4. ch.user + ch.size <= b
    BY <1>1, <1>2, <1>7, <2>3
  <2>5. ch.user + ch.size = last + LastBytes(ch)
    BY <1>1, <1>2, <1>3
  <2> HIDE DEF last
  <2> QED BY <1>3, <1>4, <1>8, <2>3, <2>4, <2>5
<1> QED BY <1>10, <1>11 DEF c, r

(* UnmapShadow's whole pages of shadow are shadow.                         *)
LEMMA WindowInShadow ==
  ASSUME NEW ch, Placed(ch)
  PROVE  Window(ch) \subseteq Cell
<1> DEFINE span == PageSize * Granule
           beg == RoundDownTo(ch.beg, span)
           end == RoundUpTo(End(ch), span)
<1>1. span \in Nat \ {0} /\ Total % span = 0 /\ Total % Granule = 0
  BY WholeSizes
<1>2. ch.beg \in Nat /\ End(ch) \in Nat /\ End(ch) <= Total /\ ch.beg < End(ch)
  BY ChunkBounds
<1>3. Window(ch) = CellsIn(beg, end - beg)
  BY DEF Window, End
<1> HIDE DEF span
<1>4. beg \in Nat /\ beg <= ch.beg
  BY <1>1, <1>2, RoundDownBounds
<1>5. end \in Nat /\ End(ch) <= end /\ end <= Total
  BY <1>1, <1>2, Sizes, RoundUpBounds, RoundUpWithin
<1> HIDE DEF beg, end
<1>6. beg + (end - beg) - 1 = end - 1 /\ end - 1 \in Nat /\ end - 1 < Total
  BY <1>2, <1>4, <1>5, Sizes
<1>7. CellsIn(beg, end - beg) = (beg \div Granule)..((end - 1) \div Granule)
  BY <1>6 DEF CellsIn
<1>8. (end - 1) \div Granule < Total \div Granule
  BY <1>1, <1>6, Sizes, DivLess
<1>9. /\ beg \div Granule \in Nat /\ (end - 1) \div Granule \in Nat 
      /\ Total \div Granule \in Nat
  BY <1>4, <1>6, Sizes, DivMod
<1> QED BY <1>3, <1>7, <1>8, <1>9 DEF Cell, Total

(* A size of bytes is asked for.                                           *)
LEMMA RequestNeeds ==
  ASSUME NEW r \in Nat \X Nat
  PROVE  Needed(r) \in Nat
<1>1. SizeOf(r) \in Nat /\ AlignOf(r) \in Nat \ {0} /\ AlignRoom(r) \in Nat
  BY Sizes DEF SizeOf, AlignOf, AlignRoom
<1>2. RoundUpTo(SizeOf(r), AlignOf(r)) \in Nat
  BY <1>1, RoundUpBounds
<1> QED BY <1>1, <1>2, Sizes DEF Needed, Padded

(* What Allocate asks for has room for the metadata and the object.        *)
LEMMA RequestFits ==
  ASSUME NEW r \in Nat \X Nat, r[2] < Granule \/ r[2] % Granule = 0,
         NEW beg \in Nat, beg % Granule = 0,
         CanAllocate(Padded(r)) => beg + ClassSize <= RegionSize,
         ~CanAllocate(Padded(r)) => 
            /\ beg % PageSize = 0 /\ RegionSize + PageSize <= beg
            /\ beg + RoundUpTo(Needed(r), PageSize) <= RegionSize + MmapSize
  PROVE  Placed(NewChunk(beg, r))
<1> DEFINE size == SizeOf(r)
           align == AlignOf(r)
           user == RoundUpTo(beg + MetaSize, align)
           room == AlignRoom(r)
<1>1. size \in Nat /\ 0 < size /\ align \in Nat \ {0} /\ align % Granule = 0 
      /\ Granule <= align
  BY Sizes DEF SizeOf, AlignOf
<1>2. room = (IF align > Granule THEN align ELSE 0)
  BY DEF AlignRoom
<1>3. Padded(r) = RoundUpTo(size, align) + MetaSize + room
  BY DEF Padded
<1> HIDE DEF size, align, room
<1>4. RoundUpTo(size, align) \in Nat /\ size <= RoundUpTo(size, align)
  BY <1>1, RoundUpBounds
<1>5. room \in Nat
  BY <1>1, <1>2
<1>6. Padded(r) \in Nat /\ size + MetaSize + room <= Padded(r)
  BY <1>1, <1>3, <1>4, <1>5, Sizes
<1>7. Needed(r) \in Nat /\ Padded(r) <= Needed(r)
  BY <1>6, Sizes DEF Needed
<1>8. beg + MetaSize \in Nat /\ (beg + MetaSize) % Granule = 0
  <2>1. /\ Granule \in Nat \ {0} /\ MetaSize \in Nat /\ MetaSize % Granule = 0
        /\ beg \in Nat /\ beg % Granule = 0
    BY Sizes, SizesAssumption
  <2> QED BY ONLY <2>1, MultiplesAdd
<1>9. /\ user \in Nat /\ user % align = 0 /\ beg + MetaSize <= user 
      /\ user < beg + MetaSize + align
  BY <1>1, <1>8, RoundUpBounds
<1>10. user % Granule = 0
  <2> HIDE DEF user
  <2> QED BY <1>1, <1>9, Sizes, MultipleOfMultiple
<1>11. user <= beg + MetaSize + room
  <2>1. CASE align > Granule
    BY <1>1, <1>2, <1>8, <1>9, <2>1
  <2>2. CASE ~(align > Granule)
    <3>1. align = Granule
      BY <1>1, <2>2, Sizes
    <3>2. (beg + MetaSize) % align = 0
      BY <1>8, <3>1
    <3>3. user <= beg + MetaSize
      BY <1>1, <1>8, <3>2, RoundUpWithin
    <3> HIDE DEF user
    <3> QED BY <1>5, <1>8, <1>9, <3>3
  <2> QED BY <2>1, <2>2
<1> DEFINE ch == NewChunk(beg, r)
<1>12. /\ ch = [beg |-> beg, needed |-> Needed(r), primary |-> CanAllocate(Padded(r)),
                user |-> user, size |-> size]
  BY DEF NewChunk, user, size, align
<1>13. /\ ch.beg = beg /\ ch.needed = Needed(r) /\ ch.primary = CanAllocate(Padded(r))
       /\ ch.user = user /\ ch.size = size
  BY <1>12
<1>14. CanAllocate(Padded(r)) \in BOOLEAN /\ (CanAllocate(Padded(r)) => Needed(r) <= ClassSize)
  BY DEF CanAllocate, Needed
<1> HIDE DEF user, ch
<1>15. ch \in Chunk
  BY <1>1, <1>7, <1>9, <1>12, <1>14 DEF Chunk
<1>16. user + size <= beg + Needed(r)
  BY <1>1, <1>5, <1>6, <1>7, <1>9, <1>11, Sizes
<1>17. Placed(ch)
  BY <1>1, <1>9, <1>10, <1>13, <1>14, <1>15, <1>16 DEF Placed
<1> QED BY <1>17 DEF ch

----------------------------------------------------------------------------
(* What a step leaves alone.                                               *)

(* The values of a shadow byte.                                            *)
Value == {Gone, Poison} \cup 0..(Granule - 1)

(* A poisoned, a missing and an addressable granule are told apart.        *)
LEMMA ValueFacts ==
  /\ 0 \in Value /\ Gone \in Value /\ Poison \in Value
  /\ Gone # 0 /\ Gone # Poison /\ 0 # Poison
  /\ \A n \in 0..(Granule - 1) : n \in Value /\ n # Gone
  BY Sizes DEF Value, Gone, Poison

(* What Fill does.                                                         *)
LEMMA Filled ==
  ASSUME shadow \in [Cell -> Value], NEW cells, NEW v \in Value, Fill(cells, v)
  PROVE  /\ shadow' \in [Cell -> Value]
         /\ \A c \in Cell : shadow'[c] = IF c \in cells THEN v ELSE shadow[c]
  BY DEF Fill

(* The hands of a busy thread.                                             *)
LEMMA Hands ==
  ASSUME Types, NEW t \in Thread, op[t].pc # "idle"
  PROVE  /\ t \in Busy /\ op[t] \in Doing /\ op[t].ch \in Held /\ Placed(op[t].ch)
         /\ op[t].pc \in Allocates \cup Frees
         /\ op[t].pc \in Frees => op[t].old = None
         /\ op[t].old # None => op[t].old \in Held /\ Placed(op[t].old)
<1>1. t \in Busy
  BY DEF Busy
<1>2. op[t] \in {Idle} \cup Doing /\ Idle.pc = "idle"
  BY DEF Types, Idle
<1>3. op[t] \in Doing
  BY <1>2
<1>4. op[t].ch \in Held /\ (op[t].old # None => op[t].old \in Held)
  BY <1>1 DEF Held, Old
<1>5. \A x \in Held : Placed(x)
  BY DEF Types
<1>6. /\ op[t].pc \in Allocates \cup Frees
      /\ op[t].pc \in Frees => op[t].old = None
  BY <1>3 DEF Doing, Allocates, Frees
<1> QED BY <1>1, <1>3, <1>4, <1>5, <1>6

(* The shadow of a chunk's pages stays, or a free replaced it.             *)
Undisturbed(ch) ==
  \A c \in CellsOf(PagesOf(ch)) : 
    shadow'[c] = shadow[c] \/ (c \in wiped' /\ shadow'[c] \in {0, Gone})

(* The shadow of a chunk stays as good as it was when its granules do.     *)
LEMMA ShadowKept ==
  ASSUME NEW ch, Placed(ch), Undisturbed(ch), wiped \subseteq wiped'
  PROVE  /\ Clear(ch) => Clear(ch)'
         /\ Ends(ch)  => Ends(ch)'
         /\ Edge(ch)  => Edge(ch)'
         /\ \A cells : Dark(ch, cells) => Dark(ch, cells)'
<1>1. WholeCells(ch) \subseteq CellsOf(PagesOf(ch)) /\ LastCell(ch) \subseteq CellsOf(PagesOf(ch))
  BY ObjectCells
<1>2. Clear(ch) => Clear(ch)'
  BY <1>1, Zenon DEF Clear, Undisturbed
<1>3. Ends(ch) => Ends(ch)'
  BY <1>1, Zenon DEF Ends, Undisturbed
<1>4. Edge(ch) => Edge(ch)'
  BY <1>1, Zenon DEF Edge, Undisturbed
<1>5. ASSUME NEW cells PROVE Dark(ch, cells) => Dark(ch, cells)'
  BY Zenon DEF Dark, Undisturbed
<1> QED BY <1>2, <1>3, <1>4, <1>5

(* A step on the granules of one chunk leaves the others' alone.           *)
LEMMA OthersUndisturbed ==
  ASSUME Types, Apart, NEW ch \in Held, NEW x \in Held, x # ch,
         \A c \in Cell \ CellsOf(PagesOf(ch)) : shadow'[c] = shadow[c]
  PROVE  Undisturbed(x)
<1>1. PagesOf(x) \cap PagesOf(ch) = {}
  BY DEF Apart
<1>2. CellsOf(PagesOf(x)) \subseteq Cell \ CellsOf(PagesOf(ch))
  BY <1>1, Zenon DEF CellsOf
<1> QED BY <1>2 DEF Undisturbed

(* Every hand holds what it held.                                          *)
SameHands ==
  /\ live' = live /\ Busy' = Busy
  /\ \A u \in Busy : op'[u].ch = op[u].ch /\ op'[u].old = op[u].old

(* A step that leaves every chunk where it is keeps what is said of the    *)
(* hands and pages of chunks.                                              *)
LEMMA SameHandsHeld ==
  ASSUME SameHands
  PROVE  /\ Held' = Held
         /\ OneHand => OneHand' 
         /\ Apart => Apart'
         /\ mapped' = mapped /\ DanglingTraps => DanglingTraps'
<1>1. /\ live' = live /\ Busy' = Busy
      /\ \A u \in Busy : op'[u].ch = op[u].ch /\ op'[u].old = op[u].old
  BY DEF SameHands
<1>2. {op'[u].ch : u \in Busy} = {op[u].ch : u \in Busy}
  BY <1>1
<1>3. {op'[u].old : u \in Busy} = {op[u].old : u \in Busy}
  BY <1>1
<1>4. Held' = Held
  BY <1>1, <1>2, <1>3 DEF Held, Old
<1>5. OneHand => OneHand'
  BY <1>1 DEF OneHand
<1>6. Apart => Apart'
  BY <1>4 DEF Apart
<1>7. mapped' = mapped /\ DanglingTraps => DanglingTraps'
  BY <1>4 DEF DanglingTraps
<1> QED BY <1>4, <1>5, <1>6, <1>7

(* A step of t to another point of its operation.                          *)
LEMMA GotoHands ==
  ASSUME Types, NEW t \in Thread, op[t].pc # "idle", NEW pc, pc # "idle",
         Goto(t, pc), live' = live
  PROVE  /\ SameHands
         /\ op'[t] = [op[t] EXCEPT !.pc = pc]
         /\ \A u \in Thread \ {t} : op'[u] = op[u]
<1>1. op' = [op EXCEPT ![t].pc = pc]
  BY DEF Goto
<1>2. op \in [Thread -> {Idle} \cup Doing]
  BY DEF Types
<1>3. op'[t] = [op[t] EXCEPT !.pc = pc] /\ \A u \in Thread \ {t} : op'[u] = op[u]
  BY <1>1, <1>2
<1>4. op[t] \in Doing
  BY Hands
<1>5. op'[t].pc = pc /\ op'[t].ch = op[t].ch /\ op'[t].old = op[t].old
  BY <1>3, <1>4 DEF Doing
<1>6. Busy' = Busy
  BY <1>3, <1>5 DEF Busy
<1> QED BY <1>3, <1>5, <1>6 DEF SameHands, Busy

----------------------------------------------------------------------------
(* The steps of an allocation on the shadow of its own chunk.              *)

(* Touch without a fault: the granules had shadow.  With one: only the     *)
(* process changes.                                                        *)
LEMMA Faulted ==
  ASSUME FrontInv, 
         UNCHANGED <<shadow, mapped, spent, lower, upper, pos, live, op, wiped>>,
         process' \in {"runs", "exhausted", "faulted"}
  PROVE  FrontInv'
<1>1. Busy' = Busy /\ Held' = Held
  BY DEF Busy, Held, Old
<1>2. Types /\ Types'
  BY <1>1 DEF Types, FrontInv
<1>3. Ranges /\ Ranges' /\ NeverUsed /\ NeverUsed'
  <2>1. \A t \in Thread : Fresh(t)' = Fresh(t)
    BY DEF Fresh
  <2>2. Unclaimed' = Unclaimed
    BY DEF Unclaimed
  <2> QED BY <2>1, <2>2 DEF Ranges, NeverUsed, FrontInv
<1>4. OneHand /\ OneHand' /\ Apart /\ Apart' /\ DanglingTraps /\ DanglingTraps'
  BY <1>1 DEF OneHand, Apart, DanglingTraps, FrontInv
<1>5. GoneWhileFreed /\ GoneWhileFreed' /\ Wiped /\ Wiped'
  BY <1>1 DEF GoneWhileFreed, Wiped, FrontInv
<1>6. ShadowOfLive /\ ShadowOfLive' /\ ShadowOfOps /\ ShadowOfOps'
  BY <1>1 DEF ShadowOfLive, ShadowOfOps, ObjectShadow, OldShadow, OwnShadow, Clear, Ends, Edge, Dark, FrontInv
<1> QED BY <1>2, <1>3, <1>4, <1>5, <1>6 DEF FrontInv

(* Ranges and pages untouched.                                             *)
LEMMA SpaceKept ==
  ASSUME UNCHANGED <<mapped, spent, lower, upper, pos>>
  PROVE  (Ranges => Ranges') /\ (NeverUsed => NeverUsed')
<1>1. \A t \in Thread : Fresh(t)' = Fresh(t)
  BY DEF Fresh
<1>2. Unclaimed' = Unclaimed
  BY DEF Unclaimed
<1> QED BY <1>1, <1>2 DEF Ranges, NeverUsed

(* A step of t with no part in a free: no shadow page goes or comes.       *)
LEMMA FreesKept ==
  ASSUME GoneWhileFreed, Wiped, NEW t \in Thread, wiped \subseteq wiped',
         op[t].pc # "remap", op'[t].pc # "remap",
         \A u \in Thread \ {t} : op'[u] = op[u],
         \A c \in Cell : shadow'[c] = Gone => shadow[c] = Gone
  PROVE  GoneWhileFreed' /\ Wiped'
<1>1. GoneWhileFreed'
  <2> SUFFICES ASSUME NEW c \in Cell, shadow'[c] = Gone
               PROVE  c \in wiped' /\ \E u \in Busy' : op'[u].pc = "remap" /\ c \in Window(op'[u].ch)
    BY DEF GoneWhileFreed
  <2>1. c \in wiped /\ \E u \in Busy : op[u].pc = "remap" /\ c \in Window(op[u].ch)
    BY DEF GoneWhileFreed
  <2>2. PICK u \in Busy : op[u].pc = "remap" /\ c \in Window(op[u].ch)
    BY <2>1
  <2>3. u \in Thread \ {t} /\ op'[u] = op[u] /\ u \in Busy'
    BY <2>2 DEF Busy
  <2> QED BY <2>1, <2>2, <2>3
<1>2. Wiped'
  <2> SUFFICES ASSUME NEW u \in Busy', op'[u].pc = "remap"
               PROVE  Window(op'[u].ch) \subseteq wiped'
    BY DEF Wiped
  <2>1. u \in Busy /\ u \in Thread \ {t} /\ op'[u] = op[u]
    BY DEF Busy
  <2> QED BY <2>1 DEF Wiped
<1> QED BY <1>1, <1>2

(* A step of t that disturbs at most the shadow of t's own chunk.          *)
LEMMA ShadowsKept ==
  ASSUME FrontInv, NEW t \in Thread, wiped \subseteq wiped',
         \A u \in Thread \ {t} : op'[u] = op[u],
         \A x \in Held : Undisturbed(x) \/ (t \in Busy /\ x = op[t].ch)
  PROVE  /\ \A x \in live : ObjectShadow(x)'
         /\ \A x : t \in Busy /\ x = op[t].old /\ x # None => OldShadow(x)'
         /\ \A u \in Busy' \ {t} : 
              /\ op'[u].old # None => OldShadow(op[u].old)'
              /\ OwnShadow(op[u].ch, op[u].pc)'
<1>1. Types /\ OneHand /\ ShadowOfLive /\ ShadowOfOps
  BY DEF FrontInv
<1>2. ASSUME NEW x \in live PROVE ObjectShadow(x)'
  <2>1. x \in Held
    BY DEF Held
  <2>2. Placed(x) /\ Undisturbed(x)
    BY <1>1, <2>1 DEF Types, OneHand
  <2>3. ObjectShadow(x)
    BY <1>1 DEF ShadowOfLive
  <2> QED BY <2>2, <2>3, ShadowKept DEF ObjectShadow
<1>3. ASSUME NEW x, NEW u \in Busy, x = op[u].old, x # None PROVE OldShadow(x)'
  <2>1. u \in Thread /\ op[u].pc # "idle"
    BY DEF Busy
  <2>2. x \in Held /\ Placed(x)
    BY <1>1, <1>3, <2>1, Hands
  <2>3. Undisturbed(x)
    BY <1>1, <1>3, <2>2 DEF OneHand
  <2>4. OldShadow(x)
    BY <1>1, <1>3 DEF ShadowOfOps
  <2> QED BY <2>2, <2>3, <2>4, ShadowKept DEF OldShadow
<1>4. ASSUME NEW u \in Busy' \ {t}
      PROVE  /\ op'[u].old # None => OldShadow(op[u].old)'
             /\ OwnShadow(op[u].ch, op[u].pc)'
  <2>1. u \in Thread /\ u \in Busy /\ op[u].pc # "idle" /\ op'[u] = op[u]
    BY DEF Busy
  <2>2. PICK x, y, w : x = op[u].ch /\ y = op[u].old /\ w = op[u].pc
    OBVIOUS
  <2>3. op'[u].ch = x /\ op'[u].old = y /\ op'[u].pc = w
    BY <2>1, <2>2
  <2>4. x \in Held /\ Placed(x) /\ OwnShadow(x, w)
    BY <1>1, <2>1, <2>2, Hands DEF ShadowOfOps
  <2>5. Undisturbed(x)
    BY <1>1, <2>1, <2>2, <2>4 DEF OneHand
  <2>6. OwnShadow(x, w)'
    BY <2>4, <2>5, ShadowKept DEF OwnShadow
  <2>7. y # None => OldShadow(y)'
    BY <1>3, <2>1, <2>2
  <2> QED BY <2>3, <2>6, <2>7 DEF OwnShadow, OldShadow, Clear, Ends, Dark
<1> QED BY <1>2, <1>3, <1>4

(* A step of an allocation that writes only the shadow of its own chunk,   *)
(* which no other chunk shares, keeps the invariant.                       *)
LEMMA OwnStep ==
  ASSUME FrontInv, NEW t \in Thread, op[t].pc \in Allocates, NEW pc \in Allocates, 
         Goto(t, pc), UNCHANGED <<mapped, spent, live, lower, upper, pos, wiped, process>>,
         NEW ch, ch = op[t].ch,
         shadow' \in [Cell -> Value],
         \A c \in Cell : shadow'[c] = Gone => shadow[c] = Gone,
         \A c \in Cell \ CellsOf(PagesOf(ch)) : shadow'[c] = shadow[c],
         OwnShadow(ch, pc)'
  PROVE  FrontInv'
<1>1. Types /\ Ranges /\ NeverUsed /\ OneHand /\ Apart /\ DanglingTraps 
      /\ GoneWhileFreed /\ Wiped /\ ShadowOfLive /\ ShadowOfOps
  BY DEF FrontInv
<1>2. op[t].pc # "idle" /\ pc # "idle" /\ op[t].pc # "remap" /\ pc # "remap"
  BY DEF Allocates
<1>3. /\ t \in Busy /\ op[t] \in Doing /\ ch \in Held
      /\ op[t].old # None => op[t].old \in Held
  BY <1>1, <1>2, Hands
<1>4. /\ SameHands
      /\ op'[t] = [op[t] EXCEPT !.pc = pc]
      /\ \A u \in Thread \ {t} : op'[u] = op[u]
  BY <1>1, <1>2, GotoHands
<1>5. Held' = Held /\ Busy' = Busy
  BY <1>4, SameHandsHeld DEF SameHands
<1>6. op'[t].pc = pc /\ op'[t].ch = ch /\ op'[t].old = op[t].old
  BY <1>3, <1>4 DEF Doing
<1>7. OneHand' /\ Apart' /\ DanglingTraps'
  BY <1>1, <1>4, SameHandsHeld
<1>8. Ranges' /\ NeverUsed'
  BY <1>1, SpaceKept
<1>9. Types'
  <2>1. op'[t] \in Doing
    <3>1. op[t] \in [pc : Allocates, ch : Chunk, old : Chunk \cup {None}]
      BY <1>2, <1>3 DEF Doing, Frees, Allocates
    <3>2. op'[t] \in [pc : Allocates, ch : Chunk, old : Chunk \cup {None}]
      BY <1>4, <3>1
    <3> QED BY <3>2 DEF Doing
  <2>2. op' \in [Thread -> {Idle} \cup Doing]
    <3>1. op \in [Thread -> {Idle} \cup Doing] /\ op' = [op EXCEPT ![t].pc = pc]
      BY <1>1 DEF Types, Goto
    <3> QED BY <1>4, <2>1, <3>1
  <2> QED BY <1>1, <1>5, <2>2 DEF Types, Value
<1>10. \A x \in Held : x # ch => Undisturbed(x)
  BY <1>1, <1>3, OthersUndisturbed
<1>11. GoneWhileFreed' /\ Wiped'
  BY <1>1, <1>2, <1>4, <1>6, FreesKept
<1>12. /\ \A x \in live : ObjectShadow(x)'
       /\ \A x : x = op[t].old /\ x # None => OldShadow(x)'
       /\ \A u \in Busy' \ {t} : 
            /\ op'[u].old # None => OldShadow(op[u].old)'
            /\ OwnShadow(op[u].ch, op[u].pc)'
  BY <1>3, <1>4, <1>10, ShadowsKept
<1>13. ShadowOfLive'
  BY <1>12 DEF ShadowOfLive
<1>14. ShadowOfOps'
  <2> SUFFICES ASSUME NEW u \in Busy'
               PROVE (/\ op[u].old # None => OldShadow(op[u].old)
                      /\ OwnShadow(op[u].ch, op[u].pc))'
    BY DEF ShadowOfOps
  <2>1. CASE u # t
    BY <1>12, <2>1
  <2>2. CASE u = t
    <3>1. PICK y : y = op[t].old
      OBVIOUS
    <3>2. op'[t].old = y /\ (y # None => OldShadow(y)')
      BY <1>6, <1>12, <3>1
    <3> QED BY <1>6, <2>2, <3>2 DEF OwnShadow, OldShadow, Clear, Ends, Dark
  <2> QED BY <2>1, <2>2
<1> QED BY <1>7, <1>8, <1>9, <1>11, <1>13, <1>14 DEF FrontInv

(* OnMap poisons the pages of the new chunk.                               *)
LEMMA OnMapStep ==
  ASSUME FrontInv, NEW t \in Thread, OnMap(t)
  PROVE  FrontInv'
<1> DEFINE ch == op[t].ch
           cells == CellsOf(PagesOf(ch))
<1>1. /\ process = "runs" /\ op[t].pc = "poison" 
      /\ Touch(cells, Fill(cells, Poison) /\ Goto(t, "check") /\ UNCHANGED <<mapped, spent, live>>)
      /\ UNCHANGED <<lower, upper, pos, wiped>>
  BY DEF OnMap, At, OnMapPages
<1>2. Types /\ shadow \in [Cell -> Value]
  BY DEF FrontInv, Types, Value
<1>3. CASE process' = "faulted" /\ UNCHANGED <<shadow, mapped, spent, live, op>>
  BY <1>1, <1>3, Faulted
<1>4. CASE /\ Fill(cells, Poison) /\ Goto(t, "check")
           /\ UNCHANGED <<mapped, spent, live, process>>
  <2>1. PICK x : x = ch
    OBVIOUS
  <2>2. Fill(CellsOf(PagesOf(x)), Poison)
    BY <1>4, <2>1
  <2>3. /\ shadow' \in [Cell -> Value]
        /\ \A c \in Cell : shadow'[c] = IF c \in CellsOf(PagesOf(x)) THEN Poison ELSE shadow[c]
    BY <1>2, <2>2, ValueFacts, Filled
  <2>4. OwnShadow(x, "check")'
    BY <2>3 DEF OwnShadow, Dark, CellsOf
  <2>5. \A c \in Cell : shadow'[c] = Gone => shadow[c] = Gone
    BY <2>3, ValueFacts
  <2> QED BY <1>1, <1>4, <2>1, <2>3, <2>4, <2>5, OwnStep DEF Allocates
<1> QED BY <1>1, <1>3, <1>4 DEF Touch

(* The second look at the shadow poisons them again or finds them          *)
(* poisoned.                                                               *)
LEMMA PoisonAgainStep ==
  ASSUME FrontInv, NEW t \in Thread, PoisonAgain(t)
  PROVE  FrontInv'
<1> DEFINE ch == op[t].ch
           first == ch.beg \div Granule
           cells == CellsIn(ch.beg, GetActuallyAllocatedSize(ch))
<1>1. /\ process = "runs" /\ op[t].pc = "check" 
      /\ Touch(IF shadow[first] = 0 THEN cells ELSE {first},
               /\ IF shadow[first] = 0 THEN Fill(cells, Poison) ELSE UNCHANGED shadow
               /\ Goto(t, "unpoison")
               /\ UNCHANGED <<mapped, spent, live>>)
      /\ UNCHANGED <<lower, upper, pos, wiped>>
  BY DEF PoisonAgain, At
<1>2. Types /\ shadow \in [Cell -> Value]
  BY DEF FrontInv, Types, Value
<1>3. CASE process' = "faulted" /\ UNCHANGED <<shadow, mapped, spent, live, op>>
  BY <1>1, <1>3, Faulted
<1>4. CASE /\ IF shadow[first] = 0 THEN Fill(cells, Poison) ELSE UNCHANGED shadow
           /\ Goto(t, "unpoison")
           /\ UNCHANGED <<mapped, spent, live, process>>
  <2>1. PICK x : x = ch
    OBVIOUS
  <2>2. Placed(x) /\ Dark(x, {})
    BY <1>1, <1>2, <2>1, Hands DEF FrontInv, ShadowOfOps, OwnShadow
  <2>3. CellsIn(x.beg, GetActuallyAllocatedSize(x)) \subseteq CellsOf(PagesOf(x))
    <3>1. /\ x.beg \in Nat /\ GetActuallyAllocatedSize(x) \in Nat \ {0} /\ x.beg % Granule = 0
          /\ End(x) = x.beg + GetActuallyAllocatedSize(x)
      BY <2>2, ChunkBounds DEF End
    <3>2. x.beg <= x.beg /\ x.beg + GetActuallyAllocatedSize(x) <= End(x)
      <4> DEFINE s == GetActuallyAllocatedSize(x)
      <4>1. s \in Nat /\ x.beg \in Nat /\ End(x) = x.beg + s
        BY <3>1
      <4> HIDE DEF s
      <4>2. x.beg <= x.beg /\ x.beg + s <= End(x)
        BY ONLY <4>1
      <4> QED BY <4>2 DEF s
    <3> QED BY <2>2, <3>1, <3>2, CellsInside
  <2>4. \/ Fill(CellsIn(x.beg, GetActuallyAllocatedSize(x)), Poison)
        \/ shadow' = shadow
    BY <1>4, <2>1
  <2>5. /\ shadow' \in [Cell -> Value]
        /\ \A c \in Cell : 
             shadow'[c] = shadow[c] \/ (c \in CellsOf(PagesOf(x)) /\ shadow'[c] = Poison)
    BY <1>2, <2>3, <2>4, ValueFacts, Filled
  <2>6. OwnShadow(x, "unpoison")'
    <3>1. \A c \in CellsOf(PagesOf(x)) : c \in Cell
      BY DEF CellsOf
    <3> QED BY <1>1, <2>2, <2>5, <3>1 DEF OwnShadow, Dark
  <2>7. \A c \in Cell : shadow'[c] = Gone => shadow[c] = Gone
    BY <2>5, ValueFacts
  <2> QED BY <1>1, <1>4, <2>1, <2>5, <2>6, <2>7, OwnStep DEF Allocates
<1> QED BY <1>1, <1>3, <1>4 DEF Touch

(* The whole granules of the object are cleared.                           *)
LEMMA UnpoisonStep ==
  ASSUME FrontInv, NEW t \in Thread, Unpoison(t)
  PROVE  FrontInv'
<1> DEFINE ch == op[t].ch
           cells == WholeCells(ch)
<1>1. /\ process = "runs" /\ op[t].pc = "unpoison" 
      /\ UNCHANGED <<lower, upper, pos, wiped>>
  BY DEF Unpoison, At
<1>2. Types /\ shadow \in [Cell -> Value]
  BY DEF FrontInv, Types, Value
<1>3. Placed(ch) /\ Fits(ch)
  BY <1>1, <1>2, Hands DEF Placed, Fits
<1>4. Touch(cells, Fill(cells, 0) /\ Goto(t, "partial") /\ UNCHANGED <<mapped, spent, live>>)
  BY <1>3 DEF Unpoison
<1>5. CASE process' = "faulted" /\ UNCHANGED <<shadow, mapped, spent, live, op>>
  BY <1>1, <1>5, Faulted
<1>6. CASE /\ Fill(cells, 0) /\ Goto(t, "partial")
           /\ UNCHANGED <<mapped, spent, live, process>>
  <2>1. PICK x : x = ch
    OBVIOUS
  <2>2. Placed(x) /\ Dark(x, {}) /\ WholeCells(x) \subseteq CellsOf(PagesOf(x))
    BY <1>1, <1>2, <2>1, Hands, ObjectCells DEF FrontInv, ShadowOfOps, OwnShadow
  <2>3. Fill(WholeCells(x), 0)
    BY <1>6, <2>1
  <2>4. /\ shadow' \in [Cell -> Value]
        /\ \A c \in Cell : shadow'[c] = IF c \in WholeCells(x) THEN 0 ELSE shadow[c]
    BY <1>2, <2>3, ValueFacts, Filled
  <2>5. OwnShadow(x, "partial")'
    <3>1. \A c \in CellsOf(PagesOf(x)) : c \in Cell
      BY DEF CellsOf
    <3> QED BY <1>1, <2>2, <2>4, <3>1 DEF OwnShadow, Clear, Dark
  <2>6. \A c \in Cell : shadow'[c] = Gone => shadow[c] = Gone
    BY <2>4, ValueFacts
  <2>7. \A c \in Cell \ CellsOf(PagesOf(x)) : shadow'[c] = shadow[c]
    BY <2>2, <2>4
  <2> QED BY <1>1, <1>6, <2>1, <2>4, <2>5, <2>6, <2>7, OwnStep DEF Allocates
<1> QED BY <1>1, <1>4, <1>5, <1>6 DEF Touch

----------------------------------------------------------------------------
(* The steps of a free.                                                    *)

(* Who holds a chunk.                                                      *)
LEMMA InHeld ==
  /\ \A x : x \in Held <=> 
       x \in live \/ \E u \in Busy : op[u].ch = x \/ (op[u].old = x /\ x # None)
  /\ \A x : x \in Held' <=> 
       x \in live' \/ \E u \in Busy' : op'[u].ch = x \/ (op'[u].old = x /\ x # None)
  BY DEF Held, Old

(* One thread's operation is replaced.                                     *)
LEMMA OpChanged ==
  ASSUME Types, NEW t \in Thread, NEW v \in {Idle} \cup Doing, op' = [op EXCEPT ![t] = v]
  PROVE  /\ op' \in [Thread -> {Idle} \cup Doing]
         /\ op'[t] = v /\ \A u \in Thread \ {t} : op'[u] = op[u]
         /\ v = Idle => Busy' = Busy \ {t}
         /\ v.pc # "idle" => Busy' = Busy \cup {t}
<1>1. op \in [Thread -> {Idle} \cup Doing]
  BY DEF Types
<1>2. /\ op' \in [Thread -> {Idle} \cup Doing]
      /\ op'[t] = v /\ \A u \in Thread \ {t} : op'[u] = op[u]
  BY <1>1
<1>3. v = Idle => v.pc = "idle"
  BY DEF Idle
<1> QED BY <1>2, <1>3 DEF Busy

(* A free unmaps the shadow in its window, also that of neighbours: it is  *)
(* missing from then on, and the granules count as wiped.                  *)
LEMMA UnmapShadowStep ==
  ASSUME FrontInv, NEW t \in Thread, NEW ch, UnmapShadow(t, ch),
         \/ op[t].pc = "idle" /\ ch \in live /\ live' = live \ {ch}
         \/ op[t].pc = "free" /\ ch = op[t].ch /\ live' = live
  PROVE  FrontInv'
<1> DEFINE v == [pc |-> "remap", ch |-> ch, old |-> None]
<1>1. Types /\ Ranges /\ NeverUsed /\ OneHand /\ Apart /\ DanglingTraps 
      /\ GoneWhileFreed /\ Wiped /\ ShadowOfLive /\ ShadowOfOps
  BY DEF FrontInv
<1>2. /\ Fill(Window(ch), Gone) /\ wiped' = wiped \cup Window(ch)
      /\ op' = [op EXCEPT ![t] = v]
      /\ UNCHANGED <<mapped, spent, lower, upper, pos, process>>
  BY DEF UnmapShadow
<1>3. ch \in Held /\ Placed(ch) /\ (op[t].pc = "free" => t \in Busy /\ op[t].old = None)
  <2>1. CASE op[t].pc = "idle" /\ ch \in live /\ live' = live \ {ch}
    BY <1>1, <2>1 DEF Types, Held
  <2>2. CASE op[t].pc = "free" /\ ch = op[t].ch
    BY <1>1, <2>2, Hands DEF Frees
  <2> QED BY <2>1, <2>2
<1>4. v \in Doing /\ v.pc = "remap" /\ v.ch = ch /\ v.old = None
  BY <1>3 DEF Placed, Doing, Frees
<1> HIDE DEF v
<1>5. /\ op' \in [Thread -> {Idle} \cup Doing]
      /\ op'[t] = v /\ \A u \in Thread \ {t} : op'[u] = op[u]
      /\ Busy' = Busy \cup {t}
  BY <1>1, <1>2, <1>4, OpChanged
<1>6. /\ shadow' \in [Cell -> Value]
      /\ \A c \in Cell : shadow'[c] = IF c \in Window(ch) THEN Gone ELSE shadow[c]
  BY <1>1, <1>2, ValueFacts, Filled DEF Types, Value
<1>7. Window(ch) \subseteq Cell
  BY <1>3, WindowInShadow
<1>8. t \in Busy <=> op[t].pc = "free"
  BY DEF Busy
<1>9. Held' = Held
  <2>1. ASSUME NEW x \in Held' PROVE x \in Held
    <3>1. CASE x \in live'
      BY <3>1, InHeld
    <3>2. ASSUME NEW u \in Busy', op'[u].ch = x \/ (op'[u].old = x /\ x # None)
          PROVE  x \in Held
      <4>1. CASE u = t
        BY <1>3, <1>4, <1>5, <3>2, <4>1
      <4>2. CASE u # t
        BY <1>5, <3>2, <4>2, InHeld DEF Busy
      <4> QED BY <4>1, <4>2
    <3> QED BY <2>1, <3>1, <3>2, InHeld
  <2>2. ASSUME NEW x \in Held PROVE x \in Held'
    <3>1. CASE x \in live
      BY <1>4, <1>5, <3>1, InHeld
    <3>2. ASSUME NEW u \in Busy, op[u].ch = x \/ (op[u].old = x /\ x # None)
          PROVE  x \in Held'
      <4>1. CASE u = t
        BY <1>3, <1>4, <1>5, <1>8, <3>2, <4>1, InHeld
      <4>2. CASE u # t
        BY <1>5, <3>2, <4>2, InHeld DEF Busy
      <4> QED BY <4>1, <4>2
    <3> QED BY <3>1, <3>2, InHeld
  <2> QED BY <2>1, <2>2
<1>10. Types' /\ Ranges' /\ NeverUsed' /\ Apart' /\ DanglingTraps'
  <2>1. Types'
    BY <1>1, <1>2, <1>5, <1>6, <1>9 DEF Types, Value
  <2>2. Ranges' /\ NeverUsed'
    BY <1>1, <1>2, SpaceKept
  <2>3. Apart' /\ DanglingTraps'
    BY <1>1, <1>2, <1>9 DEF Apart, DanglingTraps
  <2> QED BY <2>1, <2>2, <2>3
<1>11. OneHand'
  <2>1. \A u \in Busy \ {t} : op[u].ch # ch /\ (op[u].old # None => op[u].old # ch)
    BY <1>1, <1>8 DEF OneHand
  <2>2. \A u \in Busy \ {t} : op'[u] = op[u]
    BY <1>5 DEF Busy
  <2>3. live' \subseteq live /\ ch \notin live'
    BY <1>1, <1>8 DEF OneHand
  <2> QED BY <1>1, <1>4, <1>5, <2>1, <2>2, <2>3 DEF OneHand
<1>12. GoneWhileFreed'
  <2> SUFFICES ASSUME NEW c \in Cell, shadow'[c] = Gone
               PROVE  c \in wiped' /\ \E u \in Busy' : op'[u].pc = "remap" /\ c \in Window(op'[u].ch)
    BY DEF GoneWhileFreed
  <2>1. CASE c \in Window(ch)
    BY <1>2, <1>4, <1>5, <2>1
  <2>2. CASE c \notin Window(ch)
    <3>1. c \in wiped /\ \E u \in Busy : op[u].pc = "remap" /\ c \in Window(op[u].ch)
      BY <1>1, <1>6, <2>2 DEF GoneWhileFreed
    <3>2. PICK u \in Busy : op[u].pc = "remap" /\ c \in Window(op[u].ch)
      BY <3>1
    <3>3. u \in Busy' /\ op'[u] = op[u]
      BY <1>5, <3>2 DEF Busy
    <3> QED BY <1>2, <3>1, <3>2, <3>3
  <2> QED BY <2>1, <2>2
<1>13. Wiped'
  <2> SUFFICES ASSUME NEW u \in Busy', op'[u].pc = "remap"
               PROVE  Window(op'[u].ch) \subseteq wiped'
    BY DEF Wiped
  <2>1. CASE u = t
    BY <1>2, <1>4, <1>5, <2>1
  <2>2. CASE u # t
    <3>1. u \in Busy /\ op'[u] = op[u]
      BY <1>5, <2>2 DEF Busy
    <3> QED BY <1>1, <1>2, <3>1 DEF Wiped
  <2> QED BY <2>1, <2>2
<1>14. ShadowOfLive' /\ ShadowOfOps'
  <2>1. \A x \in Held : Undisturbed(x)
    <3>1. \A c \in Cell : shadow'[c] = shadow[c] \/ (c \in wiped' /\ shadow'[c] = Gone)
      BY <1>2, <1>6
    <3> QED BY <3>1 DEF Undisturbed, CellsOf
  <2>2. /\ \A x \in live : ObjectShadow(x)'
        /\ \A u \in Busy' \ {t} : 
             /\ op'[u].old # None => OldShadow(op[u].old)'
             /\ OwnShadow(op[u].ch, op[u].pc)'
    BY <1>2, <1>5, <2>1, ShadowsKept
  <2>3. ShadowOfLive'
    BY <2>2 DEF ShadowOfLive
  <2>4. ShadowOfOps'
    <3>1. op'[t].old = None /\ OwnShadow(op[t].ch, op[t].pc)'
      BY <1>4, <1>5 DEF OwnShadow
    <3> QED BY <2>2, <3>1 DEF ShadowOfOps
  <2> QED BY <2>3, <2>4
<1> QED BY <1>10, <1>11, <1>12, <1>13, <1>14 DEF FrontInv

(* The shadow is mapped again, as zeros, which no object minds.            *)
LEMMA MapShadowStep ==
  ASSUME FrontInv, NEW t \in Thread, MapShadow(t)
  PROVE  FrontInv'
<1>1. Types /\ Ranges /\ NeverUsed /\ OneHand /\ Apart /\ DanglingTraps 
      /\ GoneWhileFreed /\ Wiped /\ ShadowOfLive /\ ShadowOfOps
  BY DEF FrontInv
<1>2. /\ op[t].pc = "remap" /\ Fill(Window(op[t].ch), 0) /\ Goto(t, "release")
      /\ UNCHANGED <<mapped, spent, lower, upper, pos, live, wiped, process>>
  BY DEF MapShadow, At
<1>3. t \in Busy /\ op[t] \in Doing /\ op[t].old = None
  BY <1>1, <1>2, Hands DEF Frees
<1>4. /\ SameHands
      /\ op'[t] = [op[t] EXCEPT !.pc = "release"]
      /\ \A u \in Thread \ {t} : op'[u] = op[u]
  BY <1>1, <1>2, GotoHands
<1>5. Held' = Held /\ Busy' = Busy
  BY <1>4, SameHandsHeld DEF SameHands
<1>6. op'[t].pc = "release" /\ op'[t].ch = op[t].ch /\ op'[t].old = None
  BY <1>3, <1>4 DEF Doing
<1>7. /\ shadow' \in [Cell -> Value]
      /\ \A c \in Cell : shadow'[c] = IF c \in Window(op[t].ch) THEN 0 ELSE shadow[c]
  BY <1>1, <1>2, ValueFacts, Filled DEF Types, Value
<1>8. Types' /\ Ranges' /\ NeverUsed' /\ OneHand' /\ Apart' /\ DanglingTraps'
  <2>1. op'[t] \in Doing
    <3>1. op[t] \in [pc : Frees, ch : Chunk, old : {None}]
      BY <1>2, <1>3 DEF Doing, Frees, Allocates
    <3>2. op'[t] \in [pc : Frees, ch : Chunk, old : {None}]
      BY <1>4, <3>1 DEF Frees
    <3> QED BY <3>2 DEF Doing
  <2>2. op' \in [Thread -> {Idle} \cup Doing]
    <3>1. op \in [Thread -> {Idle} \cup Doing] /\ op' = [op EXCEPT ![t].pc = "release"]
      BY <1>1, <1>2 DEF Types, Goto
    <3> QED BY <1>4, <2>1, <3>1
  <2>3. Types'
    BY <1>1, <1>2, <1>5, <1>7, <2>2 DEF Types, Value
  <2> QED BY <1>1, <1>2, <1>4, <2>3, SpaceKept, SameHandsHeld
<1>9. GoneWhileFreed'
  <2> SUFFICES ASSUME NEW c \in Cell, shadow'[c] = Gone
               PROVE  c \in wiped' /\ \E u \in Busy' : op'[u].pc = "remap" /\ c \in Window(op'[u].ch)
    BY DEF GoneWhileFreed
  <2>1. c \notin Window(op[t].ch) /\ shadow[c] = Gone
    BY <1>7, ValueFacts
  <2>2. c \in wiped /\ \E u \in Busy : op[u].pc = "remap" /\ c \in Window(op[u].ch)
    BY <1>1, <2>1 DEF GoneWhileFreed
  <2>3. PICK u \in Busy : op[u].pc = "remap" /\ c \in Window(op[u].ch)
    BY <2>2
  <2>4. u \in Busy' /\ op'[u] = op[u]
    BY <1>4, <1>5, <2>1, <2>3 DEF Busy
  <2> QED BY <1>2, <2>2, <2>3, <2>4
<1>10. Wiped'
  <2> SUFFICES ASSUME NEW u \in Busy', op'[u].pc = "remap"
               PROVE  Window(op'[u].ch) \subseteq wiped'
    BY DEF Wiped
  <2>1. u \in Busy /\ op'[u] = op[u]
    BY <1>4, <1>5, <1>6 DEF Busy
  <2> QED BY <1>1, <1>2, <2>1 DEF Wiped
<1>11. ShadowOfLive' /\ ShadowOfOps'
  <2>1. \A x \in Held : Undisturbed(x)
    <3>1. Window(op[t].ch) \subseteq wiped
      BY <1>1, <1>2, <1>3 DEF Wiped
    <3>2. \A c \in Cell : shadow'[c] = shadow[c] \/ (c \in wiped' /\ shadow'[c] = 0)
      BY <1>2, <1>7, <3>1
    <3> QED BY <3>2 DEF Undisturbed, CellsOf
  <2>2. /\ \A x \in live : ObjectShadow(x)'
        /\ \A u \in Busy' \ {t} : 
             /\ op'[u].old # None => OldShadow(op[u].old)'
             /\ OwnShadow(op[u].ch, op[u].pc)'
    BY <1>2, <1>4, <2>1, ShadowsKept
  <2>3. ShadowOfLive'
    BY <1>2, <2>2 DEF ShadowOfLive
  <2>4. ShadowOfOps'
    <3>1. op'[t].old = None /\ OwnShadow(op[t].ch, op[t].pc)'
      BY <1>6 DEF OwnShadow
    <3> QED BY <2>2, <3>1 DEF ShadowOfOps
  <2> QED BY <2>3, <2>4
<1> QED BY <1>8, <1>9, <1>10, <1>11 DEF FrontInv

(* The memory loses its access, and its pages are not handed out again.    *)
LEMMA ReleaseStep ==
  ASSUME FrontInv, NEW t \in Thread, Release(t)
  PROVE  FrontInv'
<1> DEFINE cells == IF op[t].ch.primary THEN {} ELSE CellsOf(PagesOf(op[t].ch))
           pages == PagesOf(op[t].ch)
<1>1. Types /\ Ranges /\ NeverUsed /\ OneHand /\ Apart /\ DanglingTraps 
      /\ GoneWhileFreed /\ Wiped /\ ShadowOfLive /\ ShadowOfOps
  BY DEF FrontInv
<1>2. /\ process = "runs" /\ op[t].pc = "release" 
      /\ Touch(cells, /\ Fill(cells, 0)
                      /\ mapped' = mapped \ pages /\ spent' = spent \cup pages
                      /\ op' = [op EXCEPT ![t] = Idle]
                      /\ UNCHANGED live)
      /\ UNCHANGED <<lower, upper, pos>>
      /\ wiped' = IF process' = "runs" THEN wiped \cup cells ELSE wiped
  BY DEF Release, At, ReleasedPages
<1>3. CASE process' = "faulted" /\ UNCHANGED <<shadow, mapped, spent, live, op>>
  <2>1. wiped' = wiped
    BY <1>2, <1>3
  <2> QED BY <1>2, <1>3, <2>1, Faulted
<1>4. CASE /\ Fill(cells, 0)
           /\ mapped' = mapped \ pages /\ spent' = spent \cup pages
           /\ op' = [op EXCEPT ![t] = Idle]
           /\ UNCHANGED <<live, process>>
  <2>1. wiped' = wiped \cup cells
    BY <1>2, <1>4
  <2>2. t \in Busy /\ op[t].ch \in Held /\ op[t].old = None
    BY <1>1, <1>2, Hands DEF Frees
  <2>3. PICK ch : ch = op[t].ch
    OBVIOUS
  <2>4. cells \subseteq CellsOf(PagesOf(ch)) /\ pages = PagesOf(ch)
    BY <2>3
  <2> HIDE DEF cells, pages
  <2>5. /\ op' \in [Thread -> {Idle} \cup Doing]
        /\ op'[t] = Idle /\ \A u \in Thread \ {t} : op'[u] = op[u]
        /\ Busy' = Busy \ {t}
    BY <1>1, <1>4, OpChanged
  <2>6. op'[t].pc = "idle"
    BY <2>5 DEF Idle
  <2>7. /\ shadow' \in [Cell -> Value]
        /\ \A c \in Cell : shadow'[c] = IF c \in cells THEN 0 ELSE shadow[c]
    BY <1>1, <1>4, ValueFacts, Filled DEF Types, Value
  <2>8. \A u \in Busy \ {t} : u \in Thread /\ op'[u] = op[u]
    BY <2>5 DEF Busy
  <2>9. ch \notin live /\ \A u \in Busy \ {t} : op[u].ch # ch /\ (op[u].old # None => op[u].old # ch)
    BY <1>1, <2>2, <2>3 DEF OneHand
  <2>10. Held' = Held \ {ch}
    <3>1. ASSUME NEW x \in Held' PROVE x \in Held /\ x # ch
      <4>1. CASE x \in live'
        BY <1>4, <2>9, <4>1, InHeld
      <4>2. ASSUME NEW u \in Busy', op'[u].ch = x \/ (op'[u].old = x /\ x # None)
            PROVE  x \in Held /\ x # ch
        BY <2>5, <2>8, <2>9, <4>2, InHeld
      <4> QED BY <3>1, <4>1, <4>2, InHeld
    <3>2. ASSUME NEW x \in Held, x # ch PROVE x \in Held'
      <4>1. CASE x \in live
        BY <1>4, <4>1, InHeld
      <4>2. ASSUME NEW u \in Busy, op[u].ch = x \/ (op[u].old = x /\ x # None)
            PROVE  x \in Held'
        <5>1. u # t
          BY <2>2, <2>3, <3>2, <4>2
        <5> QED BY <2>5, <2>8, <4>2, <5>1, InHeld
      <4> QED BY <3>2, <4>1, <4>2, InHeld
    <3> QED BY <3>1, <3>2
  <2>11. pages \subseteq mapped
    BY <1>1, <2>2, <2>3, <2>4 DEF DanglingTraps
  <2>12. Types'
    <3>1. mapped' \subseteq Nat /\ spent' \subseteq Nat
      BY <1>1, <1>4, <2>11 DEF Types
    <3> QED BY <1>1, <1>4, <2>5, <2>7, <2>10, <3>1 DEF Types, Value
  <2>13. Ranges' /\ NeverUsed'
    <3>1. \A u \in Thread : Fresh(u)' = Fresh(u)
      BY <1>2 DEF Fresh
    <3>2. Unclaimed' = Unclaimed
      BY <1>2 DEF Unclaimed
    <3>3. Ranges'
      BY <1>1, <1>2, <3>1 DEF Ranges
    <3>4. mapped' \cup spent' = mapped \cup spent /\ mapped' \cap spent' = {}
      BY <1>1, <1>4, <2>11 DEF NeverUsed
    <3> QED BY <1>1, <3>1, <3>2, <3>3, <3>4 DEF NeverUsed
  <2>14. OneHand'
    BY <1>1, <1>4, <2>5, <2>8 DEF OneHand
  <2>15. Apart'
    BY <1>1, <2>10 DEF Apart
  <2>16. DanglingTraps'
    <3>1. \A x \in Held' : PagesOf(x) \cap pages = {}
      BY <1>1, <2>2, <2>3, <2>4, <2>10 DEF Apart
    <3>2. mapped' = UNION {PagesOf(x) : x \in Held'}
      <4>1. mapped = UNION {PagesOf(x) : x \in Held}
        BY <1>1 DEF DanglingTraps
      <4> QED BY <1>4, <2>4, <2>10, <3>1, <4>1
    <3> QED BY <3>2 DEF DanglingTraps
  <2>17. GoneWhileFreed' /\ Wiped'
    <3>1. \A c \in Cell : shadow'[c] = Gone => shadow[c] = Gone
      BY <2>7, ValueFacts
    <3> QED BY <1>1, <1>2, <2>1, <2>5, <2>6, <3>1, FreesKept
  <2>18. ShadowOfLive' /\ ShadowOfOps'
    <3>1. \A x \in Held : Undisturbed(x)
      <4>1. \A c \in Cell : shadow'[c] = shadow[c] \/ (c \in wiped' /\ shadow'[c] = 0)
        BY <2>1, <2>7
      <4> QED BY <4>1 DEF Undisturbed, CellsOf
    <3>2. /\ \A x \in live : ObjectShadow(x)'
          /\ \A u \in Busy' \ {t} : 
               /\ op'[u].old # None => OldShadow(op[u].old)'
               /\ OwnShadow(op[u].ch, op[u].pc)'
      BY <2>1, <2>5, <3>1, ShadowsKept
    <3> QED BY <1>4, <2>5, <3>2 DEF ShadowOfLive, ShadowOfOps
  <2> QED BY <2>12, <2>13, <2>14, <2>15, <2>16, <2>17, <2>18 DEF FrontInv
<1> QED BY <1>2, <1>3, <1>4 DEF Touch

----------------------------------------------------------------------------
(* The last step of an allocation.                                         *)
LEMMA PublishStep ==
  ASSUME FrontInv, NEW t \in Thread, Publish(t)
  PROVE  FrontInv'
<1> DEFINE cells == LastCell(op[t].ch)
           v == IF op[t].old = None THEN Idle
                ELSE [pc |-> "free", ch |-> op[t].old, old |-> None]
<1>1. Types /\ Ranges /\ NeverUsed /\ OneHand /\ Apart /\ DanglingTraps 
      /\ GoneWhileFreed /\ Wiped /\ ShadowOfLive /\ ShadowOfOps
  BY DEF FrontInv
<1>2. /\ process = "runs" /\ op[t].pc = "partial" 
      /\ Touch(cells, /\ Fill(cells, LastBytes(op[t].ch))
                      /\ live' = live \cup {op[t].ch}
                      /\ op' = [op EXCEPT ![t] = v]
                      /\ UNCHANGED <<mapped, spent>>)
      /\ UNCHANGED <<lower, upper, pos, wiped>>
  <2>1. op' = [op EXCEPT ![t] = IF @.old = None THEN Idle
                                ELSE [pc |-> "free", ch |-> @.old, old |-> None]]
        => op' = [op EXCEPT ![t] = v]
    OBVIOUS
  <2> QED BY <2>1 DEF Publish, At, LastCell, Touch
<1>3. CASE process' = "faulted" /\ UNCHANGED <<shadow, mapped, spent, live, op>>
  BY <1>2, <1>3, Faulted
<1>4. CASE /\ Fill(cells, LastBytes(op[t].ch))
           /\ live' = live \cup {op[t].ch}
           /\ op' = [op EXCEPT ![t] = v]
           /\ UNCHANGED <<mapped, spent, process>>
  <2>1. PICK ch, old : ch = op[t].ch /\ old = op[t].old
    OBVIOUS
  <2>2. /\ t \in Busy /\ ch \in Held /\ Placed(ch)
        /\ (old # None => old \in Held /\ Placed(old))
    BY <1>1, <1>2, <2>1, Hands
  <2>3. /\ cells = LastCell(ch) /\ LastCell(ch) \subseteq CellsOf(PagesOf(ch))
        /\ LastBytes(ch) \in Value /\ LastBytes(ch) # Gone
        /\ WholeCells(ch) \cap LastCell(ch) = {}
    BY <2>1, <2>2, ObjectCells, ValueFacts
  <2>4. /\ v \in {Idle} \cup Doing
        /\ old = None => v = Idle
        /\ old # None => v = [pc |-> "free", ch |-> old, old |-> None]
    BY <2>1, <2>2 DEF Placed, Doing, Frees
  <2> HIDE DEF cells, v
  <2>5. /\ op' \in [Thread -> {Idle} \cup Doing]
        /\ op'[t] = v /\ \A u \in Thread \ {t} : op'[u] = op[u]
    BY <1>1, <1>4, <2>4, OpChanged
  <2>6. /\ old = None => Busy' = Busy \ {t} /\ op'[t].pc = "idle"
        /\ old # None => Busy' = Busy /\ op'[t].pc = "free" /\ op'[t].ch = old /\ op'[t].old = None
    <3>1. CASE old = None
      BY <1>1, <1>4, <2>4, <2>5, <3>1, OpChanged DEF Idle
    <3>2. CASE old # None
      <4>1. v.pc = "free" /\ v.ch = old /\ v.old = None
        BY <2>4, <3>2
      <4>2. v.pc # "idle"
        BY <4>1
      <4>3. Busy' = Busy \cup {t}
        BY <1>1, <1>4, <2>4, <4>2, OpChanged
      <4> QED BY <2>2, <2>5, <4>1, <4>3, <3>2
    <3> QED BY <3>1, <3>2
  <2>7. op'[t].pc # "remap"
    BY <2>6
  <2>8. /\ shadow' \in [Cell -> Value]
        /\ \A c \in Cell : shadow'[c] = IF c \in LastCell(ch) THEN LastBytes(ch) ELSE shadow[c]
    BY <1>1, <1>4, <2>1, <2>3, Filled DEF Types, Value
  <2>9. \A u \in Busy \ {t} : u \in Thread /\ op'[u] = op[u]
    BY <2>5 DEF Busy
  <2>10. live' = live \cup {ch}
    BY <1>4, <2>1
  <2>11. Held' = Held
    <3>1. ASSUME NEW x \in Held' PROVE x \in Held
      <4>1. CASE x \in live'
        BY <2>2, <2>10, <4>1, InHeld
      <4>2. ASSUME NEW u \in Busy', op'[u].ch = x \/ (op'[u].old = x /\ x # None)
            PROVE  x \in Held
        <5>1. CASE u = t
          BY <2>2, <2>6, <4>2, <5>1
        <5>2. CASE u # t
          BY <2>6, <2>9, <4>2, <5>2, InHeld
        <5> QED BY <5>1, <5>2
      <4> QED BY <3>1, <4>1, <4>2, InHeld
    <3>2. ASSUME NEW x \in Held PROVE x \in Held'
      <4>1. CASE x \in live
        BY <2>10, <4>1, InHeld
      <4>2. ASSUME NEW u \in Busy, op[u].ch = x \/ (op[u].old = x /\ x # None)
            PROVE  x \in Held'
        <5>1. CASE u = t
          <6>1. CASE x = ch
            BY <2>10, <6>1, InHeld
          <6>2. CASE x = old /\ x # None
            BY <2>2, <2>6, <6>2, InHeld
          <6> QED BY <2>1, <4>2, <5>1, <6>1, <6>2
        <5>2. CASE u # t
          BY <2>6, <2>9, <4>2, <5>2, InHeld
        <5> QED BY <5>1, <5>2
      <4> QED BY <3>2, <4>1, <4>2, InHeld
    <3> QED BY <3>1, <3>2
  <2>12. Types' /\ Ranges' /\ NeverUsed' /\ Apart' /\ DanglingTraps'
    <3>1. Types'
      BY <1>1, <1>4, <2>5, <2>8, <2>11 DEF Types, Value
    <3>2. Ranges' /\ NeverUsed'
      BY <1>1, <1>2, <1>4, SpaceKept
    <3>3. Apart' /\ DanglingTraps'
      BY <1>1, <1>4, <2>11 DEF Apart, DanglingTraps
    <3> QED BY <3>1, <3>2, <3>3
  <2>13. OneHand'
    <3>1. /\ \A u \in Busy \ {t} : op[u].ch # ch /\ (op[u].old # None => op[u].old # ch)
          /\ old # None => 
               /\ old \notin live /\ old # ch
               /\ \A u \in Busy \ {t} : op[u].ch # old /\ (op[u].old # None => op[u].old # old)
      BY <1>1, <2>1, <2>2 DEF OneHand
    <3>2. CASE old = None
      BY <1>1, <2>6, <2>9, <2>10, <3>1, <3>2 DEF OneHand
    <3>3. CASE old # None
      BY <1>1, <2>6, <2>9, <2>10, <3>1, <3>3 DEF OneHand
    <3> QED BY <3>2, <3>3
  <2>14. GoneWhileFreed' /\ Wiped'
    <3>1. \A c \in Cell : shadow'[c] = Gone => shadow[c] = Gone
      BY <2>3, <2>8
    <3>2. op[t].pc # "remap" /\ wiped \subseteq wiped'
      BY <1>2
    <3> QED BY <1>1, <2>5, <2>7, <3>1, <3>2, FreesKept
  <2>15. \A x \in Held : x # ch => Undisturbed(x)
    <3>1. \A c \in Cell \ CellsOf(PagesOf(ch)) : shadow'[c] = shadow[c]
      BY <2>3, <2>8
    <3> QED BY <1>1, <2>2, <3>1, OthersUndisturbed
  <2>16. /\ \A x \in live : ObjectShadow(x)'
         /\ \A x : x = op[t].old /\ x # None => OldShadow(x)'
         /\ \A u \in Busy' \ {t} : 
              /\ op'[u].old # None => OldShadow(op[u].old)'
              /\ OwnShadow(op[u].ch, op[u].pc)'
    BY <1>2, <2>1, <2>2, <2>5, <2>15, ShadowsKept
  <2>17. ShadowOfLive'
    <3>1. Clear(ch) /\ Dark(ch, WholeCells(ch))
      BY <1>1, <1>2, <2>1, <2>2 DEF ShadowOfOps, OwnShadow
    <3>2. \A c \in CellsOf(PagesOf(ch)) : c \in Cell
      BY DEF CellsOf
    <3>3. WholeCells(ch) \subseteq CellsOf(PagesOf(ch))
      BY <2>2, ObjectCells
    <3>4. Clear(ch)'
      BY <2>3, <2>8, <3>1, <3>2, <3>3 DEF Clear
    <3>5. Ends(ch)' /\ Edge(ch)'
      BY <2>3, <2>8, <3>2 DEF Ends, Edge
    <3>6. Dark(ch, WholeCells(ch) \cup LastCell(ch))'
      BY <1>2, <2>8, <3>1, <3>2 DEF Dark
    <3>7. ObjectShadow(ch)'
      BY <3>4, <3>5, <3>6 DEF ObjectShadow
    <3> QED BY <2>10, <2>16, <3>7 DEF ShadowOfLive
  <2>18. ShadowOfOps'
    <3>1. t \in Busy' => op'[t].old = None /\ OwnShadow(op[t].ch, op[t].pc)'
      BY <2>6 DEF OwnShadow, Busy
    <3> QED BY <2>16, <3>1 DEF ShadowOfOps
  <2> QED BY <2>12, <2>13, <2>14, <2>17, <2>18 DEF FrontInv
<1> QED BY <1>2, <1>3, <1>4 DEF Touch

----------------------------------------------------------------------------
(* The first step of an allocation.                                        *)

(* Division of what may be negative.                                       *)
LEMMA DivBelow ==
  ASSUME NEW n \in Nat \ {0}, NEW x \in Int
  PROVE  x \div n \in Int /\ n * (x \div n) <= x
  OBVIOUS

(* A thread's range is below the part of the region nobody has.            *)
LEMMA FreshBounds ==
  ASSUME Ranges
  PROVE  /\ pos \div PageSize \in Nat /\ RegionSize \div PageSize \in Nat
         /\ pos \div PageSize <= RegionSize \div PageSize
         /\ \A u \in Thread : 
              /\ lower[u] \in Nat /\ upper[u] \in Nat
              /\ lower[u] \div PageSize \in Nat /\ upper[u] \div PageSize \in Nat
              /\ upper[u] \div PageSize <= pos \div PageSize
<1>1. pos \in Nat /\ pos <= RegionSize
  BY DEF Ranges
<1>2. /\ pos \div PageSize \in Nat /\ RegionSize \div PageSize \in Nat
      /\ pos \div PageSize <= RegionSize \div PageSize
  BY <1>1, Sizes, DivMod, DivMonotone
<1>3. ASSUME NEW u \in Thread
      PROVE  /\ lower[u] \in Nat /\ upper[u] \in Nat
             /\ lower[u] \div PageSize \in Nat /\ upper[u] \div PageSize \in Nat
             /\ upper[u] \div PageSize <= pos \div PageSize
  <2>1. lower[u] \in Nat /\ upper[u] \in Nat /\ upper[u] <= pos
    BY DEF Ranges
  <2> QED BY <1>1, <2>1, Sizes, DivMod, DivMonotone
<1> QED BY <1>2, <1>3

(* Every aligned address is a granule's, and so is a chunk's stride away.  *)
LEMMA StrideFacts ==
  /\ Stride \in Nat \ {0} /\ Stride % Granule = 0 /\ Stride = ClassSize + RedZone
  /\ pos \in Nat /\ pos % RangeSize = 0 => pos % PageSize = 0 /\ pos % Granule = 0
<1>1. Stride \in Nat \ {0} /\ Stride % Granule = 0 /\ Stride = ClassSize + RedZone
  <2>1. /\ Granule \in Nat \ {0} /\ ClassSize \in Nat /\ ClassSize % Granule = 0
        /\ RedZone \in Nat /\ RedZone % Granule = 0
    BY Sizes, SizesAssumption
  <2>2. (ClassSize + RedZone) % Granule = 0
    BY ONLY <2>1, MultiplesAdd
  <2> QED BY <2>2, Sizes DEF Stride
<1>2. ASSUME pos \in Nat, pos % RangeSize = 0 
      PROVE  pos % PageSize = 0 /\ pos % Granule = 0
  <2>1. RangeSize % PageSize = 0 /\ RangeSize % Granule = 0
    BY SizesAssumption, WholeSizes
  <2>2. pos % PageSize = 0
    BY <1>2, <2>1, Sizes, MultipleOfMultiple
  <2>3. pos % Granule = 0
    BY <1>2, <2>1, Sizes, MultipleOfMultiple
  <2> QED BY <2>2, <2>3
<1> QED BY <1>1, <1>2

(* The pages of a chunk of the size class at beg, in a range up to end.    *)
LEMMA ClassPages ==
  ASSUME NEW beg \in Nat, NEW end \in Nat, end % PageSize = 0, beg + ClassSize <= end
  PROVE  /\ beg \div PageSize \in Nat /\ end \div PageSize \in Nat
         /\ (beg + Stride) \div PageSize \in Nat
         /\ beg \div PageSize <= (beg + Stride) \div PageSize
         /\ \A p \in PagesIn(beg, ClassSize) : 
              /\ p \in Nat /\ beg \div PageSize <= p /\ p < end \div PageSize 
              /\ p < (beg + Stride) \div PageSize
<1> DEFINE y == beg + ClassSize - 1
           z == beg + Stride
<1>1. y \in Nat /\ z \in Nat /\ y < end /\ y + PageSize <= z /\ beg <= z
  <2>1. PageSize <= RedZone
    BY SizesAssumption
  <2> QED BY <2>1, Sizes, StrideFacts
<1>2. PagesIn(beg, ClassSize) = (beg \div PageSize)..(y \div PageSize)
  BY DEF PagesIn
<1> HIDE DEF y, z
<1>3. y \div PageSize < end \div PageSize
  BY <1>1, Sizes, DivLess
<1>4. y \div PageSize < z \div PageSize
  BY <1>1, Sizes, DivLess
<1>5. beg \div PageSize <= z \div PageSize
  BY <1>1, Sizes, DivMonotone
<1>6. /\ beg \div PageSize \in Nat /\ end \div PageSize \in Nat
      /\ y \div PageSize \in Nat /\ z \div PageSize \in Nat
  BY <1>1, Sizes, DivMod
<1> DEFINE a == beg \div PageSize
           b == end \div PageSize
           i == y \div PageSize
           j == z \div PageSize
<1>7. /\ a \in Nat /\ b \in Nat /\ i \in Nat /\ j \in Nat /\ i < b /\ i < j /\ a <= j
      /\ PagesIn(beg, ClassSize) = a..i
  BY <1>2, <1>3, <1>4, <1>5, <1>6
<1> HIDE DEF a, b, i, j
<1>8. /\ a \in Nat /\ b \in Nat /\ j \in Nat /\ a <= j
      /\ \A p \in PagesIn(beg, ClassSize) : p \in Nat /\ a <= p /\ p < b /\ p < j
  BY <1>7
<1> QED BY <1>8 DEF a, b, j, z

(* What an allocation of the primary allocator takes.                      *)
Taken(t, x, old) ==
  /\ Placed(x)
  /\ PagesOf(x) \cap (mapped \cup spent) = {}
  /\ mapped' = mapped \cup PagesOf(x)
  /\ op' = [op EXCEPT ![t] = [pc |-> "poison", ch |-> x, old |-> old]]

(* The primary allocator takes pages that were never used, from the        *)
(* thread's range or, for the range, from the region.                      *)
LEMMA FromPrimaryTakes ==
  ASSUME Ranges, NeverUsed, NEW t \in Thread, 
         NEW r \in Nat \X Nat, r[2] < Granule \/ r[2] % Granule = 0,
         NEW old, FromPrimary(t, r, old), spent' = spent
  PROVE  Ranges' /\ NeverUsed' /\ \E x : Taken(t, x, old)
<1> DEFINE beg == IF HasRoom(t) THEN lower[t] ELSE pos
           x == NewChunk(beg, r)
<1>1. /\ CanAllocate(Padded(r)) /\ (HasRoom(t) \/ pos < RegionSize)
      /\ op' = [op EXCEPT ![t] = [pc |-> "poison", ch |-> x, old |-> old]]
      /\ mapped' = mapped \cup PagesOf(x)
      /\ lower' = [lower EXCEPT ![t] = beg + Stride]
      /\ HasRoom(t) => UNCHANGED <<upper, pos>>
      /\ ~HasRoom(t) => upper' = [upper EXCEPT ![t] = pos + RangeSize] /\ pos' = pos + RangeSize
  BY DEF FromPrimary, Place
<1>2. PagesOf(x) = PagesIn(beg, ClassSize)
  BY <1>1 DEF PagesOf, NewChunk
<1>3. /\ lower \in [Thread -> Nat] /\ upper \in [Thread -> Nat]
      /\ pos \in Nat /\ pos <= RegionSize /\ pos % RangeSize = 0
      /\ \A u \in Thread : lower[u] % Granule = 0 /\ upper[u] % PageSize = 0 /\ upper[u] <= pos
  BY DEF Ranges
<1>4. pos % PageSize = 0 /\ pos % Granule = 0 /\ Stride \in Nat /\ Stride % Granule = 0
  BY <1>3, StrideFacts
<1>5. /\ beg \in Nat /\ beg % Granule = 0 
      /\ beg + Stride \in Nat /\ (beg + Stride) % Granule = 0
  <2>1. beg \in Nat /\ beg % Granule = 0
    BY <1>3, <1>4
  <2> HIDE DEF beg
  <2> QED BY <1>4, <2>1, Sizes, MultiplesAdd
<1>6. ~HasRoom(t) => 
        /\ pos + RangeSize \in Nat /\ pos + RangeSize <= RegionSize
        /\ (pos + RangeSize) % RangeSize = 0 /\ (pos + RangeSize) % PageSize = 0
  <2> SUFFICES ASSUME ~HasRoom(t)
      PROVE /\ pos + RangeSize \in Nat /\ pos + RangeSize <= RegionSize
            /\ (pos + RangeSize) % RangeSize = 0 /\ (pos + RangeSize) % PageSize = 0
    OBVIOUS
  <2>1. RegionSize % RangeSize = 0 /\ RangeSize % PageSize = 0
    BY SizesAssumption
  <2>2. RangeSize % RangeSize = 0
    BY Sizes
  <2>3. pos + RangeSize <= RegionSize
    BY <1>1, <1>3, <2>1, Sizes, MultiplesApart
  <2>4. (pos + RangeSize) % RangeSize = 0
    <3>1. /\ RangeSize \in Nat \ {0} /\ RangeSize \in Nat /\ pos \in Nat /\ pos % RangeSize = 0
      BY <1>3, Sizes
    <3> QED BY ONLY <2>2, <3>1, MultiplesAdd
  <2>5. (pos + RangeSize) % PageSize = 0
    <3>1. /\ PageSize \in Nat \ {0} /\ RangeSize \in Nat /\ pos \in Nat /\ pos % PageSize = 0
      BY <1>3, <1>4, Sizes
    <3> QED BY ONLY <2>1, <3>1, MultiplesAdd
  <2> QED BY <1>3, <2>3, <2>4, <2>5, Sizes
<1> DEFINE end == upper'[t]
<1>7. /\ end \in Nat /\ end % PageSize = 0 /\ beg + ClassSize <= end
      /\ end <= pos' /\ pos' \in Nat /\ pos' <= RegionSize /\ pos' % RangeSize = 0 /\ pos <= pos'
      /\ upper' \in [Thread -> Nat] /\ lower' \in [Thread -> Nat] /\ lower'[t] = beg + Stride
      /\ \A u \in Thread \ {t} : upper'[u] = upper[u] /\ lower'[u] = lower[u]
  <2>1. CASE HasRoom(t)
    BY <1>1, <1>3, <1>5, <2>1 DEF HasRoom
  <2>2. CASE ~HasRoom(t)
    <3>1. ClassSize <= RangeSize
      BY SizesAssumption
    <3> QED BY <1>1, <1>3, <1>5, <1>6, <2>2, <3>1, Sizes
  <2> QED BY <2>1, <2>2
<1>8. /\ beg \div PageSize \in Nat /\ end \div PageSize \in Nat
      /\ (beg + Stride) \div PageSize \in Nat
      /\ beg \div PageSize <= (beg + Stride) \div PageSize
      /\ \A p \in PagesOf(x) : 
           /\ p \in Nat /\ beg \div PageSize <= p /\ p < end \div PageSize 
           /\ p < (beg + Stride) \div PageSize
  <2> HIDE DEF beg, end, x
  <2> QED BY <1>2, <1>5, <1>7, ClassPages
<1>9. Placed(x)
  <2>1. beg + ClassSize <= RegionSize
    BY <1>5, <1>7, Sizes
  <2> HIDE DEF beg
  <2>2. Placed(NewChunk(beg, r))
    BY <1>1, <1>5, <2>1, RequestFits
  <2> QED BY <2>2
<1>10. /\ pos' \div PageSize \in Nat /\ pos \div PageSize <= pos' \div PageSize
       /\ end \div PageSize <= pos' \div PageSize
       /\ pos' \div PageSize <= RegionSize \div PageSize
  <2> DEFINE q == pos'
  <2>1. q \in Nat /\ pos <= q /\ end <= q /\ q <= RegionSize
    BY <1>7
  <2> HIDE DEF q, end
  <2>2. q \div PageSize \in Nat /\ pos \div PageSize <= q \div PageSize
       /\ end \div PageSize <= q \div PageSize
       /\ q \div PageSize <= RegionSize \div PageSize
    BY <1>3, <1>7, <2>1, Sizes, DivMod, DivMonotone
  <2> QED BY <2>2 DEF q
<1>11. /\ \A u \in Thread \ {t} : Fresh(u)' = Fresh(u)
       /\ Fresh(t)' = ((beg + Stride) \div PageSize)..(end \div PageSize - 1)
  BY <1>7 DEF Fresh
<1>12. Unclaimed' \subseteq Unclaimed
  BY <1>10, FreshBounds DEF Unclaimed
(* The pages come from the thread's range or from the rest of the region.  *)
<1> DEFINE from == IF HasRoom(t) THEN Fresh(t) ELSE Unclaimed
<1>13. PagesOf(x) \subseteq from /\ Fresh(t)' \subseteq from /\ Fresh(t)' \cap PagesOf(x) = {}
  <2>1. from = (beg \div PageSize)..((IF HasRoom(t) THEN end \div PageSize
                                      ELSE RegionSize \div PageSize) - 1)
    <3>1. HasRoom(t) => end = upper[t]
      BY <1>1
    <3> QED BY <3>1 DEF Fresh, Unclaimed
  <2>2. /\ end \div PageSize <= RegionSize \div PageSize
        /\ RegionSize \div PageSize \in Nat
    BY <1>8, <1>10, FreshBounds
  <2> HIDE DEF beg, end, from, x
  <2> QED BY <1>8, <1>11, <2>1, <2>2
<1>14. /\ from \cap (mapped \cup spent) = {}
       /\ \A u \in Thread \ {t} : Fresh(u) \cap from = {}
       /\ Unclaimed' \cap PagesOf(x) = {} /\ Unclaimed' \cap Fresh(t)' = {}
  <2>1. from \cap (mapped \cup spent) = {}
    BY DEF NeverUsed
  <2>2. \A u \in Thread : Fresh(u) \cap Unclaimed = {}
    BY FreshBounds DEF Fresh, Unclaimed
  <2>3. \A u \in Thread \ {t} : Fresh(u) \cap from = {}
    BY <2>2 DEF Ranges
  <2>4. \A p \in Unclaimed' : p \in Nat /\ end \div PageSize <= p
    BY <1>8, <1>10, FreshBounds DEF Unclaimed
  <2>5. \A p \in PagesOf(x) \cup Fresh(t)' : p \in Nat /\ p < end \div PageSize
    <3> HIDE DEF beg, end, x
    <3> QED BY <1>8, <1>11
  <2>6. Unclaimed' \cap PagesOf(x) = {} /\ Unclaimed' \cap Fresh(t)' = {}
    <3> HIDE DEF end, x
    <3> QED BY <1>8, <2>4, <2>5
  <2> QED BY <2>1, <2>3, <2>6
<1> HIDE DEF from, beg, x, end
<1>15. Ranges'
  <2>1. \A u \in Thread : 
          lower'[u] % Granule = 0 /\ upper'[u] % PageSize = 0 /\ upper'[u] <= pos'
    <3> SUFFICES ASSUME NEW u \in Thread
                 PROVE  lower'[u] % Granule = 0 /\ upper'[u] % PageSize = 0 /\ upper'[u] <= pos'
      OBVIOUS
    <3>1. CASE u = t
      BY <1>5, <1>7, <3>1 DEF end
    <3>2. CASE u # t
      <4>1. /\ lower[u] % Granule = 0 /\ upper[u] % PageSize = 0 
            /\ upper[u] <= pos /\ upper[u] \in Nat /\ pos <= pos' /\ pos' \in Nat
            /\ lower'[u] = lower[u] /\ upper'[u] = upper[u]
        BY <1>3, <1>7, <3>2
      <4> QED BY <1>3, <4>1
    <3> QED BY <3>1, <3>2
  <2>2. \A u, w \in Thread : u # w => Fresh(u)' \cap Fresh(w)' = {}
    <3> SUFFICES ASSUME NEW u \in Thread, NEW w \in Thread, u # w
                 PROVE  Fresh(u)' \cap Fresh(w)' = {}
      OBVIOUS
    <3>1. \A y, z \in Thread \ {t} : y # z => Fresh(y) \cap Fresh(z) = {}
      BY DEF Ranges
    <3>2. \A y \in Thread \ {t} : Fresh(y)' = Fresh(y) /\ Fresh(y) \cap Fresh(t)' = {}
      BY <1>11, <1>13, <1>14
    <3>3. CASE u = t
      BY <3>2, <3>3
    <3>4. CASE w = t
      BY <3>2, <3>4
    <3>5. CASE u # t /\ w # t
      BY <3>1, <3>2, <3>5
    <3> QED BY <3>3, <3>4, <3>5
  <2> QED BY <1>7, <2>1, <2>2 DEF Ranges
<1>16. PagesOf(x) \cap (mapped \cup spent) = {}
  BY <1>13, <1>14
<1>17. NeverUsed'
  <2>1. mapped' \cap spent' = {}
    BY <1>1, <1>16 DEF NeverUsed
  <2>2. Unclaimed' \cap (mapped' \cup spent') = {}
    BY <1>1, <1>12, <1>14 DEF NeverUsed
  <2>3. \A u \in Thread : Fresh(u)' \cap (mapped' \cup spent') = {}
    <3> SUFFICES ASSUME NEW u \in Thread 
                 PROVE  Fresh(u)' \cap (mapped' \cup spent') = {}
      OBVIOUS
    <3>1. CASE u = t
      BY <1>1, <1>13, <1>14, <3>1
    <3>2. CASE u # t
      BY <1>1, <1>11, <1>13, <1>14, <3>2 DEF NeverUsed
    <3> QED BY <3>1, <3>2
  <2> QED BY <2>1, <2>2, <2>3 DEF NeverUsed
<1> QED BY <1>1, <1>9, <1>15, <1>16, <1>17 DEF Taken

(* The secondary allocator takes pages nobody has had.                     *)
LEMMA FromSecondaryTakes ==
  ASSUME Ranges, NeverUsed, NEW t \in Thread, 
         NEW r \in Nat \X Nat, r[2] < Granule \/ r[2] % Granule = 0,
         NEW old, FromSecondary(t, r, old), spent' = spent
  PROVE  Ranges' /\ NeverUsed' /\ \E x : Taken(t, x, old)
<1> DEFINE whole == RoundUpTo(Needed(r), PageSize)
           map_size == whole + PageSize
<1>1. /\ ~CanAllocate(Padded(r))
      /\ \E page \in (RegionSize \div PageSize)..((RegionSize + MmapSize - map_size) \div PageSize) :
           /\ PagesIn(page * PageSize, map_size) \cap (mapped \cup spent) = {}
           /\ Place(t, r, (page + 1) * PageSize, old)
      /\ UNCHANGED <<lower, upper, pos>>
  BY DEF FromSecondary
<1>2. PICK page \in (RegionSize \div PageSize)..((RegionSize + MmapSize - map_size) \div PageSize) :
           /\ PagesIn(page * PageSize, map_size) \cap (mapped \cup spent) = {}
           /\ Place(t, r, (page + 1) * PageSize, old)
  BY <1>1
<1> DEFINE first == page * PageSize
           beg == (page + 1) * PageSize
           x == NewChunk(beg, r)
<1>3. Needed(r) \in Nat
  BY Sizes, RequestNeeds
<1>4. whole \in Nat
  BY <1>3, Sizes, RoundUpBounds
<1>5. RegionSize \div PageSize \in Nat /\ RegionSize = PageSize * (RegionSize \div PageSize)
  BY Sizes, WholeSizes, Multiple
<1> HIDE DEF whole
<1>6. /\ page \in Nat /\ RegionSize \div PageSize <= page
      /\ PageSize * page <= RegionSize + MmapSize - map_size
  <2> DEFINE d == RegionSize + MmapSize - map_size
             q == d \div PageSize
             a == RegionSize \div PageSize
  <2>1. d \in Int
    BY <1>4, Sizes
  <2> HIDE DEF d
  <2>2. q \in Int /\ PageSize * q <= d
    BY <2>1, Sizes, DivBelow
  <2>3. page \in a..q
    BY <1>2 DEF d
  <2>4. a \in Nat
    BY <1>5
  <2> HIDE DEF q, a
  <2>5. page \in Nat /\ a <= page /\ page <= q
    BY <2>2, <2>3, <2>4
  <2>6. PageSize * page <= PageSize * q /\ PageSize * page \in Nat /\ PageSize * q \in Int
    BY <2>2, <2>5, Sizes
  <2> QED BY <2>1, <2>2, <2>5, <2>6 DEF d, a
<1>7. first \in Nat /\ first = PageSize * page /\ beg = first + PageSize /\ beg \in Nat 
      /\ RegionSize <= first
  <2> DEFINE a == RegionSize \div PageSize
  <2>1. a \in Nat /\ RegionSize = PageSize * a /\ a <= page
    BY <1>5, <1>6
  <2> HIDE DEF a
  <2>2. PageSize * a <= PageSize * page
    BY <1>6, <2>1, Sizes
  <2> QED BY <1>6, <2>1, <2>2, Sizes
<1>8. beg % PageSize = 0 /\ first \div PageSize = page
  BY <1>6, Sizes, Product
<1> HIDE DEF first, beg
<1>9. beg % Granule = 0
  BY <1>7, <1>8, Sizes, SizesAssumption, MultipleOfMultiple
<1>10. RegionSize + PageSize <= beg /\ beg + whole <= RegionSize + MmapSize
  BY <1>4, <1>6, <1>7, Sizes
<1>11. Placed(x)
  BY <1>1, <1>7, <1>8, <1>9, <1>10, RequestFits DEF whole
<1>12. PagesOf(x) = PagesIn(first, map_size)
  <2>1. ~x.primary /\ x.beg = beg /\ x.needed = Needed(r)
    BY <1>1 DEF NewChunk
  <2>2. beg - PageSize = first
    BY <1>7, Sizes
  <2> QED BY <2>1, <2>2 DEF PagesOf, whole
<1>13. /\ PagesOf(x) \cap (mapped \cup spent) = {}
       /\ mapped' = mapped \cup PagesOf(x)
       /\ op' = [op EXCEPT ![t] = [pc |-> "poison", ch |-> x, old |-> old]]
  BY <1>2, <1>12 DEF Place, first, beg
<1>14. \A p \in PagesOf(x) : p \in Nat /\ RegionSize \div PageSize <= p
  <2>1. PagesOf(x) = page..((first + map_size - 1) \div PageSize)
    BY <1>8, <1>12 DEF PagesIn
  <2>2. first + map_size - 1 \in Nat
    BY <1>4, <1>7, Sizes
  <2>3. (first + map_size - 1) \div PageSize \in Nat
    BY <2>2, Sizes, DivMod
  <2> QED BY <1>5, <1>6, <2>1, <2>3
<1> HIDE DEF x
<1>15. Ranges' /\ NeverUsed'
  <2>1. (\A u \in Thread : Fresh(u)' = Fresh(u)) /\ Unclaimed' = Unclaimed
    BY <1>1 DEF Fresh, Unclaimed
  <2>2. Ranges'
    BY <1>1, <2>1 DEF Ranges
  <2>3. (\A u \in Thread : Fresh(u) \cap PagesOf(x) = {}) /\ Unclaimed \cap PagesOf(x) = {}
    BY <1>14, FreshBounds DEF Fresh, Unclaimed
  <2> QED BY <1>13, <2>1, <2>2, <2>3 DEF NeverUsed
<1> QED BY <1>11, <1>13, <1>15 DEF Taken

(* A thread takes up a new chunk, and with realloc an object of the        *)
(* program's.                                                              *)
LEMMA AllocateStep ==
  ASSUME FrontInv, NEW t \in Thread, op[t].pc = "idle",
         NEW r \in Nat \X Nat, r[2] < Granule \/ r[2] % Granule = 0,
         NEW old, Allocate(t, r, old),
         \/ old = None /\ live' = live 
         \/ old # None /\ old \in live /\ live' = live \ {old}
  PROVE  FrontInv'
<1>1. Types /\ Ranges /\ NeverUsed /\ OneHand /\ Apart /\ DanglingTraps 
      /\ GoneWhileFreed /\ Wiped /\ ShadowOfLive /\ ShadowOfOps
  BY DEF FrontInv
<1>2. UNCHANGED <<shadow, spent, wiped, process>>
  BY DEF Allocate
<1>3. Ranges' /\ NeverUsed' /\ \E x : Taken(t, x, old)
  BY <1>1, <1>2, FromPrimaryTakes, FromSecondaryTakes DEF Allocate
<1>4. PICK x : Taken(t, x, old)
  BY <1>3
<1> DEFINE v == [pc |-> "poison", ch |-> x, old |-> old]
<1>5. /\ Placed(x) /\ PagesOf(x) \cap (mapped \cup spent) = {}
      /\ mapped' = mapped \cup PagesOf(x) /\ op' = [op EXCEPT ![t] = v]
  BY <1>4 DEF Taken
<1>6. old # None => old \in Held /\ Placed(old)
  BY <1>1 DEF Types, Held
<1>7. v \in Doing /\ v.pc = "poison" /\ v.ch = x /\ v.old = old
  BY <1>5, <1>6 DEF Placed, Doing, Allocates
<1> HIDE DEF v
<1>8. /\ op' \in [Thread -> {Idle} \cup Doing]
      /\ op'[t] = v /\ \A u \in Thread \ {t} : op'[u] = op[u]
      /\ Busy' = Busy \cup {t}
  BY <1>1, <1>5, <1>7, OpChanged
<1>9. t \notin Busy /\ \A u \in Busy : u \in Thread \ {t} /\ op'[u] = op[u]
  BY <1>8 DEF Busy
<1>10. PICK lo \in Nat, hi \in Nat : 
         PagesOf(x) = lo..hi /\ lo <= x.beg \div PageSize /\ hi = (End(x) - 1) \div PageSize
  BY <1>5, ChunkPages
<1>11. PagesOf(x) # {} /\ PagesOf(x) \subseteq Nat
  <2>1. x.beg \in Nat /\ x.beg < End(x)
    <3>1. x.beg \in Nat /\ x.user \in Nat /\ x.size \in Nat \ {0} /\ End(x) \in Nat
          /\ x.beg < x.user /\ x.user + x.size <= End(x)
      BY <1>5, ChunkBounds
    <3> QED BY ONLY <3>1
  <2>2. x.beg <= x.beg
    BY <2>1
  <2>3. x.beg \div PageSize \in PagesOf(x)
    BY <1>5, <2>1, <2>2, ChunkBytes
  <2> QED BY <1>10, <2>3
<1>12. \A y \in Held : y # x /\ PagesOf(y) \cap PagesOf(x) = {}
  <2>1. \A y \in Held : PagesOf(y) \subseteq mapped
    BY <1>1 DEF DanglingTraps
  <2> QED BY <1>5, <1>11, <2>1
<1>13. Held' = Held \cup {x}
  <2>1. ASSUME NEW y \in Held' PROVE y \in Held \cup {x}
    <3>1. CASE y \in live'
      BY <3>1, InHeld
    <3>2. ASSUME NEW u \in Busy', op'[u].ch = y \/ (op'[u].old = y /\ y # None)
          PROVE  y \in Held \cup {x}
      <4>1. CASE u = t
        BY <1>6, <1>7, <1>8, <3>2, <4>1
      <4>2. CASE u # t
        BY <1>8, <1>9, <3>2, <4>2, InHeld
      <4> QED BY <4>1, <4>2
    <3> QED BY <2>1, <3>1, <3>2, InHeld
  <2>2. ASSUME NEW y \in Held PROVE y \in Held'
    <3>1. CASE y \in live
      BY <1>7, <1>8, <3>1, InHeld
    <3>2. ASSUME NEW u \in Busy, op[u].ch = y \/ (op[u].old = y /\ y # None)
          PROVE  y \in Held'
      BY <1>8, <1>9, <3>2, InHeld
    <3> QED BY <2>2, <3>1, <3>2, InHeld
  <2>3. x \in Held'
    BY <1>7, <1>8, InHeld
  <2> QED BY <2>1, <2>2, <2>3
<1>14. Types'
  <2>1. mapped' \subseteq Nat
    BY <1>1, <1>5, <1>11 DEF Types
  <2> QED BY <1>1, <1>2, <1>5, <1>8, <1>13, <2>1 DEF Types
<1>15. Apart'
  BY <1>1, <1>12, <1>13 DEF Apart
<1>16. DanglingTraps'
  BY <1>1, <1>5, <1>13 DEF DanglingTraps
<1>17. OneHand'
  <2>1. \A u \in Busy : op[u].ch # x /\ (op[u].old # None => op[u].old # x)
    BY <1>12, InHeld
  <2>2. x \notin live /\ live' \subseteq live /\ (old # None => old \notin live' /\ old # x)
    BY <1>6, <1>12, InHeld
  <2>3. old # None => \A u \in Busy : op[u].ch # old /\ (op[u].old # None => op[u].old # old)
    BY <1>1 DEF OneHand
  <2> QED BY <1>1, <1>7, <1>8, <1>9, <2>1, <2>2, <2>3 DEF OneHand
<1>18. GoneWhileFreed' /\ Wiped'
  <2>1. op'[t].pc # "remap" /\ wiped \subseteq wiped'
        /\ \A c \in Cell : shadow'[c] = Gone => shadow[c] = Gone
    BY <1>2, <1>7, <1>8
  <2> QED BY <1>1, <1>8, <2>1, FreesKept
<1>19. ShadowOfLive' /\ ShadowOfOps'
  <2>1. \A y \in Held : Undisturbed(y)
    BY <1>2 DEF Undisturbed
  <2>2. /\ \A y \in live : ObjectShadow(y)'
        /\ \A u \in Busy' \ {t} : 
             /\ op'[u].old # None => OldShadow(op[u].old)'
             /\ OwnShadow(op[u].ch, op[u].pc)'
    BY <1>2, <1>8, <2>1, ShadowsKept
  <2>3. ShadowOfLive'
    BY <2>2 DEF ShadowOfLive
  <2>4. op'[t].old = old /\ OwnShadow(op[t].ch, op[t].pc)'
    BY <1>7, <1>8 DEF OwnShadow
  <2>5. old # None => OldShadow(old)'
    BY <2>2 DEF OldShadow, ObjectShadow
  <2>6. op'[t].old # None => OldShadow(op[t].old)'
    BY <2>4, <2>5 DEF OldShadow, Clear, Ends
  <2> QED BY <2>2, <2>3, <2>4, <2>6 DEF ShadowOfOps
<1> QED BY <1>3, <1>14, <1>15, <1>16, <1>17, <1>18, <1>19 DEF FrontInv

----------------------------------------------------------------------------
(* The invariant.                                                          *)

(* It holds before the first request.                                      *)
LEMMA InvInit == Init => FrontInv
<1> SUFFICES ASSUME Init PROVE FrontInv
  OBVIOUS
<1>1. /\ shadow = [c \in Cell |-> 0] /\ mapped = {} /\ spent = {}
      /\ lower = [t \in Thread |-> 0] /\ upper = [t \in Thread |-> 0] /\ pos = 0
      /\ live = {} /\ op = [t \in Thread |-> Idle] /\ wiped = {} /\ process = "runs"
  BY DEF Init
<1>2. Busy = {} /\ Old = {} /\ Held = {}
  <2>1. \A t \in Thread : op[t].pc = "idle"
    BY <1>1 DEF Idle
  <2>2. Busy = {}
    BY <2>1 DEF Busy
  <2> QED BY <1>1, <2>2 DEF Held, Old
<1>3. Types
  <2>1. shadow \in [Cell -> Value]
    BY <1>1, ValueFacts
  <2> QED BY <1>1, <1>2, <2>1 DEF Types, Value
<1>4. 0 % RangeSize = 0 /\ 0 % Granule = 0 /\ 0 % PageSize = 0 /\ 0 \div PageSize = 0
  BY Sizes
<1>5. \A t \in Thread : Fresh(t) = {}
  BY <1>1, <1>4 DEF Fresh
<1>6. Ranges
  BY <1>1, <1>4, <1>5, Sizes DEF Ranges
<1>7. NeverUsed
  BY <1>1 DEF NeverUsed
<1>8. OneHand /\ Apart /\ DanglingTraps
  BY <1>1, <1>2 DEF OneHand, Apart, DanglingTraps
<1>9. GoneWhileFreed /\ Wiped
  BY <1>1, <1>2, ValueFacts DEF GoneWhileFreed, Wiped
<1>10. ShadowOfLive /\ ShadowOfOps
  BY <1>1, <1>2 DEF ShadowOfLive, ShadowOfOps
<1> QED BY <1>3, <1>6, <1>7, <1>8, <1>9, <1>10 DEF FrontInv

(* Every step keeps it, whichever thread takes it.                         *)
LEMMA InvStep == FrontInv /\ [Next]_vars => FrontInv'
<1> SUFFICES ASSUME FrontInv, [Next]_vars PROVE FrontInv'
  OBVIOUS
<1>1. ASSUME NEW t \in Thread, Step(t) PROVE FrontInv'
  <2>1. CASE Malloc(t)
    <3>1. PICK r \in Request : Allocate(t, r, None)
      BY <2>1 DEF Malloc
    <3>2. r \in Nat \X Nat /\ (r[2] < Granule \/ r[2] % Granule = 0)
      BY SizesAssumption
    <3>3. op[t].pc = "idle" /\ live' = live
      BY <2>1 DEF Malloc, At
    <3> QED BY <3>1, <3>2, <3>3, AllocateStep
  <2>2. CASE Realloc(t)
    <3>1. PICK r \in Request, old \in live : 
            Allocate(t, <<r[1], Granule>>, old) /\ live' = live \ {old}
      BY <2>2 DEF Realloc
    <3>2. r \in Nat \X Nat
      BY SizesAssumption
    <3>3. /\ <<r[1], Granule>> \in Nat \X Nat /\ <<r[1], Granule>>[2] = Granule
          /\ Granule % Granule = 0
      BY <3>2, Sizes
    <3>4. op[t].pc = "idle"
      BY <2>2 DEF Realloc, At
    <3>5. old # None
      <4>1. old \in Chunk
        BY DEF FrontInv, Types, Held, Placed
      <4> QED BY <4>1 DEF Chunk, None
    <3> QED BY <3>1, <3>3, <3>4, <3>5, AllocateStep
  <2>3. CASE Exhausted(t)
    BY <2>3, Faulted DEF Exhausted
  <2>4. CASE OnMap(t)
    BY <2>4, OnMapStep
  <2>5. CASE PoisonAgain(t)
    BY <2>5, PoisonAgainStep
  <2>6. CASE Unpoison(t)
    BY <2>6, UnpoisonStep
  <2>7. CASE Publish(t)
    BY <2>7, PublishStep
  <2>8. CASE Free(t)
    <3>1. op[t].pc = "idle" /\ \E ch \in live : UnmapShadow(t, ch) /\ live' = live \ {ch}
      BY <2>8 DEF Free, At
    <3> QED BY <3>1, UnmapShadowStep
  <2>9. CASE FreeOld(t)
    <3>1. op[t].pc = "free" /\ UnmapShadow(t, op[t].ch) /\ live' = live
      BY <2>9 DEF FreeOld, At
    <3> QED BY <3>1, UnmapShadowStep
  <2>10. CASE MapShadow(t)
    BY <2>10, MapShadowStep
  <2>11. CASE Release(t)
    BY <2>11, ReleaseStep
  <2> QED BY <1>1, <2>1, <2>2, <2>3, <2>4, <2>5, <2>6, <2>7, <2>8, <2>9, <2>10, <2>11 DEF Step
<1>2. CASE UNCHANGED vars
  BY <1>2, Faulted DEF vars, FrontInv, Types
<1> QED BY <1>1, <1>2 DEF Next

(* The invariant holds, whatever allocations and frees are under way.      *)
THEOREM FrontInvariantHolds == Spec => []FrontInv
  BY InvInit, InvStep, PTL DEF Spec

----------------------------------------------------------------------------
(* What follows from it.                                                   *)

(* The types of the chunks follow from where they are placed.              *)
LEMMA InvTypeOK == FrontInv => TypeOK
<1> SUFFICES ASSUME FrontInv PROVE TypeOK
  OBVIOUS
<1>1. Types /\ NeverUsed
  BY DEF FrontInv
<1>2. ASSUME NEW ch \in Held PROVE ch.beg \in Byte /\ Window(ch) \subseteq Cell
  <2>1. Placed(ch)
    BY <1>1 DEF Types
  <2>2. ch.beg \in Nat /\ ch.beg < Total
    <3>1. ch.beg \in Nat /\ ch.user \in Nat /\ ch.size \in Nat \ {0} /\ End(ch) \in Nat
          /\ ch.beg < ch.user /\ ch.user + ch.size <= End(ch) /\ End(ch) <= Total /\ Total \in Nat
      BY <2>1, ChunkBounds, Sizes
    <3> QED BY ONLY <3>1
  <2>3. ch.beg \in Byte
    BY <2>2, Sizes DEF Byte, Total
  <2> QED BY <2>1, <2>3, WindowInShadow
<1> QED BY <1>1, <1>2 DEF TypeOK, Types, NeverUsed

(* So does that the objects are apart.                                     *)
LEMMA InvApart == FrontInv => ObjectsApart
<1> SUFFICES ASSUME FrontInv, NEW ch \in Held
             PROVE  /\ ch.beg + MetaSize <= ch.user
                    /\ ch.user + ch.size <= ch.beg + GetActuallyAllocatedSize(ch)
                    /\ \A other \in Held \ {ch} : PagesOf(ch) \cap PagesOf(other) = {}
  BY DEF ObjectsApart
<1>1. Placed(ch)
  BY DEF FrontInv, Types
<1>2. ch.beg + MetaSize <= ch.user /\ ch.user + ch.size <= ch.beg + GetActuallyAllocatedSize(ch)
  BY <1>1, ChunkBounds DEF End
<1> QED BY <1>2 DEF FrontInv, Apart

(* The shadow byte of an object's byte says addressable, or is missing.    *)
LEMMA InvAddressable == FrontInv => ObjectsAddressable
<1> SUFFICES ASSUME FrontInv, NEW ch \in live \cup Old, NEW b \in User(ch), Traps(b)
             PROVE  /\ shadow[b \div Granule] = Gone 
                    /\ \E t \in Busy : op[t].pc = "remap" /\ b \div Granule \in Window(op[t].ch)
  BY DEF ObjectsAddressable
<1> DEFINE c == b \div Granule
           s == shadow[c]
<1>1. Types /\ DanglingTraps /\ GoneWhileFreed /\ ShadowOfLive /\ ShadowOfOps
  BY DEF FrontInv
<1>2. ch \in Held /\ Placed(ch)
  BY <1>1 DEF Held, Types
<1>3. Clear(ch) /\ Ends(ch)
  <2>1. CASE ch \in live
    BY <1>1, <2>1 DEF ShadowOfLive, ObjectShadow
  <2>2. CASE ch \in Old
    <3>1. PICK t \in Busy : op[t].old = ch /\ ch # None
      BY <2>2 DEF Old
    <3> QED BY <1>1, <3>1 DEF ShadowOfOps, OldShadow
  <2> QED BY <2>1, <2>2
<1>4. /\ b \in Nat /\ ch.beg <= b /\ b < End(ch)
      /\ c \in WholeCells(ch) \/ (c \in LastCell(ch) /\ b % Granule < LastBytes(ch))
  BY <1>2, UserBytes
<1>5. b \div PageSize \in PagesOf(ch) /\ c \in Cell
  BY <1>2, <1>4, ChunkBytes DEF CellsOf
<1>6. b \div PageSize \in mapped
  BY <1>1, <1>2, <1>5 DEF DanglingTraps
<1> HIDE DEF c
<1>7. s = 0 \/ s = Gone \/ (s = LastBytes(ch) /\ b % Granule < LastBytes(ch))
  BY <1>3, <1>4 DEF Clear, Ends
<1>8. LastBytes(ch) \in 0..(Granule - 1) /\ b % Granule \in Nat
  BY <1>2, <1>4, ObjectCells, Sizes, DivMod
<1>9. s # 0 /\ (s = LastBytes(ch) /\ b % Granule < LastBytes(ch) => s = Gone \/ s = Poison)
  <2>1. \/ s = Gone \/ s = Poison
        \/ s > 0 /\ b % Granule >= s
    BY <1>6 DEF Traps, c
  <2> QED BY <1>8, <2>1 DEF Gone, Poison
<1>10. s = Gone
  <2>1. LastBytes(ch) # Poison
    BY <1>8, Sizes, SizesAssumption DEF Poison
  <2> QED BY <1>7, <1>9, <2>1
<1> QED BY <1>1, <1>5, <1>10 DEF GoneWhileFreed, c

(* A byte around an object has a poisoned granule, or lies behind the      *)
(* counted bytes of the last one.                                          *)
LEMMA InvMisses == FrontInv => MissesOnlyNearFrees
<1> SUFFICES ASSUME FrontInv, NEW ch \in live, NEW b \in BytesAround(ch), 
                    b \div Granule \notin wiped
             PROVE  Traps(b)
  BY DEF MissesOnlyNearFrees
<1> DEFINE c == b \div Granule
           s == shadow[c]
<1>1. Placed(ch) /\ ObjectShadow(ch)
  BY DEF FrontInv, ShadowOfLive, Types, Held
<1>2. b \in Nat /\ b < Total /\ b \notin User(ch) /\ b \div PageSize \in PagesOf(ch)
  <2>1. b \in Byte /\ b \notin User(ch) /\ b \div PageSize \in PagesOf(ch)
    BY DEF BytesAround
  <2> QED BY <2>1, Sizes DEF Byte, Total
<1>3. c \in CellsOf(PagesOf(ch))
  <2>1. c \in Cell /\ (c * Granule) \div PageSize = b \div PageSize
    BY <1>2, CellOfByte, CellPage
  <2> QED BY <1>2, <2>1 DEF CellsOf
<1>4. c \notin WholeCells(ch) /\ (c \in LastCell(ch) => LastBytes(ch) <= b % Granule)
  BY <1>1, <1>2, OtherBytes
<1>5. LastBytes(ch) \in Nat /\ (c \in LastCell(ch) => LastBytes(ch) # 0)
  BY <1>1, ObjectCells, Sizes DEF LastCell
<1>6. b % Granule \in Nat
  BY <1>2, Sizes, DivMod
<1> HIDE DEF c
<1>7. s = Poison \/ (c \in LastCell(ch) /\ s = LastBytes(ch))
  <2>1. c \notin wiped
    BY DEF c
  <2>2. CASE c \in LastCell(ch)
    BY <1>1, <2>1, <2>2 DEF ObjectShadow, Edge
  <2>3. CASE c \notin LastCell(ch)
    BY <1>1, <1>3, <1>4, <2>1, <2>3 DEF ObjectShadow, Dark
  <2> QED BY <2>2, <2>3
<1>8. s = Poison \/ (s > 0 /\ b % Granule >= s)
  BY <1>4, <1>5, <1>6, <1>7
<1> QED BY <1>8 DEF Traps, c

(* The types, and no CHECK of Allocate fails: Unpoison's object fits.      *)
THEOREM FrontTypesHold == Spec => []TypeOK
  BY FrontInvariantHolds, InvTypeOK, PTL

(* Objects lie behind their metadata in their chunks, and no two chunks    *)
(* share a page, with any number of threads, for all sizes.                *)
THEOREM TheObjectsAreApart == Spec => []ObjectsApart
  BY FrontInvariantHolds, InvApart, PTL

(* There are no false reports: an access to an object passes the check,    *)
(* unless a free has the object's page of shadow unmapped at that moment.  *)
THEOREM TheObjectsAreAddressable == Spec => []ObjectsAddressable
  BY FrontInvariantHolds, InvAddressable, PTL

(* A byte around an object traps unless a free replaced its shadow.        *)
THEOREM OnlyFreesCauseMisses == Spec => []MissesOnlyNearFrees
  BY FrontInvariantHolds, InvMisses, PTL

(* The accessible pages are those of the chunks in use, hence a pointer to *)
(* a freed object traps.                                                   *)
THEOREM DanglingPointersTrap == Spec => []DanglingTraps
<1>1. FrontInv => DanglingTraps
  BY DEF FrontInv
<1> QED BY <1>1, FrontInvariantHolds, PTL
=============================================================================
