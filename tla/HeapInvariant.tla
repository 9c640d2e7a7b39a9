--------------------------- MODULE HeapInvariant ---------------------------
(***************************************************************************)
(* The inductive invariant of AliasingHeap: TypeOK and the facts below, of *)
(* which the properties proved in HeapPages_proofs and HeapSlots_proofs    *)
(* follow.                                                                 *)
(***************************************************************************)
EXTENDS AliasingHeap

Mallocing == {t \in Thread : op[t].kind = "malloc"}
Freeing   == {t \in Thread : op[t].kind = "free"}

(* References lead to objects of the same Ppage: freed slots and map       *)
(* entries to existing objects, list headers and links to Vpages of the    *)
(* Ppage they belong to.                                                   *)
Links(nodes, p) == {Null, Wild} \cup {v \in DOMAIN nodes : nodes[v].page = p}

ListsOK == 
  /\ \A p \in DOMAIN ppage : /\ ppage[p].first \in Links(vpage, p) 
                             /\ ppage[p].last \in Links(vpage, p)
  /\ \A v \in DOMAIN vpage : /\ vpage[v].page \in DOMAIN ppage
                             /\ prev[v] \in Links(vpage, vpage[v].page)
                             /\ next[v] \in Links(vpage, vpage[v].page)

MapsOK == 
  /\ DOMAIN forkmap = DOMAIN pagemap
  /\ \A b \in DOMAIN forkmap : /\ pagemap[b] \in DOMAIN ppage
                               /\ forkmap[b] \in DOMAIN vpage
                               /\ vpage[forkmap[b]].page = pagemap[b]

FreedOK == 
  \A t \in Thread, c \in Class : 
    \A i \in DOMAIN free[t][c] : free[t][c][i].page \in DOMAIN ppage

IndexOK == FreedOK /\ ListsOK /\ MapsOK

TypeInv == TypeOK /\ IndexOK

(* A call works through its chunk from its first byte to its last; malloc  *)
(* takes the chunk from the range of the cache.                            *)
CallOK ==
  \A t \in Busy : 
    LET c == op[t].cls IN
    /\ op[t].vaddr >= op[t].beg
    /\ op[t].vaddr + op[t].remain = op[t].beg + ClassSize[c]
    /\ op[t].vaddr = op[t].beg \/ Aligned(op[t].vaddr) \/ op[t].remain = 0
    /\ op[t].kind = "malloc" => 
         /\ op[t].beg = lower[t][c]
         /\ op[t].beg + ClassSize[c] <= upper[t][c]

(* Addresses a cache may still hand out, and addresses of a region no      *)
(* cache has taken.                                                        *)
Fresh(t, c)  == RoundDownTo(lower[t][c])..(upper[t][c] - 1)
Unclaimed(c) == NextRange(c)..(RegionBegin(c + 1) - 1)

RangesOK == 
  \A c \in Class : /\ NextRange(c) >= RegionBegin(c)
                   /\ Aligned(NextRange(c))
                   /\ (NextRange(c) - RegionBegin(c)) % PopulateSize = 0

FreshDisjoint ==
  /\ \A t, u \in Thread, c, d \in Class : 
       <<t, c>> # <<u, d>> => Fresh(t, c) \cap Fresh(u, d) = {}
  /\ \A t \in Thread, c, d \in Class : Fresh(t, c) \cap Unclaimed(d) = {}

(* Pages that were handed out, and are not being handed out now.           *)
Settled == retired \cup (UNION {Pages(x) : x \in live})
                   \cup (UNION {Pages(InCall(t)) : t \in Freeing})

SettledApart ==
  /\ \A t \in Thread, c \in Class : Settled \cap Fresh(t, c) = {}
  /\ \A c \in Class : Settled \cap Unclaimed(c) = {}

SettledExclusive ==
  /\ \A x, y \in live : x # y => Pages(x) \cap Pages(y) = {}
  /\ \A t \in Freeing, x \in live : Pages(InCall(t)) \cap Pages(x) = {}
  /\ \A t, u \in Freeing : t # u => Pages(InCall(t)) \cap Pages(InCall(u)) = {}
  /\ \A x \in live : Pages(x) \cap retired = {}
  /\ \A t \in Freeing : Pages(InCall(t)) \cap retired = {}

(* The pages of a chunk that a call has still to come to, and those it has *)
(* worked through.                                                         *)
Ahead(t, b) == op[t].vaddr = op[t].beg \/ b >= op[t].vaddr
Reached(t) == {b \in Pages(InCall(t)) : b < op[t].vaddr /\ op[t].vaddr # op[t].beg}

(* A mapped page belongs to a chunk, or to the part of a chunk that malloc *)
(* has worked through.                                                     *)
MappedOwned ==
  \A b \in DOMAIN vm : \/ \E x \in live : b \in Pages(x)
                       \/ \E t \in Freeing : b \in Pages(InCall(t))
                       \/ \E t \in Mallocing : b \in Reached(t)

AddressInv == CallOK /\ RangesOK /\ FreshDisjoint /\ SettledApart 
              /\ SettledExclusive /\ MappedOwned

(* The bytes of chunk x in the page at b.                                  *)
SlotIn(x, b) == 
  LET from == IF x.beg < b THEN b ELSE x.beg
      to   == Least(x.beg + ClassSize[x.cls], b + PageSize)
  IN  Slot(from - b, to - from)

SameBytes(f, slot) == f.offset = slot.offset /\ f.size = slot.size

(* The slot held for a page is where the chunk of that page has its bytes. *)
HeldGeometry ==
  \A b \in DOMAIN held : 
    /\ held[b].size < PageSize
    /\ \A x \in live : b \in Pages(x) => SameBytes(held[b], SlotIn(x, b))
    /\ \A t \in Busy : 
         b \in Pages(InCall(t)) => SameBytes(held[b], SlotIn(InCall(t), b))

(* A registered page has a slot, of the Ppage it is registered for; a page *)
(* with a slot is registered, unless its chunk is being freed and the page *)
(* was dealt with.                                                         *)
Registered ==
  /\ DOMAIN pagemap \subseteq DOMAIN held
  /\ \A b \in DOMAIN pagemap : held[b].page = pagemap[b]
  /\ \A b \in DOMAIN held : 
       b \in DOMAIN pagemap \/ \E t \in Freeing : b \in Pages(InCall(t))
  /\ \A t \in Freeing : \A b \in Pages(InCall(t)) \cap DOMAIN pagemap : Ahead(t, b)

(* Nothing of a chunk is forgotten: its pages are mapped and those it only *)
(* has a part of are registered, as far as malloc has come and free has    *)
(* still to go.                                                            *)
Partial(x, b) == SlotIn(x, b).size < PageSize

Covered ==
  /\ \A x \in live : \A b \in Pages(x) : 
       b \in DOMAIN vm /\ (Partial(x, b) => b \in DOMAIN pagemap)
  /\ \A t \in Mallocing : \A b \in Reached(t) : 
       b \in DOMAIN vm /\ (Partial(InCall(t), b) => b \in DOMAIN pagemap)
  /\ \A t \in Freeing : \A b \in Pages(InCall(t)) : 
       Ahead(t, b) /\ Partial(InCall(t), b) => b \in DOMAIN pagemap

(* A Vpage is in use while Forkmap leads to it.  The links of those in use *)
(* lead to others in use and back, and so do the ends of a list that is    *)
(* not empty; but a list need not lead to all of its Ppage.                *)
InUse(v) == vpage[v].addr \in DOMAIN forkmap /\ forkmap[vpage[v].addr] = v

EntriesAgree == \A b \in DOMAIN forkmap : vpage[forkmap[b]].addr = b

LinksInUse ==
  \A v \in DOMAIN vpage : InUse(v) =>
    /\ next[v] \in {Null, Wild} \/ (InUse(next[v]) /\ prev[next[v]] = v)
    /\ prev[v] \in {Null, Wild} \/ (InUse(prev[v]) /\ next[prev[v]] = v)

EndsInUse ==
  \A p \in DOMAIN ppage : ppage[p].size > 0 =>
    /\ ppage[p].first = Null \/ (InUse(ppage[p].first) /\ prev[ppage[p].first] = Null)
    /\ ppage[p].last = Null \/ (InUse(ppage[p].last) /\ next[ppage[p].last] = Null)

(* The size of a vlist misses at most one page of its Ppage, so that the   *)
(* list passes for empty only if at most one is left.                      *)
RegisteredFor(p) == {b \in DOMAIN pagemap : pagemap[b] = p}

Counted ==
  \A p \in DOMAIN ppage : 
    /\ ppage[p].size \in Nat /\ IsFiniteSet(RegisteredFor(p)) 
    /\ Cardinality(RegisteredFor(p)) - ppage[p].size \in {0, 1}

VlistInv == EntriesAgree /\ LinksInUse /\ EndsInUse /\ Counted

SlotInv == HeldGeometry /\ Registered /\ Covered /\ VlistInv
           /\ SlotsDisjoint /\ SharingWithinPpage

(* The whole invariant: references, addresses and slots of the heap belong *)
(* together in every state between two pieces of malloc and free, also     *)
(* those of Allocate's whole pages (AllocateChunk, Allocate, Deallocate).  *)
HeapInv == TypeInv /\ AddressInv /\ SlotInv
=============================================================================
