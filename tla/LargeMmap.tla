----------------------------- MODULE LargeMmap -----------------------------
(***************************************************************************)
(* LargeMmapAliasing, the secondary allocator: every chunk is a mapping of *)
(* its own, with a header in the page before the user's bytes; chunks_     *)
(* lists the headers, and a header knows its index there.  A freed chunk's *)
(* pages stay reserved for ever, without access.                           *)
(*                                                                         *)
(* Addresses are numbers of pages.  The mutex guards chunks_; a new chunk  *)
(* is mapped and its header written before the mutex is taken.             *)
(***************************************************************************)
EXTENDS Integers, Sequences, FiniteSets, FiniteSetsExt

CONSTANTS
  Thread, NoThread,
  NumPages,         \* bound: pages the kernel may map, 1..NumPages
  Sizes,            \* sizes asked for, in pages
  Alignments,       \* alignments asked for, in pages
  MaxChunks         \* kMaxNumChunks

Page == 1..NumPages

ASSUME LargeAssumption ==
  /\ NoThread \notin Thread
  /\ NumPages \in Nat /\ MaxChunks \in Nat \ {0}
  /\ Sizes \subseteq Nat \ {0} /\ Alignments \subseteq Nat \ {0}

VARIABLES
  chunks,           \* chunks_: the pages of the headers
  sorted,           \* chunks_sorted_
  header,           \* the header in a page that has one
  access,           \* access of a mapped page, "rw" or "none"
  allocated,        \* stats.currently_allocated
  mutex,            \* mutex_
  live,             \* chunks the program holds: pages of their headers
  op,               \* op[t]: what thread t is doing
  fate

arrayVars  == <<chunks, sorted, allocated>>
memoryVars == <<header, access>>
vars == <<arrayVars, memoryVars, mutex, live, op, fate>>

Idle == [pc |-> "idle", at |-> 0, beg |-> 0, pages |-> 0, size |-> 0]

Init ==
  /\ chunks = <<>> /\ sorted = FALSE /\ allocated = 0
  /\ header = <<>> /\ access = <<>>
  /\ mutex = NoThread /\ live = {}
  /\ op = [t \in Thread |-> Idle]
  /\ fate = "running"

Running == fate = "running"
At(t, pc) == Running /\ op[t].pc = pc
Span(beg, pages) == beg..(beg + pages - 1)

Over(f, S, y) == [z \in DOMAIN f \cup S |-> IF z \in S THEN y ELSE f[z]]
Drop(f, S)    == [z \in DOMAIN f \ S |-> f[z]]

Die(how) == fate' = how /\ UNCHANGED <<arrayVars, memoryVars, mutex, live, op>>

(***************************************************************************)
(* Allocate                                                                *)
(***************************************************************************)
MapSize(size, align) == size + 1 + (IF align > 1 THEN align ELSE 0)

AlignUp(x, align) == IF x % align = 0 THEN x ELSE x + align - (x % align)

(* MmapOrDie: the kernel takes any free range.                             *)
Map(t, size, align) ==
  LET pages == MapSize(size, align) IN
  /\ At(t, "idle")
  /\ \E beg \in Page : 
       /\ Span(beg, pages) \subseteq Page \ DOMAIN access
       /\ access' = Over(access, Span(beg, pages), "rw")
       /\ op' = [op EXCEPT ![t] = 
                   [pc |-> "mapped", at |-> AlignUp(beg + 1, align) - 1, 
                    beg |-> beg, pages |-> pages, size |-> size]]
  /\ UNCHANGED <<arrayVars, header, mutex, live, fate>>

Readable(page) == page \in DOMAIN header

(* An access to a page without access is a fault.                          *)
Writable(page) == page \in DOMAIN access /\ access[page] = "rw"

WriteHeader(t) ==
  LET h == op[t].at IN
  /\ At(t, "mapped") /\ Writable(h)
  /\ header' = Over(header, {h}, [beg |-> op[t].beg, pages |-> op[t].pages, 
                                  size |-> op[t].size, idx |-> 0])
  /\ op' = [op EXCEPT ![t].pc = "headed"]
  /\ UNCHANGED <<arrayVars, access, mutex, live, fate>>

(* The chunk is entered in chunks_, under the mutex.                       *)
Enlist(t) ==
  LET h == op[t].at IN
  /\ At(t, "headed") /\ mutex = NoThread
  /\ Len(chunks) < MaxChunks /\ Writable(h)
  /\ chunks' = Append(chunks, h)
  /\ sorted' = FALSE
  /\ header' = [header EXCEPT ![h].idx = Len(chunks) + 1]
  /\ allocated' = allocated + op[t].pages
  /\ live' = live \cup {h}
  /\ op' = [op EXCEPT ![t] = Idle]
  /\ UNCHANGED <<access, mutex, fate>>

AllocateDies(t) ==
  LET h == op[t].at IN
  \/ At(t, "mapped") /\ ~Writable(h) /\ Die("fault")
  \/ At(t, "headed") /\ mutex = NoThread /\ Len(chunks) < MaxChunks
       /\ ~Writable(h) /\ Die("fault")
  \/ At(t, "headed") /\ mutex = NoThread /\ Len(chunks) >= MaxChunks 
       /\ Die("check_failed")

(***************************************************************************)
(* Deallocate, of any chunk the program holds.                             *)
(***************************************************************************)
Last == chunks[Len(chunks)]

(* Mutant: the moved header keeps its old index.                           *)
StaleIndex(h) == header

(* The last header is moved to where h was, and told so.                   *)
Reindexed(h) == [header EXCEPT ![Last].idx = header[h].idx]

(* Mutant: the last header is dropped instead of moved.                    *)
DropLast(i) == [j \in 1..(Len(chunks) - 1) |-> chunks[j]]

(* chunks_ without its i-th header.                                        *)
MoveLast(i) == [j \in 1..(Len(chunks) - 1) |-> IF j = i THEN Last ELSE chunks[j]]

PagesOf(h) == header[h].pages

(* Its two CHECKs, of chunks_ and of the index.                            *)
KnowsItsPlace(h) == header[h].idx \in DOMAIN chunks /\ chunks[header[h].idx] = h

(* The header leaves chunks_ and the chunk is unmapped.                    *)
Unmap(t, h) ==
  /\ chunks' = MoveLast(header[h].idx)
  /\ sorted' = FALSE
  /\ allocated' = allocated - PagesOf(h)
  /\ header' = Drop(Reindexed(h), Span(header[h].beg, header[h].pages))
  /\ access' = Drop(access, Span(header[h].beg, header[h].pages))
  /\ mutex' = t
  /\ live' = live \ {h}
  /\ op' = [op EXCEPT ![t] = [pc |-> "unmapped", at |-> h, beg |-> header[h].beg, 
                              pages |-> header[h].pages, size |-> header[h].size]]
  /\ UNCHANGED fate

(* Under the mutex.                                                        *)
Delist(t, h) ==
  /\ At(t, "idle") /\ mutex = NoThread /\ h \in live
  /\ IF ~(Readable(h) /\ Readable(Last)) THEN Die("fault")
     ELSE IF KnowsItsPlace(h) THEN Unmap(t, h) ELSE Die("check_failed")

(* Mutant: the mapping without access has a page too many.                 *)
OneMore(t) == Span(op[t].beg, op[t].pages + 1)

Reserved(t) == Span(op[t].beg, op[t].pages)

(* MmapFixedNoAccess, still under the mutex: whatever is mapped there now, *)
(* the range has no access afterwards.                                     *)
Reserve(t) ==
  /\ At(t, "unmapped")
  /\ access' = Over(access, Reserved(t), "none")
  /\ header' = Drop(header, Reserved(t))
  /\ mutex' = NoThread
  /\ op' = [op EXCEPT ![t] = Idle]
  /\ UNCHANGED <<arrayVars, live, fate>>

(***************************************************************************)
(* Lookups.                                                                *)
(***************************************************************************)
Elements(s) == {s[i] : i \in DOMAIN s}

InOrder(s) == 
  [i \in 1..Len(s) |-> 
     CHOOSE h \in Elements(s) : Cardinality({g \in Elements(s) : g < h}) = i - 1]

Sort ==
  /\ chunks' = InOrder(chunks)
  /\ header' = [h \in DOMAIN header |-> 
                  IF h \notin Elements(chunks) THEN header[h]
                  ELSE [header[h] EXCEPT !.idx = 
                          CHOOSE i \in DOMAIN chunks : InOrder(chunks)[i] = h]]
  /\ sorted' = TRUE
  /\ UNCHANGED <<allocated, access, mutex, live, op, fate>>

(* EnsureSortedChunks, before a fast lookup or a walk over all chunks.     *)
EnsureSorted(t) ==
  /\ At(t, "idle") /\ mutex = NoThread /\ ~sorted
  /\ IF \A h \in Elements(chunks) : Readable(h) THEN Sort ELSE Die("fault")

End(h) == header[h].beg + header[h].pages
User(h) == h + 1
None == 0

(* GetBlockBegin: the nearest header at or below page p.                   *)
GetBlockBegin(p) ==
  LET below == {h \in Elements(chunks) : h <= p}
      near  == CHOOSE h \in below : \A g \in below : g <= h
  IN  IF below = {} THEN None ELSE IF End(near) <= p THEN None ELSE User(near)

(* GetBlockBeginFastLocked: the search in the sorted array s narrows       *)
(* [beg, end] to at most two candidates.                                   *)
Narrow(s, p) ==
  LET f[w \in (1..Len(s)) \X (1..Len(s))] ==
        LET beg == w[1]  
            end == w[2]
            mid == (beg + end) \div 2
        IN  IF end - beg < 2 THEN w 
            ELSE IF p < s[mid] THEN f[<<beg, mid - 1>>] ELSE f[<<mid, end>>]
  IN  f[<<1, Len(s)>>]

(* Mutant: the second candidate is never taken.                            *)
FirstOfTwo(s, p) == Narrow(s, p)[1]

Candidate(s, p) ==
  LET two == Narrow(s, p) IN
  IF two[1] < two[2] /\ p >= s[two[2]] THEN two[2] ELSE two[1]

GetBlockBeginFast(p) ==
  LET s == IF sorted THEN chunks ELSE InOrder(chunks)
      n == Len(s)
      h == s[Candidate(s, p)]
  IN  IF n = 0 THEN None
      ELSE IF p < s[1] \/ p >= s[n] + header[s[n]].pages THEN None
      ELSE IF End(h) <= p \/ p < header[h].beg THEN None ELSE User(h)

Allocate(t) == \/ \E size \in Sizes, align \in Alignments : Map(t, size, align)
               \/ WriteHeader(t) \/ Enlist(t) \/ AllocateDies(t)

Deallocate(t) == (\E h \in live : Delist(t, h)) \/ Reserve(t)

Next == \E t \in Thread : Allocate(t) \/ Deallocate(t) \/ EnsureSorted(t)

Spec == Init /\ [][Next]_vars

(***************************************************************************)
(* Properties.                                                             *)
(***************************************************************************)
OpType == [pc : {"idle", "mapped", "headed", "unmapped"}, at : 0..NumPages,
           beg : 0..NumPages, pages : Nat, size : Nat]

HeaderType == [beg : Page, pages : Nat, size : Nat, idx : 0..MaxChunks]

(* Types; every page with a header is mapped.                              *)
TypeOK ==
  /\ chunks \in Seq(Page) /\ Len(chunks) <= MaxChunks
  /\ sorted \in BOOLEAN /\ allocated \in Nat
  /\ DOMAIN access \subseteq Page /\ DOMAIN header \subseteq DOMAIN access
  /\ \A p \in DOMAIN access : access[p] \in {"rw", "none"}
  /\ \A p \in DOMAIN header : header[p] \in HeaderType
  /\ mutex \in Thread \cup {NoThread} /\ live \subseteq Page
  /\ op \in [Thread -> OpType]
  /\ fate \in {"running", "fault", "check_failed"}

(* Whenever the mutex is free every header in chunks_ can be read and says *)
(* where it is there: what TotalMemoryUsed and ForEachChunk CHECK.         *)
ChunksAnswer == 
  mutex = NoThread => 
    \A i \in DOMAIN chunks : Readable(chunks[i]) /\ header[chunks[i]].idx = i

(* chunks_ lists exactly the chunks the program holds, each once, whatever *)
(* the order of removals by swapping, and currently_allocated is the sum   *)
(* of their mappings.                                                      *)
Enlisted == 
  /\ Elements(chunks) = live /\ Cardinality(live) = Len(chunks)
  /\ mutex = NoThread => 
       allocated = MapThenSumSet(LAMBDA h : header[h].pages, Elements(chunks))

(* Between munmap and the fixed mapping a freed chunk's pages are a hole,  *)
(* and another thread's MmapOrDie, which is not under the mutex, may get   *)
(* it: a chunk that is not yet in chunks_ can lose the access to a page,   *)
(* but only to that mapping.  A chunk in chunks_ loses none: to get there  *)
(* it had to wait for the mutex, and so for the end of that free.          *)
OnlyHolesLost ==
  [][\A p \in Page : Writable(p) /\ ~Writable(p)' =>
       /\ \A h \in live \cap live' : p \notin Span(header[h].beg, header[h].pages)
       /\ \A t \in Thread : 
            op[t].pc \in {"mapped", "headed"} /\ p \in Span(op[t].beg, op[t].pages) =>
              \E u \in Thread : 
                op[u].pc = "unmapped" /\ p \in Span(op[u].beg, op[u].pages)]_vars

(* The chunk p lies in, from its header on, by definition.                 *)
BlockOf(p) == 
  LET around == {h \in Elements(chunks) : h <= p /\ p < End(h)}
  IN  IF around = {} THEN None ELSE User(CHOOSE h \in around : TRUE)

(* Both lookups find exactly that chunk, for every page: the linear search *)
(* by distance, and the binary search, whether or not it has to sort.      *)
LookupsAgree == mutex = NoThread => \A p \in 0..(NumPages + 1) : 
  GetBlockBegin(p) = BlockOf(p) /\ GetBlockBeginFast(p) = BlockOf(p)
=============================================================================
