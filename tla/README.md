# Verification of MEDS

MEDS is a fork of LLVM with a derivative of AddressSanitizer whose heap never
reuses a virtual address and leaves a large inaccessible gap behind every
chunk. To afford that, the chunks of a size class that fill only part of a
page *share physical pages*: every chunk has virtual pages of its own, and the
kernel maps several of them to the same frame, each chunk using another part
of it. This directory holds TLA+ modules of that run-time library
(`src/llvm/projects/compiler-rt/lib/meds` and `.../lib/sanitizer_common`),
TLC runs over small instances of them, and proofs checked by TLAPS.

## Inventory

The parts of the run-time library that hold state of their own. Paths are
relative to `src/llvm/projects/compiler-rt/lib/`.

| component | code | state | operations | what must be true of it |
|---|---|---|---|---|
| primary allocator | `sanitizer_common/sanitizer_aliasing.h` (`AliasingAllocator`) | one region of addresses per size class and how far it is used up; the maps `Forkmap` and `Pagemap` | `GetFromAllocator` | ranges never overlap and are never given out twice |
| thread cache | same file (`AliasingAllocatorLocalCache`) | per class: the rest of a range, the list of freed slots | `Allocate`, `Deallocate` and their pieces `AllocateChunk`, `DeallocateChunk` | chunks own their virtual pages; slots of a physical page are disjoint, conserved and private; freed pages stay dead |
| `Ppage`, `Vpage`, `DoubleList` | same file, `sanitizer_common/sanitizer_doublelist.h` | per physical page: the list of its virtual pages, a mutex | `push_back`, `remove`, `front` and the rest of the list interface | the list is what its assertions say; its front can be aliased |
| secondary allocator | `sanitizer_aliasing.h` (`LargeMmapAliasing`) | array of chunk headers, its sortedness, headers in user memory | `Allocate`, `Deallocate`, `GetBlockBegin`, `GetBlockBeginFastLocked`, `ForEachChunk` | headers and array index each other; the two lookups agree |
| combined allocator | `sanitizer_aliasing.h` (`CombinedAliasing`) | the two allocators | choice by size, by address | what one handed out comes back to it |
| address map | `sanitizer_common/sanitizer_addrhashmap.h` | buckets with embedded cells, an array of further cells, a reader-writer lock | `Handle` (find, create, remove), `Iterator` | a key that stays in the map is found whatever moves around it; locks are given back |
| front end | `meds/meds_allocator.cc` | metadata in front of the user's bytes, shadow of the heap | `Allocate`, `Deallocate`, `Reallocate`, `Calloc` | exactly the user's bytes are addressable; metadata leads back to the chunk |
| copy on write | `meds/asan_interceptors.cc` (`fork`), `meds/asan_posix.cc` (`AsanOnDeadlySignal`) | protection of heap pages | fork, fault | parent and child have memory of their own, chunks of a page stay together |
| relocation of globals | `meds/meds_reloc.cc` | GOT and relocation entries | `do_relocate` | every reference to a moved global is redirected |
| threads, statistics | `meds/asan_thread.cc`, `meds/asan_interceptors.cc` (`pthread_create`), `meds/asan_posix.cc` (thread-specific data), `sanitizer_thread_registry.cc`, `sanitizer_allocator_stats.h` | thread contexts and their states, the `AsanThread` objects, the ring of per-thread counters | create, start, finish; register, sum | links lead to memory; a creation ends; no counter of a dead thread is in the ring |
| mutexes | `sanitizer_mutex.h`, `sanitizer_linux.cc` | lock words | lock, unlock, read lock | exclusion; a sleeper is woken |
| fake stack | `meds/asan_fake_stack.cc` | per class: flags of frames, position | allocate, deallocate, collect | a frame is given out once at a time |
| shadow poisoning | `meds/asan_poisoning.cc` | shadow bytes | poison, unpoison, query | a query reports an access exactly if it touches a poisoned byte |

They interact by plain calls (front end → combined → cache → region), by state
shared between threads (regions, the maps, the lists of a `Ppage`, which chunks
of several threads may share after a chunk is freed by another thread than the
one that allocated it), and by signals (a fault calls into the maps and lists
from a handler). What is hard to test is concurrency on the lists and maps,
address arithmetic at page and range ends, and long sequences of legal calls;
`PROJECT.json` lists these hazards at their lines. Those without a property are
defects the code has, where no property of the hazardous case would be true, or
parts that are not modelled; the note of each says which.


## Modules

| module | what it is |
|---|---|
| `ChunkLayout` | how a chunk is cut into pieces at page boundaries, and a fresh page into slots |
| `DoubleList` | the list operations and `CheckConsistency`, as operators on a header and link functions |
| `AliasingHeap` | the primary allocator with its thread caches: state machine, one action per piece of a chunk |
| `HeapInvariant` | the inductive invariant of `AliasingHeap` |
| `HeapPages_proofs`, `HeapSlots_proofs` | theorems about the above, the second on top of the first |
| `PrivateMemory` | what the heap promises to the program: a chunk's bytes keep what was written to them |
| `AliasedMemory` | `AliasingHeap` with the bytes in its frames and the stores of the program, and the mapping to `PrivateMemory` |
| `AliasedMemory_proofs` | its refinement of `PrivateMemory` |
| `LinearMap` | what the users of `AddrHashMap` rely on: each call takes effect at one moment |
| `AddrHashMap` | one bucket of the map, down to single loads of embedded cells, and the mapping to `LinearMap` |
| `AddrHashMapIterator` | the bucket together with iterators |
| `AddrHashMap_proofs` | the invariants of both, and the refinement of `LinearMap` |
| `LargeMmap` | the secondary allocator |
| `LargeMmap_proofs` | its invariants, and what its lookups find |
| `PpageVlist` | the list of one `Ppage`, store by store, and the futex mutex around it |
| `PpageVlist_proofs` | that the mutex excludes and loses no wake-up, and that the list's stores are as good as whole operations while none overlap |
| `MedsFrontend` | the front end and the combined allocator over one shadow, with several threads |
| `MedsFrontend_proofs` | its invariants |
| `ThreadLife` | creation, start and end of threads, the registry, and the ring of statistics |
| `ThreadLife_proofs` | its invariants |
| `MC...` | instances for TLC |

### How the heap corresponds to the code

`AliasingHeap` works on byte addresses; a page of the model has 4 or 8 bytes.
`pos` is what the regions have given out (`RegionInfo::allocated_user` and the
region's start), `lower`, `upper` and `free` are `PerClass::lower_bound`,
`upper_bound` and `free_list` of each thread's cache. `ppage`, `vpage`, `prev`
and `next` are the `Ppage` and `Vpage` records, with the links of `Vpage`
apart; records are numbered in the order of their allocation. `vm` is the page
table, from page address to frame. `held`, `retired` and `live` are not in the
code: the slot a page stands for, the pages of chunks that were freed, and the
chunks the program holds.

`op[t]` is the call in progress. `Allocate` is `StartMalloc` or, when the range
of the cache is used up, `Refill` (`GetFromAllocator`, under the region's
mutex) first; then one action per piece: `MallocOwn`, `MallocAlias` and
`MallocFresh` are the three paths of `AllocateChunk`, `MallocWhole` the whole
pages; then `FinishMalloc`. `Deallocate` is `StartFree`, `FreePartial`
(`DeallocateChunk`), `FreeWhole`, `FinishFree` (the fixed mapping without
access). A piece is one step. That is more than any lock of the code covers: a
piece takes the locks of two buckets one after the other and the mutex of a
`Ppage`, or not even that (`sanitizer_aliasing.h:448` locks a temporary, which
unlocks at once), so what two threads can do *inside* a piece is not in this
module. `AddrHashMap` looks at the maps at that grain and `PpageVlist` at the
list; `AtomicUnlessOverlapped` there says when one step is the right grain.

`StaleLinks` are the values the links of a `Vpage` may have that nobody wrote
(`InternalAlloc` does not clear memory, and the `Vpage` a `Ppage` is created
for is never pushed to a list): `{Null}` models fresh memory, `{Null, Wild}`
also recycled memory. `Wild` is dereferenced as a fault.

The two ways a real process ends here are states of the model (`fate`): a
failed CHECK, and the end of a region. Both are ends, so deadlock is not
checked in these runs.

### How the map corresponds to the code

A bucket of `AddrHashMap` is its embedded cells, the array of added cells with
its capacity and size, and its lock; buckets share nothing. `gen` numbers the
arrays that replaced each other, so that a pointer into a freed array can be
told from a current one. A call is the life of a `Handle`. `ScanHit`/`ScanMiss`
are the loads of the lock-free scan, one step each; `Peek`, `ReadHit`,
`ReadMiss` the part under the read lock; `LockRetry`, `LockFound`, `LockMiss`,
`CreateEmbedded` and `CreateAdded` what `acquire` may find under the write lock;
`Publish`, `Erase`, `MoveLast`, `MoveNothing`, `EraseAdded`, `Unlock` and
`Leave` are `release`. `WriteValue` and `ReadValue` are what the caller does
with `operator->` in between. `Undisturbed` is an assumption about the callers:
no thread works on a key while another removes it. The heap meets it: keys are
page addresses, and a page is registered by the thread that allocates its chunk
and removed by the one that frees it. The iterator of `fork` does not, which is
why the iterator has a module of its own.

The map holds a key from the store of its address on; `LinearMapKept` maps the
cells to a function (`Elements`) and each call to `begun` or `done`
(`PendingCalls`). That every step of the bucket is a step of `LinearMap` or
leaves it alone is checked by TLC on the instance and proved for all.

### How the secondary allocator corresponds to the code

`LargeMmap` counts addresses in pages. `Map` (the `mmap`), `WriteHeader` and
`Enlist` (under the mutex) are `Allocate`; `Delist`, up to the `munmap`, and
`Reserve`, the fixed mapping without access, are `Deallocate`: the step in
between is there because `Map` of another thread does not need the mutex.
`EnsureSorted` is `EnsureSortedChunks`. The two lookups are operators, checked
in every state in which the mutex is free. An access to a page without access
ends the process (`"fault"`), as does a failed CHECK.

### How the list of a `Ppage` corresponds to the code

`mem` holds the cells of the `DoubleList` and of the links of its `Vpage`s;
`op[t].todo` is what a list operation has read and still has to store, in the
order of the source. `Look`, `Clear` or `Alias`, and the stores are the part of
`AllocateChunk` under the mutex; `RemoveOf` and its stores are `vlist.remove`
in `DeallocateChunk`, behind a `Lock` and an `Unlock` that guard nothing;
`Unmap` is the fixed mapping without access at the end of `Deallocate`. The
mutex is the three-valued word of `BlockingMutex`; `FUTEX_WAIT` compares and
sleeps in one step, `FUTEX_WAKE` picks any sleeper. `meant` takes the same
operations as the single steps of `DoubleList`, at the last store of each.
Overlapping operations are a data race, hence undefined: the module gives them
one meaning (source order, sequentially consistent) and no property depends on
it. What it shows of them is nevertheless what a build does: a null front
(`"faults"`) and an alias of an address that was just unmapped.

### How the front end corresponds to the code

`MedsFrontend` counts bytes; a page has 8, a granule 4. The primary allocator
is reduced to what `AliasingHeap` establishes: a chunk comes from the thread's
range or the next one, and its pages are its own; the secondary one picks any
free pages. `Malloc` (also `memalign`) and `Realloc` choose a place (`Place`),
then the steps of `Allocate` follow, one per access to the shadow that another
thread can see between: `OnMap`, `PoisonAgain` (the second look), `Unpoison`,
`Publish`. `Free` unmaps the pages of shadow of the chunk, rounded outwards
(`Window`), `MapShadow` maps them again as zeros, `Release` takes the memory's
access away. An access to shadow that is unmapped at that moment ends the
process (`"faulted"`). `wiped` is not in the code: the granules whose shadow a
free has replaced.

### How the life of a thread corresponds to the code

Creator: `PthreadCreate`, `Create` (`AsanThread::Create` and
`ThreadRegistry::CreateThread`), `Tell`, `Return`. New thread:
`SetCurrentThread`, `InitCache` (`AsanThread::Init`, down to
`AllocatorGlobalStats::Register`), `StartThread`, `Signal`. End: `Finish`, a
`PlatformTSDDtor` per round, `FinishThread`, `Unmap`, and `End` behind the
destructors of others. Each call of the registry is one step, as it is under
its mutex. `mapped` are the `AsanThread` objects in memory, `next` and `prev`
the ring of statistics, whose entries lie in these objects. When an object is
unmapped the links from it are gone and the links *to* it stay, as in the code.

## Runs

Bounds: address spaces are finite and never reused, so every behaviour of the
heap, of `LargeMmap` and of `MedsFrontend` ends by itself; in the map `MaxCalls`
bounds the number of calls, in `AliasedMemory` `MaxDirty` the bytes that are not
zero at a time, in `ThreadLife` `MaxThreads` and `Address` the threads and where
their objects lie, in `PpageVlist` `MaxPushes` the `Vpage`s. Nothing else is
bounded.

| run | what it asks | instance, and why it is enough |
|---|---|---|
| `heap_threads` | do the maps, the lists and the caches stay in agreement, and does the inductive invariant hold, when two threads free each other's chunks? | chunks of 10 bytes in pages of 8, so a chunk has two partial pieces or a whole page and a tail; two ranges of two chunks each, both threads aliasing their own pages and freeing into each other's lists, garbage in unwritten links |
| `memory_private` | are aliases made from pages in use, are slots disjoint, conserved and mapped, how far can a vlist be off, and does the heap implement private memory? | two threads; chunks of 3 bytes in pages of 8, which share pages and cross them, slots at offset 0, inside and cut at the page end; zeros or garbage in unwritten links; two byte values, one byte other than zero at a time, every store the program can make; refinement of `PrivateMemory` |
| `heap_consistency` | does `CheckConsistency` hold of a `Ppage`'s list? (violated) | one thread |
| `map` | no twins, no stale arrays, packed cells, CHECKs, linearizability, and that calls end | two threads, three keys, one embedded cell, first array of one cell: the third key makes the array grow, a removal moves an added cell to the embedded one while a lookup has passed it; five calls are what the longest of these needs |
| `map_walk` | does an undisturbed iteration see every key; is the array it reads current from its second cell on? | two threads, four keys, so that the array of added cells is replaced while it is walked |
| `map_iter_returned` | does the iterator give back its locks? (violated) | two threads |
| `large_threads` | are array, indices, counter and both lookups right in every order, and what can cost a chunk its pages? | two threads, 8 pages, up to 3 chunks of 1 or 2 pages, aligned or not: removals of the first, the middle and the last chunk, unsorted and sorted arrays, a full array |
| `vlist` | does the mutex exclude, does it lose no wake-up, and when is a list operation one step? | three threads, so that two sleep at once and one of them must announce the other; three `Vpage`s, so that the first, the middle and the last are removed |
| `frontend` | is exactly the object addressable, whatever others allocate and free? | two threads; objects of 1 byte, of 17 (cut granule, large chunk) and aligned to 8; two ranges of two chunks, one large mapping (a second one is too many states; the theorems are about any number); neighbours under one page of shadow, and chunks whose shadow spans two |
| `frontend_overflow` | is a write behind an object reported? (violated) | the same |
| `threads` | do creation, registry, thread-specific data and caches agree? | four threads, so that two creations, or a creation and an end, overlap; three addresses, so that an object is mapped where a dead one was; two rounds of destructors; detached or not |
| `threads_ring` | does the ring of statistics lead to memory? (violated) | the same |

The four violated properties are findings of `PROJECT.json`, each against an
assertion, a comment or a test of the repository:

* the `Vpage` a `Ppage` is created for is removed from a list it never entered
  (`heap_consistency`); `MissesAtMostOne` says how far such a list can be off,
  `FrontInUse` that aliases are nevertheless made from a page of the right
  `Ppage`;
* the iterator takes the read lock once per added cell and gives it back once
  per bucket (`map_iter_returned`);
* a free wipes the poison around live neighbours, so an overflow of theirs is
  missed (`frontend_overflow`); `MissesOnlyNearFrees` says that this is the only
  way to miss one within the pages of a chunk;
* the statistics of a thread that has ended stay in the ring
  (`threads_ring`); `RingSound` says that the ring is in order until then.

Further defects that runs describe by what does hold: a removal from the list
of a `Ppage` is not protected (`AtomicUnlessOverlapped`); the hole between
`munmap` and the fixed `mmap` of a freed large chunk can be given to another
thread and then loses its access, but never under a chunk that is already in
`chunks_` (`OnlyHolesLost`); a check of an access faults
while a free has the page of shadow unmapped (`ObjectsAddressable`); the
iterator of the map reads the first added cell without a lock
(`LaterCellsCurrent` begins with the second).

Every property of a passing run has a mutant, a plausible bug in one mapped
definition (an operator marked "Mutant" before it), under which the run fails.

### Fairness

Three runs check liveness. In `map` and `vlist` each thread's steps inside a
call are weakly fair: the scheduler runs every thread, and a call that can go
on does. Nothing is assumed of the beginning of calls. The locks have no queue,
so a thread could in principle starve while others keep taking the lock; as
there are finitely many calls a lock is free for good at some point.
`EveryCallReturns` then says that no lock is kept and that the retry after a
concurrent insertion does not go round for ever, `CallsReturn` that whoever is
to wake a sleeper gets there; that there always is somebody is `NoLostWakeup`. Starvation under unboundedly many calls is not excluded
by the code, and not claimed. In `threads` the steps of a creator inside
`pthread_create` and of a new thread up to its start routine are weakly fair:
both spin with `sched_yield`. Ends of threads are not fair, the program decides
about them.

## Proofs

All theorems are checked by TLAPS and hold for every value of the constants
that satisfies the assumptions named below.

| theorem | statement |
|---|---|
| `TypeCorrect` (`HeapPages_proofs`) | `Spec => []TypeOK`, which is part of `HeapInv` |
| `PagesAreExclusive` (`HeapPages_proofs`) | `Spec => []PagesExclusive` |
| `NoPageRevives` (`HeapPages_proofs`) | `Spec => []NoRevival` |
| `HeapInvariantHolds` (`HeapSlots_proofs`) | `Spec => []HeapInv` |
| `SlotsAreDisjoint`, `TheMapsAgree`, `FrontIsInUse`, `ChunksAreMapped`, `AtMostOneMissed`, `TheChecksHold` (`HeapSlots_proofs`) | `Spec => []P` for `SlotsDisjoint`, `MapsAgree`, `FrontInUse`, `ExactlyMapped`, `MissesAtMostOne`, `ChecksHold` |
| `TheSlotsAreConserved` (`HeapSlots_proofs`) | `Spec => SlotsConserved`, an action property |
| `MemoryIsPrivate` (`AliasedMemory_proofs`) | `MemSpec => PrivateMemoryKept`, the refinement of `PrivateMemory` |
| `TheTypesHold`, `TheMapChecksHold`, `KeysHaveOneCell`, `CellsAreCurrent` (`AddrHashMap_proofs`) | `Spec => []P` for `TypeOK`, `ChecksHold`, `NoTwins`, `CellsCurrent` |
| `TheMapIsLinear` (`AddrHashMap_proofs`) | `Spec => LinearMapKept`, the refinement of `LinearMap` |
| `LaterCellsAreCurrent` (`AddrHashMap_proofs`) | `IterSpec => []LaterCellsCurrent` |
| `WalksVisitAll` (`AddrHashMap_proofs`) | `IterSpec => VisitsAll`, an action property |
| `TheMapIsLinearAmidWalks` (`AddrHashMap_proofs`) | `IterSpec => LinearMapKept /\ []ChecksHold` |
| `TheRegistryCounts`, `LinksLeadToObjects`, `CreatorsWait`, `CachesAreReady`, `ContextsHaveOneThread`, `TheRingIsSound` (`ThreadLife_proofs`) | `Spec => []P` for `TypeOK`, `LinksMapped`, `ReturnsStarted`, `CacheReady`, `ContextsOwned`, `RingSound` |
| `FrontTypesHold`, `TheObjectsAreApart`, `TheObjectsAreAddressable`, `OnlyFreesCauseMisses`, `DanglingPointersTrap` (`MedsFrontend_proofs`) | `Spec => []P` for `TypeOK`, `ObjectsApart`, `ObjectsAddressable`, `MissesOnlyNearFrees`, `DanglingTraps` |
| `LargeTypesHold`, `HeadersKnowTheirPlaces`, `TheArrayIsTheProgramsChunks`, `TheLookupsAgree` (`LargeMmap_proofs`) | `Spec => []P` for `TypeOK`, `ChunksAnswer`, `Enlisted`, `LookupsAgree` |
| `AccessIsLostInHolesOnly` (`LargeMmap_proofs`) | `Spec => OnlyHolesLost`, an action property |
| `TheMutexExcludes`, `NobodySleepsForgotten` (`PpageVlist_proofs`) | `Spec => []P` for `Exclusive`, `NoLostWakeup` |
| `TheListIsAtomic` (`PpageVlist_proofs`) | `Spec => []AtomicUnlessOverlapped` |

The fair specifications of the runs imply the ones the theorems are about.

### The heap

Any number of threads and classes, every class size, page size and region size
that satisfies `PageSizeAssumption` (`ChunkLayout`) and `HeapAssumption`
(`AliasingHeap`), and any garbage in unwritten links.

`TypeOK` is not inductive: that the frame behind an alias was issued, or that a
freed slot's page number names a `Ppage`, needs to know where references lead.
`TypeInv` adds `IndexOK`: slots, map entries, list headers and links name
existing objects, of the same `Ppage` where they belong together. It survives
the list defect that `heap_consistency` shows, because even a cut list has no
link that leaves its `Ppage`.

`PagesExclusive` and `NoRevival` speak of pages that were handed out, and hold
because of addresses that were not: `AddressInv` says that every cache's
remaining range (`Fresh`), every region's remaining space (`Unclaimed`) and the
pages handed out so far (`Settled`) are pairwise disjoint. Two facts of the
code carry the induction: `GetFromAllocator` moves the region's position by
exactly the range it gives out, and a cache moves its lower bound past the red
zone, which is at least a page, so the page in which a chunk ends is never the
page in which the next one begins. (`BareStride` is the mutant without it.)
The proof goes action by action, over the arithmetic of pages with which
`HeapPages_proofs` begins.

`SlotInv` is about what shares a page. `HeldGeometry`, `Registered` and
`Covered` follow a chunk through its call: the slot behind a page is where the
chunk has its bytes, and a page is mapped and registered from the moment malloc
has passed it until free does. `SlotsDisjoint` and `SharingWithinPpage` are then
inductive, because a slot only ever moves from a free list to a page and back,
and is only ever cut from a page no other `Ppage` has. `VlistInv` is what is
left of the lists in spite of their defect: links of a `Vpage` in use lead to
`Vpage`s in use and back, the ends of a list that passes for not empty are in
use, and the size misses at most one. That is enough for an alias to be made
from mapped memory of the right `Ppage` (`FrontInUse`), and does not need the
lists to be complete. `HeapInv`, the conjunction, is an invariant of the run
`heap_threads`.

For `MemoryIsPrivate` the invariant adds that no range reaches beyond its
region and that every frame has its bytes. The mapping reads a chunk's bytes
through the page table, so a store of the program could change another chunk
only if two chunks had a byte of a frame in common; `SharingWithinPpage` and
`SlotsDisjoint` exclude it, and the allocator's own steps neither move a page of
a chunk in use nor reuse a frame for it.

### The map

Any number of threads, keys, values, calls, embedded cells and any first
capacity (`MapAssumption`). `MapInv` says who holds the lock (`LocksOK`), where a
call's cell is and what is in it (`CallOK`: a cell that was found has the key, a
created one has no address yet and no other cell has its key), what the callers
see to (`KeysApart`, from the guard `Undisturbed`), and that a key has one cell
(`UniqueKeys`). The step that matters is the creation: a key that the lock-free
scan missed is looked for again under the lock, and as the lock is kept to the
end of `release`, nobody else can put it in a cell before. `TypeOK` has the added cells packed. For
`TheMapIsLinear`, `MapInv` makes `Elements` a function; each of the steps is
shown to put or drop one key or to leave it unchanged, and each call to be
begun, to take effect or to end (`AcquireIsLinear`, `UseIsLinear`,
`ReleaseIsLinear`). A lookup that misses its key takes effect under the lock; one
that finds it, when it reads the value.

The iterator takes read locks it does not give back (the run `map_iter_returned`), so
`LocksOK` only says that a call at an added cell has *at least* one; with that,
`MapInv` is an invariant of the bucket amid walks too, and so is everything that
follows from it (`TheMapIsLinearAmidWalks`). `IterInv` adds where an iterator is
(`InPlace`, `Protected`: behind the first added cell it has a read lock, and the
array is replaced under the write lock only, so its pointer stays current) and,
for a walk that is alone, that it has seen exactly the keys of the cells behind
it (`Sees`). A call or another walk ends that at once, as each begins with a
higher number of `calls`.

### Threads

Any number of threads, contexts, addresses and rounds of destructors
(`ThreadAssumption`). `LifeInv` says, for each place a thread can be at, what its
object, its context, its thread-specific data and its parameter are (`LifeOK`),
how a creator and the thread it waits for are in step (`PairOK`,
`ChildrenApart`), that objects and contexts belong to one thread (`OwnObjects`,
`ContextsOwned`), and what the counters count (`CountsOK`). The last shows that
no context is ever reused: there are as many contexts in quarantine as dead
ones, so at most `MaxThreads`, and the quarantine has that size. `LifeInv` was
checked with TLC on the instance of `threads` before it was proved; it is not an
invariant of a run of its own, as its parts are stronger forms of the properties
that run has.

### The front end

Any number of threads, any requests and any sizes that satisfy
`SizesAssumption`: pages, metadata, red zones and class sizes are whole
granules, a red zone is at least a page, a range is a number of pages and holds
a chunk, and a granule is at most 128 bytes, as the `CHECK` of `SHADOW_SCALE`
in `asan_rtl.cc` has it. The last is needed: the shadow byte of an object's last
granule is a count of bytes, and must not be the value of poison, 250.

`FrontInv` says where chunks are (`Placed`: the request with its metadata,
alignment and rounding fits what the allocators return), that no address is
handed out twice (`Ranges`, `NeverUsed`), that a chunk is in one hand (`OneHand`)
and shares no page with another (`Apart`), and what the shadow of every granule
of a chunk is: in an allocation step by step (`ShadowOfOps`), and for the chunks
the program holds (`ShadowOfLive`). A free unmaps the shadow of whole pages of
*shadow*, which covers neighbours too; the invariant therefore speaks of the
granules that no free has replaced (`wiped`), and allows zeros and missing
shadow everywhere in an object, which is why there are no false reports except
while it is missing (`GoneWhileFreed`), and no missed ones except near frees.

### The secondary allocator

Any number of threads, pages, chunks, sizes and alignments (`LargeAssumption`).
`LargeInv` says that array and headers index each other (`Listed`, `Indexed`),
that the chunks the program holds and the operations of threads lie in pages of
their own (`Apart`, `Mapped`), with the exception the code has: the hole of a
free, between `munmap` and the fixed mapping, may be shared with another
thread's new mapping (`Holder`: the freeing thread has the mutex, so that
mapping is not listed before the hole is closed, and then no longer writable,
`Headed`). `Counted` says that the pages of sets of chunks add up to
`allocated`, by a function on the sets, and `SumIsMeasure` that the fold of the
property is that function.

The lookups need an argument about data of every size. `SearchNarrows` takes
the recursion of `Narrow` by a smallest counterexample: the numbers are
well-founded (`NatLessThanWellFounded`), so if the search went wrong anywhere
there would be a shortest interval on which it does, and the next step leads to
a shorter one. `SumIsMeasure` does the same on finite sets, `InOrderSorts`
counts smaller elements. With `NearestDecides`, that the nearest header below
decides whose a page is because blocks are apart, both searches are `BlockOf`.

### The mutex of a `Ppage`

Any number of threads and `Vpage`s (`VlistAssumption`). `MutexOK`: at most one
thread holds the mutex, its word is `MtxUnlocked` exactly if nobody does, and who
is asleep waits in the futex. It is inductive together with who may be where
(`CallOK`: only `AllocateChunk` gets to the steps between `Lock` and `Unlock`,
only `DeallocateChunk` to the list without the mutex) and what was made so far
(`Numbers`). Of the list nothing is needed: the mutex keeps excluding in states
where the unordered removals have spoiled it.

`NoLostWakeup` is the part of the liveness of this mutex that is safety, and so
can be proved: while a thread sleeps, the word is `MtxSleeping` and somebody
holds the mutex, or a thread is at `FUTEX_WAKE` or before the exchange that
writes `MtxSleeping`. `Awake` is inductive with `LockInv`. Three steps take the
word `MtxSleeping` away or let a sleeper go, and each leaves a thread that makes
up for it: the first exchange of a newcomer is followed by its second, `Unlock`
by `FUTEX_WAKE`, and a woken thread announces the others again. `FUTEX_WAIT`
checks the word (`SleepsIfTaken` is the mutant that does not).

### The list of a `Ppage`, store by store

`ListInv` adds what the stores of `push_back` and `remove` need, in states where
no two operations on the list were ever under way at once. The list that is
meant is `WellFormed`: header and links hold a `Chain` of the `Vpage`s in
`OnList`, each once, and those off it have null links. `PushBackLinks` and
`RemoveUnlinks` are the lemmas that the whole operations keep it so, and
`WellFormedIsConsistent` that `CheckConsistency` passes on it: that its walk
meets the items in their order is again a smallest counterexample. `Staged` says
of a list half changed that every store still to come goes to a cell of its own
and brings it to its value in the finished list, and that all other cells have
theirs. One lemma (`StoreStages`) shows that any store keeps this, whichever
operation it belongs to, so that only the beginnings of the operations are taken
apart by cases (`ClearStages`, `AliasStages`, `RemoveStages`). `OnePlace`, which
holds with overlaps too, says that every `Vpage` is with the program, in one
call, or unmapped; from it follows that what is pushed is not on the list, what
is removed is, and the front that is aliased has memory.

### Only model-checked

Liveness, which is out of the prover's reach: `EveryCallReturns`, `CallsReturn`
and `CreationReturns`. The theorems about the heap hold for all classes side by
side; its runs have one class.

## Not modelled

* Copy on write after `fork`. As written it has no effect: the interceptor
  protects heap pages with `PROT_WRITE` alone (`asan_interceptors.cc:708`),
  which on x86-64 leaves them readable and writable, so the fault handler's copy
  is never reached and parent and child go on sharing `MAP_SHARED` memory. Its
  walk is in `AddrHashMapIterator`. That the walk can open a page that is being
  freed is a hazard of `PROJECT.json` without a property.
* `fallback_cache`, for threads without an `AsanThread`: it is never
  initialised, so its page size is 0, and what `Allocate` computes from that is
  not a behaviour to describe.
* The front end's refused requests (they return null and change nothing), the
  bytes that `calloc` clears and `realloc` copies, and the size classes but one.
* Of threads: `JoinThread` and `DetachThread` (never called), names, stacks and
  thread-local storage, fibers, the fake stack. Of statistics: the counters.
* `AliasingAllocator::ForceLock` and its walk over all chunks, failures of
  `mmap`, and the content of size classes (`SizeClassMap` is a function from
  class to size). `LargeMmap` leaves out the metadata address, the overflow of
  sizes, and all counters but `currently_allocated`.
* Memory order: loads and stores of `AddrHashMap` and `PpageVlist` are
  sequentially consistent. The code uses acquire and release on the addresses of
  embedded cells.
* Fake stack, relocation of globals, activation: no module yet (see the plan).
* Instrumentation, driver and the rest of LLVM: a compiler, not the run-time
  library. Reports end the process; interceptors other than `fork` and
  `pthread_create` check arguments and keep no state.

## Plan

In the order of what matters most:

1. `FakeStack`: frames, the flags per class, collection after `longjmp`, with a
   thread that may be interrupted inside an allocation.
2. `MedsFrontend` over the actions of `AliasingHeap` and `LargeMmap` instead of
   what they promise, and `fork`'s walk as an action of it.
3. `RWMutex` and `SpinMutex` at the grain of their loads and stores.
