---------------------------- MODULE AddrHashMap ----------------------------
(***************************************************************************)
(* One bucket of the concurrent map AddrHashMap, the type of Forkmap and   *)
(* Pagemap (buckets share nothing).  A bucket has embedded cells, which    *)
(* are read without a lock, an array of added cells, which is read under   *)
(* the read lock and replaced by a larger one when it is full, and a       *)
(* reader-writer lock, under which all cells change.                       *)
(*                                                                         *)
(* A call is the life of a Handle: acquire, the use of the value, release. *)
(* What only the holder of the lock can see happens in one step; loads of  *)
(* embedded cells, and the stores that such a load can see, are steps of   *)
(* their own.                                                              *)
(***************************************************************************)
EXTENDS Integers, Sequences, FiniteSets

CONSTANTS
  Thread, Key, Value,
  NoKey,            \* the address 0 of an empty cell
  NoValue,          \* what a cell holds before its first use
  NoThread,
  Embedded,         \* kBucketSize
  InitCap,          \* cells of the first added array
  MaxCalls          \* bound: calls of all threads

ASSUME MapAssumption ==
  /\ NoKey \notin Key /\ NoValue \notin Value /\ NoThread \notin Thread
  /\ Embedded \in Nat \ {0} /\ InitCap \in Nat \ {0} /\ MaxCalls \in Nat

VARIABLES
  embed,            \* the embedded cells
  add,              \* the array of added cells; there is none while cap is 0
  writer, readers,  \* RWMutex: its writer, how often each thread holds it to read
  call,             \* call[t]: the Handle of thread t and how far it is
  calls,            \* how many calls were begun
  failed            \* a CHECK failed

lockVars == <<writer, readers>>
vars == <<embed, add, lockVars, call, calls, failed>>

Empty == [addr |-> NoKey, val |-> NoValue]
Idle  == [pc |-> "idle", kind |-> "find", key |-> NoKey, val |-> NoValue,
          i |-> 1, cell |-> <<"none", 0, 0>>, created |-> FALSE]

(* A cell of a Handle: embedded, or in one version of the added array.     *)
InEmbed(i) == <<"embed", 0, i>>
InAdd(i)   == <<"add", add.gen, i>>

Init ==
  /\ embed = [i \in 1..Embedded |-> Empty]
  /\ add = [gen |-> 0, cap |-> 0, size |-> 0, cells |-> <<>>]
  /\ writer = NoThread /\ readers = [t \in Thread |-> 0]
  /\ call = [t \in Thread |-> Idle]
  /\ calls = 0
  /\ failed = FALSE

Unlocked == writer = NoThread /\ \A t \in Thread : readers[t] = 0

AddedAt(key) == {i \in 1..add.size : add.cells[i].addr = key}
EmbedAt(key) == {i \in DOMAIN embed : embed[i].addr = key}

(* Mutant: the second look goes to the added cells only.                   *)
PresentAdded(key) == AddedAt(key) # {}

Present(key) == EmbedAt(key) # {} \/ AddedAt(key) # {}

First(S) == CHOOSE i \in S : \A j \in S : i <= j

At(t, pc) == ~failed /\ call[t].pc = pc
Go(t, pc) == call' = [call EXCEPT ![t].pc = pc]
Hold(t, cell, created) == 
  call' = [call EXCEPT ![t].pc = "held", ![t].cell = cell, ![t].created = created]

(* How the allocator uses the maps: no thread works on a key while another *)
(* one removes it.                                                         *)
Undisturbed(kind, k) ==
  \A u \in Thread : 
    call[u].pc # "idle" /\ call[u].key = k => kind # "remove" /\ call[u].kind # "remove"

(***************************************************************************)
(* acquire                                                                 *)
(***************************************************************************)
Begin(t, kind, k, v) ==
  /\ At(t, "idle") /\ calls < MaxCalls
  /\ Undisturbed(kind, k)
  /\ calls' = calls + 1
  /\ call' = [call EXCEPT ![t] = [Idle EXCEPT !.kind = kind, !.key = k, !.val = v,
                !.pc = IF kind = "remove" THEN "lock" ELSE "scan"]]
  /\ UNCHANGED <<embed, add, lockVars, failed>>

(* The embedded cells are looked at one by one, without a lock.            *)
ScanHit(t) ==
  /\ At(t, "scan")
  /\ embed[call[t].i].addr = call[t].key
  /\ Hold(t, InEmbed(call[t].i), FALSE)
  /\ UNCHANGED <<embed, add, lockVars, calls, failed>>

ScanMiss(t) ==
  /\ At(t, "scan")
  /\ embed[call[t].i].addr # call[t].key
  /\ IF call[t].i < Embedded THEN call' = [call EXCEPT ![t].i = @ + 1]
     ELSE Go(t, "peek")
  /\ UNCHANGED <<embed, add, lockVars, calls, failed>>

Peek(t) ==
  /\ At(t, "peek")
  /\ Go(t, IF add.cap = 0 THEN "lock" ELSE "readlock")
  /\ UNCHANGED <<embed, add, lockVars, calls, failed>>

(* Mutant: the read lock is given back although the cell is kept.          *)
ReadUnheld(t) == readers' = readers

KeepReadLock(t) == readers' = [readers EXCEPT ![t] = @ + 1]

(* The added cells, under the read lock, which is kept with a cell.        *)
ReadHit(t) ==
  /\ At(t, "readlock") /\ writer = NoThread
  /\ AddedAt(call[t].key) # {}
  /\ KeepReadLock(t)
  /\ Hold(t, InAdd(First(AddedAt(call[t].key))), FALSE)
  /\ UNCHANGED <<embed, add, writer, calls, failed>>

ReadMiss(t) ==
  /\ At(t, "readlock") /\ writer = NoThread
  /\ AddedAt(call[t].key) = {}
  /\ Go(t, "lock")
  /\ UNCHANGED <<embed, add, lockVars, calls, failed>>

(* Under the write lock: the key has come meanwhile, try again.            *)
LockRetry(t) ==
  /\ At(t, "lock") /\ Unlocked
  /\ call[t].kind # "remove" /\ Present(call[t].key)
  /\ call' = [call EXCEPT ![t].pc = "scan", ![t].i = 1]
  /\ UNCHANGED <<embed, add, lockVars, calls, failed>>

(* The cell to remove is kept together with the lock.                      *)
LockFound(t) ==
  LET k == call[t].key IN
  /\ At(t, "lock") /\ Unlocked
  /\ call[t].kind = "remove" /\ Present(k)
  /\ writer' = t
  /\ Hold(t, IF EmbedAt(k) # {} THEN InEmbed(First(EmbedAt(k)))
             ELSE InAdd(First(AddedAt(k))), FALSE)
  /\ UNCHANGED <<embed, add, readers, calls, failed>>

(* Nothing to find or to remove.                                           *)
LockMiss(t) ==
  /\ At(t, "lock") /\ Unlocked
  /\ call[t].kind # "insert" /\ ~Present(call[t].key)
  /\ Go(t, "missed")
  /\ UNCHANGED <<embed, add, lockVars, calls, failed>>

(* A new element in a free embedded cell.                                  *)
CreateEmbedded(t) ==
  /\ At(t, "lock") /\ Unlocked
  /\ call[t].kind = "insert" /\ ~Present(call[t].key)
  /\ EmbedAt(NoKey) # {}
  /\ writer' = t
  /\ Hold(t, InEmbed(First(EmbedAt(NoKey))), TRUE)
  /\ UNCHANGED <<embed, add, readers, calls, failed>>

(* The array of added cells, made or replaced by a larger one when full.   *)
Grown ==
  LET cap == IF add.cap = 0 THEN InitCap ELSE 2 * add.cap + 1 IN
  IF add.size < add.cap THEN add
  ELSE [gen |-> add.gen + 1, cap |-> cap, size |-> add.size,
        cells |-> [i \in 1..cap |-> IF i <= add.size THEN add.cells[i] ELSE Empty]]

(* A new element in the next added cell, which must be empty.              *)
CreateAdded(t) ==
  LET i == Grown.size + 1 IN
  /\ At(t, "lock") /\ Unlocked
  /\ call[t].kind = "insert" /\ ~Present(call[t].key)
  /\ EmbedAt(NoKey) = {}
  /\ add' = [Grown EXCEPT !.size = i]
  /\ writer' = t
  /\ Hold(t, <<"add", Grown.gen, i>>, TRUE)
  /\ failed' = (Grown.cells[i].addr # NoKey)
  /\ UNCHANGED <<embed, readers, calls>>

(***************************************************************************)
(* The use of the value, by the caller.                                    *)
(***************************************************************************)
Index(t)   == call[t].cell[3]
Emb(t)     == call[t].cell[1] = "embed"
Content(t) == IF Emb(t) THEN embed[Index(t)] ELSE add.cells[Index(t)]

(* The cell of thread t becomes c.                                         *)
SetCell(t, c) == 
  IF Emb(t) THEN embed' = [embed EXCEPT ![Index(t)] = c] /\ UNCHANGED add
  ELSE add' = [add EXCEPT !.cells[Index(t)] = c] /\ UNCHANGED embed

WriteValue(t) ==
  /\ At(t, "held") /\ call[t].kind = "insert"
  /\ SetCell(t, [Content(t) EXCEPT !.val = call[t].val])
  /\ Go(t, "used")
  /\ UNCHANGED <<lockVars, calls, failed>>

ReadValue(t) ==
  /\ At(t, "held") /\ call[t].kind # "insert"
  /\ call' = [call EXCEPT ![t].pc = "used", ![t].val = Content(t).val]
  /\ UNCHANGED <<embed, add, lockVars, calls, failed>>

(***************************************************************************)
(* release                                                                 *)
(***************************************************************************)
(* A created element becomes visible.                                      *)
Publish(t) ==
  /\ At(t, "used") /\ call[t].created
  /\ failed' = (Content(t).addr # NoKey)
  /\ SetCell(t, [Content(t) EXCEPT !.addr = call[t].key])
  /\ Go(t, "unlock")
  /\ UNCHANGED <<lockVars, calls>>

(* Mutant: the cell that was moved keeps its key.                          *)
MovedStays(i) == [add EXCEPT !.size = @ - 1]

(* The array without its last cell, i.                                     *)
WithoutLast(i) == [add EXCEPT !.size = @ - 1, !.cells[i].addr = NoKey]

(* A removed embedded cell is emptied first, which a load may see.         *)
Erase(t) ==
  /\ At(t, "used") /\ call[t].kind = "remove" /\ Emb(t)
  /\ failed' = (Content(t).addr # call[t].key)
  /\ SetCell(t, [Content(t) EXCEPT !.addr = NoKey])
  /\ Go(t, "compact")
  /\ UNCHANGED <<lockVars, calls>>

(* Then the last added element moves into it.                              *)
MoveLast(t) ==
  /\ At(t, "compact")
  /\ add.size > 0
  /\ embed' = [embed EXCEPT ![Index(t)] = add.cells[add.size]]
  /\ add' = WithoutLast(add.size)
  /\ Go(t, "unlock")
  /\ UNCHANGED <<lockVars, calls, failed>>

MoveNothing(t) ==
  /\ At(t, "compact")
  /\ add.size = 0
  /\ Go(t, "unlock")
  /\ UNCHANGED <<embed, add, lockVars, calls, failed>>

(* Among the added cells the last one takes the place of the removed one.  *)
EraseAdded(t) ==
  /\ At(t, "used") /\ call[t].kind = "remove" /\ ~Emb(t)
  /\ failed' = (Content(t).addr # call[t].key)
  /\ add' = [WithoutLast(add.size) EXCEPT !.cells[Index(t)] = 
               IF Index(t) = add.size THEN [@ EXCEPT !.addr = NoKey]
               ELSE add.cells[add.size]]
  /\ Go(t, "unlock")
  /\ UNCHANGED <<embed, lockVars, calls>>

Unlock(t) ==
  /\ At(t, "unlock")
  /\ writer' = NoThread
  /\ call' = [call EXCEPT ![t] = Idle]
  /\ UNCHANGED <<embed, add, readers, calls, failed>>

(* Mutant: the read lock stays with the thread.                            *)
KeepsReadLock(t) == readers' = readers

(* Mutant: a read lock that was never taken is given back.                 *)
AlwaysUnlock(t) == readers' = [readers EXCEPT ![t] = @ - 1]

ReadUnlock(t) == readers' = IF Emb(t) THEN readers ELSE [readers EXCEPT ![t] = @ - 1]

(* A found element is left, with the read lock if it is an added one.      *)
Leave(t) ==
  /\ At(t, "used") /\ call[t].kind # "remove" /\ ~call[t].created
  /\ failed' = (Content(t).addr # call[t].key)
  /\ ReadUnlock(t)
  /\ call' = [call EXCEPT ![t] = Idle]
  /\ UNCHANGED <<embed, add, writer, calls>>

Return(t) ==
  /\ At(t, "missed")
  /\ call' = [call EXCEPT ![t] = Idle]
  /\ UNCHANGED <<embed, add, lockVars, calls, failed>>

Acquire(t) == \/ ScanHit(t) \/ ScanMiss(t) \/ Peek(t) \/ ReadHit(t) \/ ReadMiss(t)
              \/ LockRetry(t) \/ LockFound(t) \/ LockMiss(t)
              \/ CreateEmbedded(t) \/ CreateAdded(t)

Use(t) == WriteValue(t) \/ ReadValue(t)

Release(t) == \/ Publish(t) \/ Erase(t) \/ MoveLast(t) \/ MoveNothing(t) 
              \/ EraseAdded(t) \/ Unlock(t) \/ Leave(t) \/ Return(t)

Work(t) == Acquire(t) \/ Use(t) \/ Release(t)

Start(t) == 
  \E k \in Key : \/ Begin(t, "find", k, NoValue) 
                 \/ Begin(t, "remove", k, NoValue)
                 \/ \E v \in Value : Begin(t, "insert", k, v)

Next == \E t \in Thread : Start(t) \/ Work(t)

Spec == Init /\ [][Next]_vars

(* The scheduler lets every thread run: a call that can go on does.        *)
FairSpec == Spec /\ \A t \in Thread : WF_vars(Work(t))
(***************************************************************************)
(* Properties.                                                             *)
(***************************************************************************)
Cell == [addr : Key \cup {NoKey}, val : Value \cup {NoValue}]

Call == [pc : {"idle", "scan", "peek", "readlock", "lock", "held", "used",
               "compact", "unlock", "missed"},
         kind : {"find", "insert", "remove"},
         key : Key \cup {NoKey}, val : Value \cup {NoValue}, i : 1..Embedded,
         cell : {"none", "embed", "add"} \X Nat \X Nat, created : BOOLEAN]

(* The added cells are packed: those within the size hold keys, except one *)
(* that is being created, and those behind are free.                       *)
Packed ==
  \A i \in 1..add.cap : 
    IF i > add.size THEN add.cells[i].addr = NoKey
    ELSE \/ add.cells[i].addr # NoKey
         \/ \E t \in Thread : /\ call[t].pc \in {"held", "used"} 
                              /\ call[t].created /\ call[t].cell = InAdd(i)

(* Type invariant of the bucket and the Handles: no lock is given back     *)
(* more often than it was taken, and the added cells stay packed however   *)
(* removals move elements between the arrays.                              *)
TypeOK ==
  /\ embed \in [1..Embedded -> Cell]
  /\ add \in [gen : Nat, cap : Nat, size : 0..add.cap, cells : [1..add.cap -> Cell]]
  /\ writer \in Thread \cup {NoThread} /\ readers \in [Thread -> Nat]
  /\ call \in [Thread -> Call]
  /\ calls \in 0..MaxCalls
  /\ failed \in BOOLEAN
  /\ Packed

(* The CHECKs of acquire and release hold: the cell a Handle found still   *)
(* has its key when the Handle is released, a created one is still empty,  *)
(* and the cell behind the last added one is free.                         *)
ChecksHold == ~failed

(* A key is in one cell only, although threads that want to insert it look *)
(* for it without the lock first and elements move between the arrays.     *)
NoTwins ==
  \A k \in Key : Cardinality(EmbedAt(k)) + Cardinality(AddedAt(k)) <= 1

(* A Handle of an added cell refers to the array that is in use, not to    *)
(* one that acquire has replaced and freed, and to a cell within its size. *)
CellsCurrent ==
  \A t \in Thread : 
    call[t].pc \in {"held", "used"} /\ ~Emb(t) => 
      call[t].cell[2] = add.gen /\ Index(t) <= add.size

(* What the map holds, and when a call has had its effect: an insertion    *)
(* when its key or, in a cell that was there, its value is stored, a       *)
(* removal when the key is erased, a lookup when the value is read or the  *)
(* key is missed under the lock.                                           *)
ValueOf(k) == IF EmbedAt(k) # {} THEN embed[First(EmbedAt(k))].val
              ELSE add.cells[First(AddedAt(k))].val

Phase(t) ==
  LET c == call[t] IN
  CASE c.pc = "idle" -> "idle"
    [] c.pc \in {"missed", "compact", "unlock"} -> "done"
    [] c.pc = "used" /\ (c.kind = "find" \/ (c.kind = "insert" /\ ~c.created)) -> "done"
    [] OTHER -> "begun"

Elements == [k \in {k \in Key : Present(k)} |-> ValueOf(k)]

PendingCalls ==
  [t \in Thread |-> 
     [phase |-> Phase(t), kind |-> call[t].kind, 
      key |-> IF Phase(t) = "idle" THEN NoValue ELSE call[t].key,
      val |-> IF Phase(t) = "done" \/ call[t].kind = "insert" THEN call[t].val ELSE NoValue]]

Linear == INSTANCE LinearMap WITH content <- Elements, pending <- PendingCalls

(* Every call takes effect at one moment: in particular a key that stays   *)
(* in the map is found while other elements are created, removed and moved *)
(* around it, and its value is the last one written.                       *)
LinearMapKept == Linear!Spec

(* No call waits for ever, as long as there are finitely many:     *)
(* every lock that was taken is given back.                                *)
EveryCallReturns == \A t \in Thread : call[t].pc # "idle" ~> call[t].pc = "idle"
=============================================================================
