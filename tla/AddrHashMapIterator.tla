------------------------ MODULE AddrHashMapIterator ------------------------
(***************************************************************************)
(* The Iterator of AddrHashMap over one bucket, as fork walks through      *)
(* Forkmap, while other threads use the map.  Behind the bucket is the end *)
(* of the table, where the memory is zero.                                 *)
(***************************************************************************)
EXTENDS AddrHashMap

VARIABLE iter     \* iter[t]: the Iterator of thread t

iterVars == <<vars, iter>>

(* pos is embed_idx_ until all embedded cells are passed, then add_idx_;   *)
(* seen is auxiliary, the keys that were visited, and so is since, the     *)
(* number of calls so far if no other thread was in one, otherwise 0.      *)
Off == [pc |-> "off", in |-> "embed", pos |-> 0, gen |-> 0, seen |-> {}, since |-> 0]

OnAdded(t) == iter[t].in = "add"

IterInit == Init /\ iter = [t \in Thread |-> Off]

Doing(t, pc) == ~failed /\ call[t].pc = "idle" /\ iter[t].pc = pc

AllIdle == \A t \in Thread : call[t].pc = "idle" /\ iter[t].pc = "off"

IterBegin(t) ==
  /\ Doing(t, "off") /\ calls < MaxCalls
  /\ calls' = calls + 1
  /\ iter' = [iter EXCEPT ![t] = [Off EXCEPT !.pc = "look", 
                                    !.since = IF AllIdle THEN calls + 1 ELSE 0]]
  /\ UNCHANGED <<embed, add, lockVars, call, failed>>

(* operator*: the pointer to the added cells is loaded, without the lock   *)
(* when the first of them is looked at, and used afterwards.               *)
LoadAdded(t) ==
  /\ Doing(t, "look") /\ OnAdded(t)
  /\ iter' = [iter EXCEPT ![t].pc = IF add.cap = 0 THEN "advance" ELSE "cell",
                          ![t].gen = add.gen]
  /\ UNCHANGED vars

Look(t, key) == 
  iter' = [iter EXCEPT ![t].pc = IF key = NoKey THEN "advance" ELSE "visit",
                       ![t].seen = @ \cup ({key} \ {NoKey})]

LookAdded(t) ==
  /\ Doing(t, "cell")
  /\ iter[t].gen = add.gen
  /\ Look(t, add.cells[iter[t].pos + 1].addr)
  /\ UNCHANGED vars

(* The array has been freed meanwhile: whatever the memory holds.          *)
LookFreed(t) ==
  /\ Doing(t, "cell")
  /\ iter[t].gen # add.gen
  /\ \E pc \in {"advance", "visit"} : iter' = [iter EXCEPT ![t].pc = pc]
  /\ UNCHANGED vars

LookEmbedded(t) ==
  /\ Doing(t, "look") /\ iter[t].in = "embed"
  /\ Look(t, embed[iter[t].pos + 1].addr)
  /\ UNCHANGED vars

Visit(t) ==
  /\ Doing(t, "visit")
  /\ iter' = [iter EXCEPT ![t].pc = "advance"]
  /\ UNCHANGED vars

(* operator++ within the embedded cells, and from the last of them to the  *)
(* added cells.                                                            *)
NextEmbedded(t) ==
  /\ Doing(t, "advance") /\ iter[t].in = "embed"
  /\ iter' = [iter EXCEPT ![t].pc = "look", 
                ![t].in = IF iter[t].pos + 1 < Embedded THEN "embed" ELSE "add",
                ![t].pos = IF @ + 1 < Embedded THEN @ + 1 ELSE 0]
  /\ UNCHANGED vars

(* Mutant: the last added cell is left out.                                *)
AtSecondLast(t) == add.cap = 0 \/ iter[t].pos + 2 >= add.size

AtLast(t) == add.cap = 0 \/ iter[t].pos + 1 >= add.size

(* operator++ on an added cell takes the read lock, again for every cell,  *)
(* and gives it back once, behind the last.                                *)
NextAdded(t) ==
  /\ Doing(t, "advance") /\ OnAdded(t) /\ writer = NoThread
  /\ ~AtLast(t)
  /\ KeepReadLock(t)
  /\ iter' = [iter EXCEPT ![t].pc = "look", ![t].pos = @ + 1]
  /\ UNCHANGED <<embed, add, writer, call, calls, failed>>

IterEnd(t) ==
  /\ Doing(t, "advance") /\ OnAdded(t) /\ writer = NoThread
  /\ AtLast(t)
  /\ iter' = [iter EXCEPT ![t] = Off]
  /\ UNCHANGED vars

Iterate(t) == \/ LoadAdded(t) \/ LookAdded(t) \/ LookFreed(t) \/ LookEmbedded(t)
              \/ Visit(t) \/ NextEmbedded(t) \/ NextAdded(t) \/ IterEnd(t)

Handles(t) == (Work(t) \/ (iter[t].pc = "off" /\ Start(t))) /\ UNCHANGED iter

IterNext == \E t \in Thread : IterBegin(t) \/ Iterate(t) \/ Handles(t)

IterSpec == IterInit /\ [][IterNext]_iterVars

(***************************************************************************)
(* Properties.                                                             *)
(***************************************************************************)
(* A thread without a Handle and without an Iterator has no lock of the    *)
(* bucket: operator++ gives back what it took.                             *)
LocksReturned ==
  \A t \in Thread : 
    call[t].pc = "idle" /\ iter[t].pc = "off" => readers[t] = 0 /\ writer # t

(* Behind the first added cell the read lock protects the Iterator: it     *)
(* looks at cells of the array that is in use.                             *)
LaterCellsCurrent ==
  \A t \in Thread : 
    iter[t].pc \in {"cell", "visit"} /\ OnAdded(t) /\ iter[t].pos > 0 
      => iter[t].gen = add.gen

(* A walk during which no other thread uses the map, as in a program with  *)
(* one thread, comes past every key, after whatever calls and walks.       *)
VisitsAll ==
  [][\A t \in Thread : IterEnd(t) /\ iter[t].since = calls => 
       iter[t].seen = {k \in Key : Present(k)}]_iterVars
=============================================================================
