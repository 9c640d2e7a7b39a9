------------------------- MODULE ThreadLife_proofs -------------------------
(***************************************************************************)
(* The invariants of threads, their registry and the ring of statistics,   *)
(* for any number of threads, contexts, addresses and destructor rounds.   *)
(***************************************************************************)
EXTENDS ThreadLife, FiniteSetTheorems, SequenceTheorems, TLAPS

----------------------------------------------------------------------------
(* The inductive invariant.                                                *)

Starting == {"spins", "initialises", "starts", "signals"}
Creating == {"creates", "tells", "waits"}
Working  == {"works", "destructs"} \cup Creating

PCs == {"none", "destroys", "unmaps", "late", "gone"} \cup Starting \cup Working

ContextType == 
  [status : {"created", "running", "finished", "dead", "invalid"}, detached : BOOLEAN,
   thread : Address \cup {Null}, iterations : Nat]

Types ==
  /\ pc \in [Os -> PCs] /\ child \in [Os -> Os \cup {Null}]
  /\ param \in [Os -> [t : Address \cup {Null}, is_registered : BOOLEAN, valid : BOOLEAN]]
  /\ this \in [Os -> Address \cup {Null}] /\ tsd \in [Os -> Tid \cup {Null}]
  /\ threads \in Seq(ContextType) /\ Len(threads) <= MaxThreads
  /\ dead \in Seq(Tid) /\ alive \in Nat /\ running \in Nat
  /\ mapped \in [DOMAIN mapped -> 0..(Len(threads) - 1)] /\ DOMAIN mapped \subseteq Address 
  /\ ready \subseteq DOMAIN mapped
  /\ DOMAIN next = {Globals} \cup ready /\ DOMAIN prev = {Globals} \cup ready

(* The registry's counters and queues.  Contexts in quarantine are as many *)
(* as there are dead ones, so the quarantine never overflows.              *)
CountsOK ==
  /\ alive = Having({"created", "running"}) /\ running = Having({"running"})
  /\ Len(dead) = Having({"dead"}) /\ invalid = <<>>

(* A thread with an AsanThread has it in memory, for itself.               *)
OwnObjects ==
  /\ \A k \in Os : this[k] # Null => this[k] \in DOMAIN mapped
  /\ \A j, k \in Os : this[j] # Null /\ this[j] = this[k] => j = k

(* Where a thread is says how far its object and its context are.          *)
Its(k) == Context(mapped[this[k]])

LifeOK(k) ==
  /\ pc[k] \in {"none", "late", "gone"} => this[k] = Null
  /\ pc[k] \in {"none", "spins", "destroys"} => tsd[k] = Null
  /\ pc[k] \in Starting => param[k].valid /\ ~param[k].is_registered
  /\ pc[k] = "spins" => param[k].t \in {Null, this[k]}
  /\ pc[k] = "spins" /\ this[k] # Null => 
       this[k] \notin ready /\ Its(k).status = "created" /\ Its(k).thread = this[k]
  /\ pc[k] \in {"initialises", "starts"} \cup {"signals"} \cup Working => 
       this[k] # Null /\ tsd[k] = mapped[this[k]] /\ Its(k).thread = this[k]
  /\ pc[k] \in {"initialises", "starts"} => Its(k).status = "created"
  /\ pc[k] = "initialises" => this[k] \notin ready
  /\ pc[k] \in {"starts", "signals", "destroys"} \cup Working => this[k] \in ready
  /\ pc[k] \in {"signals", "destroys"} \cup Working => Its(k).status = "running"
  /\ pc[k] = "destroys" => this[k] # Null /\ Its(k).thread = this[k]
  /\ pc[k] = "unmaps" => this[k] # Null /\ Its(k).thread = Null

(* A creator and the thread it waits for.                                  *)
PairOK(k) ==
  pc[k] \in Creating =>
    /\ child[k] \in Os /\ pc[child[k]] # "none"
    /\ pc[k] = "creates" => pc[child[k]] = "spins" /\ this[child[k]] = Null
    /\ pc[k] = "tells" => pc[child[k]] = "spins"
    /\ pc[k] \in {"creates", "tells"} => param[child[k]].t = Null 

ChildrenApart ==
  \A j, k \in Os : pc[j] \in Creating /\ pc[k] \in Creating /\ child[j] = child[k] => j = k

RingOK ==
  (\A k \in Os : pc[k] \notin {"late", "gone"}) =>
    \A x \in DOMAIN next : next[x] \in DOMAIN next /\ prev[next[x]] = x

LifeInv ==
  /\ Types /\ CountsOK /\ OwnObjects /\ LinksMapped /\ ContextsOwned
  /\ \A k \in Os : LifeOK(k) /\ PairOK(k)
  /\ ChildrenApart /\ RingOK
  /\ process \in {"runs", "limit exceeded", "faulted"}

StepOf(k) == Creator(k) \/ Starts(k) \/ Ends(k)

----------------------------------------------------------------------------
(* What the steps do.                                                      *)

(* The object and the context of a thread that has them.                   *)
LEMMA Known ==
  ASSUME LifeInv, NEW k \in Os, this[k] # Null
  PROVE  /\ this[k] \in DOMAIN mapped /\ this[k] \in Address
         /\ mapped[this[k]] \in Tid /\ mapped[this[k]] + 1 \in 1..Len(threads)
         /\ Its(k) = threads[mapped[this[k]] + 1] /\ Its(k) \in ContextType
         /\ \A j \in Os \ {k} : this[j] # Null => 
              this[j] # this[k] /\ mapped[this[j]] # mapped[this[k]]
<1>1. /\ threads \in Seq(ContextType) /\ Len(threads) <= MaxThreads /\ Len(threads) \in Nat
      /\ mapped \in [DOMAIN mapped -> 0..(Len(threads) - 1)] /\ DOMAIN mapped \subseteq Address
      /\ MaxThreads \in Nat
  <2>1. Types
    BY DEF LifeInv
  <2>2. threads \in Seq(ContextType) /\ Len(threads) <= MaxThreads /\ MaxThreads \in Nat
    BY <2>1, ThreadAssumption DEF Types
  <2>3. /\ mapped \in [DOMAIN mapped -> 0..(Len(threads) - 1)] /\ DOMAIN mapped \subseteq Address
    BY <2>1 DEF Types
  <2>4. Len(threads) \in Nat
    BY ONLY <2>2
  <2> QED BY <2>2, <2>3, <2>4
<1>2. this[k] \in DOMAIN mapped
  BY DEF LifeInv, OwnObjects
<1>3. mapped[this[k]] \in 0..(Len(threads) - 1)
  BY <1>1, <1>2
<1>4. mapped[this[k]] \in Tid /\ mapped[this[k]] + 1 \in 1..Len(threads)
  BY <1>1, <1>3 DEF Tid
<1>5. Its(k) = threads[mapped[this[k]] + 1] /\ Its(k) \in ContextType
  BY <1>1, <1>4 DEF Its, Context
<1>6. ASSUME NEW j \in Os \ {k}, this[j] # Null
      PROVE  this[j] # this[k] /\ mapped[this[j]] # mapped[this[k]]
  BY <1>2, <1>6 DEF LifeInv, OwnObjects, ContextsOwned
<1> QED BY <1>1, <1>2, <1>4, <1>5, <1>6

(* A thread that goes on leaves the others where they are.                 *)
LEMMA GotoEffect ==
  ASSUME Types, NEW k \in Os, NEW where \in PCs, Goto(k, where)
  PROVE  /\ pc' \in [Os -> PCs] /\ pc'[k] = where
         /\ \A j \in Os \ {k} : pc'[j] = pc[j]
BY DEF Goto, Types

(* The end of the process changes nothing else.                            *)
Stops ==
  /\ process' \in {"limit exceeded", "faulted"}
  /\ UNCHANGED <<pc, child, param, this, tsd, registry, memory>>

(* AsanThread::Create and CreateThread: a new object and a new context.    *)
Creates(k, a, context) ==
  /\ pc[k] = "creates" /\ Goto(k, "tells") /\ child[k] \in Os
  /\ pc[child[k]] = "spins" /\ this[child[k]] = Null /\ Len(threads) < MaxThreads
  /\ context \in ContextType /\ context.status = "created" /\ context.thread = a
  /\ threads' = Append(threads, context)
  /\ mapped' = [x \in DOMAIN mapped \cup {a} |-> IF x = a THEN Len(threads) ELSE mapped[x]]
  /\ this' = [this EXCEPT ![child[k]] = a]
  /\ alive' = alive + 1
  /\ UNCHANGED <<child, param, tsd, dead, invalid, running, ready, next, prev, process>>

(* No context is ever invalid, so a new one is appended.                   *)
LEMMA CreateEffect ==
  ASSUME LifeInv, NEW k \in Os, Create(k)
  PROVE  \E a \in Address \ DOMAIN mapped, context \in ContextType : Creates(k, a, context)
<1>1. PICK a \in Address \ DOMAIN mapped, detached \in BOOLEAN :
       LET tid == IF invalid # <<>> THEN Head(invalid) ELSE Len(threads) IN
       /\ tid < MaxThreads
       /\ threads' = Register(tid, Fresh(a, detached))
       /\ invalid' = IF invalid # <<>> THEN Tail(invalid) ELSE invalid
       /\ mapped' = [x \in DOMAIN mapped \cup {a} |-> IF x = a THEN tid ELSE mapped[x]]
       /\ this' = [this EXCEPT ![child[k]] = a]
  BY DEF Create
<1>2. invalid = <<>> /\ pc[k] = "creates"
  BY DEF LifeInv, CountsOK, Create, At
<1>3. /\ Len(threads) < MaxThreads /\ invalid' = <<>>
      /\ threads' = Append(threads, Fresh(a, detached))
      /\ mapped' = [x \in DOMAIN mapped \cup {a} |-> IF x = a THEN Len(threads) ELSE mapped[x]]
      /\ this' = [this EXCEPT ![child[k]] = a]
  BY <1>1, <1>2 DEF Register
<1>4. /\ Fresh(a, detached) \in ContextType /\ Fresh(a, detached).status = "created"
      /\ Fresh(a, detached).thread = a
  BY ThreadAssumption DEF Fresh, ContextType
<1>5. /\ child[k] \in Os /\ pc[child[k]] = "spins" /\ this[child[k]] = Null
  BY <1>2 DEF LifeInv, PairOK, Creating
<1> QED BY <1>2, <1>3, <1>4, <1>5 DEF Create, Creates

(* SetCurrentThread.                                                       *)
SetsCurrent(k) ==
  /\ pc[k] = "spins" /\ Goto(k, "initialises") /\ this[k] # Null /\ param[k].t = this[k]
  /\ tsd' = [tsd EXCEPT ![k] = mapped[this[k]]]
  /\ UNCHANGED <<child, param, this, registry, memory, process>>

(* The CHECK of SetCurrentThread holds: the thread had no context.         *)
LEMMA SetCurrentEffect ==
  ASSUME LifeInv, NEW k \in Os, SetCurrentThread(k)
  PROVE  SetsCurrent(k)
<1>1. pc[k] = "spins" /\ param[k].t # Null
  BY DEF SetCurrentThread, At
<1>2. tsd[k] = Null /\ param[k].t = this[k]
  BY <1>1 DEF LifeInv, LifeOK
<1> QED BY <1>1, <1>2 DEF SetCurrentThread, SetsCurrent

(* InitCache, unless the first entry of the ring was unmapped.             *)
InitsCache(k) ==
  /\ pc[k] = "initialises" /\ Goto(k, "starts") /\ this[k] # Null /\ this[k] \notin ready
  /\ next' = [x \in DOMAIN next \cup {this[k]} |-> 
                IF x = this[k] THEN next[Globals] ELSE IF x = Globals THEN this[k] ELSE next[x]]
  /\ prev' = [x \in DOMAIN prev \cup {this[k]} |-> 
                IF x = next[Globals] THEN this[k] ELSE IF x = this[k] THEN Globals ELSE prev[x]]
  /\ ready' = ready \cup {this[k]}
  /\ UNCHANGED <<child, param, this, tsd, registry, mapped, process>>

(* InitCache enters a new entry, or faults.                                *)
LEMMA InitCacheEffect ==
  ASSUME LifeInv, NEW k \in Os, InitCache(k)
  PROVE  InitsCache(k) \/ Stops
<1>1. pc[k] = "initialises"
  BY DEF InitCache, At
<1>2. this[k] # Null /\ this[k] \notin ready
  BY <1>1 DEF LifeInv, LifeOK
<1> QED BY <1>1, <1>2 DEF InitCache, BackLinks, InitsCache, Stops, Die

(* A step that changes the context of its thread only.                     *)
SetsContext(k, context) ==
  /\ this[k] # Null /\ context \in ContextType
  /\ threads' = [threads EXCEPT ![mapped[this[k]] + 1] = context]
  /\ UNCHANGED <<child, param, this, invalid, mapped, ready, next, prev, process>>

StartsThread(k, context) ==
  /\ pc[k] = "starts" /\ Goto(k, "signals") /\ SetsContext(k, context)
  /\ Its(k).status = "created" /\ context.status = "running" /\ context.thread = Its(k).thread
  /\ running' = running + 1 /\ UNCHANGED <<tsd, dead, alive>>

(* The CHECK of StartThread holds: the context is new.                     *)
LEMMA StartEffect ==
  ASSUME LifeInv, NEW k \in Os, StartThread(k)
  PROVE  \E context \in ContextType : StartsThread(k, context)
<1> DEFINE c == [Its(k) EXCEPT !.status = "running"]
<1>1. pc[k] = "starts"
  BY DEF StartThread, At
<1>2. this[k] # Null /\ Its(k).status = "created"
  BY <1>1 DEF LifeInv, LifeOK
<1>3. Its(k) = threads[mapped[this[k]] + 1] /\ Its(k) \in ContextType 
      /\ Its(k) = Context(mapped[this[k]]) /\ mapped[this[k]] + 1 \in 1..Len(threads)
      /\ threads \in Seq(ContextType)
  BY <1>2, Known DEF Its, LifeInv, Types
<1>4. c \in ContextType /\ c.status = "running" /\ c.thread = Its(k).thread
  BY <1>3 DEF ContextType
<1>5. /\ running' = running + 1 /\ Goto(k, "signals")
      /\ threads' = [threads EXCEPT ![mapped[this[k]] + 1].status = "running"]
      /\ UNCHANGED <<child, param, this, tsd, dead, invalid, alive, memory, process>>
  BY <1>2, <1>3 DEF StartThread
<1>6. threads' = [threads EXCEPT ![mapped[this[k]] + 1] = c]
  BY <1>3, <1>5
<1> HIDE DEF c
<1> QED BY <1>1, <1>2, <1>4, <1>5, <1>6 DEF StartsThread, SetsContext, memory

(* A round of destructors but the last, and the last.                      *)
PutsBack(k, context) ==
  /\ pc[k] = "destructs" /\ SetsContext(k, context)
  /\ context.status = Its(k).status /\ context.thread = Its(k).thread
  /\ UNCHANGED <<pc, tsd, dead, alive, running>>

Forsakes(k) ==
  /\ pc[k] = "destructs" /\ Goto(k, "destroys")
  /\ tsd' = [tsd EXCEPT ![k] = Null]
  /\ UNCHANGED <<child, param, this, registry, memory, process>>

(* The destructor finds the thread's own object in its context.            *)
LEMMA DtorEffect ==
  ASSUME LifeInv, NEW k \in Os, PlatformTSDDtor(k)
  PROVE  (\E context \in ContextType : PutsBack(k, context)) \/ Forsakes(k)
<1>1. pc[k] = "destructs"
  BY DEF PlatformTSDDtor, At
<1>2. this[k] # Null /\ tsd[k] = mapped[this[k]] /\ Its(k).thread = this[k]
  BY <1>1 DEF LifeInv, LifeOK, Working
<1>3. Its(k) = threads[mapped[this[k]] + 1] /\ Its(k) \in ContextType 
      /\ Its(k) = Context(mapped[this[k]]) /\ mapped[this[k]] + 1 \in 1..Len(threads)
      /\ threads \in Seq(ContextType) /\ this \in [Os -> Address \cup {Null}]
  BY <1>2, Known DEF Its, LifeInv, Types
<1>4. CASE Its(k).iterations > 1
  <2> DEFINE c == [Its(k) EXCEPT !.iterations = @ - 1]
  <2>1. Its(k).iterations - 1 \in Nat
    BY <1>3, <1>4 DEF ContextType
  <2>2. c \in ContextType /\ c.status = Its(k).status /\ c.thread = Its(k).thread
    BY <1>3, <2>1 DEF ContextType
  <2>3. /\ threads' = [threads EXCEPT ![mapped[this[k]] + 1].iterations = @ - 1]
        /\ tsd' = tsd /\ UNCHANGED <<pc, this>>
        /\ UNCHANGED <<child, param, dead, invalid, alive, running, memory, process>>
    BY <1>2, <1>3, <1>4 DEF PlatformTSDDtor, PutBack
  <2>4. threads' = [threads EXCEPT ![mapped[this[k]] + 1] = c]
    BY <1>3, <2>3
  <2> HIDE DEF c
  <2> QED BY <1>1, <1>2, <2>2, <2>3, <2>4 DEF PutsBack, SetsContext, memory
<1>5. CASE ~(Its(k).iterations > 1)
  <2>1. /\ tsd' = [tsd EXCEPT ![k] = Null]
        /\ this' = [this EXCEPT ![k] = this[k]]
        /\ Goto(k, IF this'[k] = Null THEN "late" ELSE "destroys")
        /\ UNCHANGED <<threads, child, param, dead, invalid, alive, running, memory, process>>
    BY <1>2, <1>3, <1>5 DEF PlatformTSDDtor
  <2>2. this' = this
    BY <1>3, <2>1
  <2> QED BY <1>1, <1>2, <2>1, <2>2 DEF Forsakes, registry
<1> QED BY <1>4, <1>5

(* FinishThread.  A dead context joins the others in quarantine.           *)
Finishes(k, context) ==
  /\ pc[k] = "destroys" /\ Goto(k, "unmaps") /\ SetsContext(k, context)
  /\ Its(k).status = "running" /\ context.thread = Null
  /\ \/ context.status = "finished" /\ dead' = dead
     \/ context.status = "dead" /\ dead' = Append(dead, mapped[this[k]])
  /\ alive' = alive - 1 /\ running' = running - 1 /\ UNCHANGED tsd

(* Unmap: the object, with its place in the ring.                          *)
Unmaps(k) ==
  /\ pc[k] = "unmaps" /\ Goto(k, "late") /\ this[k] # Null /\ Its(k).thread = Null
  /\ mapped' = [x \in DOMAIN mapped \ {this[k]} |-> mapped[x]]
  /\ next' = [x \in DOMAIN next \ {this[k]} |-> next[x]]
  /\ prev' = [x \in DOMAIN prev \ {this[k]} |-> prev[x]]
  /\ ready' = ready \ {this[k]}
  /\ this' = [this EXCEPT ![k] = Null]
  /\ UNCHANGED <<child, param, tsd, registry, process>>

(* What is unmapped is the thread's object, to which no context leads.     *)
LEMMA UnmapEffect ==
  ASSUME LifeInv, NEW k \in Os, Unmap(k)
  PROVE  Unmaps(k)
<1>1. pc[k] = "unmaps"
  BY DEF Unmap, At
<1>2. this[k] # Null /\ Its(k).thread = Null
  BY <1>1 DEF LifeInv, LifeOK
<1> QED BY <1>1, <1>2 DEF Unmap, Unmaps

----------------------------------------------------------------------------
(* The contexts by status.                                                 *)
IndexOf(statuses) == {i \in 1..Len(threads) : threads[i].status \in statuses}

(* The number of contexts with given statuses is one.                      *)
LEMMA HavingFinite ==
  ASSUME Types, NEW statuses
  PROVE  /\ IsFiniteSet(IndexOf(statuses)) /\ Having(statuses) = Cardinality(IndexOf(statuses))
         /\ Having(statuses) \in Nat /\ Having(statuses) <= Len(threads)
<1>1. Len(threads) \in Nat
  BY DEF Types
<1>2. IsFiniteSet(1..Len(threads)) /\ Cardinality(1..Len(threads)) = Len(threads)
  <2> DEFINE n == Len(threads)
  <2>1. n \in Nat /\ 1 \in Int /\ n \in Int
    BY <1>1
  <2> HIDE DEF n
  <2>2. IsFiniteSet(1..n) /\ Cardinality(1..n) = IF 1 > n THEN 0 ELSE n - 1 + 1
    BY ONLY <2>1, FS_Interval
  <2>3. IsFiniteSet(1..n) /\ Cardinality(1..n) = n
    BY ONLY <2>1, <2>2
  <2> QED BY <2>3 DEF n
<1>3. IndexOf(statuses) \subseteq 1..Len(threads)
  BY DEF IndexOf
<1>4. IsFiniteSet(IndexOf(statuses)) /\ Cardinality(IndexOf(statuses)) <= Len(threads)
  BY <1>2, <1>3, FS_Subset
<1>5. Cardinality(IndexOf(statuses)) \in Nat
  BY <1>4, FS_CardinalityType
<1> QED BY <1>4, <1>5 DEF Having, IndexOf

(* A new context is counted with its status.                               *)
LEMMA HavingAppend ==
  ASSUME Types, NEW context \in ContextType, threads' = Append(threads, context), NEW statuses
  PROVE  Having(statuses)' = Having(statuses) + IF context.status \in statuses THEN 1 ELSE 0
<1> DEFINE n == Len(threads)
           new == {i \in 1..Len(threads') : threads'[i].status \in statuses}
<1>1. /\ n \in Nat /\ threads \in Seq(ContextType) 
      /\ Len(threads') = n + 1 /\ threads'[n + 1] = context
      /\ \A i \in 1..n : threads'[i] = threads[i]
  BY DEF Types
<1>2. /\ IsFiniteSet(IndexOf(statuses)) /\ Having(statuses) = Cardinality(IndexOf(statuses))
      /\ Having(statuses) \in Nat
  BY HavingFinite
<1>3. Having(statuses)' = Cardinality(new)
  BY DEF Having
<1>4. CASE context.status \in statuses
  <2>1. new = IndexOf(statuses) \cup {n + 1} /\ n + 1 \notin IndexOf(statuses)
    BY <1>1, <1>4 DEF IndexOf
  <2>2. Cardinality(IndexOf(statuses) \cup {n + 1}) = Cardinality(IndexOf(statuses)) + 1
    BY <1>2, <2>1, FS_AddElement
  <2> HIDE DEF new
  <2> QED BY <1>2, <1>3, <1>4, <2>1, <2>2
<1>5. CASE context.status \notin statuses
  <2>1. new = IndexOf(statuses)
    BY <1>1, <1>5 DEF IndexOf
  <2> HIDE DEF new
  <2> QED BY <1>2, <1>3, <1>5, <2>1
<1> QED BY <1>4, <1>5

(* One that changes its status is counted there instead.                   *)
LEMMA HavingUpdate ==
  ASSUME Types, NEW i \in 1..Len(threads), NEW context \in ContextType, 
         threads' = [threads EXCEPT ![i] = context], NEW statuses
  PROVE  Having(statuses)' = 
           Having(statuses) + (IF context.status \in statuses THEN 1 ELSE 0)
                            - (IF threads[i].status \in statuses THEN 1 ELSE 0)
<1> DEFINE old == IndexOf(statuses)
           new == {j \in 1..Len(threads') : threads'[j].status \in statuses}
<1>1. /\ Len(threads) \in Nat /\ threads \in Seq(ContextType) 
      /\ Len(threads') = Len(threads) /\ threads'[i] = context
      /\ \A j \in 1..Len(threads) : j # i => threads'[j] = threads[j]
  BY DEF Types
<1>2. IsFiniteSet(old) /\ Having(statuses) = Cardinality(old) /\ Having(statuses) \in Nat
  BY HavingFinite
<1>3. Having(statuses)' = Cardinality(new)
  BY DEF Having
<1>4. i \in old <=> threads[i].status \in statuses
  BY DEF IndexOf
<1>5. CASE context.status \in statuses /\ threads[i].status \notin statuses
  <2>1. new = old \cup {i}
    BY <1>1, <1>5 DEF IndexOf
  <2>2. Cardinality(old \cup {i}) = Cardinality(old) + 1
    BY <1>2, <1>4, <1>5, FS_AddElement
  <2> HIDE DEF new, old
  <2> QED BY <1>2, <1>3, <1>5, <2>1, <2>2
<1>6. CASE context.status \notin statuses /\ threads[i].status \in statuses
  <2>1. new = old \ {i}
    BY <1>1, <1>6 DEF IndexOf
  <2>2. Cardinality(old \ {i}) = Cardinality(old) - 1
    BY <1>2, <1>4, <1>6, FS_RemoveElement
  <2> HIDE DEF new, old
  <2> QED BY <1>2, <1>3, <1>6, <2>1, <2>2
<1>7. CASE context.status \in statuses <=> threads[i].status \in statuses
  <2>1. new = old
    BY <1>1, <1>7 DEF IndexOf
  <2> HIDE DEF new, old
  <2> QED BY <1>2, <1>3, <1>7, <2>1
<1> QED BY <1>5, <1>6, <1>7

(* It counts the context at i, or misses it.                               *)
LEMMA HavingBounds ==
  ASSUME Types, NEW i \in 1..Len(threads), NEW statuses
  PROVE  IF threads[i].status \in statuses THEN Having(statuses) > 0
         ELSE Having(statuses) < Len(threads)
<1> DEFINE n == Len(threads)
<1>1. n \in Nat
  BY DEF Types
<1>2. IsFiniteSet(1..n) /\ Cardinality(1..n) = n
  <2> HIDE DEF n
  <2> QED BY <1>1, FS_Interval
<1>3. /\ IsFiniteSet(IndexOf(statuses)) /\ Having(statuses) = Cardinality(IndexOf(statuses))
      /\ Having(statuses) \in Nat
  BY HavingFinite
<1>4. CASE threads[i].status \in statuses
  <2>1. i \in IndexOf(statuses)
    BY <1>4 DEF IndexOf
  <2>2. Cardinality(IndexOf(statuses)) # 0
    BY <1>3, <2>1, FS_EmptySet
  <2> QED BY <1>3, <1>4, <2>2
<1>5. CASE threads[i].status \notin statuses
  <2>1. IndexOf(statuses) \subseteq (1..n) \ {i}
    BY <1>5 DEF IndexOf
  <2>2. IsFiniteSet((1..n) \ {i}) /\ Cardinality((1..n) \ {i}) = n - 1
    BY <1>2, FS_RemoveElement
  <2>3. Cardinality(IndexOf(statuses)) <= n - 1
    BY <2>1, <2>2, FS_Subset
  <2> QED BY <1>1, <1>3, <1>5, <2>3
<1> QED BY <1>4, <1>5

(* The CHECKs of FinishThread hold, and the quarantine has room.           *)
LEMMA FinishEffect ==
  ASSUME LifeInv, NEW k \in Os, FinishThread(k)
  PROVE  \E context \in ContextType : Finishes(k, context)
<1> DEFINE c == Finished(Its(k))
           tid == mapped[this[k]]
           queue == IF Its(k).detached THEN Append(dead, tid) ELSE dead
<1>1. pc[k] = "destroys"
  BY DEF FinishThread, At
<1>2. this[k] # Null /\ Its(k).status = "running"
  BY <1>1 DEF LifeInv, LifeOK
<1>3. /\ Its(k) = threads[tid + 1] /\ Its(k) \in ContextType /\ Its(k) = Context(tid)
      /\ tid + 1 \in 1..Len(threads) /\ tid \in Tid
      /\ threads \in Seq(ContextType) /\ dead \in Seq(Tid) 
      /\ Len(threads) \in Nat /\ Len(threads) <= MaxThreads /\ MaxThreads \in Nat
  <2>1. Types
    BY DEF LifeInv
  <2> QED BY <1>2, <2>1, Known, ThreadAssumption DEF Its, Types
<1>4. /\ c \in ContextType /\ c.thread = Null
      /\ c.status = IF Its(k).detached THEN "dead" ELSE "finished"
  BY <1>3 DEF Finished, OnFinished, ContextType
<1>5. alive > 0 /\ running > 0 /\ Len(dead) < MaxThreads
  <2>1. Having({"created", "running"}) > 0 /\ Having({"running"}) > 0
    BY <1>2, <1>3, HavingBounds DEF LifeInv
  <2>2. Having({"dead"}) < Len(threads)
    BY <1>2, <1>3, HavingBounds DEF LifeInv
  <2>3. Len(dead) \in Nat
    BY <1>3
  <2>4. /\ alive = Having({"created", "running"}) /\ running = Having({"running"})
        /\ Len(dead) = Having({"dead"})
    BY DEF LifeInv, CountsOK
  <2> HIDE DEF tid, queue, c
  <2> QED BY <1>3, <2>1, <2>2, <2>3, <2>4
<1>6. Len(queue) <= QuarantineSize
  BY <1>3, <1>5, ThreadAssumption DEF QuarantineSize
<1>7. /\ alive' = alive - 1 /\ running' = running - 1
      /\ dead' = queue /\ threads' = [threads EXCEPT ![tid + 1] = Finished(@)] /\ invalid' = invalid
      /\ Goto(k, "unmaps")
      /\ UNCHANGED <<child, param, this, tsd, memory, process>>
  <2> HIDE DEF queue
  <2>1. queue = IF Context(tid).detached THEN Append(dead, tid) ELSE dead
    BY <1>3 DEF queue
  <2>2. ~(Context(tid).status # "running" \/ alive = 0 \/ running = 0)
    BY <1>2, <1>3, <1>5
  <2> QED BY <1>6, <2>1, <2>2 DEF FinishThread
<1>8. threads' = [threads EXCEPT ![tid + 1] = c]
  BY <1>3, <1>7
<1>9. \/ c.status = "finished" /\ dead' = dead
      \/ c.status = "dead" /\ dead' = Append(dead, mapped[this[k]])
  BY <1>3, <1>4, <1>7 DEF ContextType
<1> HIDE DEF c
<1> QED BY <1>1, <1>2, <1>4, <1>7, <1>8, <1>9 DEF Finishes, SetsContext, memory

(* Every step is one of these.                                             *)
Acts(k) ==
  \/ Stops
  \/ PthreadCreate(k) \/ Tell(k) \/ Return(k) \/ Signal(k) \/ Finish(k) \/ End(k)
  \/ \E a \in Address \ DOMAIN mapped, context \in ContextType : Creates(k, a, context)
  \/ SetsCurrent(k) \/ InitsCache(k) \/ Forsakes(k) \/ Unmaps(k)
  \/ \E context \in ContextType : 
       StartsThread(k, context) \/ PutsBack(k, context) \/ Finishes(k, context)

(* So every step is one of the above.                                      *)
LEMMA StepActs ==
  ASSUME LifeInv, NEW k \in Os, StepOf(k)
  PROVE  Acts(k)
<1>1. CASE LimitExceeded(k)
  BY <1>1 DEF LimitExceeded, Die, Stops, Acts
<1>2. CASE Create(k)
  BY <1>2, CreateEffect DEF Acts
<1>3. CASE SetCurrentThread(k)
  BY <1>3, SetCurrentEffect DEF Acts
<1>4. CASE InitCache(k)
  BY <1>4, InitCacheEffect DEF Acts
<1>5. CASE StartThread(k)
  BY <1>5, StartEffect DEF Acts
<1>6. CASE PlatformTSDDtor(k)
  BY <1>6, DtorEffect DEF Acts
<1>7. CASE FinishThread(k)
  BY <1>7, FinishEffect DEF Acts
<1>8. CASE Unmap(k)
  BY <1>8, UnmapEffect DEF Acts
<1> QED
  BY <1>1, <1>2, <1>3, <1>4, <1>5, <1>6, <1>7, <1>8 DEF StepOf, Creator, Starts, Ends, Acts

(* One parameter is set, whole.                                            *)
LEMMA ParamSet ==
  ASSUME NEW P, NEW f \in [Os -> P], NEW i \in Os, NEW r \in P
  PROVE  [f EXCEPT ![i] = r] \in [Os -> P]
  OBVIOUS

(* The variables of the list that a step does not touch keep their types.  *)
LEMMA TypesNext ==
  ASSUME LifeInv, NEW k \in Os, Acts(k)
  PROVE  Types'
<1>1. Types /\ LifeOK(k) /\ PairOK(k) /\ OwnObjects
  BY DEF LifeInv
<1>2. CASE Stops
  BY <1>1, <1>2 DEF Stops, registry, memory, Types
<1>3. ASSUME NEW where \in PCs, Goto(k, where) PROVE pc' \in [Os -> PCs]
  BY <1>1, <1>3, GotoEffect
<1>4. CASE PthreadCreate(k)
  <2>1. PICK c \in Os : /\ pc' = [pc EXCEPT ![k] = "creates", ![c] = "spins"]
                        /\ child' = [child EXCEPT ![k] = c]
                        /\ param' = [param EXCEPT ![c] = [NoParam EXCEPT !.valid = TRUE]]
    BY <1>4 DEF PthreadCreate
  <2>2. [NoParam EXCEPT !.valid = TRUE] \in [t : Address \cup {Null}, is_registered : BOOLEAN, valid : BOOLEAN]
    BY DEF NoParam
  <2>3. UNCHANGED <<this, tsd, registry, memory>>
    BY <1>4 DEF PthreadCreate
  <2>4. pc' \in [Os -> PCs] /\ child' \in [Os -> Os \cup {Null}]
    BY <1>1, <2>1 DEF Types, PCs, Starting, Working, Creating
  <2>5. param' \in [Os -> [t : Address \cup {Null}, is_registered : BOOLEAN, valid : BOOLEAN]]
    BY <1>1, <2>1, <2>2 DEF Types
  <2> QED BY <1>1, <2>3, <2>4, <2>5 DEF Types, registry, memory
<1>5. CASE Tell(k)
  <2>1. child[k] \in Os /\ "waits" \in PCs
    BY <1>1, <1>5 DEF Tell, At, PairOK, PCs, Working, Creating
  <2>2. param' = [param EXCEPT ![child[k]] = [param[child[k]] EXCEPT !.t = this[child[k]]]]
    BY <1>5 DEF Tell
  <2>3. param \in [Os -> [t : Address \cup {Null}, is_registered : BOOLEAN, valid : BOOLEAN]]
    BY <1>1 DEF Types
  <2>4. this[child[k]] \in Address \cup {Null}
    BY <1>1, <2>1 DEF Types
  <2>5. [param[child[k]] EXCEPT !.t = this[child[k]]] 
          \in [t : Address \cup {Null}, is_registered : BOOLEAN, valid : BOOLEAN]
    BY ONLY <2>1, <2>3, <2>4
  <2>6. param' \in [Os -> [t : Address \cup {Null}, is_registered : BOOLEAN, valid : BOOLEAN]]
    BY ONLY <2>1, <2>2, <2>3, <2>5, ParamSet
  <2> QED BY <1>1, <1>3, <1>5, <2>1, <2>6 DEF Tell, Types, registry, memory
<1>6. CASE Return(k)
  <2>1. "works" \in PCs
    BY DEF PCs, Working
  <2>2. param' \in [Os -> [t : Address \cup {Null}, is_registered : BOOLEAN, valid : BOOLEAN]]
    <3>1. /\ param' = [param EXCEPT ![child[k]] = NoParam] 
          /\ param \in [Os -> [t : Address \cup {Null}, is_registered : BOOLEAN, valid : BOOLEAN]]
      BY <1>1, <1>6 DEF Return, Types
    <3>2. NoParam \in [t : Address \cup {Null}, is_registered : BOOLEAN, valid : BOOLEAN]
      BY DEF NoParam
    <3>3. child[k] \in Os
      BY <1>1, <1>6 DEF Return, At, PairOK, Creating
    <3> QED BY ONLY <3>1, <3>2, <3>3, ParamSet
  <2>3. child' \in [Os -> Os \cup {Null}]
    BY <1>1, <1>6 DEF Return, Types
  <2> QED BY <1>1, <1>3, <1>6, <2>1, <2>2, <2>3 DEF Return, Types, registry, memory
<1>7. CASE Signal(k)
  <2>1. "works" \in PCs
    BY DEF PCs, Working
  <2>2. param' \in [Os -> [t : Address \cup {Null}, is_registered : BOOLEAN, valid : BOOLEAN]]
    <3>1. param' = [param EXCEPT ![k] = [param[k] EXCEPT !.is_registered = TRUE]]
      BY <1>7 DEF Signal, Registered
    <3>2. param \in [Os -> [t : Address \cup {Null}, is_registered : BOOLEAN, valid : BOOLEAN]] /\ k \in Os
      BY <1>1 DEF Types
    <3>3. [param[k] EXCEPT !.is_registered = TRUE] 
            \in [t : Address \cup {Null}, is_registered : BOOLEAN, valid : BOOLEAN]
      BY ONLY <3>2
    <3> QED BY ONLY <3>1, <3>2, <3>3, ParamSet
  <2> QED BY <1>1, <1>3, <1>7, <2>1, <2>2 DEF Signal, Types, registry, memory
<1>8. CASE Finish(k) \/ End(k)
  <2>1. "destructs" \in PCs /\ "gone" \in PCs
    BY DEF PCs, Working
  <2> QED BY <1>1, <1>3, <1>8, <2>1 DEF Finish, End, Types, registry, memory
<1>9. ASSUME NEW a \in Address \ DOMAIN mapped, NEW context \in ContextType, Creates(k, a, context)
      PROVE  Types'
  <2>1. "tells" \in PCs
    BY DEF PCs, Working, Creating
  <2>2. this' \in [Os -> Address \cup {Null}]
    BY <1>1, <1>9 DEF Creates, Types
  <2>3. /\ threads \in Seq(ContextType) /\ Len(threads) \in Nat /\ MaxThreads \in Nat
        /\ Len(threads) < MaxThreads /\ threads' = Append(threads, context)
    BY <1>1, <1>9, ThreadAssumption DEF Creates, Types
  <2>4. threads' \in Seq(ContextType) /\ Len(threads') = Len(threads) + 1 /\ Len(threads') <= MaxThreads
    BY <2>3
  <2>5. mapped' \in [DOMAIN mapped' -> 0..(Len(threads') - 1)] /\ DOMAIN mapped' = DOMAIN mapped \cup {a}
    <3>1. mapped \in [DOMAIN mapped -> 0..(Len(threads) - 1)]
      BY <1>1 DEF Types
    <3>2. mapped' = [x \in DOMAIN mapped \cup {a} |-> IF x = a THEN Len(threads) ELSE mapped[x]]
      BY <1>9 DEF Creates
    <3>3. \A x \in DOMAIN mapped : mapped[x] \in 0..(Len(threads') - 1)
      BY <2>3, <2>4, <3>1
    <3>4. Len(threads) \in 0..(Len(threads') - 1)
      BY <2>3, <2>4
    <3> QED BY <3>2, <3>3, <3>4
  <2>6. alive' \in Nat
    BY <1>1, <1>9 DEF Creates, Types
  <2>7. UNCHANGED <<child, param, tsd, dead, running, ready, next, prev>> /\ pc' \in [Os -> PCs]
    BY <1>3, <1>9, <2>1 DEF Creates
  <2> QED BY <1>1, <2>2, <2>4, <2>5, <2>6, <2>7 DEF Types
<1>10. CASE SetsCurrent(k)
  <2>1. "initialises" \in PCs
    BY DEF PCs, Starting
  <2>2. mapped[this[k]] \in Tid
    BY <1>10, Known DEF SetsCurrent
  <2>3. tsd' \in [Os -> Tid \cup {Null}]
    BY <1>1, <1>10, <2>2 DEF SetsCurrent, Types
  <2> QED BY <1>1, <1>3, <1>10, <2>1, <2>3 DEF SetsCurrent, Types, registry, memory
<1>11. CASE InitsCache(k)
  <2>1. "starts" \in PCs
    BY DEF PCs, Starting
  <2>2. this[k] \in DOMAIN mapped
    BY <1>11, Known DEF InitsCache
  <2>3. /\ ready' \subseteq DOMAIN mapped' /\ mapped' = mapped
        /\ DOMAIN next' = {Globals} \cup ready' /\ DOMAIN prev' = {Globals} \cup ready'
    BY <1>1, <1>11, <2>2 DEF InitsCache, Types
  <2> QED BY <1>1, <1>3, <1>11, <2>1, <2>3 DEF InitsCache, Types, registry
<1>12. CASE Forsakes(k)
  <2>1. "destroys" \in PCs
    BY DEF PCs
  <2>2. tsd' \in [Os -> Tid \cup {Null}]
    BY <1>1, <1>12 DEF Forsakes, Types
  <2> QED BY <1>1, <1>3, <1>12, <2>1, <2>2 DEF Forsakes, Types, registry, memory
<1>13. CASE Unmaps(k)
  <2>1. "late" \in PCs
    BY DEF PCs
  <2>2. this' \in [Os -> Address \cup {Null}]
    BY <1>1, <1>13 DEF Unmaps, Types
  <2>3. /\ mapped' \in [DOMAIN mapped' -> 0..(Len(threads') - 1)]
        /\ DOMAIN mapped' = DOMAIN mapped \ {this[k]} /\ threads' = threads
    BY <1>1, <1>13 DEF Unmaps, Types, registry
  <2>4. this[k] \in Address
    BY <1>13, Known DEF Unmaps
  <2>5. /\ ready' \subseteq DOMAIN mapped'
        /\ DOMAIN next' = {Globals} \cup ready' /\ DOMAIN prev' = {Globals} \cup ready'
    BY <1>1, <1>13, <2>3, <2>4, ThreadAssumption DEF Unmaps, Types
  <2> QED BY <1>1, <1>3, <1>13, <2>1, <2>2, <2>3, <2>5 DEF Unmaps, Types, registry
<1>14. ASSUME NEW context \in ContextType, SetsContext(k, context)
       PROVE  /\ threads' \in Seq(ContextType) /\ Len(threads') = Len(threads)
              /\ Len(threads') <= MaxThreads
              /\ mapped' \in [DOMAIN mapped' -> 0..(Len(threads') - 1)]
              /\ DOMAIN mapped' \subseteq Address /\ ready' \subseteq DOMAIN mapped' 
              /\ DOMAIN next' = {Globals} \cup ready' /\ DOMAIN prev' = {Globals} \cup ready'
              /\ child' \in [Os -> Os \cup {Null}] /\ this' \in [Os -> Address \cup {Null}]
              /\ param' \in [Os -> [t : Address \cup {Null}, is_registered : BOOLEAN, valid : BOOLEAN]]
  <2>1. threads' = [threads EXCEPT ![mapped[this[k]] + 1] = context] /\ threads \in Seq(ContextType)
    BY <1>1, <1>14 DEF SetsContext, Types
  <2>2. mapped[this[k]] + 1 \in 1..Len(threads)
    BY <1>14, Known DEF SetsContext
  <2>3. threads' \in Seq(ContextType) /\ Len(threads') = Len(threads)
    <3> DEFINE i == mapped[this[k]] + 1
    <3>1. i \in 1..Len(threads) /\ threads' = [threads EXCEPT ![i] = context]
      BY <2>1, <2>2
    <3> HIDE DEF i
    <3>2. threads \in Seq(ContextType)
      BY <2>1
    <3> QED BY <3>1, <3>2, ExceptSeq
  <2> QED BY <1>1, <1>14, <2>3 DEF SetsContext, Types
<1>15. ASSUME NEW context \in ContextType, StartsThread(k, context)
       PROVE  Types'
  <2>1. "signals" \in PCs
    BY DEF PCs, Starting
  <2>2. /\ running \in Nat /\ running' = running + 1 /\ SetsContext(k, context)
        /\ Goto(k, "signals") /\ UNCHANGED <<tsd, dead, alive>>
    BY <1>1, <1>15 DEF StartsThread, Types
  <2>3. running' \in Nat
    BY <2>2
  <2> QED BY <1>1, <1>3, <1>14, <2>1, <2>2, <2>3 DEF Types
<1>16. ASSUME NEW context \in ContextType, PutsBack(k, context)
       PROVE  Types'
  BY <1>1, <1>14, <1>16 DEF PutsBack, Types
<1>17. ASSUME NEW context \in ContextType, Finishes(k, context)
       PROVE  Types'
  <2>1. "unmaps" \in PCs
    BY DEF PCs
  <2>2. mapped[this[k]] \in Tid
    BY <1>17, Known DEF Finishes, SetsContext
  <2>3. dead' \in Seq(Tid)
    <3>1. dead' = dead \/ dead' = Append(dead, mapped[this[k]])
      BY <1>17 DEF Finishes
    <3>2. dead \in Seq(Tid)
      BY <1>1 DEF Types
    <3> QED BY ONLY <2>2, <3>1, <3>2
  <2>4. alive' \in Nat /\ running' \in Nat
    <3>1. Its(k).status = "running" /\ Its(k) = threads[mapped[this[k]] + 1] 
          /\ mapped[this[k]] + 1 \in 1..Len(threads)
      BY <1>17, Known DEF Finishes, SetsContext
    <3>2. Having({"created", "running"}) > 0 /\ Having({"running"}) > 0
      BY <1>1, <3>1, HavingBounds
    <3>3. alive > 0 /\ running > 0
      BY <3>2 DEF LifeInv, CountsOK
    <3> QED BY <1>1, <1>17, <3>3 DEF Finishes, Types
  <2> QED BY <1>1, <1>3, <1>14, <1>17, <2>1, <2>3, <2>4 DEF Finishes, Types
<1> QED
  BY <1>2, <1>4, <1>5, <1>6, <1>7, <1>8, <1>9, <1>10, <1>11, <1>12, <1>13, <1>15, <1>16, <1>17 
  DEF Acts

(* One context changes, that of the thread.                                *)
LEMMA ContextEffect ==
  ASSUME LifeInv, NEW k \in Os, NEW context \in ContextType, SetsContext(k, context)
  PROVE  /\ Len(threads') = Len(threads) /\ mapped[this[k]] + 1 \in 1..Len(threads)
         /\ threads'[mapped[this[k]] + 1] = context
         /\ \A i \in 1..Len(threads) : i # mapped[this[k]] + 1 => threads'[i] = threads[i]
<1> DEFINE i == mapped[this[k]] + 1
<1>1. i \in 1..Len(threads) /\ threads \in Seq(ContextType)
  BY Known DEF SetsContext, LifeInv, Types
<1>2. threads' = [threads EXCEPT ![i] = context]
  BY DEF SetsContext
<1>3. /\ Len(threads') = Len(threads) 
      /\ \A j \in 1..Len(threads) : threads'[j] = IF j = i THEN context ELSE threads[j]
  <2> HIDE DEF i
  <2> QED BY <1>1, <1>2, ExceptSeq
<1> QED BY <1>1, <1>3

(* Contexts of other threads stay.                                         *)
LEMMA ContextsStay ==
  ASSUME LifeInv, NEW k \in Os, Acts(k)
  PROVE  \A i \in 1..Len(threads) : 
           /\ i \in 1..Len(threads')
           /\ this[k] = Null \/ i # mapped[this[k]] + 1 => threads'[i] = threads[i]
<1>1. threads \in Seq(ContextType) /\ Len(threads) \in Nat
  <2>1. Types
    BY DEF LifeInv
  <2>2. threads \in Seq(ContextType)
    BY <2>1 DEF Types
  <2> QED BY ONLY <2>2
<1>2. ASSUME NEW context \in ContextType, SetsContext(k, context)
      PROVE  \A i \in 1..Len(threads) : 
               /\ i \in 1..Len(threads')
               /\ this[k] = Null \/ i # mapped[this[k]] + 1 => threads'[i] = threads[i]
  BY <1>2, ContextEffect DEF SetsContext
<1>3. ASSUME NEW context \in ContextType, 
             StartsThread(k, context) \/ PutsBack(k, context) \/ Finishes(k, context)
      PROVE  SetsContext(k, context)
  BY <1>3 DEF StartsThread, PutsBack, Finishes
<1>4. ASSUME NEW a \in Address \ DOMAIN mapped, NEW context \in ContextType, Creates(k, a, context)
      PROVE  \A i \in 1..Len(threads) : i \in 1..Len(threads') /\ threads'[i] = threads[i]
  <2>1. threads' = Append(threads, context)
    BY <1>4 DEF Creates
  <2> QED BY <1>1, <2>1
<1> QED 
  BY <1>2, <1>3, <1>4 
  DEF Acts, Stops, PthreadCreate, Tell, Return, Signal, Finish, End, SetsCurrent, InitsCache, Forsakes,
      Unmaps, registry

(* The counters count.                                                     *)
LEMMA CountsNext ==
  ASSUME LifeInv, NEW k \in Os, Acts(k)
  PROVE  CountsOK'
<1>1. Types /\ CountsOK
  BY DEF LifeInv
<1>2. /\ alive \in Nat /\ running \in Nat /\ threads \in Seq(ContextType) /\ dead \in Seq(Tid)
  BY <1>1 DEF Types
<1>3. ASSUME UNCHANGED <<threads, dead, invalid, alive, running>> PROVE CountsOK'
  BY <1>1, <1>3 DEF CountsOK, Having
<1>4. CASE UNCHANGED registry
  BY <1>3, <1>4 DEF registry
<1>5. ASSUME NEW a \in Address \ DOMAIN mapped, NEW context \in ContextType, Creates(k, a, context)
      PROVE  CountsOK'
  <2>1. /\ threads' = Append(threads, context) /\ context.status = "created" 
        /\ alive' = alive + 1 /\ UNCHANGED <<dead, invalid, running>>
    BY <1>5 DEF Creates
  <2>2. /\ Having({"created", "running"})' = Having({"created", "running"}) + 1
        /\ Having({"running"})' = Having({"running"}) + 0
        /\ Having({"dead"})' = Having({"dead"}) + 0
    BY <1>1, <2>1, HavingAppend
  <2>3. Having({"running"}) \in Nat /\ Having({"dead"}) \in Nat
    BY <1>1, HavingFinite
  <2> QED BY <1>1, <2>1, <2>2, <2>3 DEF CountsOK
<1>6. ASSUME NEW context \in ContextType, SetsContext(k, context), NEW statuses
      PROVE  Having(statuses)' = 
               Having(statuses) + (IF context.status \in statuses THEN 1 ELSE 0)
                                - (IF Its(k).status \in statuses THEN 1 ELSE 0)
  <2>1. /\ mapped[this[k]] + 1 \in 1..Len(threads) /\ Its(k) = threads[mapped[this[k]] + 1]
        /\ threads' = [threads EXCEPT ![mapped[this[k]] + 1] = context]
    BY <1>6, Known DEF SetsContext
  <2> QED BY <1>1, <2>1, HavingUpdate
<1>7. /\ Having({"running"}) \in Nat /\ Having({"dead"}) \in Nat 
      /\ Having({"created", "running"}) \in Nat
  BY <1>1, HavingFinite
<1>8. ASSUME NEW context \in ContextType, StartsThread(k, context)
      PROVE  CountsOK'
  <2>1. /\ SetsContext(k, context) /\ Its(k).status = "created" /\ context.status = "running"
        /\ running' = running + 1 /\ UNCHANGED <<dead, alive, invalid>>
    BY <1>8 DEF StartsThread, SetsContext
  <2>2. Having({"created", "running"})' = Having({"created", "running"}) + 1 - 1
    BY <1>6, <2>1
  <2>3. Having({"running"})' = Having({"running"}) + 1 - 0
    BY <1>6, <2>1
  <2>4. Having({"dead"})' = Having({"dead"}) + 0 - 0
    BY <1>6, <2>1
  <2> QED BY <1>1, <1>7, <2>1, <2>2, <2>3, <2>4 DEF CountsOK
<1>9. ASSUME NEW context \in ContextType, PutsBack(k, context)
      PROVE  CountsOK'
  <2>1. /\ SetsContext(k, context) /\ context.status = Its(k).status
        /\ UNCHANGED <<dead, alive, running, invalid>>
    BY <1>9 DEF PutsBack, SetsContext
  <2>2. \A S \in {{"created", "running"}, {"running"}, {"dead"}} : Having(S)' = Having(S)
    <3>1. ASSUME NEW S, Having(S) \in Nat PROVE Having(S)' = Having(S)
      <4>1. Having(S)' = Having(S) + (IF context.status \in S THEN 1 ELSE 0)
                                   - (IF Its(k).status \in S THEN 1 ELSE 0)
        BY <1>6, <2>1
      <4> QED BY <2>1, <3>1, <4>1
    <3> QED BY <1>7, <3>1
  <2> QED BY <1>1, <2>1, <2>2 DEF CountsOK
<1>10. ASSUME NEW context \in ContextType, Finishes(k, context)
       PROVE  CountsOK'
  <2>1. /\ SetsContext(k, context) /\ Its(k).status = "running" 
        /\ alive' = alive - 1 /\ running' = running - 1 /\ invalid' = invalid
        /\ \/ context.status = "finished" /\ dead' = dead
           \/ context.status = "dead" /\ dead' = Append(dead, mapped[this[k]])
    BY <1>10 DEF Finishes, SetsContext
  <2>2. Having({"created", "running"})' = Having({"created", "running"}) + 0 - 1
    BY <1>6, <2>1
  <2>3. Having({"running"})' = Having({"running"}) + 0 - 1
    BY <1>6, <2>1
  <2>4. Having({"dead"})' = Having({"dead"}) + (IF context.status \in {"dead"} THEN 1 ELSE 0) - 0
    BY <1>6, <2>1
  <2>5. CASE context.status = "finished"
    BY <1>1, <1>7, <2>1, <2>2, <2>3, <2>4, <2>5 DEF CountsOK
  <2>6. CASE context.status = "dead"
    <3>1. Len(dead') = Len(dead) + 1
      BY <1>2, <2>1, <2>6
    <3> QED BY <1>1, <1>7, <2>1, <2>2, <2>3, <2>4, <2>6, <3>1 DEF CountsOK
  <2> QED BY <2>1, <2>5, <2>6
<1> QED
  BY <1>4, <1>5, <1>8, <1>9, <1>10 
  DEF Acts, Stops, PthreadCreate, Tell, Return, Signal, Finish, End, SetsCurrent, InitsCache, Forsakes,
      Unmaps

----------------------------------------------------------------------------
(* Objects and contexts.                                                   *)

(* What a step does to the objects in memory.                              *)
LEMMA ObjectsStay ==
  ASSUME LifeInv, NEW k \in Os, Acts(k)
  PROVE  \/ mapped' = mapped /\ this' = this
         \/ \E a \in Address \ DOMAIN mapped, context \in ContextType : Creates(k, a, context)
         \/ Unmaps(k)
BY DEF Acts, Stops, PthreadCreate, Tell, Return, Signal, Finish, End, SetsCurrent, InitsCache, Forsakes,
       SetsContext, StartsThread, PutsBack, Finishes, memory

(* No object is of two threads, no context of two objects.                 *)
LEMMA ObjectsNext ==
  ASSUME LifeInv, NEW k \in Os, Acts(k)
  PROVE  OwnObjects' /\ ContextsOwned'
<1>1. /\ OwnObjects /\ ContextsOwned /\ this \in [Os -> Address \cup {Null}]
      /\ mapped \in [DOMAIN mapped -> 0..(Len(threads) - 1)] /\ DOMAIN mapped \subseteq Address
      /\ Len(threads) \in Nat
  <2>1. Types
    BY DEF LifeInv
  <2>2. threads \in Seq(ContextType)
    BY <2>1 DEF Types
  <2>3. Len(threads) \in Nat
    BY ONLY <2>2
  <2> QED BY <2>1, <2>3 DEF LifeInv, Types
<1>2. CASE mapped' = mapped /\ this' = this
  BY <1>1, <1>2 DEF OwnObjects, ContextsOwned
<1>3. ASSUME NEW a \in Address \ DOMAIN mapped, NEW context \in ContextType, Creates(k, a, context)
      PROVE  OwnObjects' /\ ContextsOwned'
  <2> DEFINE n == Len(threads)
  <2>1. /\ child[k] \in Os /\ this' = [this EXCEPT ![child[k]] = a]
        /\ mapped' = [x \in DOMAIN mapped \cup {a} |-> IF x = a THEN n ELSE mapped[x]]
    BY <1>3 DEF Creates
  <2>2. \A x \in DOMAIN mapped : mapped[x] # n
    BY <1>1
  <2>3. a # Null /\ \A j \in Os : this[j] # a
    BY <1>1, ThreadAssumption DEF OwnObjects
  <2> HIDE DEF n
  <2>4. OwnObjects'
    BY <1>1, <2>1, <2>3 DEF OwnObjects
  <2>5. ContextsOwned'
    BY <1>1, <2>1, <2>2 DEF ContextsOwned
  <2> QED BY <2>4, <2>5
<1>4. CASE Unmaps(k)
  <2>1. /\ this[k] # Null /\ this' = [this EXCEPT ![k] = Null]
        /\ mapped' = [x \in DOMAIN mapped \ {this[k]} |-> mapped[x]]
    BY <1>4 DEF Unmaps
  <2>2. OwnObjects'
    BY <1>1, <2>1 DEF OwnObjects
  <2>3. ContextsOwned'
    BY <1>1, <2>1 DEF ContextsOwned
  <2> QED BY <2>2, <2>3
<1> QED BY <1>2, <1>3, <1>4, ObjectsStay

(* A context leads to the object of the thread it belongs to.              *)
LEMMA LinksNext ==
  ASSUME LifeInv, NEW k \in Os, Acts(k)
  PROVE  LinksMapped'
<1>1. /\ LinksMapped /\ OwnObjects /\ ContextsOwned
      /\ mapped \in [DOMAIN mapped -> 0..(Len(threads) - 1)] /\ DOMAIN mapped \subseteq Address
      /\ Len(threads) \in Nat /\ threads \in Seq(ContextType)
  <2>1. Types
    BY DEF LifeInv
  <2>2. threads \in Seq(ContextType)
    BY <2>1 DEF Types
  <2>3. Len(threads) \in Nat
    BY ONLY <2>2
  <2> QED BY <2>1, <2>2, <2>3 DEF LifeInv, Types
<1>2. \A tid \in 0..(Len(threads) - 1) : threads[tid + 1].thread # Null => 
        /\ threads[tid + 1].thread \in DOMAIN mapped 
        /\ mapped[threads[tid + 1].thread] = tid
  BY <1>1 DEF LinksMapped, Context
<1>3. SUFFICES ASSUME NEW tid \in 0..(Len(threads') - 1), threads'[tid + 1].thread # Null
               PROVE  /\ threads'[tid + 1].thread \in DOMAIN mapped' 
                      /\ mapped'[threads'[tid + 1].thread] = tid
  BY DEF LinksMapped, Context
<1>4. CASE UNCHANGED registry /\ mapped' = mapped
  BY <1>2, <1>3, <1>4 DEF registry
<1>5. ASSUME NEW a \in Address \ DOMAIN mapped, NEW context \in ContextType, Creates(k, a, context)
      PROVE  /\ threads'[tid + 1].thread \in DOMAIN mapped' 
             /\ mapped'[threads'[tid + 1].thread] = tid
  <2>1. /\ threads' = Append(threads, context) /\ context.thread = a
        /\ mapped' = [x \in DOMAIN mapped \cup {a} |-> IF x = a THEN Len(threads) ELSE mapped[x]]
    BY <1>5 DEF Creates
  <2>2. /\ Len(threads') = Len(threads) + 1 /\ threads'[Len(threads) + 1] = context
        /\ \A i \in 1..Len(threads) : threads'[i] = threads[i]
    BY <1>1, <2>1
  <2>3. CASE tid = Len(threads)
    BY <2>1, <2>2, <2>3
  <2>4. CASE tid \in 0..(Len(threads) - 1)
    <3>1. threads'[tid + 1] = threads[tid + 1]
      BY <1>1, <2>2, <2>4
    <3> QED BY <1>2, <1>3, <2>1, <2>4, <3>1
  <2> QED BY <1>1, <2>2, <2>3, <2>4
<1>6. ASSUME NEW context \in ContextType, SetsContext(k, context), 
             context.thread \in {Null, Its(k).thread}
      PROVE  /\ threads'[tid + 1].thread \in DOMAIN mapped' 
             /\ mapped'[threads'[tid + 1].thread] = tid
  <2>1. mapped' = mapped /\ Its(k) = threads[mapped[this[k]] + 1] /\ this[k] # Null 
        /\ mapped[this[k]] \in 0..(Len(threads) - 1)
    BY <1>1, <1>6, Known DEF SetsContext, memory
  <2>2. /\ Len(threads') = Len(threads) /\ threads'[mapped[this[k]] + 1] = context
        /\ \A i \in 1..Len(threads) : i # mapped[this[k]] + 1 => threads'[i] = threads[i]
    BY <1>6, ContextEffect
  <2>3. CASE tid = mapped[this[k]]
    BY <1>2, <1>3, <1>6, <2>1, <2>2, <2>3
  <2>4. CASE tid # mapped[this[k]]
    <3>1. threads'[tid + 1] = threads[tid + 1] /\ tid \in 0..(Len(threads) - 1)
      BY <1>1, <2>1, <2>2, <2>4
    <3> QED BY <1>2, <1>3, <2>1, <3>1
  <2> QED BY <2>3, <2>4
<1>7. CASE Unmaps(k)
  <2>1. /\ this[k] # Null /\ Its(k).thread = Null /\ threads' = threads
        /\ mapped' = [x \in DOMAIN mapped \ {this[k]} |-> mapped[x]]
    BY <1>7 DEF Unmaps, registry
  <2>2. Its(k) = threads[mapped[this[k]] + 1]
    BY <2>1, Known
  <2>3. threads[tid + 1].thread # this[k]
    BY <1>2, <1>3, <2>1, <2>2
  <2> QED BY <1>2, <1>3, <2>1, <2>3
<1>8. ASSUME NEW context \in ContextType, 
             StartsThread(k, context) \/ PutsBack(k, context) \/ Finishes(k, context)
      PROVE  SetsContext(k, context) /\ context.thread \in {Null, Its(k).thread}
  BY <1>8 DEF StartsThread, PutsBack, Finishes
<1> QED
  BY <1>4, <1>5, <1>6, <1>7, <1>8 
  DEF Acts, Stops, PthreadCreate, Tell, Return, Signal, Finish, End, SetsCurrent, InitsCache, Forsakes,
      memory

----------------------------------------------------------------------------
(* Where the threads are.                                                  *)

(* The object and the context of another thread stay what they are.        *)
LEMMA ItsStays ==
  ASSUME LifeInv, NEW k \in Os, Acts(k), NEW j \in Os \ {k}, this[j] # Null
  PROVE  /\ this'[j] = this[j] /\ mapped'[this[j]] = mapped[this[j]] /\ Its(j)' = Its(j)
         /\ this[j] \in ready' <=> this[j] \in ready
<1>1. /\ this[j] \in DOMAIN mapped /\ mapped[this[j]] + 1 \in 1..Len(threads)
      /\ Its(j) = threads[mapped[this[j]] + 1]
      /\ this[k] # Null => this[k] # this[j] /\ mapped[this[k]] # mapped[this[j]]
      /\ mapped[this[j]] \in Int
  BY Known DEF Tid
<1>2. this[k] # Null => mapped[this[k]] \in Int
  BY Known DEF Tid
<1>3. threads'[mapped[this[j]] + 1] = threads[mapped[this[j]] + 1]
  <2>1. this[k] = Null \/ mapped[this[j]] + 1 # mapped[this[k]] + 1
    BY <1>1, <1>2
  <2> QED BY <1>1, <2>1, ContextsStay
<1>4. this'[j] = this[j] /\ mapped'[this[j]] = mapped[this[j]]
  <2>1. this \in [Os -> Address \cup {Null}]
    BY DEF LifeInv, Types
  <2>2. ASSUME NEW a \in Address \ DOMAIN mapped, NEW context \in ContextType, Creates(k, a, context)
        PROVE  this'[j] = this[j] /\ mapped'[this[j]] = mapped[this[j]]
    BY <1>1, <2>1, <2>2 DEF Creates
  <2>3. CASE Unmaps(k)
    BY <1>1, <2>1, <2>3 DEF Unmaps
  <2> QED BY <2>2, <2>3, ObjectsStay
<1>5. Its(j)' = Its(j)
  BY <1>1, <1>3, <1>4 DEF Its, Context
<1>6. this[j] \in ready' <=> this[j] \in ready
  <2>1. CASE InitsCache(k)
    BY <1>1, <2>1 DEF InitsCache
  <2>2. CASE Unmaps(k)
    BY <1>1, <2>2 DEF Unmaps
  <2>3. CASE ready' = ready
    BY <2>3
  <2> QED 
    BY <2>1, <2>2, <2>3 
    DEF Acts, Stops, PthreadCreate, Creates, Tell, Return, Signal, Finish, End, SetsCurrent, Forsakes,
        SetsContext, StartsThread, PutsBack, Finishes, memory
<1> QED BY <1>4, <1>5, <1>6

(* So it stays in order unless the step is about it.                       *)
LEMMA OthersLife ==
  ASSUME LifeInv, NEW k \in Os, Acts(k), NEW j \in Os \ {k}
  PROVE  LifeOK(j)'
<1>1. Types /\ LifeOK(j) /\ LifeOK(k) /\ PairOK(k)
  BY DEF LifeInv
<1>2. ASSUME pc'[j] = pc[j], tsd'[j] = tsd[j], this'[j] = this[j], 
             param'[j].valid = param[j].valid, param'[j].is_registered = param[j].is_registered,
             param'[j].t \in {param[j].t, this[j]}
      PROVE  LifeOK(j)'
  <2>1. CASE this[j] = Null
    BY <1>1, <1>2, <2>1 DEF LifeOK
  <2>2. CASE this[j] # Null
    <3>1. /\ mapped'[this[j]] = mapped[this[j]] /\ Its(j)' = Its(j)
          /\ this[j] \in ready' <=> this[j] \in ready
      BY <2>2, ItsStays
    <3> QED BY <1>1, <1>2, <3>1 DEF LifeOK
  <2> QED BY <2>1, <2>2
<1>3. ASSUME NEW where, Goto(k, where) PROVE pc'[j] = pc[j]
  BY <1>1, <1>3 DEF Goto, Types
<1>4. /\ tsd \in [Os -> Tid \cup {Null}] /\ this \in [Os -> Address \cup {Null}]
      /\ param \in [Os -> [t : Address \cup {Null}, is_registered : BOOLEAN, valid : BOOLEAN]]
      /\ pc \in [Os -> PCs]
  BY <1>1 DEF Types
<1>5. CASE Stops
  BY <1>2, <1>5 DEF Stops
<1>6. CASE PthreadCreate(k)
  <2>1. PICK c \in Os : /\ pc[c] = "none" /\ pc' = [pc EXCEPT ![k] = "creates", ![c] = "spins"]
                        /\ param' = [param EXCEPT ![c] = [NoParam EXCEPT !.valid = TRUE]]
    BY <1>6 DEF PthreadCreate
  <2>2. this' = this /\ tsd' = tsd
    BY <1>6 DEF PthreadCreate
  <2>3. CASE j = c
    <3>1. /\ pc'[j] = "spins" /\ this'[j] = Null /\ tsd'[j] = Null
          /\ param'[j].valid /\ ~param'[j].is_registered /\ param'[j].t = Null
      BY <1>1, <1>4, <2>1, <2>2, <2>3 DEF LifeOK, NoParam
    <3> QED BY <3>1 DEF LifeOK, Starting, Working, Creating
  <2>4. CASE j # c
    BY <1>2, <1>4, <2>1, <2>2, <2>4
  <2> QED BY <2>3, <2>4
<1>7. CASE Tell(k)
  <2>1. child[k] \in Os /\ UNCHANGED <<this, tsd>> /\ Goto(k, "waits")
        /\ param' = [param EXCEPT ![child[k]].t = this[child[k]]]
    BY <1>1, <1>7 DEF Tell, At, PairOK, Creating
  <2>2. /\ param'[j].valid = param[j].valid /\ param'[j].is_registered = param[j].is_registered
        /\ param'[j].t \in {param[j].t, this[j]}
    BY <1>4, <2>1
  <2> QED BY <1>2, <1>3, <2>1, <2>2
<1>8. CASE Return(k)
  <2>1. /\ param[child[k]].is_registered /\ param' = [param EXCEPT ![child[k]] = NoParam]
        /\ UNCHANGED <<this, tsd>> /\ Goto(k, "works") /\ UNCHANGED memory /\ UNCHANGED registry
    BY <1>8 DEF Return, MayReturn
  <2>2. CASE j = child[k]
    <3>1. pc[j] \notin Starting
      BY <1>1, <2>1, <2>2 DEF LifeOK
    <3>2. pc'[j] = pc[j] /\ this'[j] = this[j] /\ tsd'[j] = tsd[j] /\ Its(j)' = Its(j)
          /\ ready' = ready /\ mapped' = mapped
      BY <1>3, <2>1 DEF memory, registry, Its, Context
    <3> QED BY <1>1, <3>1, <3>2 DEF LifeOK, Starting
  <2>3. CASE j # child[k]
    BY <1>2, <1>3, <1>4, <2>1, <2>3
  <2> QED BY <2>2, <2>3
<1>9. CASE Signal(k)
  BY <1>2, <1>3, <1>4, <1>9 DEF Signal
<1>10. CASE Finish(k) \/ End(k)
  BY <1>2, <1>3, <1>10 DEF Finish, End
<1>11. ASSUME NEW a \in Address \ DOMAIN mapped, NEW context \in ContextType, Creates(k, a, context)
       PROVE  LifeOK(j)'
  <2>1. /\ this' = [this EXCEPT ![child[k]] = a] /\ UNCHANGED <<tsd, param, ready>>
        /\ Goto(k, "tells") /\ threads' = Append(threads, context)
        /\ mapped' = [x \in DOMAIN mapped \cup {a} |-> IF x = a THEN Len(threads) ELSE mapped[x]]
        /\ pc[child[k]] = "spins" /\ this[child[k]] = Null
        /\ pc[k] = "creates"
        /\ context.status = "created" /\ context.thread = a
    BY <1>11 DEF Creates
  <2>2. CASE j = child[k]
    <3>1. /\ pc'[j] = "spins" /\ this'[j] = a /\ tsd'[j] = Null /\ param'[j] = param[j]
          /\ param[j].valid /\ ~param[j].is_registered
      BY <1>1, <1>3, <1>4, <2>1, <2>2 DEF LifeOK, Starting
    <3>2. param[j].t = Null
      BY <1>1, <2>1, <2>2 DEF PairOK, Creating
    <3>3. a \notin ready'
      BY <1>1, <2>1 DEF Types
    <3>4. Its(j)' = context
      <4>1. mapped'[a] = Len(threads)
        BY <2>1
      <4>2. threads \in Seq(ContextType)
        BY <1>1 DEF Types
      <4>3. threads'[Len(threads) + 1] = context
        BY <2>1, <4>2
      <4> QED BY <3>1, <4>1, <4>3 DEF Its, Context
    <3>5. param \in [Os -> [t : Address \cup {Null}, is_registered : BOOLEAN, valid : BOOLEAN]]
      BY <1>4
    <3>6. LifeOK(j)'
      BY <2>1, <3>1, <3>2, <3>3, <3>4, ThreadAssumption DEF LifeOK, Starting, Working, Creating
    <3> QED BY <3>6
  <2>3. CASE j # child[k]
    BY <1>2, <1>3, <1>4, <2>1, <2>3
  <2> QED BY <2>2, <2>3
<1>12. CASE SetsCurrent(k)
  BY <1>2, <1>3, <1>4, <1>12 DEF SetsCurrent
<1>13. CASE InitsCache(k)
  BY <1>2, <1>3, <1>13 DEF InitsCache
<1>14. CASE Forsakes(k)
  BY <1>2, <1>3, <1>4, <1>14 DEF Forsakes
<1>15. CASE Unmaps(k)
  BY <1>2, <1>3, <1>4, <1>15 DEF Unmaps
<1>16. ASSUME NEW context \in ContextType, 
              StartsThread(k, context) \/ PutsBack(k, context) \/ Finishes(k, context)
       PROVE  LifeOK(j)'
  <2>1. /\ UNCHANGED <<tsd, param, this>> /\ pc'[j] = pc[j]
    BY <1>3, <1>16 DEF StartsThread, PutsBack, Finishes, SetsContext
  <2> QED BY <1>2, <2>1
<1> QED
  BY <1>5, <1>6, <1>7, <1>8, <1>9, <1>10, <1>11, <1>12, <1>13, <1>14, <1>15, <1>16 DEF Acts

(* So does the thread itself, wherever its step takes it.                  *)
LEMMA OwnLife ==
  ASSUME LifeInv, NEW k \in Os, Acts(k)
  PROVE  LifeOK(k)'
<1>1. Types /\ LifeOK(k) /\ PairOK(k)
  BY DEF LifeInv
<1>2. /\ pc \in [Os -> PCs] /\ tsd \in [Os -> Tid \cup {Null}] /\ this \in [Os -> Address \cup {Null}]
      /\ param \in [Os -> [t : Address \cup {Null}, is_registered : BOOLEAN, valid : BOOLEAN]]
  BY <1>1 DEF Types
<1>3. ASSUME NEW where, Goto(k, where) PROVE pc'[k] = where
  BY <1>2, <1>3 DEF Goto
<1>4. CASE Stops
  BY <1>1, <1>4 DEF Stops, registry, memory, LifeOK, Its, Context
<1>5. CASE PthreadCreate(k)
  <2>1. pc[k] = "works" /\ pc'[k] = "creates"
    BY <1>2, <1>5 DEF PthreadCreate, At
  <2>2. UNCHANGED <<this, tsd, mapped, ready>> /\ Its(k)' = Its(k)
    BY <1>5 DEF PthreadCreate, registry, memory, Its, Context
  <2> QED BY <1>1, <2>1, <2>2 DEF LifeOK, Starting, Working, Creating
<1>6. CASE Tell(k)
  <2>1. pc[k] = "tells" /\ pc'[k] = "waits"
    BY <1>3, <1>6 DEF Tell, At
  <2>2. UNCHANGED <<this, tsd, mapped, ready>> /\ Its(k)' = Its(k)
    BY <1>6 DEF Tell, registry, memory, Its, Context
  <2> QED BY <1>1, <2>1, <2>2 DEF LifeOK, Starting, Working, Creating
<1>7. CASE Return(k)
  <2>1. pc[k] = "waits" /\ pc'[k] = "works"
    BY <1>3, <1>7 DEF Return, At
  <2>2. UNCHANGED <<this, tsd, mapped, ready>> /\ Its(k)' = Its(k)
    BY <1>7 DEF Return, registry, memory, Its, Context
  <2> QED BY <1>1, <2>1, <2>2 DEF LifeOK, Starting, Working, Creating
<1>8. CASE Signal(k)
  <2>1. pc[k] = "signals" /\ pc'[k] = "works"
    BY <1>3, <1>8 DEF Signal, At
  <2>2. UNCHANGED <<this, tsd, mapped, ready>> /\ Its(k)' = Its(k)
    BY <1>8 DEF Signal, registry, memory, Its, Context
  <2> QED BY <1>1, <2>1, <2>2 DEF LifeOK, Starting, Working, Creating
<1>9. CASE Finish(k)
  <2>1. pc[k] = "works" /\ pc'[k] = "destructs"
    BY <1>3, <1>9 DEF Finish, At
  <2>2. UNCHANGED <<this, tsd, mapped, ready>> /\ Its(k)' = Its(k)
    BY <1>9 DEF Finish, registry, memory, Its, Context
  <2> QED BY <1>1, <2>1, <2>2 DEF LifeOK, Starting, Working, Creating
<1>10. CASE End(k)
  <2>1. pc[k] = "late" /\ pc'[k] = "gone" /\ this' = this
    BY <1>3, <1>10 DEF End, At
  <2> QED BY <1>1, <2>1 DEF LifeOK, Starting, Working, Creating
<1>11. ASSUME NEW a \in Address \ DOMAIN mapped, NEW context \in ContextType, Creates(k, a, context)
       PROVE  LifeOK(k)'
  <2>1. /\ pc[k] = "creates" /\ pc'[k] = "tells" /\ k # child[k] /\ this'[k] = this[k] /\ this[k] # Null
    BY <1>1, <1>2, <1>3, <1>11 DEF Creates, LifeOK, Working, Creating
  <2>2. UNCHANGED <<tsd, ready>> /\ mapped'[this[k]] = mapped[this[k]]
    BY <1>11, <2>1, Known DEF Creates
  <2>3. Its(k)' = Its(k)
    <3>1. mapped[this[k]] + 1 \in 1..Len(threads) /\ threads \in Seq(ContextType)
      BY <1>1, <2>1, Known DEF Types
    <3>2. threads' = Append(threads, context)
      BY <1>11 DEF Creates
    <3>3. threads'[mapped[this[k]] + 1] = threads[mapped[this[k]] + 1]
      BY <3>1, <3>2
    <3> QED BY <2>1, <2>2, <3>3 DEF Its, Context
  <2> QED BY <1>1, <2>1, <2>2, <2>3 DEF LifeOK, Starting, Working, Creating
<1>12. CASE SetsCurrent(k)
  <2>1. pc[k] = "spins" /\ pc'[k] = "initialises" /\ this[k] # Null /\ tsd'[k] = mapped[this[k]]
    BY <1>2, <1>3, <1>12 DEF SetsCurrent
  <2>2. UNCHANGED <<param, this, mapped, ready>> /\ Its(k)' = Its(k)
    BY <1>12 DEF SetsCurrent, registry, memory, Its, Context
  <2> QED BY <1>1, <2>1, <2>2 DEF LifeOK, Starting, Working, Creating
<1>13. CASE InitsCache(k)
  <2>1. pc[k] = "initialises" /\ pc'[k] = "starts" /\ ready' = ready \cup {this[k]}
    BY <1>3, <1>13 DEF InitsCache
  <2>2. UNCHANGED <<param, this, tsd, mapped>> /\ Its(k)' = Its(k)
    BY <1>13 DEF InitsCache, registry, Its, Context
  <2> QED BY <1>1, <2>1, <2>2 DEF LifeOK, Starting, Working, Creating
<1>14. CASE Forsakes(k)
  <2>1. pc[k] = "destructs" /\ pc'[k] = "destroys" /\ tsd'[k] = Null
    BY <1>2, <1>3, <1>14 DEF Forsakes
  <2>2. UNCHANGED <<param, this, mapped, ready>> /\ Its(k)' = Its(k)
    BY <1>14 DEF Forsakes, registry, memory, Its, Context
  <2> QED BY <1>1, <2>1, <2>2 DEF LifeOK, Starting, Working, Creating
<1>15. CASE Unmaps(k)
  <2>1. pc'[k] = "late" /\ this'[k] = Null
    BY <1>2, <1>3, <1>15 DEF Unmaps
  <2> QED BY <2>1 DEF LifeOK, Starting, Working, Creating
<1>16. ASSUME NEW context \in ContextType, SetsContext(k, context)
       PROVE  UNCHANGED <<param, this, mapped, ready>> /\ Its(k)' = context
  <2>1. UNCHANGED <<param, this, mapped, ready>>
    BY <1>16 DEF SetsContext
  <2>2. threads'[mapped[this[k]] + 1] = context
    BY <1>16, ContextEffect
  <2> QED BY <2>1, <2>2 DEF Its, Context
<1>17. ASSUME NEW context \in ContextType, StartsThread(k, context)
       PROVE  LifeOK(k)'
  <2>1. /\ pc[k] = "starts" /\ pc'[k] = "signals" /\ SetsContext(k, context) /\ tsd' = tsd
        /\ context.status = "running" /\ context.thread = Its(k).thread
    BY <1>3, <1>17 DEF StartsThread
  <2> QED BY <1>1, <1>16, <2>1 DEF LifeOK, Starting, Working, Creating
<1>18. ASSUME NEW context \in ContextType, PutsBack(k, context)
       PROVE  LifeOK(k)'
  <2>1. /\ pc[k] = "destructs" /\ pc' = pc /\ SetsContext(k, context) /\ tsd' = tsd
        /\ context.status = Its(k).status /\ context.thread = Its(k).thread
    BY <1>18 DEF PutsBack
  <2> QED BY <1>1, <1>16, <2>1 DEF LifeOK, Starting, Working, Creating
<1>19. ASSUME NEW context \in ContextType, Finishes(k, context)
       PROVE  LifeOK(k)'
  <2>1. /\ pc[k] = "destroys" /\ pc'[k] = "unmaps" /\ SetsContext(k, context)
        /\ context.thread = Null
    BY <1>3, <1>19 DEF Finishes
  <2> QED BY <1>1, <1>16, <2>1 DEF LifeOK, Starting, Working, Creating
<1> QED
  BY <1>4, <1>5, <1>6, <1>7, <1>8, <1>9, <1>10, <1>11, <1>12, <1>13, <1>14, <1>15, <1>17, <1>18, <1>19
  DEF Acts

(* Creators and the threads they wait for stay in step.                    *)
LEMMA PairNext ==
  ASSUME LifeInv, NEW k \in Os, Acts(k), NEW j \in Os
  PROVE  PairOK(j)'
<1>1. Types /\ LifeOK(k) /\ PairOK(k) /\ PairOK(j) /\ ChildrenApart /\ \A i \in Os : LifeOK(i)
  BY DEF LifeInv
<1>2. /\ pc \in [Os -> PCs] /\ child \in [Os -> Os \cup {Null}] /\ this \in [Os -> Address \cup {Null}]
      /\ param \in [Os -> [t : Address \cup {Null}, is_registered : BOOLEAN, valid : BOOLEAN]]
  BY <1>1 DEF Types
<1>3. ASSUME NEW where, Goto(k, where) 
      PROVE  pc'[k] = where /\ \A i \in Os \ {k} : pc'[i] = pc[i]
  BY <1>2, <1>3 DEF Goto
<1>4. ASSUME j # k, pc'[j] = pc[j], child'[j] = child[j],
             pc[j] \in Creating /\ child[j] \in Os => 
               /\ pc'[child[j]] # "none"
               /\ pc[j] \in {"creates", "tells"} => 
                    pc'[child[j]] = pc[child[j]] /\ param'[child[j]].t \in {param[child[j]].t, Null}
               /\ pc[j] = "creates" => this'[child[j]] \in {this[child[j]], Null}
      PROVE  PairOK(j)'
  BY <1>1, <1>4 DEF PairOK
<1>5. CASE Stops
  BY <1>1, <1>5 DEF Stops, PairOK
<1>6. CASE PthreadCreate(k)
  <2>1. PICK c \in Os : /\ pc[c] = "none" /\ pc' = [pc EXCEPT ![k] = "creates", ![c] = "spins"]
                        /\ child' = [child EXCEPT ![k] = c]
                        /\ param' = [param EXCEPT ![c] = [NoParam EXCEPT !.valid = TRUE]]
    BY <1>6 DEF PthreadCreate
  <2>2. this' = this /\ pc[k] = "works" /\ k # c /\ this[c] = Null
    BY <1>1, <1>6, <2>1 DEF PthreadCreate, At, LifeOK
  <2>3. CASE j = k
    BY <1>2, <2>1, <2>2, <2>3 DEF PairOK, NoParam
  <2>4. CASE j = c
    BY <1>2, <2>1, <2>2, <2>4 DEF PairOK, Creating
  <2>5. CASE j # k /\ j # c
    <3>1. pc[j] \in Creating => 
            /\ child[j] \in Os /\ child[j] # c
            /\ pc[j] \in {"creates", "tells"} => child[j] # k
      BY <1>1, <2>1, <2>2 DEF PairOK
    <3>2. /\ pc'[j] = pc[j] /\ child'[j] = child[j]
          /\ pc[j] \in Creating /\ child[j] \in Os => 
               /\ pc'[child[j]] # "none"
               /\ pc[j] \in {"creates", "tells"} => 
                    pc'[child[j]] = pc[child[j]] /\ param'[child[j]].t = param[child[j]].t
               /\ this'[child[j]] = this[child[j]]
      BY <1>1, <1>2, <2>1, <2>2, <2>5, <3>1 DEF PairOK
    <3> QED BY <1>4, <2>5, <3>2
  <2> QED BY <2>3, <2>4, <2>5
<1>7. CASE Tell(k)
  <2>1. /\ pc[k] = "tells" /\ pc'[k] = "waits" /\ (\A i \in Os \ {k} : pc'[i] = pc[i])
        /\ child' = child /\ this' = this
        /\ param' = [param EXCEPT ![child[k]].t = this[child[k]]]
    BY <1>3, <1>7 DEF Tell, At
  <2>2. child[k] \in Os /\ pc[child[k]] = "spins"
    BY <1>1, <2>1 DEF PairOK, Creating
  <2>3. CASE j = k
    BY <2>1, <2>2, <2>3 DEF PairOK
  <2>4. CASE j # k
    <3>1. pc[j] \in Creating /\ child[j] \in Os => 
             child[j] # child[k] /\ pc[child[j]] # "none" /\ param'[child[j]].t = param[child[j]].t
      BY <1>1, <1>2, <2>1, <2>4 DEF ChildrenApart, PairOK, Creating
    <3>2. pc[j] \in {"creates", "tells"} => child[j] # k
      BY <1>1, <2>1 DEF PairOK, Creating
    <3> QED BY <1>4, <2>1, <2>4, <3>1, <3>2
  <2> QED BY <2>3, <2>4
<1>8. ASSUME NEW a \in Address \ DOMAIN mapped, NEW context \in ContextType, Creates(k, a, context)
      PROVE  PairOK(j)'
  <2>1. /\ pc[k] = "creates" /\ pc'[k] = "tells" /\ (\A i \in Os \ {k} : pc'[i] = pc[i])
        /\ child' = child /\ param' = param /\ child[k] \in Os /\ pc[child[k]] = "spins"
        /\ this' = [this EXCEPT ![child[k]] = a]
    BY <1>3, <1>8 DEF Creates
  <2>2. CASE j = k
    BY <1>1, <2>1, <2>2 DEF PairOK, Creating
  <2>3. CASE j # k
    <3>1. pc[j] \in Creating /\ child[j] \in Os => 
             child[j] # child[k] /\ pc[child[j]] # "none" /\ this'[child[j]] = this[child[j]]
      BY <1>1, <1>2, <2>1, <2>3 DEF ChildrenApart, PairOK, Creating
    <3>2. pc[j] \in {"creates", "tells"} => child[j] # k
      BY <1>1, <2>1 DEF PairOK, Creating
    <3> QED BY <1>4, <2>1, <2>3, <3>1, <3>2
  <2> QED BY <2>2, <2>3
<1>9. CASE SetsCurrent(k)
  <2>1. /\ pc'[k] = "initialises" /\ (\A i \in Os \ {k} : pc'[i] = pc[i])
        /\ child' = child /\ param' = param /\ this' = this /\ this[k] # Null /\ param[k].t = this[k]
    BY <1>3, <1>9 DEF SetsCurrent
  <2>2. CASE j = k
    BY <2>1, <2>2 DEF PairOK, Creating
  <2>3. CASE j # k
    <3>1. pc[j] \in {"creates", "tells"} => child[j] # k
      BY <1>1, <2>1 DEF PairOK, Creating
    <3>2. pc[j] \in Creating => pc[child[j]] # "none"
      BY <1>1 DEF PairOK
    <3> QED BY <1>4, <2>1, <2>3, <3>1, <3>2
  <2> QED BY <2>2, <2>3
<1>10. ASSUME pc[k] # "spins", pc'[k] \notin Creating \cup {"none"}, \A i \in Os \ {k} : pc'[i] = pc[i],
              \A i \in Os \ {k} : child'[i] = child[i],
              \A i \in Os : param'[i].t \in {param[i].t, Null}, 
              \A i \in Os : this'[i] \in {this[i], Null}
       PROVE  PairOK(j)'
  <2>1. CASE j = k
    BY <1>10, <2>1 DEF PairOK
  <2>2. CASE j # k
    <3>1. /\ pc[j] \in {"creates", "tells"} => child[j] # k
          /\ pc[j] \in Creating => pc[child[j]] # "none"
      BY <1>1, <1>10 DEF PairOK, Creating
    <3> QED BY <1>4, <1>10, <2>2, <3>1
  <2> QED BY <2>1, <2>2
<1>11. CASE Return(k)
  <2>1. /\ pc[k] = "waits" /\ Goto(k, "works") /\ this' = this
        /\ child' = [child EXCEPT ![k] = Null] /\ param' = [param EXCEPT ![child[k]] = NoParam]
    BY <1>11 DEF Return, At
  <2>2. /\ \A i \in Os \ {k} : child'[i] = child[i]
        /\ \A i \in Os : param'[i].t \in {param[i].t, Null}
    BY <1>2, <2>1 DEF NoParam
  <2> QED BY <1>3, <1>10, <2>1, <2>2 DEF Creating
<1>12. CASE Signal(k)
  <2>1. \A i \in Os : param'[i].t = param[i].t
    BY <1>2, <1>12 DEF Signal
  <2> QED BY <1>3, <1>10, <1>12, <2>1 DEF Signal, At, Creating
<1>13. CASE Finish(k) \/ End(k)
  BY <1>3, <1>10, <1>13 DEF Finish, End, At, Creating
<1>14. CASE InitsCache(k)
  BY <1>3, <1>10, <1>14 DEF InitsCache, Creating
<1>15. CASE Forsakes(k)
  BY <1>3, <1>10, <1>15 DEF Forsakes, Creating
<1>16. CASE Unmaps(k)
  <2>1. \A i \in Os : this'[i] \in {this[i], Null}
    BY <1>2, <1>16 DEF Unmaps
  <2> QED BY <1>3, <1>10, <1>16, <2>1 DEF Unmaps, Creating
<1>17. ASSUME NEW context \in ContextType, 
              StartsThread(k, context) \/ PutsBack(k, context) \/ Finishes(k, context)
       PROVE  PairOK(j)'
  <2>1. UNCHANGED <<child, param, this>>
    BY <1>17 DEF StartsThread, PutsBack, Finishes, SetsContext
  <2>2. /\ pc[k] # "spins" /\ pc'[k] \notin Creating \cup {"none"}
        /\ \A i \in Os \ {k} : pc'[i] = pc[i]
    BY <1>3, <1>17 DEF StartsThread, PutsBack, Finishes, Creating
  <2> QED BY <1>10, <2>1, <2>2
<1> QED
  BY <1>5, <1>6, <1>7, <1>8, <1>9, <1>11, <1>12, <1>13, <1>14, <1>15, <1>16, <1>17 DEF Acts

(* No two creators wait for the same thread: a new one is of nobody yet.   *)
LEMMA ChildrenApartNext ==
  ASSUME LifeInv, NEW k \in Os, Acts(k)
  PROVE  ChildrenApart'
<1>1. Types /\ ChildrenApart /\ \A i \in Os : PairOK(i)
  BY DEF LifeInv
<1>2. pc \in [Os -> PCs] /\ child \in [Os -> Os \cup {Null}]
  BY <1>1 DEF Types
<1>3. ASSUME NEW where, Goto(k, where) 
      PROVE  pc'[k] = where /\ \A i \in Os \ {k} : pc'[i] = pc[i]
  BY <1>2, <1>3 DEF Goto
<1>4. CASE \A j \in Os : pc'[j] \in Creating => pc[j] \in Creating /\ child'[j] = child[j]
  BY <1>1, <1>4 DEF ChildrenApart
<1>5. CASE PthreadCreate(k)
  <2>1. PICK c \in Os : /\ pc[c] = "none" /\ pc' = [pc EXCEPT ![k] = "creates", ![c] = "spins"]
                        /\ child' = [child EXCEPT ![k] = c]
    BY <1>5 DEF PthreadCreate
  <2>2. \A j \in Os : pc[j] \in Creating => child[j] # c
    BY <1>1, <2>1 DEF PairOK
  <2>3. \A j \in Os \ {k} : pc'[j] \in Creating => pc[j] \in Creating /\ child'[j] = child[j]
    BY <1>2, <2>1 DEF Creating
  <2>4. child'[k] = c
    BY <1>2, <2>1
  <2> QED BY <1>1, <2>2, <2>3, <2>4 DEF ChildrenApart
<1>6. CASE Stops
  BY <1>4, <1>6 DEF Stops
<1>7. CASE Return(k)
  <2>1. Goto(k, "works") /\ child' = [child EXCEPT ![k] = Null]
    BY <1>7 DEF Return
  <2>2. \A j \in Os \ {k} : child'[j] = child[j]
    BY <1>2, <2>1
  <2>3. pc'[k] \notin Creating /\ \A j \in Os \ {k} : pc'[j] = pc[j]
    BY <1>3, <2>1 DEF Creating
  <2> QED BY <1>4, <2>2, <2>3
<1>8. CASE /\ UNCHANGED child /\ \A i \in Os \ {k} : pc'[i] = pc[i]
           /\ pc'[k] \in Creating => pc[k] \in Creating
  BY <1>4, <1>8
<1>9. CASE Tell(k)
  BY <1>3, <1>8, <1>9 DEF Tell, At, Creating
<1>10. CASE Signal(k) \/ Finish(k) \/ End(k)
  BY <1>3, <1>8, <1>10 DEF Signal, Finish, End, Creating
<1>11. ASSUME NEW a \in Address \ DOMAIN mapped, NEW context \in ContextType, Creates(k, a, context)
       PROVE  ChildrenApart'
  BY <1>3, <1>8, <1>11 DEF Creates, Creating
<1>12. CASE SetsCurrent(k)
  BY <1>3, <1>8, <1>12 DEF SetsCurrent, Creating
<1>13. CASE InitsCache(k)
  BY <1>3, <1>8, <1>13 DEF InitsCache, Creating
<1>14. CASE Forsakes(k)
  BY <1>3, <1>8, <1>14 DEF Forsakes, Creating
<1>15. CASE Unmaps(k)
  BY <1>3, <1>8, <1>15 DEF Unmaps, Creating
<1>16. ASSUME NEW context \in ContextType, 
              StartsThread(k, context) \/ PutsBack(k, context) \/ Finishes(k, context)
       PROVE  ChildrenApart'
  <2>1. child' = child
    BY <1>16 DEF StartsThread, PutsBack, Finishes, SetsContext
  <2>2. (pc'[k] \in Creating => pc[k] \in Creating) /\ \A i \in Os \ {k} : pc'[i] = pc[i]
    BY <1>3, <1>16 DEF StartsThread, PutsBack, Finishes, Creating
  <2> QED BY <1>8, <2>1, <2>2
<1> QED
  BY <1>5, <1>6, <1>7, <1>9, <1>10, <1>11, <1>12, <1>13, <1>14, <1>15, <1>16 DEF Acts

----------------------------------------------------------------------------
(* The ring of statistics: an entry is made between the head and the first *)
(* one; nothing is said after an object, and its entry, was unmapped.      *)
LEMMA RingNext ==
  ASSUME LifeInv, NEW k \in Os, Acts(k)
  PROVE  RingOK'
<1>1. Types /\ RingOK
  BY DEF LifeInv
<1>2. pc \in [Os -> PCs] /\ DOMAIN next = {Globals} \cup ready /\ DOMAIN prev = {Globals} \cup ready
  BY <1>1 DEF Types
<1>3. ASSUME NEW where, Goto(k, where) 
      PROVE  pc'[k] = where /\ \A i \in Os \ {k} : pc'[i] = pc[i]
  BY <1>2, <1>3 DEF Goto
<1>4. CASE /\ pc[k] \notin {"late", "gone"} /\ \A i \in Os \ {k} : pc'[i] = pc[i] \/ pc[i] = "none"
           /\ UNCHANGED <<next, prev>>
  BY <1>1, <1>4 DEF RingOK
<1>5. CASE Stops
  BY <1>1, <1>5 DEF Stops, memory, RingOK
<1>6. CASE PthreadCreate(k)
  <2>1. pc[k] = "works" /\ UNCHANGED <<next, prev>>
    BY <1>6 DEF PthreadCreate, At, memory
  <2>2. \A i \in Os \ {k} : pc'[i] = pc[i] \/ pc[i] = "none"
    BY <1>2, <1>6 DEF PthreadCreate
  <2> QED BY <1>4, <2>1, <2>2
<1>7. CASE Tell(k) \/ Return(k) \/ Signal(k) \/ Finish(k)
  BY <1>3, <1>4, <1>7 DEF Tell, Return, Signal, Finish, At, memory
<1>8. CASE End(k)
  BY <1>3, <1>8 DEF End, RingOK
<1>9. ASSUME NEW a \in Address \ DOMAIN mapped, NEW context \in ContextType, Creates(k, a, context)
      PROVE  RingOK'
  BY <1>3, <1>4, <1>9 DEF Creates
<1>10. CASE SetsCurrent(k) \/ Forsakes(k)
  BY <1>3, <1>4, <1>10 DEF SetsCurrent, Forsakes, memory
<1>11. CASE Unmaps(k)
  BY <1>3, <1>11 DEF Unmaps, RingOK
<1>12. ASSUME NEW context \in ContextType, 
              StartsThread(k, context) \/ PutsBack(k, context) \/ Finishes(k, context)
       PROVE  RingOK'
  BY <1>3, <1>4, <1>12 DEF StartsThread, PutsBack, Finishes, SetsContext
<1>13. CASE InitsCache(k)
  <2> DEFINE s == this[k]
             first == next[Globals]
  <2>1. /\ pc[k] = "initialises" /\ Goto(k, "starts") /\ s # Null /\ s \notin ready
        /\ next' = [x \in DOMAIN next \cup {s} |-> 
                      IF x = s THEN first ELSE IF x = Globals THEN s ELSE next[x]]
        /\ prev' = [x \in DOMAIN prev \cup {s} |-> 
                      IF x = first THEN s ELSE IF x = s THEN Globals ELSE prev[x]]
    BY <1>13 DEF InitsCache
  <2>2. s # Globals /\ s \notin DOMAIN next
    BY <1>2, <2>1, Known, ThreadAssumption
  <2>3. SUFFICES ASSUME \A i \in Os : pc'[i] \notin {"late", "gone"}
                 PROVE  \A x \in DOMAIN next' : next'[x] \in DOMAIN next' /\ prev'[next'[x]] = x
    BY DEF RingOK
  <2>4. \A x \in DOMAIN next : next[x] \in DOMAIN next /\ prev[next[x]] = x
    BY <1>1, <1>3, <2>1, <2>3 DEF RingOK
  <2>5. first \in DOMAIN next /\ prev[first] = Globals
    BY <1>2, <2>4
  <2> HIDE DEF s, first
  <2>6. next'[s] = first /\ prev'[first] = s /\ first \in DOMAIN next'
    BY <1>2, <2>1, <2>5
  <2>7. next'[Globals] = s /\ prev'[s] = Globals /\ s \in DOMAIN next'
    BY <1>2, <2>1, <2>2, <2>5
  <2>8. ASSUME NEW x \in DOMAIN next, x # Globals
        PROVE  next'[x] \in DOMAIN next' /\ prev'[next'[x]] = x
    <3>1. next'[x] = next[x] /\ next[x] \in DOMAIN next /\ prev[next[x]] = x
      BY <2>1, <2>2, <2>4, <2>8
    <3>2. next[x] # first
      BY <2>5, <2>8, <3>1
    <3>3. prev'[next[x]] = x
      BY <1>2, <2>1, <2>2, <3>1, <3>2
    <3> QED BY <2>1, <3>1, <3>3
  <2> QED BY <2>1, <2>6, <2>7, <2>8
<1> QED
  BY <1>5, <1>6, <1>7, <1>8, <1>9, <1>10, <1>11, <1>12, <1>13 DEF Acts

----------------------------------------------------------------------------
(* The invariant.                                                          *)

(* The main thread alone satisfies the invariant.                          *)
LEMMA LifeInvInit ==
  ASSUME Init PROVE LifeInv
<1>1. PICK a \in Address :
        /\ pc = [k \in Os |-> IF k = Main THEN "works" ELSE "none"]
        /\ this = [k \in Os |-> IF k = Main THEN a ELSE Null]
        /\ threads = <<[status |-> "running", detached |-> FALSE, thread |-> a, 
                        iterations |-> Iterations]>>
        /\ mapped = [x \in {a} |-> 0] /\ ready = {a}
        /\ next = [x \in {Globals, a} |-> IF x = a THEN Globals ELSE a]
        /\ prev = [x \in {Globals, a} |-> IF x = a THEN Globals ELSE a]
  BY DEF Init
<1>2. /\ child = [k \in Os |-> Null] /\ param = [k \in Os |-> NoParam]
      /\ tsd = [k \in Os |-> IF k = Main THEN 0 ELSE Null]
      /\ dead = <<>> /\ invalid = <<>> /\ alive = 1 /\ running = 1 /\ process = "runs"
  BY DEF Init
<1>3. /\ Main \in Os /\ Null \notin Address /\ Globals \notin Address /\ a # Null /\ a # Globals
      /\ MaxThreads \in Nat \ {0} /\ Iterations \in Nat /\ 0 \in Tid /\ Null \notin 0..MaxThreads
      /\ Null # 0
  BY ThreadAssumption DEF Tid
<1> DEFINE context == [status |-> "running", detached |-> FALSE, thread |-> a, iterations |-> Iterations]
<1>4. context \in ContextType /\ context.status = "running" /\ context.thread = a
  BY <1>3 DEF ContextType
<1>5. threads = <<context>>
  BY <1>1
<1> HIDE DEF context
<1>6. threads \in Seq(ContextType) /\ Len(threads) = 1 /\ threads[1] = context
  BY <1>4, <1>5
<1>7. Types
  <2>1. pc \in [Os -> PCs]
    BY <1>1 DEF PCs, Working
  <2>2. param \in [Os -> [t : Address \cup {Null}, is_registered : BOOLEAN, valid : BOOLEAN]]
    BY <1>2 DEF NoParam
  <2>3. child \in [Os -> Os \cup {Null}] /\ this \in [Os -> Address \cup {Null}] 
        /\ tsd \in [Os -> Tid \cup {Null}]
    BY <1>1, <1>2, <1>3
  <2>4. dead \in Seq(Tid) /\ alive \in Nat /\ running \in Nat
    BY <1>2
  <2>5. Len(threads) <= MaxThreads
    BY <1>3, <1>6
  <2>6. /\ mapped \in [DOMAIN mapped -> 0..(Len(threads) - 1)] /\ DOMAIN mapped \subseteq Address 
        /\ ready \subseteq DOMAIN mapped
        /\ DOMAIN next = {Globals} \cup ready /\ DOMAIN prev = {Globals} \cup ready
    BY <1>1, <1>6
  <2> QED BY <1>6, <2>1, <2>2, <2>3, <2>4, <2>5, <2>6 DEF Types
<1>8. CountsOK
  <2>1. ASSUME NEW S, "running" \in S PROVE Having(S) = 1
    <3>1. {i \in 1..Len(threads) : threads[i].status \in S} = {1}
      BY <1>4, <1>6, <2>1
    <3>2. Cardinality({1}) = 1
      BY FS_Singleton
    <3> QED BY <3>1, <3>2 DEF Having
  <2>2. Having({"dead"}) = 0
    <3>1. {i \in 1..Len(threads) : threads[i].status \in {"dead"}} = {}
      BY <1>4, <1>6
    <3> QED BY <3>1, FS_EmptySet DEF Having
  <2>3. Having({"created", "running"}) = 1 /\ Having({"running"}) = 1
    BY <2>1
  <2> QED BY <1>2, <2>2, <2>3 DEF CountsOK
<1>9. OwnObjects
  BY <1>1, <1>3 DEF OwnObjects
<1>10. LinksMapped
  BY <1>1, <1>4, <1>6 DEF LinksMapped, Context
<1>11. ContextsOwned
  BY <1>1 DEF ContextsOwned
<1>12. ASSUME NEW k \in Os PROVE LifeOK(k) /\ PairOK(k)
  <2>1. CASE k = Main
    <3>1. pc[k] = "works" /\ this[k] = a /\ tsd[k] = mapped[a] /\ a \in ready
      BY <1>1, <1>2, <2>1
    <3>2. Its(k) = context
      <4>1. mapped[this[k]] + 1 = 1
        BY <1>1, <3>1
      <4> QED BY <1>6, <4>1 DEF Its, Context
    <3> QED BY <1>3, <1>4, <3>1, <3>2 DEF LifeOK, PairOK, Starting, Working, Creating
  <2>2. CASE k # Main
    <3>1. pc[k] = "none" /\ this[k] = Null /\ tsd[k] = Null
      BY <1>1, <1>2, <2>2
    <3> QED BY <3>1 DEF LifeOK, PairOK, Starting, Working, Creating
  <2> QED BY <2>1, <2>2
<1>13. ChildrenApart
  BY <1>1 DEF ChildrenApart, Creating
<1>14. RingOK
  BY <1>1, <1>3 DEF RingOK
<1> QED BY <1>2, <1>7, <1>8, <1>9, <1>10, <1>11, <1>12, <1>13, <1>14 DEF LifeInv

(* Every step keeps it.                                                    *)
LEMMA LifeInvNext ==
  ASSUME LifeInv, [Next]_vars PROVE LifeInv'
<1>1. CASE UNCHANGED vars
  <2>1. UNCHANGED <<pc, child, param, this, tsd, registry, memory, process>>
    BY <1>1 DEF vars
  <2>2. Types' /\ CountsOK' /\ OwnObjects' /\ LinksMapped' /\ ContextsOwned'
    BY <2>1 DEF LifeInv, Types, CountsOK, Having, OwnObjects, LinksMapped, ContextsOwned, Context,
                registry, memory
  <2>3. ASSUME NEW k \in Os PROVE LifeOK(k)' /\ PairOK(k)'
    <3>1. LifeOK(k) /\ PairOK(k)
      BY DEF LifeInv
    <3>2. Its(k)' = Its(k) /\ UNCHANGED <<pc, child, param, this, tsd, mapped, ready>>
      BY <2>1 DEF Its, Context, registry, memory
    <3>3. LifeOK(k)'
      BY <3>1, <3>2 DEF LifeOK
    <3>4. PairOK(k)'
      BY <3>1, <3>2 DEF PairOK
    <3> QED BY <3>3, <3>4
  <2>4. ChildrenApart' /\ RingOK' /\ process' = process
    BY <2>1 DEF LifeInv, ChildrenApart, RingOK, memory
  <2> QED BY <2>2, <2>3, <2>4 DEF LifeInv
<1>2. ASSUME NEW k \in Os, StepOf(k) PROVE LifeInv'
  <2>1. Acts(k)
    BY <1>2, StepActs
  <2>2. Types' /\ CountsOK' /\ OwnObjects' /\ LinksMapped' /\ ContextsOwned'
    BY <2>1, TypesNext, CountsNext, ObjectsNext, LinksNext
  <2>3. \A j \in Os : LifeOK(j)' /\ PairOK(j)'
    BY <2>1, OwnLife, OthersLife, PairNext
  <2>4. ChildrenApart' /\ RingOK'
    BY <2>1, ChildrenApartNext, RingNext
  <2>5. process' \in {"runs", "limit exceeded", "faulted"}
    <3>1. process \in {"runs", "limit exceeded", "faulted"}
      BY DEF LifeInv
    <3> QED BY <2>1, <3>1
        DEF Acts, Stops, PthreadCreate, Creates, Tell, Return, Signal, Finish, End, SetsCurrent,
            InitsCache, Forsakes, Unmaps, SetsContext, StartsThread, PutsBack, Finishes
  <2> QED BY <2>2, <2>3, <2>4, <2>5 DEF LifeInv
<1> QED BY <1>1, <1>2 DEF Next, StepOf

(* So it holds always.                                                     *)
LEMMA LifeInvariant == Spec => []LifeInv
BY LifeInvInit, LifeInvNext, PTL DEF Spec

----------------------------------------------------------------------------
(* The theorems.                                                           *)

(* The objects and contexts are of their types, the counters of the        *)
(* registry count what they say, and no CHECK of SetCurrentThread,         *)
(* StartThread and FinishThread fails.                                     *)
THEOREM TheRegistryCounts == Spec => []TypeOK
<1>1. ASSUME LifeInv PROVE TypeOK
  <2>1. Types /\ CountsOK /\ process # "check failed"
    BY <1>1 DEF LifeInv
  <2> QED BY <2>1 DEF Types, CountsOK, TypeOK
<1> QED BY <1>1, LifeInvariant, PTL

(* A context leads to its own thread's object, in memory, or to none: what *)
(* a search over all threads reads is never unmapped.                      *)
THEOREM LinksLeadToObjects == Spec => []LinksMapped
<1>1. ASSUME LifeInv PROVE LinksMapped
  BY <1>1 DEF LifeInv
<1> QED BY <1>1, LifeInvariant, PTL

(* The parameter of a thread that still reads or writes it is still on its *)
(* creator's stack.                                                        *)
THEOREM CreatorsWait == Spec => []ReturnsStarted
<1>1. ASSUME LifeInv PROVE ReturnsStarted
  BY <1>1 DEF LifeInv, LifeOK, Starting, ReturnsStarted
<1> QED BY <1>1, LifeInvariant, PTL

(* Application code, the first malloc and the destructors included, finds  *)
(* the current thread's own object with its cache initialised.             *)
THEOREM CachesAreReady == Spec => []CacheReady
<1>1. ASSUME LifeInv PROVE CacheReady
  <2>1. SUFFICES ASSUME NEW k \in Os, 
                        pc[k] \in {"starts", "signals", "works", "creates", "tells", "waits", "destructs"}
                 PROVE  GetCurrentThread(k) \in ready /\ mapped[GetCurrentThread(k)] = tsd[k]
    BY DEF CacheReady
  <2>2. /\ this[k] # Null /\ tsd[k] = mapped[this[k]] /\ Its(k).thread = this[k] /\ this[k] \in ready
    BY <1>1, <2>1 DEF LifeInv, LifeOK, Starting, Working, Creating
  <2>3. tsd[k] # Null
    BY <1>1, <2>2, Known, ThreadAssumption DEF Tid
  <2> QED BY <2>2, <2>3 DEF GetCurrentThread, Its
<1> QED BY <1>1, LifeInvariant, PTL

(* No two objects in memory have the same context.                         *)
THEOREM ContextsHaveOneThread == Spec => []ContextsOwned
<1>1. ASSUME LifeInv PROVE ContextsOwned
  BY <1>1 DEF LifeInv
<1> QED BY <1>1, LifeInvariant, PTL

(* Until a thread has ended, every cache is in the ring once.              *)
THEOREM TheRingIsSound == Spec => []RingSound
<1>1. ASSUME LifeInv PROVE RingSound
  <2>1. SUFFICES ASSUME \A k \in Os : pc[k] \notin {"late", "gone"}
                 PROVE  /\ \A x \in DOMAIN next : next[x] \in DOMAIN next /\ prev[next[x]] = x
                        /\ \A x, y \in DOMAIN next : next[x] = next[y] => x = y
    BY DEF RingSound
  <2>2. \A x \in DOMAIN next : next[x] \in DOMAIN next /\ prev[next[x]] = x
    BY <1>1, <2>1 DEF LifeInv, RingOK
  <2> QED BY <2>2
<1> QED BY <1>1, LifeInvariant, PTL
=============================================================================
