------------------------- MODULE PpageVlist_proofs -------------------------
(***************************************************************************)
(* The mutex of a Ppage excludes, for any number of threads and Vpages,    *)
(* whatever the removals that do not hold it make of the list; and while   *)
(* no two operations on the list overlap, their stores are as good as      *)
(* whole operations.                                                       *)
(***************************************************************************)
EXTENDS PpageVlist, FiniteSetTheorems, WellFoundedInduction, TLAPS

----------------------------------------------------------------------------
(* The inductive invariant.                                                *)

Fields == {"pc", "does", "v", "orig", "todo"}

IsCall(o) == DOMAIN o = Fields /\ o = [f \in Fields |-> o[f]]

(* A call works on a Vpage that was made; what needs the mutex belongs to  *)
(* AllocateChunk, what comes after it to DeallocateChunk.                  *)
CallOK(t) ==
  /\ IsCall(op[t])
  /\ op[t].pc # "idle" => op[t].v \in 1..made
  /\ op[t].pc \in {"looks", "clears", "aliases"} => op[t].does = "push"
  /\ op[t].pc = "tests" => op[t].does # "push"

Calls == op = [t \in Thread |-> op[t]] /\ \A t \in Thread : CallOK(t)

Numbers ==
  /\ DOMAIN mem = Cell
  /\ made \in 0..MaxPushes /\ held \subseteq 1..made /\ unmapped \subseteq 1..made

(* The word of the mutex says whether somebody holds it, and nobody else   *)
(* does.                                                                   *)
MutexOK ==
  /\ word \in {MtxUnlocked, MtxLocked, MtxSleeping}
  /\ asleep \subseteq {t \in Thread : op[t].pc = "waits"}
  /\ process # "check_failed"
  /\ \A t, u \in Thread : Holds(t) /\ Holds(u) => t = u
  /\ word = MtxUnlocked <=> \A t \in Thread : ~Holds(t)

LockInv == Calls /\ Numbers /\ MutexOK

----------------------------------------------------------------------------
(* The steps.                                                              *)

(* A call that changes to r changes nothing of the other calls.            *)
LEMMA CallSet ==
  ASSUME Calls, NEW t \in Thread, NEW r, op' = [op EXCEPT ![t] = r]
  PROVE  /\ op' = [u \in Thread |-> op'[u]] /\ op'[t] = r
         /\ \A u \in Thread \ {t} : op'[u] = op[u]
BY DEF Calls

(* The other calls stay in order while Vpages are made.                    *)
LEMMA OtherCalls ==
  ASSUME Calls, made \in Nat, made' \in Nat, made <= made', 
         NEW u \in Thread, op'[u] = op[u]
  PROVE  CallOK(u)' /\ (Holds(u)' <=> Holds(u))
<1>1. CallOK(u)
  BY DEF Calls
<1>2. 1..made \subseteq 1..made'
  OBVIOUS
<1>3. IsCall(op'[u])
  BY <1>1 DEF CallOK
<1> QED BY <1>1, <1>2, <1>3 DEF CallOK, Holds

(* A step that neither takes nor gives back the mutex.                     *)
LEMMA MutexStays ==
  ASSUME LockInv, NEW t \in Thread, NEW r, op' = [op EXCEPT ![t] = r], CallOK(t)', Numbers',
         made <= made', Holds(t)' <=> Holds(t), process' # "check_failed", 
         word' \in {MtxUnlocked, MtxLocked, MtxSleeping}, 
         word' = MtxUnlocked <=> word = MtxUnlocked,
         asleep' = asleep, op[t].pc # "waits" \/ t \notin asleep
  PROVE  LockInv'
<1>0. made \in Nat /\ made' \in Nat
  BY VlistAssumption DEF LockInv, Numbers
<1>1. op' = [u \in Thread |-> op'[u]] /\ \A u \in Thread \ {t} : op'[u] = op[u]
  BY CallSet DEF LockInv
<1>2. \A u \in Thread : CallOK(u)' /\ (Holds(u)' <=> Holds(u))
  BY <1>0, <1>1, OtherCalls DEF LockInv
<1>3. Calls'
  BY <1>1, <1>2 DEF Calls
<1>4. \A u \in asleep : u # t 
  BY DEF LockInv, MutexOK
<1>5. asleep' \subseteq {u \in Thread : op'[u].pc = "waits"}
  BY <1>1, <1>4 DEF LockInv, MutexOK
<1>6. MutexOK'
  <2> HIDE DEF Holds
  <2> QED BY <1>2, <1>5 DEF LockInv, MutexOK
<1> QED BY <1>3, <1>6 DEF LockInv

(* What stays as it is.                                                    *)
LEMMA NumbersStay ==
  ASSUME LockInv, UNCHANGED <<made, held, unmapped>>, DOMAIN mem' = DOMAIN mem
  PROVE  Numbers'
BY DEF LockInv, Numbers

(* AllocateChunk makes a Vpage and goes for the mutex.                     *)
LEMMA AllocateChunkKeeps ==
  ASSUME LockInv, NEW t \in Thread, AllocateChunk(t)
  PROVE  LockInv'
<1> DEFINE r == [Idle EXCEPT !.pc = "locks", !.does = "push", !.v = made + 1]
<1>1. /\ op[t].pc = "idle" /\ made < MaxPushes /\ made' = made + 1 /\ op' = [op EXCEPT ![t] = r]
      /\ UNCHANGED <<word, asleep, mem, held, unmapped, process>>
  BY DEF AllocateChunk, At, lockVars
<1>2. made \in Nat /\ made + 1 \in 0..MaxPushes
  BY <1>1, VlistAssumption DEF LockInv, Numbers
<1>3. /\ IsCall(r) /\ r.pc = "locks" /\ r.does = "push"
      /\ r.v = made + 1
  BY DEF Idle, Fields, IsCall
<1> HIDE DEF r
<1>4. op'[t] = r
  BY <1>1, CallSet DEF LockInv
<1>5. CallOK(t)'
  BY <1>1, <1>2, <1>3, <1>4 DEF CallOK
<1>6. Numbers'
  BY <1>1, <1>2 DEF LockInv, Numbers
<1>7. ~Holds(t) /\ ~Holds(t)'
  BY <1>1, <1>3, <1>4 DEF Holds
<1>8. made <= made' /\ process # "check_failed" /\ word \in {MtxUnlocked, MtxLocked, MtxSleeping}
  BY <1>1, <1>2 DEF LockInv, MutexOK
<1> QED BY <1>1, <1>5, <1>6, <1>7, <1>8, MutexStays

(* DeallocateChunk goes for the mutex with a Vpage the program gave back.  *)
LEMMA DeallocateChunkKeeps ==
  ASSUME LockInv, NEW t \in Thread, DeallocateChunk(t)
  PROVE  LockInv'
<1>1. PICK v \in held : /\ held' = held \ {v}
                        /\ op' = [op EXCEPT ![t] = [Idle EXCEPT !.pc = "locks", !.does = "remove", 
                                                                !.v = v]]
  BY DEF DeallocateChunk
<1> DEFINE r == [Idle EXCEPT !.pc = "locks", !.does = "remove", !.v = v]
<1>2. /\ op[t].pc = "idle" /\ op' = [op EXCEPT ![t] = r]
      /\ UNCHANGED <<word, asleep, mem, made, unmapped, process>>
  BY <1>1 DEF DeallocateChunk, At, lockVars
<1>3. /\ IsCall(r) /\ r.pc = "locks" /\ r.does = "remove"
      /\ r.v = v
  BY DEF Idle, Fields, IsCall
<1> HIDE DEF r
<1>4. op'[t] = r 
  BY <1>2, CallSet DEF LockInv
<1>5. v \in 1..made /\ made \in Nat
  BY VlistAssumption DEF LockInv, Numbers
<1>6. CallOK(t)'
  BY <1>2, <1>3, <1>4, <1>5 DEF CallOK
<1>7. Numbers'
  BY <1>1, <1>2 DEF LockInv, Numbers
<1>8. ~Holds(t) /\ ~Holds(t)'
  BY <1>2, <1>3, <1>4 DEF Holds
<1>9. made <= made' /\ process # "check_failed" /\ word \in {MtxUnlocked, MtxLocked, MtxSleeping}
  BY <1>2, <1>5 DEF LockInv, MutexOK
<1> QED BY <1>2, <1>6, <1>7, <1>8, <1>9, MutexStays

(* A process that ends otherwise than by the CHECK changes nothing else.   *)
LEMMA EndKeeps ==
  ASSUME LockInv, UNCHANGED <<op, word, asleep, mem, made, held, unmapped>>, 
         process' # "check_failed"
  PROVE  LockInv'
<1>1. Numbers'
  BY DEF LockInv, Numbers
<1>2. Calls' 
  BY DEF LockInv, Calls, CallOK
<1>3. MutexOK'
  BY DEF LockInv, MutexOK, Holds
<1> QED BY <1>1, <1>2, <1>3 DEF LockInv

(* A step along a call, which keeps what the call works on.                *)
LEMMA StepAlong ==
  ASSUME LockInv, NEW t \in Thread, op[t].pc # "idle", NEW r, op' = [op EXCEPT ![t] = r],
         IsCall(r), r.v = op[t].v, r.does = op[t].does,
         r.pc \in {"looks", "clears", "aliases"} => r.does = "push",
         r.pc = "tests" => r.does # "push", Holds(t)' <=> Holds(t),
         UNCHANGED <<asleep, made, held, unmapped>>, DOMAIN mem' = DOMAIN mem,
         process' # "check_failed", word' \in {MtxUnlocked, MtxLocked, MtxSleeping}, 
         word' = MtxUnlocked <=> word = MtxUnlocked, op[t].pc # "waits" \/ t \notin asleep
  PROVE  LockInv'
<1>1. CallOK(t)
  BY DEF LockInv, Calls
<1>2. op'[t] = r
  BY CallSet DEF LockInv
<1>3. CallOK(t)'
  BY <1>1, <1>2 DEF CallOK
<1>4. Numbers'
  BY NumbersStay
<1>5. made <= made'
  BY VlistAssumption DEF LockInv, Numbers
<1> QED BY <1>3, <1>4, <1>5, MutexStays

(* The same with an unchanged mutex.                                       *)
LEMMA ListStep ==
  ASSUME LockInv, NEW t \in Thread, op[t].pc \notin {"idle", "waits"}, NEW r, 
         op' = [op EXCEPT ![t] = r], IsCall(r), r.v = op[t].v, r.does = op[t].does,
         r.pc \in {"looks", "clears", "aliases"} => r.does = "push",
         r.pc # "tests", Holds(t)' <=> Holds(t),
         UNCHANGED <<word, asleep, made, held, unmapped, process>>, DOMAIN mem' = DOMAIN mem
  PROVE  LockInv'
<1>1. process # "check_failed" /\ word \in {MtxUnlocked, MtxLocked, MtxSleeping}
  BY DEF LockInv, MutexOK
<1> QED BY <1>1, StepAlong

(* Records with changed fields.                                            *)
LEMMA PcSet ==
  ASSUME Calls, NEW t \in Thread, NEW pc, Goto(t, pc)
  PROVE  \E r : /\ op' = [op EXCEPT ![t] = r] /\ IsCall(r) /\ op'[t] = r
                /\ r.pc = pc /\ r.v = op[t].v /\ r.does = op[t].does
<1> DEFINE r == [op[t] EXCEPT !.pc = pc]
<1>1. CallOK(t)
  BY DEF Calls
<1>2. op' = [op EXCEPT ![t] = r] 
  BY DEF Calls, Goto
<1>3. IsCall(r) /\ r.pc = pc /\ r.v = op[t].v /\ r.does = op[t].does
  BY <1>1 DEF CallOK, Fields, IsCall
<1> HIDE DEF r
<1>4. op'[t] = r
  BY <1>2, CallSet
<1> QED BY <1>2, <1>3, <1>4

(* The steps of AllocateChunk, up to the first store.                      *)
LEMMA LookKeeps ==
  ASSUME LockInv, NEW t \in Thread, Look(t)
  PROVE  LockInv'
<1>1. op[t].pc = "looks" /\ UNCHANGED <<word, asleep, mem, made, held, unmapped>>
  BY DEF Look, At, lockVars, listVars
<1>2. CASE process' = "faults" /\ UNCHANGED op
  BY <1>1, <1>2, EndKeeps
<1>3. ASSUME NEW pc \in {"clears", "aliases"}, NEW orig, process' = process,
             op' = [op EXCEPT ![t].pc = pc, ![t].orig = orig]
      PROVE  LockInv'
  <2>1. PICK r : /\ op' = [op EXCEPT ![t] = r] /\ IsCall(r) /\ op'[t] = r
                 /\ r.pc = pc /\ r.v = op[t].v /\ r.does = op[t].does
    <3> DEFINE r == [op[t] EXCEPT !.pc = pc, !.orig = orig]
    <3>1. Calls /\ CallOK(t)
      BY DEF LockInv, Calls
    <3>2. op' = [op EXCEPT ![t] = r]
      BY <1>3, <3>1 DEF Calls
    <3>3. IsCall(r) /\ r.pc = pc /\ r.v = op[t].v /\ r.does = op[t].does
      BY <3>1 DEF CallOK, Fields, IsCall
    <3> HIDE DEF r
    <3>4. op'[t] = r
      BY <3>1, <3>2, CallSet
    <3> QED BY <3>2, <3>3, <3>4
  <2>2. Holds(t) /\ Holds(t)' /\ r.does = "push"
    BY <1>1, <2>1 DEF Holds, LockInv, Calls, CallOK
  <2> QED BY <1>1, <1>3, <2>1, <2>2, ListStep
<1>4. CASE ~(~IsEmpty(List) /\ Front(List) = Null)
  <2>1. (IF IsEmpty(List) THEN "clears" ELSE "aliases") \in {"clears", "aliases"}
    OBVIOUS
  <2> QED BY <1>3, <1>4, <2>1 DEF Look
<1> QED BY <1>2, <1>4 DEF Look

(* The first mapping of the Ppage.                                         *)
LEMMA ClearKeeps ==
  ASSUME LockInv, NEW t \in Thread, Clear(t)
  PROVE  LockInv'
<1>1. /\ op[t].pc = "clears" /\ UNCHANGED <<word, asleep, made, held, unmapped, process>>
      /\ op[t].does = "push"
  BY DEF Clear, At, lockVars, LockInv, Calls, CallOK
<1>2. PICK r : /\ op' = [op EXCEPT ![t] = r] /\ IsCall(r) /\ op'[t] = r
               /\ r.pc = "stores" /\ r.v = op[t].v /\ r.does = op[t].does
  <2> DEFINE r == [op[t] EXCEPT !.pc = "stores", !.todo = PushedFirst(op[t].v)]
  <2>1. Calls /\ CallOK(t)
    BY DEF LockInv, Calls
  <2>2. op' = [op EXCEPT ![t] = r]
    BY <2>1 DEF Clear, Calls
  <2>3. IsCall(r) /\ r.pc = "stores" /\ r.v = op[t].v /\ r.does = op[t].does
    BY <2>1 DEF CallOK, Fields, IsCall
  <2> HIDE DEF r
  <2>4. op'[t] = r
    BY <2>1, <2>2, CallSet
  <2> QED BY <2>2, <2>3, <2>4
<1>3. Holds(t) /\ Holds(t)'
  BY <1>1, <1>2 DEF Holds
<1>4. DOMAIN mem' = DOMAIN mem
  BY DEF Clear, LockInv, Numbers
<1> QED BY <1>1, <1>2, <1>3, <1>4, ListStep

(* A further one, unless its original has no memory.                       *)
LEMMA AliasKeeps ==
  ASSUME LockInv, NEW t \in Thread, Alias(t)
  PROVE  LockInv'
<1>1. /\ op[t].pc = "aliases" /\ UNCHANGED <<word, asleep, made, held, unmapped>>
      /\ op[t].does = "push"
  BY DEF Alias, At, lockVars, LockInv, Calls, CallOK
<1>2. CASE op[t].orig \in unmapped
  BY <1>1, <1>2, EndKeeps DEF Alias
<1>3. CASE op[t].orig \notin unmapped
  <2>1. PICK r : /\ op' = [op EXCEPT ![t] = r] /\ IsCall(r) /\ op'[t] = r
                 /\ r.pc = "stores" /\ r.v = op[t].v /\ r.does = op[t].does
    <3> DEFINE r == [op[t] EXCEPT !.pc = "stores", !.todo = Pushed(op[t].v), !.orig = Null]
    <3>1. Calls /\ CallOK(t)
      BY DEF LockInv, Calls
    <3>2. op' = [op EXCEPT ![t] = r]
      BY <1>3, <3>1 DEF Alias, Calls
    <3>3. IsCall(r) /\ r.pc = "stores" /\ r.v = op[t].v /\ r.does = op[t].does
      BY <3>1 DEF CallOK, Fields, IsCall
    <3> HIDE DEF r
    <3>4. op'[t] = r
      BY <3>1, <3>2, CallSet
    <3> QED BY <3>2, <3>3, <3>4
  <2>2. Holds(t) /\ Holds(t)'
    BY <1>1, <2>1 DEF Holds
  <2>3. DOMAIN mem' = DOMAIN mem /\ process' = process
    BY <1>3 DEF Alias, Owned
  <2> QED BY <1>1, <2>1, <2>2, <2>3, ListStep
<1> QED BY <1>2, <1>3

(* DeallocateChunk is at the list, with no mutex, and comes to no step     *)
(* that needs it.                                                          *)
LEMMA RemoveOfKeeps ==
  ASSUME LockInv, NEW t \in Thread, RemoveOf(t)
  PROVE  LockInv'
<1>1. /\ op[t].pc = "tests" /\ UNCHANGED <<word, asleep, mem, made, held, unmapped, process>>
      /\ op[t].does # "push"
  BY DEF RemoveOf, At, lockVars, LockInv, Calls, CallOK
<1>2. ASSUME NEW r, op' = [op EXCEPT ![t] = r], IsCall(r), op'[t] = r,
             r.pc \in {"unmaps", "stores"}, r.v = op[t].v, r.does = op[t].does
      PROVE  LockInv'
  <2>1. ~Holds(t) /\ ~Holds(t)'
    BY <1>1, <1>2 DEF Holds
  <2> QED BY <1>1, <1>2, <2>1, ListStep
<1>0. Calls /\ t \in Thread
  BY DEF LockInv
<1>3. CASE IsEmpty(List)
  <2>1. Goto(t, "unmaps")
    BY <1>3 DEF RemoveOf
  <2>2. PICK r : /\ op' = [op EXCEPT ![t] = r] /\ IsCall(r) /\ op'[t] = r
                 /\ r.pc = "unmaps" /\ r.v = op[t].v /\ r.does = op[t].does
    BY ONLY <1>0, <2>1, PcSet
  <2> QED BY <1>2, <2>2
<1>4. CASE ~IsEmpty(List)
  <2> DEFINE r == [op[t] EXCEPT !.pc = "stores", !.todo = Removed(op[t].v)]
  <2>1. CallOK(t)
    BY <1>0 DEF Calls
  <2>2. op' = [op EXCEPT ![t] = r]
    BY <1>0, <1>4 DEF RemoveOf, Calls
  <2>3. IsCall(r) /\ r.pc = "stores" /\ r.v = op[t].v /\ r.does = op[t].does
    BY <2>1 DEF CallOK, Fields, IsCall
  <2> HIDE DEF r
  <2>4. op'[t] = r
    BY <1>0, <2>2, CallSet
  <2> QED BY <1>2, <2>2, <2>3, <2>4
<1> QED BY <1>3, <1>4

(* DeallocateChunk returns.                                                *)
LEMMA UnmapKeeps ==
  ASSUME LockInv, NEW t \in Thread, Unmap(t)
  PROVE  LockInv'
<1>1. /\ op[t].pc = "unmaps" /\ UNCHANGED <<word, asleep, mem, made, held, process>>
      /\ unmapped' = unmapped \cup {op[t].v} /\ op' = [op EXCEPT ![t] = Idle]
  BY DEF Unmap, At, lockVars
<1>2. op[t].v \in 1..made 
  BY <1>1 DEF LockInv, Calls, CallOK
<1>3. IsCall(Idle) /\ Idle.pc = "idle"
  BY DEF Idle, Fields, IsCall
<1>4. op'[t] = Idle
  BY <1>1, CallSet DEF LockInv
<1>5. CallOK(t)' /\ ~Holds(t) /\ ~Holds(t)'
  BY <1>1, <1>3, <1>4 DEF CallOK, Holds
<1>6. Numbers'
  BY <1>1, <1>2 DEF LockInv, Numbers
<1>7. made <= made' /\ process # "check_failed" /\ word \in {MtxUnlocked, MtxLocked, MtxSleeping}
  BY <1>1, VlistAssumption DEF LockInv, MutexOK, Numbers
<1> QED BY <1>1, <1>5, <1>6, <1>7, MutexStays

(* The last store leads an AllocateChunk to the Unlock.                    *)
LEMMA StoreKeeps ==
  ASSUME LockInv, NEW t \in Thread, Store(t)
  PROVE  LockInv'
<1>1. op[t].pc = "stores" /\ UNCHANGED <<word, asleep, made, held, unmapped>>
  BY DEF Store, At, lockVars
<1>2. CASE Faults(Head(op[t].todo))
  BY <1>1, <1>2, EndKeeps DEF Store
<1>3. CASE ~Faults(Head(op[t].todo))
  <2>1. PICK pc : pc = IF Len(op[t].todo) # 1 THEN "stores" 
                       ELSE IF op[t].does = "push" THEN "unlocks" ELSE "unmaps"
    OBVIOUS
  <2>2. op' = [op EXCEPT ![t].todo = Tail(@), ![t].pc = pc]
    BY <1>3, <2>1 DEF Store
  <2>3. PICK r : /\ op' = [op EXCEPT ![t] = r] /\ IsCall(r) /\ op'[t] = r
                 /\ r.pc = pc /\ r.v = op[t].v /\ r.does = op[t].does
    <3> DEFINE r == [op[t] EXCEPT !.todo = Tail(op[t].todo), !.pc = pc]
    <3>1. Calls /\ CallOK(t)
      BY DEF LockInv, Calls
    <3>2. op' = [op EXCEPT ![t] = r]
      BY <2>2, <3>1 DEF Calls
    <3>3. IsCall(r) /\ r.pc = pc /\ r.v = op[t].v /\ r.does = op[t].does
      BY <3>1 DEF CallOK, Fields, IsCall
    <3> HIDE DEF r
    <3>4. op'[t] = r
      BY <3>1, <3>2, CallSet
    <3> QED BY <3>2, <3>3, <3>4
  <2>4. pc \in {"stores", "unlocks", "unmaps"} 
        /\ (pc = "unlocks" => op[t].does = "push") /\ (pc = "unmaps" => op[t].does # "push")
    BY <2>1
  <2>5. mem' = Stored(Head(op[t].todo)) /\ process' = process
    BY <1>3 DEF Store
  <2>6. Holds(t)' <=> Holds(t)
    BY <1>1, <2>3, <2>4 DEF Holds
  <2>7. DOMAIN mem' = DOMAIN mem
    BY <2>5 DEF Stored
  <2> QED BY <1>1, <2>3, <2>4, <2>5, <2>6, <2>7, ListStep
<1> QED BY <1>2, <1>3

----------------------------------------------------------------------------
(* The mutex.                                                              *)

(* Whoever exchanges an unlocked word for a locked one has the mutex.      *)
LEMMA MutexTaken ==
  ASSUME LockInv, NEW t \in Thread, op[t].pc \in {"locks", "contends"}, word = MtxUnlocked, 
         word' \in {MtxLocked, MtxSleeping}, Locked(t), UNCHANGED <<asleep, listVars, process>>
  PROVE  LockInv'
<1>1. PICK pc : pc = IF op[t].does = "push" THEN "looks" ELSE "unlocks"
  OBVIOUS
<1>2. pc \in {"looks", "unlocks"} /\ (pc = "looks" => op[t].does = "push")
  BY <1>1
<1>3. Goto(t, pc)
  BY <1>1 DEF Locked
<1>4. Calls
  BY DEF LockInv
<1>5. PICK r : /\ op' = [op EXCEPT ![t] = r] /\ IsCall(r) /\ op'[t] = r
               /\ r.pc = pc /\ r.v = op[t].v /\ r.does = op[t].does
  <2>1. t \in Thread
    OBVIOUS
  <2> QED BY ONLY <1>3, <1>4, <2>1, PcSet
<1>6. /\ op' = [u \in Thread |-> op'[u]] /\ \A u \in Thread \ {t} : op'[u] = op[u]
      /\ made \in Nat /\ UNCHANGED <<mem, made, held, unmapped>>
  <2>1. op' = [u \in Thread |-> op'[u]] /\ \A u \in Thread \ {t} : op'[u] = op[u]
    BY <1>4, <1>5, CallSet
  <2> QED BY <2>1, VlistAssumption DEF LockInv, Numbers, listVars
<1>7. CallOK(t)
  BY DEF LockInv, Calls
<1>8. CallOK(t)'
  BY <1>2, <1>5, <1>6, <1>7 DEF CallOK
<1>9. Calls'
  <2>1. \A u \in Thread \ {t} : CallOK(u)'
    BY <1>6, OtherCalls DEF LockInv
  <2> QED BY <1>6, <1>8, <2>1 DEF Calls
<1>10. \A u \in Thread \ {t} : ~Holds(u)'
  <2>1. \A u \in Thread : ~Holds(u)
    BY DEF LockInv, MutexOK
  <2> QED BY <1>6, <2>1 DEF Holds
<1>11. Holds(t)'
  BY <1>2, <1>5 DEF Holds
<1>12. asleep' \subseteq {u \in Thread : op'[u].pc = "waits"}
  <2>1. t \notin asleep
    BY DEF LockInv, MutexOK
  <2> QED BY <1>6, <2>1 DEF LockInv, MutexOK
<1>13. /\ word' \in {MtxUnlocked, MtxLocked, MtxSleeping} /\ word' # MtxUnlocked
       /\ process' # "check_failed"
  BY DEF LockInv, MutexOK, MtxUnlocked, MtxLocked, MtxSleeping
<1>14. MutexOK'
  <2> HIDE DEF Holds
  <2> QED BY <1>10, <1>11, <1>12, <1>13 DEF MutexOK
<1>15. Numbers'
  BY <1>6, NumbersStay
<1> QED BY <1>9, <1>14, <1>15 DEF LockInv

(* Whoever exchanges a locked one has not.                                 *)
LEMMA LockKeeps ==
  ASSUME LockInv, NEW t \in Thread, Lock(t)
  PROVE  LockInv'
<1>1. ASSUME NEW from \in {"locks", "contends"}, NEW to \in {"contends", "waits"}, 
             NEW w \in {MtxLocked, MtxSleeping}, op[t].pc = from, word' = w, 
             IF word = MtxUnlocked THEN Locked(t) ELSE Goto(t, to),
             UNCHANGED <<asleep, listVars, process>>
      PROVE  LockInv'
  <2>1. CASE word = MtxUnlocked
    BY <1>1, <2>1, MutexTaken
  <2>2. CASE word # MtxUnlocked
    <3>0. Calls /\ t \in Thread /\ Goto(t, to)
      BY <1>1, <2>2 DEF LockInv
    <3>1. PICK r : /\ op' = [op EXCEPT ![t] = r] /\ IsCall(r) /\ op'[t] = r
                   /\ r.pc = to /\ r.v = op[t].v /\ r.does = op[t].does
      BY ONLY <3>0, PcSet
    <3>2. ~Holds(t) /\ ~Holds(t)'
      BY <1>1, <3>1 DEF Holds
    <3>3. /\ word' \in {MtxUnlocked, MtxLocked, MtxSleeping} /\ word' # MtxUnlocked
          /\ process' # "check_failed" /\ t \notin asleep
      BY <1>1 DEF LockInv, MutexOK, MtxUnlocked, MtxLocked, MtxSleeping
    <3>4. UNCHANGED <<asleep, mem, made, held, unmapped>>
      BY <1>1 DEF listVars
    <3> QED BY <1>1, <2>2, <3>1, <3>2, <3>3, <3>4, StepAlong
  <2> QED BY <2>1, <2>2
<1> QED BY <1>1 DEF Lock, At, Taken

(* A thread that finds the word changed goes back to exchanging it.        *)
LEMMA WaitKeeps ==
  ASSUME LockInv, NEW t \in Thread, Wait(t)
  PROVE  LockInv'
<1>1. /\ op[t].pc = "waits" /\ t \notin asleep 
      /\ UNCHANGED <<word, mem, made, held, unmapped, process>>
  BY DEF Wait, At, listVars
<1>2. CASE word = MtxSleeping
  <2>1. op' = op /\ asleep' = asleep \cup {t}
    BY <1>2 DEF Wait, Sleeps
  <2>2. Calls' /\ Numbers'
    BY <1>1, <2>1, NumbersStay DEF LockInv, Calls, CallOK
  <2>3. MutexOK'
    BY <1>1, <2>1 DEF LockInv, MutexOK, Holds
  <2> QED BY <2>2, <2>3 DEF LockInv
<1>3. CASE word # MtxSleeping
  <2>0. Calls /\ t \in Thread /\ Goto(t, "contends")
    BY <1>3 DEF Wait, Sleeps, LockInv
  <2>1. PICK r : /\ op' = [op EXCEPT ![t] = r] /\ IsCall(r) /\ op'[t] = r
                 /\ r.pc = "contends" /\ r.v = op[t].v /\ r.does = op[t].does
    BY ONLY <2>0, PcSet
  <2>2. ~Holds(t) /\ ~Holds(t)'
    BY <1>1, <2>1 DEF Holds
  <2>3. asleep' = asleep
    BY <1>3 DEF Wait, Sleeps
  <2>4. word \in {MtxUnlocked, MtxLocked, MtxSleeping} /\ process # "check_failed"
    BY DEF LockInv, MutexOK
  <2> QED BY <1>1, <2>1, <2>2, <2>3, <2>4, StepAlong
<1> QED BY <1>2, <1>3

(* What follows the mutex: a pusher is done, a remover goes to the list.   *)
LEMMA ReleasedCall ==
  ASSUME Calls, NEW t \in Thread, op[t].pc # "idle"
  PROVE  \E r : /\ Released(t, op) = [op EXCEPT ![t] = r] /\ IsCall(r)
                /\ r.pc \in {"idle", "tests"} 
                /\ r.pc # "idle" => r.v = op[t].v
                /\ r.pc = "tests" => r.does # "push"
<1>1. CallOK(t) /\ t \in DOMAIN op
  BY DEF Calls
<1>2. CASE op[t].does = "push"
  <2>1. Released(t, op) = [op EXCEPT ![t] = Idle]
    BY <1>1, <1>2 DEF Released
  <2>2. IsCall(Idle) /\ Idle.pc = "idle"
    BY DEF Idle, Fields, IsCall
  <2> QED BY <2>1, <2>2
<1>3. CASE op[t].does # "push"
  <2> DEFINE r == [op[t] EXCEPT !.pc = "tests"]
  <2>1. Released(t, op) = [op EXCEPT ![t] = r]
    BY <1>1, <1>3 DEF Released
  <2>2. IsCall(r) /\ r.pc = "tests" /\ r.does # "push" /\ r.v = op[t].v
    BY <1>1, <1>3 DEF CallOK, Fields, IsCall
  <2> HIDE DEF r
  <2> QED BY <2>1, <2>2
<1> QED BY <1>2, <1>3

(* What AllocateChunk returns.                                             *)
LEMMA ReturnedMade ==
  ASSUME LockInv, NEW t \in Thread, op[t].pc # "idle"
  PROVE  Returned(t) \subseteq 1..made
<1>1. op[t].v \in 1..made
  BY DEF LockInv, Calls, CallOK
<1> QED BY <1>1 DEF Returned

(* The holder gives the mutex back: the word cannot be unlocked before.    *)
LEMMA UnlockKeeps ==
  ASSUME LockInv, NEW t \in Thread, Unlock(t)
  PROVE  LockInv'
<1>1. op[t].pc = "unlocks" /\ word' = MtxUnlocked /\ UNCHANGED <<asleep, mem, made, unmapped>>
  BY DEF Unlock, At
<1>2. Holds(t) /\ word # MtxUnlocked /\ Calls
  BY <1>1 DEF LockInv, MutexOK, Holds
<1>3. /\ op' = IF Wakes(word) THEN [op EXCEPT ![t].pc = "wakes"] ELSE Released(t, op)
      /\ held' = held \cup (IF Wakes(word) THEN {} ELSE Returned(t))
      /\ process' = process
  BY <1>2 DEF Unlock
<1>4. Numbers'
  <2>1. held' \subseteq 1..made
    BY <1>1, <1>3, ReturnedMade DEF LockInv, Numbers
  <2> QED BY <1>1, <2>1 DEF LockInv, Numbers
<1>5. PICK r : /\ op' = [op EXCEPT ![t] = r] /\ IsCall(r) /\ op'[t] = r
               /\ r.pc \in {"idle", "tests", "wakes"} 
               /\ r.pc # "idle" => r.v = op[t].v
               /\ r.pc = "tests" => r.does # "push"
  <2>1. CASE Wakes(word)
    <3>1. Goto(t, "wakes")
      BY <1>3, <2>1 DEF Goto
    <3>2. PICK r : /\ op' = [op EXCEPT ![t] = r] /\ IsCall(r) /\ op'[t] = r
                   /\ r.pc = "wakes" /\ r.v = op[t].v /\ r.does = op[t].does
      <4>1. t \in Thread
        OBVIOUS
      <4> QED BY ONLY <1>2, <3>1, <4>1, PcSet
    <3> QED BY <3>2
  <2>2. CASE ~Wakes(word)
    <3>1. PICK r : /\ Released(t, op) = [op EXCEPT ![t] = r] /\ IsCall(r)
                   /\ r.pc \in {"idle", "tests"} 
                   /\ r.pc # "idle" => r.v = op[t].v
                   /\ r.pc = "tests" => r.does # "push"
      BY <1>1, <1>2, ReleasedCall
    <3>2. op' = [op EXCEPT ![t] = r]
      BY <1>3, <2>2, <3>1
    <3>3. op'[t] = r
      BY <1>2, <3>2, CallSet
    <3> QED BY <3>1, <3>2, <3>3
  <2> QED BY <2>1, <2>2
<1>6. /\ op' = [u \in Thread |-> op'[u]] /\ \A u \in Thread \ {t} : op'[u] = op[u]
  BY <1>2, <1>5, CallSet
<1>7. made \in Nat /\ made' = made
  BY <1>1, VlistAssumption DEF LockInv, Numbers
<1>8. CallOK(t)'
  <2>1. CallOK(t)
    BY <1>2 DEF Calls
  <2> QED BY <1>1, <1>5, <1>7, <2>1 DEF CallOK
<1>9. Calls'
  <2>1. \A u \in Thread \ {t} : CallOK(u)'
    BY <1>2, <1>6, <1>7, OtherCalls
  <2> QED BY <1>6, <1>8, <2>1 DEF Calls
<1>10. \A u \in Thread : ~Holds(u)'
  <2>1. ~Holds(t)'
    BY <1>5 DEF Holds
  <2>2. \A u \in Thread \ {t} : ~Holds(u)
    BY <1>2 DEF LockInv, MutexOK
  <2>3. \A u \in Thread \ {t} : ~Holds(u)'
    BY <1>6, <2>2 DEF Holds
  <2> QED BY <2>1, <2>3
<1>11. asleep' \subseteq {u \in Thread : op'[u].pc = "waits"}
  <2>1. t \notin asleep
    BY <1>1 DEF LockInv, MutexOK
  <2> QED BY <1>1, <1>6, <2>1 DEF LockInv, MutexOK
<1>12. MutexOK'
  <2>1. process' # "check_failed"
    BY <1>3 DEF LockInv, MutexOK
  <2> HIDE DEF Holds
  <2> QED BY <1>1, <1>10, <1>11, <2>1 DEF MutexOK
<1> QED BY <1>4, <1>9, <1>12 DEF LockInv

(* One that sleeps is woken, and exchanges the word again.                 *)
LEMMA WakeKeeps ==
  ASSUME LockInv, NEW t \in Thread, Wake(t)
  PROVE  LockInv'
<1>1. /\ op[t].pc = "wakes" /\ UNCHANGED <<word, mem, made, unmapped, process>>
      /\ held' = held \cup Returned(t)
  BY DEF Wake, At
<1>2. Calls /\ made \in Nat /\ asleep \subseteq {u \in Thread : op[u].pc = "waits"}
  BY VlistAssumption DEF LockInv, Numbers, MutexOK
<1>3. Numbers'
  <2>1. held' \subseteq 1..made
    BY <1>1, ReturnedMade DEF LockInv, Numbers
  <2> QED BY <1>1, <2>1 DEF LockInv, Numbers
<1>4. PICK r : /\ Released(t, op) = [op EXCEPT ![t] = r] /\ IsCall(r)
               /\ r.pc \in {"idle", "tests"} 
               /\ r.pc # "idle" => r.v = op[t].v
               /\ r.pc = "tests" => r.does # "push"
  BY <1>1, <1>2, ReleasedCall
<1>5. ASSUME op' = [op EXCEPT ![t] = r] PROVE op'[t] = r /\ \A u \in Thread \ {t} : op'[u] = op[u]
  BY <1>2, <1>5, CallSet
<1>6. ASSUME op' = [u \in Thread |-> op'[u]], asleep' \subseteq asleep,
             \A u \in asleep' : op'[u] = op[u],
             op'[t] = r, \A u \in Thread \ {t} : op'[u] = op[u] \/ 
               (/\ op[u].pc = "waits" /\ op'[u].pc = "contends" /\ IsCall(op'[u])
                /\ op'[u].v = op[u].v)
      PROVE  LockInv'
  <2>1. ASSUME NEW u \in Thread PROVE CallOK(u)' /\ (Holds(u)' <=> Holds(u))
    <3>1. CallOK(u)
      BY <1>2 DEF Calls
    <3>2. CASE u = t
      BY <1>1, <1>4, <1>6, <3>1, <3>2 DEF CallOK, Holds
    <3>3. CASE op'[u] = op[u]
      BY <1>1, <3>1, <3>3 DEF CallOK, Holds
    <3>4. CASE /\ op[u].pc = "waits" /\ op'[u].pc = "contends" /\ IsCall(op'[u])
               /\ op'[u].v = op[u].v
      BY <1>1, <3>1, <3>4 DEF CallOK, Holds
    <3> QED BY <1>6, <3>2, <3>3, <3>4
  <2>2. Calls'
    BY <1>6, <2>1 DEF Calls
  <2>3. asleep' \subseteq {u \in Thread : op'[u].pc = "waits"}
    BY <1>2, <1>6
  <2>4. MutexOK'
    <3> HIDE DEF Holds
    <3> QED BY <1>1, <2>1, <2>3 DEF LockInv, MutexOK
  <2> QED BY <1>3, <2>2, <2>4 DEF LockInv
<1>7. CASE asleep = {}
  <2>1. op' = [op EXCEPT ![t] = r] /\ asleep' = asleep
    BY <1>4, <1>7 DEF Wake
  <2>2. op' = [u \in Thread |-> op'[u]]
    BY <1>2, <2>1, CallSet
  <2> QED BY <1>5, <1>6, <1>7, <2>1, <2>2
<1>8. CASE asleep # {}
  <2>1. PICK u \in asleep : /\ asleep' = asleep \ {u}
                            /\ op' = [Released(t, op) EXCEPT ![u].pc = "contends"]
    BY <1>8 DEF Wake
  <2>2. u \in Thread /\ op[u].pc = "waits" /\ u # t
    BY <1>1, <1>2
  <2> DEFINE o == [op[u] EXCEPT !.pc = "contends"]
  <2>3. IsCall(o) /\ o.pc = "contends" /\ o.v = op[u].v
    <3>1. CallOK(u)
      BY <1>2, <2>2 DEF Calls
    <3> QED BY <3>1 DEF CallOK, Fields, IsCall
  <2>4. /\ op' = [x \in Thread |-> op'[x]] /\ op'[t] = r /\ op'[u] = o
        /\ \A x \in Thread \ {t, u} : op'[x] = op[x]
    BY <1>2, <1>4, <2>1, <2>2 DEF Calls
  <2> HIDE DEF o
  <2>5. \A x \in asleep' : op'[x] = op[x]
    BY <1>1, <1>2, <2>1, <2>4
  <2> QED BY <1>6, <2>1, <2>2, <2>3, <2>4, <2>5
<1> QED BY <1>7, <1>8

----------------------------------------------------------------------------
(* It holds at first.                                                      *)
LEMMA LockInit == Init => LockInv
<1> SUFFICES ASSUME Init PROVE LockInv
  OBVIOUS
<1>1. IsCall(Idle) /\ Idle.pc = "idle"
  BY DEF Idle, Fields, IsCall
<1>2. op = [t \in Thread |-> Idle] /\ \A t \in Thread : op[t] = Idle
  BY DEF Init
<1>3. Calls
  BY <1>1, <1>2 DEF Calls, CallOK
<1>4. Numbers
  BY VlistAssumption DEF Init, Numbers
<1>5. MutexOK
  BY <1>1, <1>2 DEF Init, MutexOK, Holds, MtxUnlocked
<1> QED BY <1>3, <1>4, <1>5 DEF LockInv

(* Every step keeps it.                                                    *)
LEMMA LockNext ==
  ASSUME LockInv, [Next]_vars
  PROVE  LockInv'
<1>1. CASE UNCHANGED vars
  <2>1. UNCHANGED <<op, word, asleep, mem, made, held, unmapped, process>>
    BY <1>1 DEF vars, lockVars, listVars
  <2>2. process' # "check_failed"
    BY <2>1 DEF LockInv, MutexOK
  <2> QED BY <2>1, <2>2, EndKeeps
<1>2. ASSUME NEW t \in Thread, Step(t) PROVE LockInv'
  BY <1>2, AllocateChunkKeeps, LookKeeps, ClearKeeps, AliasKeeps, DeallocateChunkKeeps, 
     RemoveOfKeeps, UnmapKeeps, LockKeeps, WaitKeeps, UnlockKeeps, WakeKeeps, StoreKeeps 
  DEF Step
<1> QED BY <1>1, <1>2 DEF Next

(* At most one thread is between Lock and Unlock, and the word of the      *)
(* futex mutex says whether there is one: no CHECK_NE(v, MtxUnlocked) of   *)
(* an Unlock fails, and whoever sleeps waits for the mutex.                *)
THEOREM TheMutexExcludes == Spec => []Exclusive
<1>1. ASSUME LockInv PROVE Exclusive
  <2>1. Cardinality({t \in Thread : Holds(t)}) <= 1
    <3> DEFINE S == {t \in Thread : Holds(t)}
    <3>1. \A t, u \in S : t = u
      BY <1>1 DEF LockInv, MutexOK
    <3> HIDE DEF S
    <3>2. CASE S = {}
      BY <3>2, FS_EmptySet DEF S
    <3>3. CASE S # {}
      <4>1. PICK x \in S : TRUE
        BY <3>3
      <4>2. S = {x}
        BY <3>1, <4>1
      <4>3. Cardinality(S) = 1
        BY <4>2, FS_Singleton
      <4> QED BY <4>3 DEF S
    <3> QED BY <3>2, <3>3
  <2>2. (word = MtxUnlocked) = (\A t \in Thread : ~Holds(t))
    <3> HIDE DEF Holds
    <3> QED BY <1>1 DEF LockInv, MutexOK
  <2> QED BY <1>1, <2>1, <2>2 DEF LockInv, MutexOK, Numbers, Exclusive
<1> QED BY <1>1, LockInit, LockNext, PTL DEF Spec

----------------------------------------------------------------------------
(* Sleepers.                                                               *)

(* NoLostWakeup, short of the holder, whom MutexOK adds.                   *)
Waker(t) == op[t].pc \in {"contends", "wakes"}
Awake == asleep # {} => word = MtxSleeping \/ \E t \in Thread : Waker(t)

(* A step by one who is not to wake anybody leaves those who are, unless   *)
(* it takes the word of sleepers away.                                     *)
LEMMA WakersStay ==
  ASSUME Awake, NEW t \in Thread, ~Waker(t), \A u \in Thread \ {t} : op'[u] = op[u],
         asleep' = asleep, word' = word \/ word # MtxSleeping
  PROVE  Awake'
<1>1. ASSUME NEW u \in Thread, Waker(u) PROVE Waker(u)'
  <2>1. u # t
    BY <1>1
  <2> QED BY <1>1, <2>1 DEF Waker
<1> HIDE DEF Waker
<1> QED BY <1>1 DEF Awake

(* Operations on the list leave the mutex alone.                           *)
LEMMA ListStepAwake ==
  ASSUME Calls, Awake, NEW t \in Thread,
         \/ AllocateChunk(t) \/ Look(t) \/ Clear(t) \/ Alias(t)
         \/ DeallocateChunk(t) \/ RemoveOf(t) \/ Unmap(t) \/ Store(t)
  PROVE  Awake'
<1>1. DOMAIN op = Thread
  BY DEF Calls
<1>2. CASE AllocateChunk(t)
  <2>1. /\ \A u \in Thread \ {t} : op'[u] = op[u]
        /\ ~Waker(t) /\ asleep' = asleep /\ word' = word
    BY <1>1, <1>2 DEF AllocateChunk, At, Waker, lockVars
  <2> QED BY <2>1, WakersStay
<1>3. CASE Look(t)
  <2>1. /\ \A u \in Thread \ {t} : op'[u] = op[u]
        /\ ~Waker(t) /\ asleep' = asleep /\ word' = word
    BY <1>1, <1>3 DEF Look, At, Waker, lockVars
  <2> QED BY <2>1, WakersStay
<1>4. CASE Clear(t)
  <2>1. /\ \A u \in Thread \ {t} : op'[u] = op[u]
        /\ ~Waker(t) /\ asleep' = asleep /\ word' = word
    BY <1>1, <1>4 DEF Clear, At, Waker, lockVars
  <2> QED BY <2>1, WakersStay
<1>5. CASE Alias(t)
  <2>1. /\ \A u \in Thread \ {t} : op'[u] = op[u]
        /\ ~Waker(t) /\ asleep' = asleep /\ word' = word
    BY <1>1, <1>5 DEF Alias, At, Waker, lockVars
  <2> QED BY <2>1, WakersStay
<1>6. CASE DeallocateChunk(t)
  <2>1. /\ \A u \in Thread \ {t} : op'[u] = op[u]
        /\ ~Waker(t) /\ asleep' = asleep /\ word' = word
    BY <1>1, <1>6 DEF DeallocateChunk, At, Waker, lockVars
  <2> QED BY <2>1, WakersStay
<1>7. CASE RemoveOf(t)
  <2>1. /\ \A u \in Thread \ {t} : op'[u] = op[u]
        /\ ~Waker(t) /\ asleep' = asleep /\ word' = word
    BY <1>1, <1>7 DEF RemoveOf, Goto, At, Waker, lockVars
  <2> QED BY <2>1, WakersStay
<1>8. CASE Unmap(t)
  <2>1. /\ \A u \in Thread \ {t} : op'[u] = op[u]
        /\ ~Waker(t) /\ asleep' = asleep /\ word' = word
    BY <1>1, <1>8 DEF Unmap, At, Waker, lockVars
  <2> QED BY <2>1, WakersStay
<1>9. CASE Store(t)
  <2>1. /\ \A u \in Thread \ {t} : op'[u] = op[u]
        /\ ~Waker(t) /\ asleep' = asleep /\ word' = word
    BY <1>1, <1>9 DEF Store, At, Waker, lockVars
  <2> QED BY <2>1, WakersStay
<1> QED BY <1>2, <1>3, <1>4, <1>5, <1>6, <1>7, <1>8, <1>9

(* The first exchange takes the word of sleepers away only to write it     *)
(* again, which is what the second one does.                               *)
LEMMA LockAwake ==
  ASSUME Calls, Awake, NEW t \in Thread, Lock(t)
  PROVE  Awake'
<1>1. DOMAIN op = Thread
  BY DEF Calls
<1>2. CASE At(t, "contends")
  <2>1. word' = MtxSleeping
    BY <1>2 DEF Lock, At
  <2> QED BY <2>1 DEF Awake
<1>3. CASE At(t, "locks") /\ word = MtxSleeping
  <2>1. Goto(t, "contends")
    BY <1>3 DEF Lock, At, Taken, MtxUnlocked, MtxSleeping
  <2>2. Waker(t)'
    BY <1>1, <2>1 DEF Goto, Waker
  <2> QED BY <2>2 DEF Awake
<1>4. CASE At(t, "locks") /\ word # MtxSleeping
  <2>1. \A u \in Thread \ {t} : op'[u] = op[u]
    BY <1>1, <1>4 DEF Lock, Locked, Goto
  <2>2. ~Waker(t) /\ asleep' = asleep
    BY <1>4 DEF Lock, At, Waker
  <2> QED BY <1>4, <2>1, <2>2, WakersStay
<1> QED BY <1>2, <1>3, <1>4 DEF Lock

(* FUTEX_WAIT sees the word of sleepers, or nobody goes to sleep.          *)
LEMMA WaitAwake ==
  ASSUME Calls, Awake, NEW t \in Thread, Wait(t)
  PROVE  Awake'
<1>1. word' = word
  BY DEF Wait
<1>2. CASE word = MtxSleeping
  BY <1>1, <1>2 DEF Awake
<1>3. CASE word # MtxSleeping
  <2>1. asleep' = asleep /\ \A u \in Thread \ {t} : op'[u] = op[u]
    BY <1>3 DEF Wait, Sleeps, Goto, Calls
  <2>2. ~Waker(t)
    BY DEF Wait, At, Waker
  <2> QED BY <1>3, <2>1, <2>2, WakersStay
<1> QED BY <1>2, <1>3

(* Unlock takes it away, and then is the one who wakes.                    *)
LEMMA UnlockAwake ==
  ASSUME Calls, Awake, NEW t \in Thread, Unlock(t)
  PROVE  Awake'
<1>1. DOMAIN op = Thread
  BY DEF Calls
<1>2. ~Waker(t) /\ asleep' = asleep
  BY DEF Unlock, At, Waker
<1>3. CASE word = MtxSleeping
  <2>1. op' = [op EXCEPT ![t].pc = "wakes"]
    BY <1>3 DEF Unlock, Wakes, MtxUnlocked, MtxSleeping
  <2>2. Waker(t)'
    BY <1>1, <2>1 DEF Waker
  <2> QED BY <2>2 DEF Awake
<1>4. CASE word # MtxSleeping
  <2>1. op' = op \/ op' = Released(t, op)
    BY <1>4 DEF Unlock, Wakes
  <2>2. \A u \in Thread \ {t} : op'[u] = op[u]
    BY <1>1, <2>1 DEF Released
  <2> QED BY <1>2, <1>4, <2>2, WakersStay
<1> QED BY <1>3, <1>4

(* Whoever is woken writes the word again, for those who still sleep.      *)
LEMMA WakeAwake ==
  ASSUME LockInv, Awake, NEW t \in Thread, Wake(t)
  PROVE  Awake'
<1>1. CASE asleep = {}
  <2>1. asleep' = {}
    BY <1>1 DEF Wake
  <2> QED BY <2>1 DEF Awake
<1>2. CASE asleep # {}
  <2>1. PICK u \in asleep : op' = [Released(t, op) EXCEPT ![u].pc = "contends"]
    BY <1>2 DEF Wake
  <2>2. u \in Thread /\ DOMAIN op = Thread
    BY DEF LockInv, MutexOK, Calls
  <2>3. DOMAIN Released(t, op) = Thread
    BY <2>2 DEF Released
  <2>4. Waker(u)'
    BY <2>1, <2>2, <2>3 DEF Waker
  <2> QED BY <2>2, <2>4 DEF Awake
<1> QED BY <1>1, <1>2

(* Nobody who sleeps is forgotten: while a thread waits in the futex,      *)
(* there is a holder whose Unlock will wake one, or a thread on its way to *)
(* FUTEX_WAKE or to the exchange that announces sleepers                   *)
(* (BlockingMutex::Lock, Unlock).                                          *)
THEOREM NobodySleepsForgotten == Spec => []NoLostWakeup
<1>1. ASSUME LockInv, Awake PROVE NoLostWakeup
  <2>1. word = MtxSleeping => \E t \in Thread : Holds(t)
    <3> HIDE DEF Holds
    <3> QED BY <1>1 DEF LockInv, MutexOK, MtxUnlocked, MtxSleeping
  <2> QED BY <1>1, <2>1 DEF Awake, Waker, NoLostWakeup
<1>2. Init => Awake
  BY DEF Init, Awake
<1>3. ASSUME LockInv, Awake, [Next]_vars PROVE Awake'
  <2>1. ASSUME NEW t \in Thread, Step(t) PROVE Awake'
    <3>1. Calls
      BY <1>3 DEF LockInv
    <3> QED 
      BY <1>3, <2>1, <3>1, ListStepAwake, LockAwake, WaitAwake, UnlockAwake, WakeAwake DEF Step
  <2>2. CASE UNCHANGED vars
    BY <1>3, <2>2 DEF Awake, Waker, vars, lockVars
  <2> QED BY <1>3, <2>1, <2>2 DEF Next
<1> QED BY <1>1, <1>2, <1>3, LockInit, LockNext, PTL DEF Spec

----------------------------------------------------------------------------
(* The list, while operations on it come one after the other.              *)

Item == Vpage \cup {Null}

(* A header and links that hold the items at[1], at[2], ...                *)
Chain(at, list, prev, next) ==
  /\ at \in [1..list.size -> Vpage]
  /\ \A i, j \in 1..list.size : at[i] = at[j] => i = j
  /\ list.first = IF list.size = 0 THEN Null ELSE at[1]
  /\ list.last = IF list.size = 0 THEN Null ELSE at[list.size]
  /\ \A i \in 1..list.size : 
       /\ prev[at[i]] = IF i = 1 THEN Null ELSE at[i - 1]
       /\ next[at[i]] = IF i = list.size THEN Null ELSE at[i + 1]

(* Some chain has the items of S, and the links of the others are clear.   *)
WellFormed(list, prev, next, S) ==
  /\ list \in [size : Nat, first : Item, last : Item]
  /\ prev \in [Vpage -> Item] /\ next \in [Vpage -> Item]
  /\ \A v \in Vpage \ S : prev[v] = Null /\ next[v] = Null
  /\ \E at : Chain(at, list, prev, next) /\ S = {at[i] : i \in 1..list.size}

(* A Vpage is on the list from the last store of its push_back to the last *)
(* store of its remove.                                                    *)
Linked(t) == IF op[t].does = "push" THEN op[t].pc \in {"unlocks", "wakes"}
             ELSE op[t].pc \notin {"idle", "unmaps"}

OnList == held \cup {op[t].v : t \in {u \in Thread : Linked(u)}}

(* Every Vpage is in one place: with the program, in one call, or unmapped.*)
OnePlace ==
  /\ held \cap unmapped = {}
  /\ \A t \in Thread : op[t].pc # "idle" => op[t].v \notin held \cup unmapped
  /\ \A t, u \in Thread : 
       op[t].pc # "idle" /\ op[u].pc # "idle" /\ op[t].v = op[u].v => t = u

(* The memory of a list, and the cell a store goes to.                     *)
Value(w, c) == CASE c[1] = "size"  -> w.list.size
                 [] c[1] = "first" -> w.list.first
                 [] c[1] = "last"  -> w.list.last
                 [] c[1] = "prev"  -> w.prev[c[2]]
                 [] OTHER          -> w.next[c[2]]

Place == {"size", "first", "last", "prev", "next", "adds"}

(* A memory that holds a list.                                             *)
Holding(w) == \A c \in Cell : mem[c] = Value(w, c)

Target(s) == IF s[1] = "adds" THEN <<"size", Null>> ELSE <<s[1], s[2]>>

(* A store that brings its cell to the value it has in w.                  *)
Reaches(s, w) ==
  /\ Target(s) \in Cell /\ ~Faults(s)
  /\ IF s[1] = "adds" THEN mem[Target(s)] + s[3] = Value(w, Target(s))
     ELSE s[3] = Value(w, Target(s))

(* The stores to come lead to what the whole operation makes of the list:  *)
(* each goes to a cell of its own and brings it to its value there, and    *)
(* all other cells have theirs already.                                    *)
Staged(t, w) ==
  LET todo == op[t].todo
  IN  /\ todo \in Seq(Place \X Item \X Int) /\ todo # <<>>
      /\ \A i \in 1..Len(todo) : 
           /\ Reaches(todo[i], w)
           /\ \A j \in 1..Len(todo) : Target(todo[i]) = Target(todo[j]) => i = j
      /\ \A c \in Cell : 
           (\A i \in 1..Len(todo) : Target(todo[i]) # c) => mem[c] = Value(w, c)

(* What a call knows about the list.                                       *)
Knows(t) ==
  /\ op[t].pc = "clears" => meant.list.size = 0
  /\ op[t].pc = "aliases" => meant.list.size # 0 /\ op[t].orig = meant.list.first
  /\ op[t].pc = "stores" => Staged(t, Whole(t))

Sequential ==
  /\ process = "runs"
  /\ \A t, u \in Thread : Lists(t) /\ Lists(u) => t = u
  /\ WellFormed(meant.list, meant.prev, meant.next, OnList)
  /\ (\A t \in Thread : op[t].pc # "stores") => Holding(meant)
  /\ \A t \in Thread : Knows(t)

ListInv == OnePlace /\ (~overlapped => Sequential)

----------------------------------------------------------------------------
(* push_back and remove on whole lists.                                    *)

(* What push_back makes of a list is a list with the new item at its end.  *)
LEMMA PushBackLinks ==
  ASSUME NEW list, NEW prev, NEW next, NEW S, WellFormed(list, prev, next, S),
         NEW v \in Vpage, v \notin S
  PROVE  LET w == PushBack(list, prev, next, v)
         IN  WellFormed(w.list, w.prev, w.next, S \cup {v})
<1> DEFINE w == PushBack(list, prev, next, v)
           n == list.size
<1>1. /\ list \in [size : Nat, first : Item, last : Item]
      /\ prev \in [Vpage -> Item] /\ next \in [Vpage -> Item] /\ n \in Nat
      /\ \A x \in Vpage \ S : prev[x] = Null /\ next[x] = Null
  BY DEF WellFormed
<1>2. PICK at : Chain(at, list, prev, next) /\ S = {at[i] : i \in 1..n}
  BY DEF WellFormed
<1>3. /\ at \in [1..n -> Vpage]
      /\ \A i, j \in 1..n : at[i] = at[j] => i = j
      /\ n # 0 => list.first = at[1] /\ list.last = at[n]
      /\ \A i \in 1..n : /\ prev[at[i]] = IF i = 1 THEN Null ELSE at[i - 1]
                         /\ next[at[i]] = IF i = n THEN Null ELSE at[i + 1]
  BY <1>2 DEF Chain
<1> DEFINE bt == [i \in 1..(n + 1) |-> IF i = n + 1 THEN v ELSE at[i]]
<1>4. /\ bt \in [1..(n + 1) -> Vpage] /\ bt[n + 1] = v /\ n + 1 \in 1..(n + 1)
      /\ \A i \in 1..n : bt[i] = at[i] /\ at[i] # v /\ at[i] \in Vpage /\ i \in 1..(n + 1)
      /\ \A i \in 1..(n + 1) : i = n + 1 \/ i \in 1..n
  BY <1>1, <1>2, <1>3
<1>5. w.list \in [size : Nat, first : Item, last : Item] 
      /\ w.list = [size |-> n + 1, first |-> IF n = 0 THEN v ELSE list.first, last |-> v]
  BY <1>1, <1>3 DEF PushBack, IsEmpty, Item
<1>6. /\ w.prev = [prev EXCEPT ![v] = IF n = 0 THEN Null ELSE list.last]
      /\ w.next = [x \in Vpage |-> IF x = v THEN Null ELSE IF n # 0 /\ x = list.last THEN v ELSE next[x]]
  <2>1. n # 0 => list.last \in Vpage /\ list.last # v
    BY <1>1, <1>2, <1>3
  <2>2. CASE n = 0
    BY <1>1, <2>2 DEF PushBack, IsEmpty
  <2>3. CASE n # 0
    BY <1>1, <2>1, <2>3 DEF PushBack, IsEmpty
  <2> QED BY <2>2, <2>3
<1> HIDE DEF bt, w
<1>7. /\ w.prev \in [Vpage -> Item] /\ w.next \in [Vpage -> Item]
      /\ \A x \in Vpage \ (S \cup {v}) : w.prev[x] = Null /\ w.next[x] = Null
  BY <1>1, <1>2, <1>3, <1>6 DEF Item
<1>8. S \cup {v} = {bt[i] : i \in 1..w.list.size}
  BY <1>1, <1>2, <1>4, <1>5
<1>9. \A i, j \in 1..(n + 1) : bt[i] = bt[j] => i = j
  BY <1>3, <1>4
<1>10. ASSUME NEW i \in 1..(n + 1) 
       PROVE  /\ w.prev[bt[i]] = IF i = 1 THEN Null ELSE bt[i - 1]
              /\ w.next[bt[i]] = IF i = n + 1 THEN Null ELSE bt[i + 1]
  <2>1. CASE i = n + 1
    <3>1. bt[i] = v /\ i # n + 2 /\ (i = 1 <=> n = 0) /\ (n # 0 => list.last = bt[i - 1])
      <4>1. n # 0 => n \in 1..n
        BY <1>1
      <4> QED BY <1>1, <1>3, <1>4, <2>1, <4>1
    <3>2. w.prev[v] = IF n = 0 THEN Null ELSE list.last
      BY ONLY <1>1, <1>6, v \in Vpage
    <3>3. w.next[v] = Null
      BY ONLY <1>6, v \in Vpage
    <3> QED BY ONLY <2>1, <3>1, <3>2, <3>3
  <2>2. CASE i \in 1..n
    <3>1. /\ bt[i] = at[i] /\ at[i] # v /\ at[i] \in Vpage /\ i # n + 1 
          /\ i # 1 => bt[i - 1] = at[i - 1]
      BY <1>1, <1>4, <2>2
    <3>2. w.prev[at[i]] = prev[at[i]]
      BY ONLY <1>1, <1>6, <3>1
    <3>3. w.next[at[i]] = IF at[i] = list.last THEN v ELSE next[at[i]]
      <4>1. n # 0
        BY <1>1, <2>2
      <4> QED BY ONLY <1>6, <3>1, <4>1
    <3>4. at[i] = list.last <=> i = n
      BY <1>1, <1>3, <2>2
    <3>5. (i = n => bt[i + 1] = v) /\ (i # n => bt[i + 1] = at[i + 1])
      BY <1>1, <1>4, <2>2
    <3> QED BY <1>3, <2>2, <3>1, <3>2, <3>3, <3>4, <3>5
  <2> QED BY <1>4, <2>1, <2>2
<1>12. w.list.first = bt[1] /\ w.list.last = bt[n + 1] /\ w.list.size = n + 1 /\ n + 1 # 0
  BY <1>1, <1>3, <1>4, <1>5
<1>13. Chain(bt, w.list, w.prev, w.next)
  BY <1>4, <1>9, <1>10, <1>12 DEF Chain
<1>14. WellFormed(w.list, w.prev, w.next, S \cup {v})
  BY <1>5, <1>7, <1>8, <1>13 DEF WellFormed
<1> QED BY <1>14 DEF w

(* What remove makes of one is a list without the item.                    *)
LEMMA RemoveUnlinks ==
  ASSUME NEW list, NEW prev, NEW next, NEW S, WellFormed(list, prev, next, S), NEW v \in S
  PROVE  LET w == Remove(list, prev, next, v)
         IN  WellFormed(w.list, w.prev, w.next, S \ {v})
<1> DEFINE w == Remove(list, prev, next, v)
           n == list.size
<1>1. /\ list \in [size : Nat, first : Item, last : Item]
      /\ prev \in [Vpage -> Item] /\ next \in [Vpage -> Item] /\ n \in Nat
      /\ \A x \in Vpage \ S : prev[x] = Null /\ next[x] = Null
  BY DEF WellFormed
<1>2. PICK at : Chain(at, list, prev, next) /\ S = {at[i] : i \in 1..n}
  BY DEF WellFormed
<1>3. /\ at \in [1..n -> Vpage]
      /\ \A i, j \in 1..n : at[i] = at[j] => i = j
      /\ n # 0 => list.first = at[1] /\ list.last = at[n]
      /\ \A i \in 1..n : /\ prev[at[i]] = IF i = 1 THEN Null ELSE at[i - 1]
                         /\ next[at[i]] = IF i = n THEN Null ELSE at[i + 1]
  BY <1>2 DEF Chain
<1>4. PICK k \in 1..n : v = at[k]
  BY <1>2
<1> DEFINE p == IF k = 1 THEN Null ELSE at[k - 1]
           m == IF k = n THEN Null ELSE at[k + 1]
           bt == [i \in 1..(n - 1) |-> IF i < k THEN at[i] ELSE at[i + 1]]
<1>5. /\ prev[v] = p /\ next[v] = m /\ n # 0 /\ n - 1 \in Nat /\ v \in Vpage
      /\ \A i \in 1..n : at[i] \in Vpage /\ at[i] # Null
  <2>1. \A x \in Vpage : x # Null
    BY VlistAssumption DEF Vpage, Null
  <2>2. \A i \in 1..n : at[i] \in Vpage 
    BY <1>3
  <2>3. prev[v] = p /\ next[v] = m
    BY <1>3, <1>4
  <2> QED BY <1>1, <1>4, <2>1, <2>2, <2>3
<1>6. w.list = [size |-> n - 1, first |-> IF k = 1 THEN m ELSE list.first,
                last |-> IF k = n THEN p ELSE list.last]
  BY <1>1, <1>4, <1>5 DEF Remove, IsEmpty
<1>7. /\ w.prev = [x \in Vpage |-> IF x = v THEN Null ELSE IF x = m THEN p ELSE prev[x]]
      /\ w.next = [x \in Vpage |-> IF x = v THEN Null ELSE IF x = p THEN m ELSE next[x]]
  BY <1>1, <1>5 DEF Remove, IsEmpty
<1>8. p \in Item /\ m \in Item
  BY <1>1, <1>3, <1>4 DEF Item
<1>9. w.list \in [size : Nat, first : Item, last : Item]
  BY <1>1, <1>5, <1>6, <1>8
<1>10. w.prev \in [Vpage -> Item] /\ w.next \in [Vpage -> Item]
  BY <1>1, <1>7, <1>8 DEF Item
<1>11. /\ bt \in [1..(n - 1) -> Vpage]
       /\ \A i \in 1..(n - 1) : bt[i] = IF i < k THEN at[i] ELSE at[i + 1]
  BY <1>1, <1>3
<1> HIDE DEF bt, w
<1>12. \A i, j \in 1..(n - 1) : bt[i] = bt[j] => i = j
  BY <1>1, <1>3, <1>4, <1>11
<1>13. S \ {v} = {bt[i] : i \in 1..(n - 1)}
  <2>1. \A i \in 1..(n - 1) : bt[i] \in S /\ bt[i] # v
    BY <1>1, <1>2, <1>3, <1>4, <1>11
  <2>2. ASSUME NEW x \in S, x # v PROVE \E i \in 1..(n - 1) : x = bt[i]
    <3>1. PICK i \in 1..n : x = at[i]
      BY <1>2
    <3>2. CASE i < k
      BY <1>1, <1>4, <1>11, <3>1, <3>2
    <3>3. CASE i > k
      <4>1. i - 1 \in 1..(n - 1) /\ ~(i - 1 < k) /\ (i - 1) + 1 = i
        BY <1>1, <1>4, <3>3
      <4> QED BY <1>11, <3>1, <4>1
    <3> QED BY <1>1, <1>4, <2>2, <3>1, <3>2, <3>3
  <2> QED BY <2>1, <2>2
<1>14. \A x \in Vpage \ (S \ {v}) : w.prev[x] = Null /\ w.next[x] = Null
  <2>1. (p = Null \/ p \in S) /\ (m = Null \/ m \in S)
    <3>1. k # 1 => k - 1 \in 1..n
      BY <1>1, <1>4
    <3>2. k # n => k + 1 \in 1..n
      BY <1>1, <1>4
    <3> QED BY <1>2, <3>1, <3>2
  <2>2. ASSUME NEW x \in Vpage \ S PROVE w.prev[x] = Null /\ w.next[x] = Null
    <3>1. x # Null /\ x # p /\ x # m
      BY <2>1, <2>2 DEF Vpage, Null
    <3> QED BY <1>1, <1>7, <3>1
  <2>3. w.prev[v] = Null /\ w.next[v] = Null
    BY <1>5, <1>7
  <2> QED BY <2>2, <2>3
<1>15. \A i \in 1..(n - 1) : w.prev[bt[i]] = IF i = 1 THEN Null ELSE bt[i - 1]
  <2> SUFFICES ASSUME NEW i \in 1..(n - 1)
               PROVE  w.prev[bt[i]] = IF i = 1 THEN Null ELSE bt[i - 1]
    OBVIOUS
  <2>1. CASE i < k
    BY <1>1, <1>3, <1>4, <1>5, <1>7, <1>11, <2>1
  <2>2. CASE i = k
    <3>1. bt[i] = at[k + 1] /\ k + 1 \in 1..n /\ m = at[k + 1] /\ at[k + 1] # v
      BY <1>1, <1>3, <1>4, <1>11, <2>2
    <3>2. w.prev[bt[i]] = p
      BY <1>5, <1>7, <3>1
    <3>3. i # 1 => bt[i - 1] = at[k - 1]
      BY <1>1, <1>4, <1>11, <2>2
    <3> QED BY <2>2, <3>2, <3>3
  <2>3. CASE i > k
    <3>1. bt[i] = at[i + 1] /\ i + 1 \in 1..n /\ bt[i - 1] = at[i] /\ i # 1
      BY <1>1, <1>4, <1>11, <2>3
    <3>2. at[i + 1] # v /\ at[i + 1] # m
      BY <1>1, <1>3, <1>4, <1>5, <2>3, <3>1
    <3>3. prev[at[i + 1]] = at[i]
      BY <1>1, <1>3, <3>1
    <3> QED BY <1>5, <1>7, <3>1, <3>2, <3>3
  <2> QED BY <1>1, <1>4, <2>1, <2>2, <2>3
<1>16. \A i \in 1..(n - 1) : w.next[bt[i]] = IF i = n - 1 THEN Null ELSE bt[i + 1]
  <2> SUFFICES ASSUME NEW i \in 1..(n - 1)
               PROVE  w.next[bt[i]] = IF i = n - 1 THEN Null ELSE bt[i + 1]
    OBVIOUS
  <2>1. CASE i < k - 1
    <3>1. bt[i] = at[i] /\ i \in 1..n /\ bt[i + 1] = at[i + 1] /\ i # n - 1 /\ i # n
      BY <1>1, <1>4, <1>11, <2>1
    <3>2. at[i] # v /\ at[i] # p
      BY <1>1, <1>3, <1>4, <1>5, <2>1, <3>1
    <3>3. next[at[i]] = at[i + 1]
      BY <1>1, <1>3, <3>1
    <3> QED BY <1>5, <1>7, <3>1, <3>2, <3>3
  <2>2. CASE i = k - 1
    <3>1. bt[i] = at[k - 1] /\ k - 1 \in 1..n /\ p = at[k - 1] /\ at[k - 1] # v
      BY <1>1, <1>3, <1>4, <1>11, <2>2
    <3>2. w.next[bt[i]] = m
      BY <1>5, <1>7, <3>1
    <3>3. i # n - 1 => bt[i + 1] = at[k + 1]
      BY <1>1, <1>4, <1>11, <2>2
    <3>4. i = n - 1 <=> k = n
      BY <1>1, <1>4, <2>2
    <3> QED BY <3>2, <3>3, <3>4
  <2>3. CASE i >= k
    <3>1. bt[i] = at[i + 1] /\ i + 1 \in 1..n /\ (i # n - 1 => bt[i + 1] = at[(i + 1) + 1])
      BY <1>1, <1>4, <1>11, <2>3
    <3>2. at[i + 1] # v /\ at[i + 1] # p
      BY <1>1, <1>3, <1>4, <1>5, <2>3, <3>1
    <3>3. next[at[i + 1]] = IF i + 1 = n THEN Null ELSE at[(i + 1) + 1]
      BY <1>3, <3>1
    <3> QED BY <1>1, <1>5, <1>7, <3>1, <3>2, <3>3
  <2> QED BY <1>1, <1>4, <2>1, <2>2, <2>3
<1>17. /\ w.list.first = IF n - 1 = 0 THEN Null ELSE bt[1]
       /\ w.list.last = IF n - 1 = 0 THEN Null ELSE bt[n - 1]
       /\ w.list.size = n - 1
  <2>1. CASE n = 1
    BY <1>1, <1>4, <1>6, <2>1
  <2>2. CASE n > 1
    BY <1>1, <1>3, <1>4, <1>6, <1>11, <2>2
  <2> QED BY <1>1, <1>5, <2>1, <2>2
<1>18. Chain(bt, w.list, w.prev, w.next)
  BY <1>11, <1>12, <1>15, <1>16, <1>17 DEF Chain
<1>19. WellFormed(w.list, w.prev, w.next, S \ {v})
  <2>1. S \ {v} = {bt[i] : i \in 1..w.list.size}
    BY <1>13, <1>17
  <2> QED BY <1>9, <1>10, <1>14, <1>18, <2>1 DEF WellFormed
<1> QED BY <1>19 DEF w

(* A set of numbers that is not empty has a smallest one.                  *)
LEMMA SmallestOf ==
  ASSUME NEW T \in SUBSET Nat, T # {}
  PROVE  \E x \in T : \A y \in T : x <= y
<1>1. PICK x \in T : \A y \in T : ~ (<<y, x>> \in OpToRel(<, Nat))
  BY NatLessThanWellFounded, WFMin
<1>2. \A y \in T : y < x => <<y, x>> \in OpToRel(<, Nat)
  BY DEF OpToRel
<1>3. \A y \in T : ~(y < x)
  BY <1>1, <1>2
<1> QED BY <1>3

(* The walk of CheckConsistency meets the items of a list in their order.  *)
LEMMA WalkMeetsAll ==
  ASSUME NEW list, NEW prev, NEW next, NEW at, Chain(at, list, prev, next),
         list.size \in Nat, next \in [Vpage -> Item]
  PROVE  \A k \in 1..list.size : Walk(list, next)[k] = at[k]
<1> DEFINE n == list.size
           Walks(f) == f = [k \in 1..n |-> IF k = 1 THEN list.first
                              ELSE IF f[k - 1] \in DOMAIN next THEN next[f[k - 1]] ELSE Null]
<1>1. /\ at \in [1..n -> Vpage]
      /\ n # 0 => list.first = at[1]
      /\ \A i \in 1..n : next[at[i]] = IF i = n THEN Null ELSE at[i + 1]
  BY DEF Chain
<1>2. Walks(at)
  <2> SUFFICES ASSUME NEW k \in 1..n 
               PROVE  at[k] = IF k = 1 THEN list.first
                              ELSE IF at[k - 1] \in DOMAIN next THEN next[at[k - 1]] ELSE Null
    BY <1>1
  <2>1. CASE k = 1
    BY <1>1, <2>1
  <2>2. CASE k # 1
    <3>1. k - 1 \in 1..n /\ k - 1 # n /\ (k - 1) + 1 = k
      BY <2>2
    <3>2. at[k - 1] \in DOMAIN next
      BY <1>1, <3>1
    <3>3. next[at[k - 1]] = at[k]
      BY <1>1, <3>1
    <3> QED BY <2>2, <3>2, <3>3
  <2> QED BY <2>1, <2>2
<1> DEFINE g == Walk(list, next)
<1>3. g = CHOOSE f : Walks(f)
  BY DEF Walk
<1>4. Walks(g)
  <2> HIDE DEF Walks, g
  <2> QED BY <1>2, <1>3
<1>5. \A k \in 1..n : g[k] = IF k = 1 THEN list.first
                             ELSE IF g[k - 1] \in DOMAIN next THEN next[g[k - 1]] ELSE Null
  <2> HIDE DEF g
  <2> QED BY <1>4
<1> HIDE DEF g
<1> DEFINE T == {k \in 1..n : g[k] # at[k]}
<1>6. T = {}
  <2> SUFFICES ASSUME T # {} PROVE FALSE
    OBVIOUS
  <2>1. T \in SUBSET Nat
    OBVIOUS
  <2>2. PICK k \in T : \A y \in T : k <= y
    <3> HIDE DEF T
    <3> QED BY <2>1, SmallestOf
  <2>3. k \in 1..n /\ g[k] # at[k]
    OBVIOUS
  <2>4. CASE k = 1
    BY <1>1, <1>5, <2>3, <2>4
  <2>5. CASE k # 1
    <3>1. k - 1 \in 1..n /\ ~(k <= k - 1)
      BY <2>3, <2>5
    <3>2. g[k - 1] = at[k - 1]
      BY <2>2, <3>1
    <3>3. g[k] = IF at[k - 1] \in DOMAIN next THEN next[at[k - 1]] ELSE Null
      BY <1>5, <2>3, <2>5, <3>2
    <3>4. at[k] = IF at[k - 1] \in DOMAIN next THEN next[at[k - 1]] ELSE Null
      BY <1>2, <2>3, <2>5
    <3> QED BY <2>3, <3>3, <3>4
  <2> QED BY <2>4, <2>5
<1>7. \A k \in 1..n : g[k] = at[k]
  BY <1>6
<1> QED BY <1>7 DEF g

(* So a list with all its items in a chain is consistent.                  *)
LEMMA WellFormedIsConsistent ==
  ASSUME NEW list, NEW prev, NEW next, NEW S, WellFormed(list, prev, next, S)
  PROVE  CheckConsistency(list, next)
<1> DEFINE n == list.size
<1>1. PICK at : Chain(at, list, prev, next)
  BY DEF WellFormed
<1>2. n \in Nat /\ next \in [Vpage -> Item]
  BY DEF WellFormed
<1>3. \A k \in 1..n : Walk(list, next)[k] = at[k]
  BY <1>1, <1>2, WalkMeetsAll
<1>4. /\ at \in [1..n -> Vpage]
      /\ \A i, j \in 1..n : at[i] = at[j] => i = j
      /\ list.first = IF n = 0 THEN Null ELSE at[1]
      /\ list.last = IF n = 0 THEN Null ELSE at[n]
      /\ n # 0 => next[at[n]] = Null
  BY <1>1, <1>2 DEF Chain
<1>5. CASE n = 0
  BY <1>4, <1>5 DEF CheckConsistency
<1>6. CASE n # 0
  <2> DEFINE g == Walk(list, next)
  <2>1. n \in 1..n /\ \A k \in 1..(n - 1) : k \in 1..n /\ k # n
    BY <1>2, <1>6
  <2>2. g[n] = list.last /\ \A k \in 1..(n - 1) : g[k] # list.last
    BY <1>3, <1>4, <1>6, <2>1
  <2>3. list.last \in DOMAIN next /\ next[list.last] = Null
    BY <1>2, <1>4, <1>6, <2>1
  <2> HIDE DEF g
  <2>4. CheckConsistency(list, next) <=> 
          /\ list.last \in DOMAIN next /\ g[n] = list.last
          /\ \A k \in 1..(n - 1) : g[k] # list.last
          /\ next[list.last] = Null
    BY <1>6 DEF CheckConsistency, g
  <2> QED BY <2>2, <2>3, <2>4
<1> QED BY <1>5, <1>6

----------------------------------------------------------------------------
(* Stores.                                                                 *)

(* A store brings its cell to its last value, and leaves the others alone. *)
LEMMA StoreArrives ==
  ASSUME NEW t \in Thread, NEW w, Staged(t, w), DOMAIN mem = Cell,
         mem' = Stored(Head(op[t].todo))
  PROVE  \A c \in Cell : mem'[c] = IF c = Target(Head(op[t].todo)) THEN Value(w, c) ELSE mem[c]
<1> DEFINE todo == op[t].todo
           s == Head(todo)
<1>1. /\ todo \in Seq(Place \X Item \X Int) /\ todo # <<>>
      /\ \A i \in 1..Len(todo) : 
           /\ Target(todo[i]) \in Cell
           /\ IF todo[i][1] = "adds" 
              THEN mem[Target(todo[i])] + todo[i][3] = Value(w, Target(todo[i]))
              ELSE todo[i][3] = Value(w, Target(todo[i]))
  BY DEF Staged, Reaches
<1>2. s = todo[1] /\ 1 \in 1..Len(todo)
  BY <1>1
<1>3. /\ Target(s) \in Cell
      /\ IF s[1] = "adds" THEN mem[Target(s)] + s[3] = Value(w, Target(s))
         ELSE s[3] = Value(w, Target(s))
  BY <1>1, <1>2
<1> HIDE DEF s
<1>4. mem' = Stored(s)
  BY DEF s
<1>5. CASE s[1] = "adds"
  <2>1. Target(s) = <<"size", Null>> /\ mem' = [mem EXCEPT ![<<"size", Null>>] = @ + s[3]]
    BY <1>4, <1>5 DEF Target, Stored
  <2> HIDE DEF Value
  <2>2. mem' = [mem EXCEPT ![Target(s)] = Value(w, Target(s))]
    BY <1>3, <1>5, <2>1
  <2> QED BY <1>3, <2>2 DEF s
<1>6. CASE s[1] # "adds"
  <2>1. Target(s) = <<s[1], s[2]>> /\ mem' = [mem EXCEPT ![<<s[1], s[2]>>] = s[3]]
    BY <1>4, <1>6 DEF Target, Stored
  <2>2. mem' = [mem EXCEPT ![Target(s)] = Value(w, Target(s))]
    BY <1>3, <1>6, <2>1
  <2> QED BY <1>3, <2>2 DEF s
<1> QED BY <1>5, <1>6

(* What is left of the stores is staged still; with the last one done, the *)
(* list is what the whole operation makes of it.                           *)
LEMMA StoreStages ==
  ASSUME NEW t \in Thread, NEW w, Staged(t, w), DOMAIN mem = Cell,
         mem' = Stored(Head(op[t].todo)), op'[t].todo = Tail(op[t].todo)
  PROVE  /\ Len(op[t].todo) # 1 => Staged(t, w)'
         /\ Len(op[t].todo) = 1 => \A c \in Cell : mem'[c] = Value(w, c)
<1> DEFINE todo == op[t].todo
           s == Head(todo)
           rest == Tail(todo)
           Good(q, m) == \A i \in 1..Len(q) : 
             /\ Target(q[i]) \in Cell /\ ~Faults(q[i])
             /\ \A j \in 1..Len(q) : Target(q[i]) = Target(q[j]) => i = j
             /\ IF q[i][1] = "adds" 
                THEN m[Target(q[i])] + q[i][3] = Value(w, Target(q[i]))
                ELSE q[i][3] = Value(w, Target(q[i]))
           Rest(q, m) == \A c \in Cell : (\A i \in 1..Len(q) : Target(q[i]) # c) => m[c] = Value(w, c)
<1>1. todo \in Seq(Place \X Item \X Int) /\ todo # <<>> /\ Good(todo, mem) /\ Rest(todo, mem)
  BY DEF Staged, Reaches
<1>2. \A c \in Cell : mem'[c] = IF c = Target(s) THEN Value(w, c) ELSE mem[c]
  BY StoreArrives
<1>3. /\ s = todo[1] /\ Len(todo) \in Nat /\ Len(todo) >= 1
      /\ rest \in Seq(Place \X Item \X Int) /\ Len(rest) = Len(todo) - 1
      /\ \A i \in 1..Len(rest) : rest[i] = todo[i + 1] /\ i + 1 \in 1..Len(todo) /\ 1 \in 1..Len(todo)
  <2>1. todo \in Seq(Place \X Item \X Int) /\ todo # <<>>
    BY <1>1
  <2> HIDE DEF todo
  <2>2. Len(todo) \in Nat /\ Len(todo) # 0
    BY ONLY <2>1
  <2>3. /\ rest \in Seq(Place \X Item \X Int) /\ Len(rest) = Len(todo) - 1
        /\ \A i \in 1..Len(rest) : rest[i] = todo[i + 1]
    BY ONLY <2>1, <2>2 DEF rest
  <2>4. s = todo[1]
    BY DEF s
  <2> HIDE DEF rest, s
  <2> QED BY ONLY <2>2, <2>3, <2>4
<1>4. rest = op'[t].todo
  OBVIOUS
<1> HIDE DEF todo, s, rest
<1>5. \A i \in 1..Len(rest) : Target(rest[i]) # Target(s)
  <2> SUFFICES ASSUME NEW i \in 1..Len(rest), Target(rest[i]) = Target(s) PROVE FALSE
    OBVIOUS
  <2>1. i + 1 \in 1..Len(todo) /\ 1 \in 1..Len(todo) /\ rest[i] = todo[i + 1] /\ s = todo[1]
    BY <1>3
  <2>2. i + 1 = 1
    BY <1>1, <2>1
  <2> QED BY <1>3, <2>2
<1>6. Good(rest, mem')
  <2> SUFFICES ASSUME NEW i \in 1..Len(rest)
               PROVE  /\ Target(rest[i]) \in Cell /\ ~Faults(rest[i])
                      /\ \A j \in 1..Len(rest) : Target(rest[i]) = Target(rest[j]) => i = j
                      /\ IF rest[i][1] = "adds" 
                         THEN mem'[Target(rest[i])] + rest[i][3] = Value(w, Target(rest[i]))
                         ELSE rest[i][3] = Value(w, Target(rest[i]))
    OBVIOUS
  <2>1. i + 1 \in 1..Len(todo) /\ rest[i] = todo[i + 1]
    BY <1>3
  <2>2. /\ Target(rest[i]) \in Cell /\ ~Faults(rest[i])
        /\ IF rest[i][1] = "adds" 
           THEN mem[Target(rest[i])] + rest[i][3] = Value(w, Target(rest[i]))
           ELSE rest[i][3] = Value(w, Target(rest[i]))
    BY <1>1, <2>1
  <2>3. mem'[Target(rest[i])] = mem[Target(rest[i])]
    BY <1>2, <1>5, <2>2
  <2>4. ASSUME NEW j \in 1..Len(rest), Target(rest[i]) = Target(rest[j]) PROVE i = j
    <3>1. j + 1 \in 1..Len(todo) /\ rest[j] = todo[j + 1]
      BY <1>3
    <3>2. i + 1 = j + 1
      BY <1>1, <2>1, <2>4, <3>1
    <3> QED BY <1>3, <3>2
  <2> QED BY <2>2, <2>3, <2>4
<1>7. Rest(rest, mem')
  <2> SUFFICES ASSUME NEW c \in Cell, \A i \in 1..Len(rest) : Target(rest[i]) # c
               PROVE  mem'[c] = Value(w, c)
    OBVIOUS
  <2>1. CASE c = Target(s)
    BY <1>2, <2>1
  <2>2. CASE c # Target(s)
    <3>1. ASSUME NEW i \in 1..Len(todo) PROVE Target(todo[i]) # c
      <4>1. CASE i = 1
        BY <1>3, <2>2, <4>1
      <4>2. CASE i # 1
        <5>1. i - 1 \in 1..Len(rest) /\ (i - 1) + 1 = i
          BY <1>3, <4>2
        <5>2. rest[i - 1] = todo[i]
          BY <1>3, <5>1
        <5> QED BY <5>1, <5>2
      <4> QED BY <4>1, <4>2
    <3>2. mem[c] = Value(w, c)
      BY <1>1, <3>1
    <3> QED BY <1>2, <2>2, <3>2
  <2> QED BY <2>1, <2>2
<1>8. ASSUME Len(todo) # 1 PROVE Staged(t, w)'
  <2>1. rest # <<>>
    BY <1>3, <1>8
  <2> QED BY <1>3, <1>4, <1>6, <1>7, <2>1 DEF Staged, Reaches
<1>9. ASSUME Len(todo) = 1 PROVE \A c \in Cell : mem'[c] = Value(w, c)
  <2>1. Len(rest) = 0
    BY <1>3, <1>9
  <2> QED BY <1>7, <2>1
<1> QED BY <1>8, <1>9 DEF todo

(* The cells, and their values in a list.                                  *)
LEMMA Cells ==
  /\ \A c \in Cell : \/ c \in {<<"size", Null>>, <<"first", Null>>, <<"last", Null>>}
                     \/ \E x \in Vpage : c \in {<<"prev", x>>, <<"next", x>>}
  /\ <<"size", Null>> \in Cell /\ <<"first", Null>> \in Cell /\ <<"last", Null>> \in Cell
  /\ \A x \in Vpage : <<"prev", x>> \in Cell /\ <<"next", x>> \in Cell
BY DEF Cell

(* The values of the cells.                                                *)
LEMMA Values ==
  ASSUME NEW w
  PROVE  /\ Value(w, <<"size", Null>>) = w.list.size
         /\ Value(w, <<"first", Null>>) = w.list.first
         /\ Value(w, <<"last", Null>>) = w.list.last
         /\ \A x \in Vpage : /\ Value(w, <<"prev", x>>) = w.prev[x]
                             /\ Value(w, <<"next", x>>) = w.next[x]
BY DEF Value

(* A memory that holds a list is read as that list.                        *)
LEMMA Reading ==
  ASSUME Holding(meant), NEW S, WellFormed(meant.list, meant.prev, meant.next, S)
  PROVE  /\ List = meant.list /\ Links("prev") = meant.prev /\ Links("next") = meant.next
         /\ \A x \in Vpage : Get("prev", x) = meant.prev[x] /\ Get("next", x) = meant.next[x]
<1>1. /\ meant.list \in [size : Nat, first : Item, last : Item]
      /\ meant.prev \in [Vpage -> Item] /\ meant.next \in [Vpage -> Item]
  BY DEF WellFormed
<1>2. /\ Get("size", Null) = meant.list.size /\ Get("first", Null) = meant.list.first
      /\ Get("last", Null) = meant.list.last
      /\ \A x \in Vpage : Get("prev", x) = meant.prev[x] /\ Get("next", x) = meant.next[x]
  BY Cells, Values DEF Holding, Get
<1>3. List = meant.list
  BY <1>1, <1>2 DEF List
<1>4. Links("prev") = meant.prev /\ Links("next") = meant.next
  BY <1>1, <1>2 DEF Links
<1> QED BY <1>2, <1>3, <1>4

(* Three stores that are staged.                                           *)
LEMMA ThreeStores ==
  ASSUME NEW t \in Thread, NEW w, NEW a \in Place \X Item \X Int, 
         NEW b \in Place \X Item \X Int, NEW c \in Place \X Item \X Int,
         op'[t].todo = <<a, b, c>>, Reaches(a, w)', Reaches(b, w)', Reaches(c, w)',
         Target(a) # Target(b), Target(a) # Target(c), Target(b) # Target(c),
         \A x \in Cell \ {Target(a), Target(b), Target(c)} : mem'[x] = Value(w, x)
  PROVE  Staged(t, w)'
<1>0. PICK todo : todo = op'[t].todo
  OBVIOUS
<1>1. /\ todo \in Seq(Place \X Item \X Int) /\ todo # <<>> /\ Len(todo) = 3
      /\ todo[1] = a /\ todo[2] = b /\ todo[3] = c
  BY <1>0
<1>2. \A i \in 1..3 : i = 1 \/ i = 2 \/ i = 3
  OBVIOUS
<1>3. \A i \in 1..Len(todo) : /\ Reaches(todo[i], w)'
                              /\ \A j \in 1..Len(todo) : Target(todo[i]) = Target(todo[j]) => i = j
  BY <1>1, <1>2
<1>4. \A x \in Cell : (\A i \in 1..Len(todo) : Target(todo[i]) # x) => mem'[x] = Value(w, x)
  <2>1. 1 \in 1..Len(todo) /\ 2 \in 1..Len(todo) /\ 3 \in 1..Len(todo)
    BY <1>1
  <2> QED BY <1>1, <2>1
<1> QED BY <1>0, <1>1, <1>3, <1>4 DEF Staged

(* Likewise with five.                                                     *)
LEMMA FiveStores ==
  ASSUME NEW t \in Thread, NEW w, NEW a \in Place \X Item \X Int, 
         NEW b \in Place \X Item \X Int, NEW c \in Place \X Item \X Int,
         NEW d \in Place \X Item \X Int, NEW e \in Place \X Item \X Int,
         op'[t].todo = <<a, b>> \o <<c, d, e>>, 
         Reaches(a, w)', Reaches(b, w)', Reaches(c, w)', Reaches(d, w)', Reaches(e, w)',
         Target(a) \notin {Target(b), Target(c), Target(d), Target(e)},
         Target(b) \notin {Target(c), Target(d), Target(e)},
         Target(c) \notin {Target(d), Target(e)}, Target(d) # Target(e),
         \A x \in Cell \ {Target(a), Target(b), Target(c), Target(d), Target(e)} : 
           mem'[x] = Value(w, x)
  PROVE  Staged(t, w)'
<1>0. PICK todo : todo = op'[t].todo
  OBVIOUS
<1>1. /\ todo \in Seq(Place \X Item \X Int) /\ todo # <<>> /\ Len(todo) = 5
      /\ todo[1] = a /\ todo[2] = b /\ todo[3] = c /\ todo[4] = d /\ todo[5] = e
  BY <1>0
<1>2. \A i \in 1..5 : i = 1 \/ i = 2 \/ i = 3 \/ i = 4 \/ i = 5
  OBVIOUS
<1>3. \A i \in 1..Len(todo) : Reaches(todo[i], w)'
  BY <1>1, <1>2
<1>4. \A i, j \in 1..Len(todo) : Target(todo[i]) = Target(todo[j]) => i = j
  BY <1>1, <1>2
<1>5. \A x \in Cell : (\A i \in 1..Len(todo) : Target(todo[i]) # x) => mem'[x] = Value(w, x)
  <2>1. \A i \in {1, 2, 3, 4, 5} : i \in 1..Len(todo)
    BY <1>1
  <2> QED BY <1>1, <2>1
<1> QED BY <1>0, <1>1, <1>3, <1>4, <1>5 DEF Staged

(* The store of z to field f of x, which takes the memory towards w.       *)
Stores(w, f, x, z) ==
  \E s \in Place \X Item \X Int : s = <<f, x, z>> /\ Target(s) = <<f, x>> /\ Reaches(s, w)'

(* A store of a value that brings a cell to its value.                     *)
LEMMA StoreReaches ==
  ASSUME NEW w, NEW f \in {"size", "first", "last", "prev", "next"}, NEW x \in Item, NEW z \in Int,
         <<f, x>> \in Cell, Value(w, <<f, x>>) = z
  PROVE  Stores(w, f, x, z)
<1>1. PICK s : s = <<f, x, z>>
  OBVIOUS
<1>2. s \in Place \X Item \X Int /\ s[1] = f /\ s[2] = x /\ s[3] = z /\ f # "adds"
  BY <1>1 DEF Place
<1>3. Target(s) = <<f, x>>
  BY <1>2 DEF Target
<1>4. f \in {"prev", "next"} => x # Null
  <2> SUFFICES ASSUME f \in {"prev", "next"} PROVE x # Null
    OBVIOUS
  <2>1. x \in Vpage
    BY DEF Cell
  <2> QED BY <2>1, VlistAssumption DEF Vpage, Null
<1>5. Reaches(s, w)'
  BY <1>2, <1>3, <1>4 DEF Reaches, Faults
<1> QED BY <1>1, <1>2, <1>3, <1>5 DEF Stores

(* Likewise one that counts.                                               *)
LEMMA CountReaches ==
  ASSUME NEW w, NEW z \in Int, mem'[<<"size", Null>>] + z = Value(w, <<"size", Null>>)
  PROVE  \E s \in Place \X Item \X Int : 
           s = <<"adds", Null, z>> /\ Target(s) = <<"size", Null>> /\ Reaches(s, w)'
<1>1. PICK s : s = <<"adds", Null, z>>
  OBVIOUS
<1>2. s \in Place \X Item \X Int /\ s[1] = "adds" /\ s[2] = Null /\ s[3] = z
  BY <1>1 DEF Place, Item
<1>3. Target(s) = <<"size", Null>>
  BY <1>2 DEF Target
<1>4. Reaches(s, w)'
  BY <1>2, <1>3, Cells DEF Reaches, Faults
<1> QED BY <1>1, <1>2, <1>3, <1>4

(* The first push_back on a cleared list is staged.                        *)
LEMMA ClearStages ==
  ASSUME NEW t \in Thread, NEW v \in Vpage, NEW S, 
         WellFormed(meant.list, meant.prev, meant.next, S), Holding(meant),
         meant.list.size = 0, mem' = [c \in Cell |-> IF c[2] \in {Null, v} THEN Null ELSE mem[c]],
         op'[t].todo = PushedFirst(v),
         NEW w, w = PushBack(meant.list, meant.prev, meant.next, v)
  PROVE  Staged(t, w)'
<1>1. w = [list |-> [size |-> 1, first |-> v, last |-> v],
           prev |-> [meant.prev EXCEPT ![v] = Null], next |-> [meant.next EXCEPT ![v] = Null]]
  BY DEF PushBack, IsEmpty
<1>2. w.list.size = 1 /\ w.list.first = v /\ w.list.last = v
  BY <1>1
<1>3. Null \in Item /\ v \in Int /\ 1 \in Int
  BY VlistAssumption DEF Item, Vpage, Null
<1>4. PICK a \in Place \X Item \X Int : 
        a = <<"last", Null, v>> /\ Target(a) = <<"last", Null>> /\ Reaches(a, w)'
  <2>1. Value(w, <<"last", Null>>) = v /\ <<"last", Null>> \in Cell
    BY <1>2, Cells, Values
  <2>2. Stores(w, "last", Null, v)
    BY ONLY <1>3, <2>1, StoreReaches
  <2> QED BY ONLY <2>2 DEF Stores
<1>5. PICK b \in Place \X Item \X Int : 
        b = <<"first", Null, v>> /\ Target(b) = <<"first", Null>> /\ Reaches(b, w)'
  <2>1. Value(w, <<"first", Null>>) = v /\ <<"first", Null>> \in Cell
    BY <1>2, Cells, Values
  <2>2. Stores(w, "first", Null, v)
    BY ONLY <1>3, <2>1, StoreReaches
  <2> QED BY ONLY <2>2 DEF Stores
<1>6. PICK c \in Place \X Item \X Int : 
        c = <<"size", Null, 1>> /\ Target(c) = <<"size", Null>> /\ Reaches(c, w)'
  <2>1. Value(w, <<"size", Null>>) = 1 /\ <<"size", Null>> \in Cell
    BY <1>2, Cells, Values
  <2>2. Stores(w, "size", Null, 1)
    BY ONLY <1>3, <2>1, StoreReaches
  <2> QED BY ONLY <2>2 DEF Stores
<1>7. op'[t].todo = <<a, b, c>>
  BY <1>4, <1>5, <1>6 DEF PushedFirst
<1>8. /\ meant.prev \in [Vpage -> Item] /\ meant.next \in [Vpage -> Item]
      /\ \A x \in Vpage : meant.prev[x] = Null /\ meant.next[x] = Null
  BY DEF WellFormed, Chain
<1>9. ASSUME NEW x \in Vpage 
      PROVE  mem'[<<"prev", x>>] = Value(w, <<"prev", x>>) /\ mem'[<<"next", x>>] = Value(w, <<"next", x>>)
  <2>1. mem[<<"prev", x>>] = Null /\ mem[<<"next", x>>] = Null
    BY <1>8, Cells, Values DEF Holding
  <2>2. mem'[<<"prev", x>>] = Null /\ mem'[<<"next", x>>] = Null
    BY <2>1, Cells
  <2>3. w.prev[x] = Null /\ w.next[x] = Null
    BY <1>1, <1>8
  <2> QED BY <2>2, <2>3, Values
<1>10. \A x \in Cell \ {Target(a), Target(b), Target(c)} : mem'[x] = Value(w, x)
  <2> SUFFICES ASSUME NEW x \in Cell, x \notin {Target(a), Target(b), Target(c)}
               PROVE  mem'[x] = Value(w, x)
    OBVIOUS
  <2>1. PICK y \in Vpage : x = <<"prev", y>> \/ x = <<"next", y>>
    BY <1>4, <1>5, <1>6, Cells
  <2>2. CASE x = <<"prev", y>>
    BY <1>9, <2>2
  <2>3. CASE x = <<"next", y>>
    BY <1>9, <2>3
  <2> QED BY <2>1, <2>2, <2>3
<1>11. Target(a) # Target(b) /\ Target(a) # Target(c) /\ Target(b) # Target(c)
  BY <1>4, <1>5, <1>6
<1> QED BY <1>4, <1>5, <1>6, <1>7, <1>10, <1>11, ThreeStores

(* So is one on a list that has items, behind the stores to its own item.  *)
LEMMA AliasStages ==
  ASSUME NEW t \in Thread, NEW v \in Vpage, NEW S, v \notin S,
         WellFormed(meant.list, meant.prev, meant.next, S), Holding(meant), DOMAIN mem = Cell,
         meant.list.size # 0, mem' = Owned(v), op'[t].todo = Pushed(v),
         NEW w, w = PushBack(meant.list, meant.prev, meant.next, v)
  PROVE  Staged(t, w)'
<1>0. PICK l : l = meant.list.last
  OBVIOUS
<1>1. /\ meant.list \in [size : Nat, first : Item, last : Item]
      /\ meant.prev \in [Vpage -> Item] /\ meant.next \in [Vpage -> Item]
  BY DEF WellFormed
<1>2. l \in S /\ l \in Vpage /\ l # v
  <2>1. PICK at : Chain(at, meant.list, meant.prev, meant.next) /\ S = {at[i] : i \in 1..meant.list.size}
    BY DEF WellFormed
  <2>2. meant.list.size \in 1..meant.list.size /\ at[meant.list.size] = l
    BY <1>0, <1>1, <2>1 DEF Chain
  <2> QED BY <2>1, <2>2 DEF Chain
<1>3. List = meant.list /\ ~IsEmpty(List)
  BY <1>1, Reading DEF IsEmpty
<1>4. /\ op'[t].todo = << <<"next", l, v>>, <<"last", Null, v>>, <<"adds", Null, 1>> >>
      /\ mem' = [mem EXCEPT ![<<"next", v>>] = Null, ![<<"prev", v>>] = l]
  BY <1>0, <1>3 DEF Pushed, Owned
<1>6. /\ w.list = [size |-> meant.list.size + 1, first |-> meant.list.first, last |-> v]
      /\ w.prev = [meant.prev EXCEPT ![v] = l]
      /\ w.next = [meant.next EXCEPT ![v] = Null, ![l] = v]
  BY <1>0 DEF PushBack, IsEmpty
<1>8. /\ \A x \in Vpage : /\ mem'[<<"prev", x>>] = IF x = v THEN l ELSE meant.prev[x]
                          /\ mem'[<<"next", x>>] = IF x = v THEN Null ELSE meant.next[x]
      /\ mem'[<<"size", Null>>] = meant.list.size
      /\ mem'[<<"first", Null>>] = meant.list.first
  <2>1. \A d \in Cell : mem'[d] = IF d = <<"prev", v>> THEN l ELSE IF d = <<"next", v>> THEN Null ELSE mem[d]
    BY <1>4, Cells
  <2>2. \A x \in Vpage : /\ mem[<<"prev", x>>] = meant.prev[x] /\ mem[<<"next", x>>] = meant.next[x]
                         /\ <<"prev", x>> \in Cell /\ <<"next", x>> \in Cell
    BY Cells, Values DEF Holding
  <2>3. /\ mem[<<"size", Null>>] = meant.list.size /\ mem[<<"first", Null>>] = meant.list.first
        /\ <<"size", Null>> \in Cell /\ <<"first", Null>> \in Cell
    BY Cells, Values DEF Holding
  <2>4. mem'[<<"size", Null>>] = mem[<<"size", Null>>] /\ mem'[<<"first", Null>>] = mem[<<"first", Null>>]
    BY <2>1, <2>3
  <2>5. \A x \in Vpage : /\ mem'[<<"prev", x>>] = IF x = v THEN l ELSE mem[<<"prev", x>>]
                         /\ mem'[<<"next", x>>] = IF x = v THEN Null ELSE mem[<<"next", x>>]
    BY <2>1, <2>2
  <2> QED BY <2>2, <2>3, <2>4, <2>5
<1>9. /\ \A x \in Vpage : /\ w.prev[x] = IF x = v THEN l ELSE meant.prev[x]
                          /\ w.next[x] = IF x = l THEN v ELSE IF x = v THEN Null ELSE meant.next[x]
      /\ w.list.size = meant.list.size + 1 /\ w.list.first = meant.list.first /\ w.list.last = v
  BY <1>1, <1>2, <1>6
<1>10. Null \in Item /\ v \in Int /\ 1 \in Int /\ l \in Item
  BY <1>2, VlistAssumption DEF Item, Vpage, Null
<1>11. PICK a \in Place \X Item \X Int : 
        a = <<"next", l, v>> /\ Target(a) = <<"next", l>> /\ Reaches(a, w)'
  <2>1. Value(w, <<"next", l>>) = v /\ <<"next", l>> \in Cell
    BY <1>2, <1>9, Values, Cells
  <2>2. Stores(w, "next", l, v)
    BY ONLY <1>10, <2>1, StoreReaches
  <2> QED BY ONLY <2>2 DEF Stores
<1>12. PICK b \in Place \X Item \X Int : 
        b = <<"last", Null, v>> /\ Target(b) = <<"last", Null>> /\ Reaches(b, w)'
  <2>1. Value(w, <<"last", Null>>) = v /\ <<"last", Null>> \in Cell
    BY <1>9, Cells, Values
  <2>2. Stores(w, "last", Null, v)
    BY ONLY <1>10, <2>1, StoreReaches
  <2> QED BY ONLY <2>2 DEF Stores
<1>13. PICK c \in Place \X Item \X Int : 
        c = <<"adds", Null, 1>> /\ Target(c) = <<"size", Null>> /\ Reaches(c, w)'
  <2>1. mem'[<<"size", Null>>] + 1 = Value(w, <<"size", Null>>)
    BY <1>8, <1>9, Values
  <2> QED BY <1>10, <2>1, CountReaches
<1>14. op'[t].todo = <<a, b, c>>
  BY <1>4, <1>11, <1>12, <1>13
<1>15. \A x \in Cell \ {Target(a), Target(b), Target(c)} : mem'[x] = Value(w, x)
  <2> SUFFICES ASSUME NEW x \in Cell, x \notin {Target(a), Target(b), Target(c)}
               PROVE  mem'[x] = Value(w, x)
    OBVIOUS
  <2>1. CASE x = <<"first", Null>>
    BY <1>8, <1>9, <2>1, Values
  <2>2. CASE \E y \in Vpage : x = <<"prev", y>>
    <3>1. PICK y \in Vpage : x = <<"prev", y>>
      BY <2>2
    <3>2. mem'[x] = w.prev[y]
      BY <1>8, <1>9, <3>1
    <3> QED BY <3>1, <3>2, Values
  <2>3. CASE \E y \in Vpage : x = <<"next", y>> 
    <3>1. PICK y \in Vpage : x = <<"next", y>> 
      BY <2>3
    <3>2. y # l
      BY <1>11, <3>1
    <3>3. mem'[x] = w.next[y]
      BY <1>8, <1>9, <3>1, <3>2
    <3> QED BY <3>1, <3>3, Values
  <2> QED BY <1>12, <1>13, <2>1, <2>2, <2>3, Cells
<1>16. Target(a) # Target(b) /\ Target(a) # Target(c) /\ Target(b) # Target(c)
  BY <1>11, <1>12, <1>13
<1> QED BY <1>11, <1>12, <1>13, <1>14, <1>15, <1>16, ThreeStores
(* So is a remove.                                                         *)
LEMMA RemoveStages ==
  ASSUME NEW t \in Thread, NEW S, NEW v \in S,
         WellFormed(meant.list, meant.prev, meant.next, S), Holding(meant), mem' = mem,
         op'[t].todo = Removed(v),
         NEW w, w = Remove(meant.list, meant.prev, meant.next, v)
  PROVE  Staged(t, w)'
<1>1. /\ meant.list \in [size : Nat, first : Item, last : Item]
      /\ meant.prev \in [Vpage -> Item] /\ meant.next \in [Vpage -> Item]
  BY DEF WellFormed
<1>2. PICK n : n = meant.next[v]
  OBVIOUS
<1>3. PICK p : p = meant.prev[v]
  OBVIOUS
<1>4. v \in Vpage /\ n \in Item /\ p \in Item /\ n # v /\ p # v /\ meant.list.size # 0
  <2>1. PICK at : Chain(at, meant.list, meant.prev, meant.next) /\ S = {at[i] : i \in 1..meant.list.size}
    BY DEF WellFormed
  <2>2. PICK k \in 1..meant.list.size : v = at[k]
    BY <2>1
  <2>3. /\ at \in [1..meant.list.size -> Vpage]
        /\ \A i, j \in 1..meant.list.size : at[i] = at[j] => i = j
        /\ p = IF k = 1 THEN Null ELSE at[k - 1]
        /\ n = IF k = meant.list.size THEN Null ELSE at[k + 1]
    BY <1>2, <1>3, <2>1, <2>2 DEF Chain
  <2>4. v \in Vpage /\ v # Null /\ meant.list.size # 0
    BY <1>1, <2>2, <2>3, VlistAssumption DEF Vpage, Null
  <2>5. k # 1 => k - 1 \in 1..meant.list.size /\ k - 1 # k
    BY <1>1, <2>2
  <2>6. k # meant.list.size => k + 1 \in 1..meant.list.size /\ k + 1 # k
    BY <1>1, <2>2
  <2>7. n # v /\ p # v
    BY <2>2, <2>3, <2>4, <2>5, <2>6
  <2> QED BY <1>1, <1>2, <1>3, <2>4, <2>7
<1>5. /\ \A x \in Vpage : /\ w.prev[x] = IF x = v THEN Null ELSE IF x = n THEN p ELSE meant.prev[x]
                          /\ w.next[x] = IF x = v THEN Null ELSE IF x = p THEN n ELSE meant.next[x]
      /\ w.list.size = meant.list.size - 1
      /\ w.list.first = IF p = Null THEN n ELSE meant.list.first
      /\ w.list.last = IF n = Null THEN p ELSE meant.list.last
  <2>1. w = [list |-> [size  |-> meant.list.size - 1,
                       first |-> IF p = Null THEN n ELSE meant.list.first,
                       last  |-> IF n = Null THEN p ELSE meant.list.last],
             prev |-> [x \in Vpage |-> IF x = v THEN Null ELSE IF x = n THEN p ELSE meant.prev[x]],
             next |-> [x \in Vpage |-> IF x = v THEN Null ELSE IF x = p THEN n ELSE meant.next[x]]]
    BY <1>1, <1>2, <1>3, <1>4 DEF Remove, IsEmpty
  <2> QED BY <2>1
<1>6. Null \in Item /\ -1 \in Int /\ v \in Item /\ n \in Int /\ p \in Int /\ Null \in Int
  BY <1>4, VlistAssumption DEF Item, Vpage, Null
<1>7. PICK c \in Place \X Item \X Int : 
        c = <<"next", v, Null>> /\ Target(c) = <<"next", v>> /\ Reaches(c, w)'
  <2>1. Value(w, <<"next", v>>) = Null /\ <<"next", v>> \in Cell
    BY <1>4, <1>5, Values, Cells
  <2>2. Stores(w, "next", v, Null)
    BY ONLY <1>6, <2>1, StoreReaches
  <2> QED BY ONLY <2>2 DEF Stores
<1>8. PICK d \in Place \X Item \X Int : 
        d = <<"prev", v, Null>> /\ Target(d) = <<"prev", v>> /\ Reaches(d, w)'
  <2>1. Value(w, <<"prev", v>>) = Null /\ <<"prev", v>> \in Cell
    BY <1>4, <1>5, Values, Cells
  <2>2. Stores(w, "prev", v, Null)
    BY ONLY <1>6, <2>1, StoreReaches
  <2> QED BY ONLY <2>2 DEF Stores
<1>9. PICK e \in Place \X Item \X Int : 
        e = <<"adds", Null, -1>> /\ Target(e) = <<"size", Null>> /\ Reaches(e, w)'
  <2>1. mem'[<<"size", Null>>] = meant.list.size
    BY Cells, Values DEF Holding
  <2>2. mem'[<<"size", Null>>] + (-1) = Value(w, <<"size", Null>>)
    BY <1>1, <1>5, <2>1, Values
  <2> QED BY <1>6, <2>2, CountReaches
<1>10. Get("next", v) = n /\ Get("prev", v) = p
  BY <1>2, <1>3, <1>4, Reading
(* The cells of the neighbours, where there are some.                      *)
<1> DEFINE Near == IF n # Null THEN <<"prev", n>> ELSE <<"last", Null>>
           Far  == IF p # Null THEN <<"next", p>> ELSE <<"first", Null>>
<1>11. ASSUME NEW x \in Cell, 
              x \notin {Near, Far, <<"next", v>>, <<"prev", v>>, <<"size", Null>>}
       PROVE  mem'[x] = Value(w, x)
  <2>1. mem'[x] = Value(meant, x)
    BY DEF Holding
  <2>2. CASE x = <<"first", Null>>
    BY <1>5, <1>11, <2>1, <2>2, Values
  <2>3. CASE x = <<"last", Null>>
    BY <1>5, <1>11, <2>1, <2>3, Values
  <2>4. ASSUME NEW y \in Vpage, x = <<"prev", y>> PROVE mem'[x] = Value(w, x)
    <3>1. y # v /\ y # n
      BY <1>11, <2>4, VlistAssumption DEF Vpage, Null
    <3>2. Value(meant, <<"prev", y>>) = meant.prev[y] /\ Value(w, <<"prev", y>>) = w.prev[y]
      BY Values
    <3>3. w.prev[y] = meant.prev[y]
      BY <1>5, <3>1
    <3> QED BY <2>1, <2>4, <3>2, <3>3
  <2>5. ASSUME NEW y \in Vpage, x = <<"next", y>> PROVE mem'[x] = Value(w, x)
    <3>1. y # v /\ y # p
      BY <1>11, <2>5, VlistAssumption DEF Vpage, Null
    <3>2. Value(meant, <<"next", y>>) = meant.next[y] /\ Value(w, <<"next", y>>) = w.next[y]
      BY Values
    <3>3. w.next[y] = meant.next[y]
      BY <1>5, <3>1
    <3> QED BY <2>1, <2>5, <3>2, <3>3
  <2> QED BY <1>11, <2>2, <2>3, <2>4, <2>5, Cells
<1> HIDE DEF Near, Far
<1>12. ASSUME NEW a \in Place \X Item \X Int, NEW b \in Place \X Item \X Int,
              Reaches(a, w)', Reaches(b, w)', {Target(a), Target(b)} = {Near, Far},
              Removed(v) = <<a, b>> \o <<c, d, e>>
       PROVE  Staged(t, w)'
  <2>1. op'[t].todo = <<a, b>> \o <<c, d, e>>
    BY <1>12
  <2>2. /\ Near # Far /\ Near \notin {<<"next", v>>, <<"prev", v>>, <<"size", Null>>}
        /\ Far \notin {<<"next", v>>, <<"prev", v>>, <<"size", Null>>}
    BY <1>4 DEF Near, Far
  <2>3. /\ Target(a) \notin {Target(b), Target(c), Target(d), Target(e)}
        /\ Target(b) \notin {Target(c), Target(d), Target(e)}
        /\ Target(c) \notin {Target(d), Target(e)} /\ Target(d) # Target(e)
    BY <1>7, <1>8, <1>9, <1>12, <2>2
  <2>4. \A x \in Cell \ {Target(a), Target(b), Target(c), Target(d), Target(e)} : 
           mem'[x] = Value(w, x)
    BY <1>7, <1>8, <1>9, <1>11, <1>12
  <2>5. Reaches(a, w)' /\ Reaches(b, w)' /\ Reaches(c, w)' /\ Reaches(d, w)' /\ Reaches(e, w)'
    BY <1>7, <1>8, <1>9, <1>12
  <2>6. /\ t \in Thread /\ a \in Place \X Item \X Int /\ b \in Place \X Item \X Int 
        /\ c \in Place \X Item \X Int /\ d \in Place \X Item \X Int
        /\ e \in Place \X Item \X Int
    OBVIOUS
  <2> QED BY ONLY <2>1, <2>3, <2>4, <2>5, <2>6, FiveStores, SMTT(60)
<1>13. PICK a \in Place \X Item \X Int : 
         /\ a = IF n # Null THEN <<"prev", n, p>> ELSE <<"last", Null, p>> 
         /\ Target(a) = Near /\ Reaches(a, w)'
  <2>1. CASE n # Null
    <3>1. n \in Vpage
      BY <1>4, <2>1 DEF Item
    <3>2. Value(w, <<"prev", n>>) = p /\ <<"prev", n>> \in Cell
      BY <1>4, <1>5, <3>1, Values, Cells
    <3>3. Stores(w, "prev", n, p)
      <4>1. n \in Item /\ p \in Int
        BY <1>4, <1>6
      <4> QED BY ONLY <3>2, <4>1, StoreReaches
    <3> QED BY <2>1, <3>3 DEF Near, Stores
  <2>2. CASE n = Null
    <3>1. Value(w, <<"last", Null>>) = p /\ <<"last", Null>> \in Cell
      BY <1>5, <2>2, Values, Cells
    <3>2. Stores(w, "last", Null, p)
      BY ONLY <1>6, <3>1, StoreReaches
    <3> QED BY <2>2, <3>2 DEF Near, Stores
  <2> QED BY <2>1, <2>2
<1>14. PICK b \in Place \X Item \X Int : 
         /\ b = IF p # Null THEN <<"next", p, n>> ELSE <<"first", Null, n>> 
         /\ Target(b) = Far /\ Reaches(b, w)'
  <2>1. CASE p # Null
    <3>1. p \in Vpage
      BY <1>4, <2>1 DEF Item
    <3>2. Value(w, <<"next", p>>) = n /\ <<"next", p>> \in Cell
      BY <1>4, <1>5, <3>1, Values, Cells
    <3>3. Stores(w, "next", p, n)
      <4>1. p \in Item /\ n \in Int
        BY <1>4, <1>6
      <4> QED BY ONLY <3>2, <4>1, StoreReaches
    <3> QED BY <2>1, <3>3 DEF Far, Stores
  <2>2. CASE p = Null
    <3>1. Value(w, <<"first", Null>>) = n /\ <<"first", Null>> \in Cell
      BY <1>5, <2>2, Values, Cells
    <3>2. Stores(w, "first", Null, n)
      BY ONLY <1>6, <3>1, StoreReaches
    <3> QED BY <2>2, <3>2 DEF Far, Stores
  <2> QED BY <2>1, <2>2
<1>15. Removed(v) = <<a, b>> \o <<c, d, e>> \/ Removed(v) = <<b, a>> \o <<c, d, e>>
  <2>1. CASE n # Null /\ p # Null
    BY <1>7, <1>8, <1>9, <1>10, <1>13, <1>14, <2>1 DEF Removed
  <2>2. CASE n # Null /\ p = Null
    <3>1. a = <<"prev", n, Null>> /\ b = <<"first", Null, n>>
      BY <1>13, <1>14, <2>2
    <3>2. Removed(v) = << <<"prev", n, Null>>, <<"first", Null, n>> >> 
                       \o << <<"next", v, Null>>, <<"prev", v, Null>>, <<"adds", Null, -1>> >>
      BY ONLY <1>10, <2>2, SMTT(30) DEF Removed
    <3> QED BY <1>7, <1>8, <1>9, <3>1, <3>2
  <2>3. CASE n = Null /\ p # Null
    <3>1. a = <<"last", Null, p>> /\ b = <<"next", p, Null>>
      BY <1>13, <1>14, <2>3
    <3>2. Removed(v) = << <<"next", p, Null>>, <<"last", Null, p>> >> 
                       \o << <<"next", v, Null>>, <<"prev", v, Null>>, <<"adds", Null, -1>> >>
      BY ONLY <1>10, <2>3, SMTT(30) DEF Removed
    <3> QED BY <1>7, <1>8, <1>9, <3>1, <3>2
  <2>4. CASE n = Null /\ p = Null
    BY <1>7, <1>8, <1>9, <1>10, <1>13, <1>14, <2>4 DEF Removed
  <2> QED BY <2>1, <2>2, <2>3, <2>4
<1> QED BY <1>12, <1>13, <1>14, <1>15

(* The call of t moves on, and the others do not.                          *)
LEMMA PcMoves ==
  ASSUME Calls, NEW t \in Thread, NEW pc, Goto(t, pc)
  PROVE  /\ op'[t].pc = pc /\ op'[t].v = op[t].v /\ op'[t].does = op[t].does 
         /\ \A u \in Thread \ {t} : op'[u] = op[u]
<1>1. PICK r : /\ op' = [op EXCEPT ![t] = r] /\ IsCall(r) /\ op'[t] = r
               /\ r.pc = pc /\ r.v = op[t].v /\ r.does = op[t].does
  <2>1. t \in Thread
    OBVIOUS
  <2> QED BY ONLY Calls, <2>1, Goto(t, pc), PcSet
<1> QED BY <1>1, CallSet

(* A call keeps its Vpage, and the program and the holes keep theirs.      *)
LEMMA PlacesStay ==
  ASSUME OnePlace, UNCHANGED <<held, unmapped>>,
         \A u \in Thread : op'[u].pc # "idle" => op[u].pc # "idle" /\ op'[u].v = op[u].v
  PROVE  OnePlace'
BY DEF OnePlace

(* A call gives its Vpage to one of the two.                               *)
LEMMA PlaceLeft ==
  ASSUME OnePlace, NEW t \in Thread, op[t].pc # "idle", op'[t].pc = "idle",
         \/ held' = held \cup {op[t].v} /\ unmapped' = unmapped
         \/ held' = held /\ unmapped' = unmapped \cup {op[t].v},
         \A u \in Thread \ {t} : 
           op'[u].pc # "idle" => op[u].pc # "idle" /\ op'[u].v = op[u].v
  PROVE  OnePlace'
<1>1. held' \cap unmapped' = {}
  BY DEF OnePlace
<1>2. ASSUME NEW u \in Thread, op'[u].pc # "idle" PROVE op'[u].v \notin held' \cup unmapped'
  <2>1. u # t /\ op[u].pc # "idle" /\ op'[u].v = op[u].v
    BY <1>2
  <2> QED BY <2>1 DEF OnePlace
<1>3. ASSUME NEW u \in Thread, NEW x \in Thread, op'[u].pc # "idle", op'[x].pc # "idle",
             op'[u].v = op'[x].v
      PROVE  u = x
  BY <1>3 DEF OnePlace
<1> QED BY <1>1, <1>2, <1>3 DEF OnePlace

(* A call gets one that is new, or the program's.                          *)
LEMMA PlaceTaken ==
  ASSUME OnePlace, NEW t \in Thread, op[t].pc = "idle", unmapped' = unmapped, held' \subseteq held,
         op'[t].v \notin held' \cup unmapped,
         \A u \in Thread : op[u].pc # "idle" => op[u].v # op'[t].v,
         \A u \in Thread \ {t} : op'[u] = op[u]
  PROVE  OnePlace'
<1>1. held' \cap unmapped' = {}
  BY DEF OnePlace
<1>2. ASSUME NEW u \in Thread, op'[u].pc # "idle" PROVE op'[u].v \notin held' \cup unmapped'
  BY <1>2 DEF OnePlace
<1>3. ASSUME NEW u \in Thread, NEW x \in Thread, op'[u].pc # "idle", op'[x].pc # "idle",
             op'[u].v = op'[x].v
      PROVE  u = x
  BY <1>3 DEF OnePlace
<1> QED BY <1>1, <1>2, <1>3 DEF OnePlace

(* What is on the list when one call moves.                                *)
LEMMA OnListOf ==
  ASSUME NEW t \in Thread, 
         \A u \in Thread \ {t} : op'[u].v = op[u].v /\ (Linked(u)' <=> Linked(u))
  PROVE  \E R : /\ OnList = R \cup held \cup (IF Linked(t) THEN {op[t].v} ELSE {})
                /\ OnList' = R \cup held' \cup (IF Linked(t)' THEN {op'[t].v} ELSE {})
                /\ R = {op[u].v : u \in {x \in Thread \ {t} : Linked(x)}}
<1> DEFINE R == {op[u].v : u \in {x \in Thread \ {t} : Linked(x)}}
<1> HIDE DEF Linked
<1>1. OnList = R \cup held \cup (IF Linked(t) THEN {op[t].v} ELSE {})
  BY DEF OnList
<1>2. OnList' = R \cup held' \cup (IF Linked(t)' THEN {op'[t].v} ELSE {})
  BY DEF OnList
<1> QED BY <1>1, <1>2

(* A call that is not past its push_back works on no item of the list.     *)
LEMMA NotOnList ==
  ASSUME OnePlace, NEW t \in Thread, op[t].pc # "idle", ~Linked(t)
  PROVE  op[t].v \notin OnList
<1> SUFFICES ASSUME NEW u \in Thread, Linked(u), op[t].v = op[u].v PROVE FALSE
  BY DEF OnePlace, OnList
<1>1. op[u].pc # "idle"
  BY DEF Linked
<1> QED BY <1>1 DEF OnePlace

(* One that only moves on at its place leaves the list's items the same.   *)
LEMMA OnListStays ==
  ASSUME NEW t \in Thread, held' = held, op'[t].v = op[t].v, Linked(t)' <=> Linked(t),
         \A u \in Thread \ {t} : op'[u].v = op[u].v /\ (Linked(u)' <=> Linked(u))
  PROVE  OnList' = OnList
<1> HIDE DEF Linked
<1> QED BY DEF OnList

----------------------------------------------------------------------------
(* The steps, one at a time.                                               *)

(* At most one thread at the list, while Watch has seen no two.            *)
LEMMA OneAtTheList ==
  ASSUME Watch, ~overlapped', NEW t \in Thread, Sequential, 
         \A u \in Thread \ {t} : Lists(u)' => Lists(u)
  PROVE  \A x, y \in Thread : Lists(x)' /\ Lists(y)' => x = y
<1> DEFINE S == {u \in Thread : Lists(u)'}
<1>1. ~(Cardinality(S) > 1)
  BY DEF Watch
<1> SUFFICES ASSUME NEW x \in S, NEW y \in S, x # y PROVE FALSE
  OBVIOUS
<1>2. \A a, b \in S \ {t} : a = b
  <2> HIDE DEF Lists
  <2> QED BY DEF Sequential
<1> HIDE DEF S
<1>3. PICK z \in S : S \subseteq {t, z}
  BY <1>2
<1>4. S = {x, y}
  BY <1>3
<1>5. Cardinality(S) = 2
  <2>1. IsFiniteSet({x}) /\ Cardinality({x}) = 1
    BY FS_Singleton
  <2>2. Cardinality({x} \cup {y}) = Cardinality({x}) + 1
    BY <2>1, FS_AddElement
  <2> QED BY <1>4, <2>1, <2>2
<1> QED BY <1>1, <1>5

(* A step of a thread that is not at the list, and touches nothing of it.  *)
LEMMA OffList ==
  ASSUME Watch, ~overlapped', Sequential, NEW t \in Thread, ~Lists(t), 
         UNCHANGED <<mem, meant, process>>, OnList' = OnList,
         \A u \in Thread \ {t} : 
           op'[u] = op[u] \/ (op[u].pc = "waits" /\ op'[u].pc = "contends"),
         op'[t].pc \notin {"clears", "aliases", "stores"}
  PROVE  Sequential'
<1>1. \A u \in Thread \ {t} : Lists(u)' => Lists(u)
  BY DEF Lists
<1>2. \A x, y \in Thread : Lists(x)' /\ Lists(y)' => x = y
  BY <1>1, OneAtTheList
<1>3. \A u \in Thread : op[u].pc = "stores" => op'[u].pc = "stores"
  BY DEF Lists
<1>4. (\A u \in Thread : op'[u].pc # "stores") => Holding(meant)'
  BY <1>3 DEF Sequential, Holding
<1>5. ASSUME NEW u \in Thread PROVE Knows(u)'
  <2>1. CASE op'[u].pc \notin {"clears", "aliases", "stores"}
    BY <2>1 DEF Knows
  <2>2. CASE op'[u].pc \in {"clears", "aliases", "stores"}
    <3>1. op'[u] = op[u] /\ Knows(u)
      BY <2>2 DEF Sequential
    <3>2. Whole(u)' = Whole(u)
      BY <3>1 DEF Whole
    <3>3. Staged(u, Whole(u)) => Staged(u, Whole(u))'
      BY <3>1, <3>2 DEF Staged, Reaches
    <3> QED BY <3>1, <3>3 DEF Knows
  <2> QED BY <2>1, <2>2
<1> QED BY <1>2, <1>4, <1>5 DEF Sequential

(* Likewise of one that is, and there alone.                               *)
LEMMA AtTheList ==
  ASSUME Watch, ~overlapped', Sequential, NEW t \in Thread, Lists(t), 
         \A u \in Thread \ {t} : op'[u] = op[u], process' = process, 
         WellFormed(meant.list, meant.prev, meant.next, OnList)', 
         op'[t].pc # "stores" => Holding(meant)', Knows(t)'
  PROVE  Sequential'
<1>1. \A u \in Thread \ {t} : ~Lists(u)
  BY DEF Sequential
<1>2. \A u \in Thread \ {t} : ~Lists(u)' /\ Knows(u)'
  BY <1>1 DEF Lists, Knows
<1>3. \A x, y \in Thread : Lists(x)' /\ Lists(y)' => x = y
  BY <1>2
<1> QED BY <1>2, <1>3 DEF Sequential

(* Such a one reads the list that is meant, until it begins to store.      *)
LEMMA ReadsMeant ==
  ASSUME Sequential, NEW t \in Thread, Lists(t), op[t].pc # "stores"
  PROVE  /\ Holding(meant) /\ List = meant.list
         /\ WellFormed(meant.list, meant.prev, meant.next, OnList)
         /\ IsEmpty(List) <=> meant.list.size = 0
<1>1. \A u \in Thread : op[u].pc # "stores"
  BY DEF Sequential, Lists
<1>2. Holding(meant) /\ WellFormed(meant.list, meant.prev, meant.next, OnList)
  BY <1>1 DEF Sequential
<1>3. List = meant.list
  BY <1>2, Reading
<1> QED BY <1>2, <1>3 DEF IsEmpty

(* The front of a list that is not empty is one of its items.              *)
LEMMA FrontOnList ==
  ASSUME NEW list, NEW prev, NEW next, NEW S, WellFormed(list, prev, next, S), list.size # 0
  PROVE  list.first \in S /\ list.first \in Vpage /\ list.first # Null
<1>1. PICK at : Chain(at, list, prev, next) /\ S = {at[i] : i \in 1..list.size}
  BY DEF WellFormed
<1>2. 1 \in 1..list.size
  BY DEF WellFormed
<1>3. list.first = at[1] /\ at[1] \in Vpage
  BY <1>1, <1>2 DEF Chain
<1> QED BY <1>1, <1>2, <1>3, VlistAssumption DEF Vpage, Null

(* What a step of a thread away from the list has to show.                 *)
LEMMA AwayKeeps ==
  ASSUME ListInv, Watch, NEW t \in Thread, ~Lists(t), 
         UNCHANGED <<mem, meant, process>>, OnePlace', OnList' = OnList,
         \A u \in Thread \ {t} : 
           op'[u] = op[u] \/ (op[u].pc = "waits" /\ op'[u].pc = "contends"),
         op'[t].pc \notin {"clears", "aliases", "stores"}
  PROVE  ListInv'
<1>1. ~overlapped' => ~overlapped
  BY DEF Watch
<1>2. ASSUME ~overlapped' PROVE Sequential'
  BY <1>1, <1>2, OffList DEF ListInv
<1> QED BY <1>2 DEF ListInv

(* A step on at the same place.                                            *)
LEMMA AwayMoves ==
  ASSUME LockInv, ListInv, Watch, NEW t \in Thread, ~Lists(t), op[t].pc # "idle",
         NEW pc, Goto(t, pc), pc \notin {"clears", "aliases", "stores"},
         IF op[t].does = "push" THEN op[t].pc \in {"unlocks", "wakes"} <=> pc \in {"unlocks", "wakes"}
         ELSE op[t].pc # "unmaps" /\ pc \notin {"idle", "unmaps"},
         UNCHANGED <<mem, meant, process, held, unmapped>>
  PROVE  ListInv'
<1>1. Calls /\ OnePlace
  BY DEF LockInv, ListInv
<1>2. /\ op'[t].pc = pc /\ op'[t].v = op[t].v /\ op'[t].does = op[t].does 
      /\ \A u \in Thread \ {t} : op'[u] = op[u]
  BY <1>1, PcMoves
<1>3. OnePlace'
  BY <1>1, <1>2, PlacesStay
<1>4. Linked(t)' <=> Linked(t)
  BY <1>2 DEF Linked
<1>5. \A u \in Thread \ {t} : op'[u].v = op[u].v /\ (Linked(u)' <=> Linked(u))
  BY <1>2 DEF Linked
<1>6. OnList' = OnList
  BY <1>2, <1>4, <1>5, OnListStays
<1> QED BY <1>2, <1>3, <1>6, AwayKeeps

(* A new Vpage is on no list yet.                                          *)
LEMMA AllocateChunkLists ==
  ASSUME LockInv, ListInv, Watch, NEW t \in Thread, AllocateChunk(t)
  PROVE  ListInv'
<1> DEFINE r == [Idle EXCEPT !.pc = "locks", !.does = "push", !.v = made + 1]
<1>1. /\ op[t].pc = "idle" /\ op' = [op EXCEPT ![t] = r]
      /\ UNCHANGED <<mem, held, unmapped, meant, process>>
  BY DEF AllocateChunk, At
<1>2. r.pc = "locks" /\ r.does = "push" /\ r.v = made + 1
  BY DEF Idle
<1> HIDE DEF r
<1>3. op'[t] = r /\ \A u \in Thread \ {t} : op'[u] = op[u]
  BY <1>1, CallSet DEF LockInv
<1>4. made + 1 \notin held \cup unmapped /\ \A u \in Thread : op[u].pc # "idle" => op[u].v # made + 1
  <2>1. made \in Nat /\ made + 1 \notin 1..made
    BY VlistAssumption DEF LockInv, Numbers
  <2> QED BY <2>1 DEF LockInv, Numbers, Calls, CallOK
<1>5. OnePlace'
  BY <1>1, <1>2, <1>3, <1>4, PlaceTaken DEF ListInv
<1>6. ~Linked(t) /\ ~Linked(t)'
  BY <1>1, <1>2, <1>3 DEF Linked
<1>7. \A u \in Thread \ {t} : op'[u].v = op[u].v /\ (Linked(u)' <=> Linked(u))
  BY <1>3 DEF Linked
<1>8. OnList' = OnList
  BY <1>1, <1>6, <1>7, OnListOf
<1> QED BY <1>1, <1>2, <1>3, <1>5, <1>8, AwayKeeps DEF Lists

(* One that the program frees is on the list until it is removed.          *)
LEMMA DeallocateChunkLists ==
  ASSUME LockInv, ListInv, Watch, NEW t \in Thread, DeallocateChunk(t)
  PROVE  ListInv'
<1>1. PICK v \in held : /\ held' = held \ {v}
                        /\ op' = [op EXCEPT ![t] = [Idle EXCEPT !.pc = "locks", !.does = "remove", 
                                                                !.v = v]]
  BY DEF DeallocateChunk
<1> DEFINE r == [Idle EXCEPT !.pc = "locks", !.does = "remove", !.v = v]
<1>2. /\ op[t].pc = "idle" /\ op' = [op EXCEPT ![t] = r]
      /\ UNCHANGED <<mem, unmapped, meant, process>>
  BY <1>1 DEF DeallocateChunk, At
<1>3. r.pc = "locks" /\ r.does = "remove" /\ r.v = v
  BY DEF Idle
<1> HIDE DEF r
<1>4. op'[t] = r /\ \A u \in Thread \ {t} : op'[u] = op[u]
  BY <1>2, CallSet DEF LockInv
<1>5. v \notin held' \cup unmapped /\ \A u \in Thread : op[u].pc # "idle" => op[u].v # v
  BY <1>1 DEF ListInv, OnePlace
<1>6. OnePlace'
  BY <1>1, <1>2, <1>3, <1>4, <1>5, PlaceTaken DEF ListInv
<1>7. ~(Linked(t) /\ op[t].does = "push") /\ ~Linked(t) /\ Linked(t)'
  BY <1>2, <1>3, <1>4 DEF Linked
<1>8. \A u \in Thread \ {t} : op'[u].v = op[u].v /\ (Linked(u)' <=> Linked(u))
  BY <1>4 DEF Linked
<1>9. OnList' = OnList
  <2>1. PICK R : /\ OnList = R \cup held \cup (IF Linked(t) THEN {op[t].v} ELSE {})
                 /\ OnList' = R \cup held' \cup (IF Linked(t)' THEN {op'[t].v} ELSE {})
    BY <1>8, OnListOf
  <2>2. OnList = R \cup held /\ OnList' = R \cup held' \cup {v}
    BY <1>3, <1>4, <1>7, <2>1
  <2> QED BY <1>1, <2>2
<1> QED BY <1>2, <1>3, <1>4, <1>6, <1>9, AwayKeeps DEF Lists

(* The mutex does nothing to the list.                                     *)
LEMMA LockLists ==
  ASSUME LockInv, ListInv, Watch, NEW t \in Thread, Lock(t)
  PROVE  ListInv'
<1>1. op[t].pc \in {"locks", "contends"} /\ UNCHANGED <<mem, meant, process, held, unmapped>>
  BY DEF Lock, At, listVars
<1>2. PICK pc : /\ Goto(t, pc)
                /\ \/ pc = IF op[t].does = "push" THEN "looks" ELSE "unlocks"
                   \/ pc \in {"contends", "waits"}
  BY DEF Lock, Locked
<1>3. ~Lists(t)
  BY <1>1 DEF Lists
<1> QED BY <1>1, <1>2, <1>3, AwayMoves

(* Nor does a thread that waits for it.                                    *)
LEMMA WaitLists ==
  ASSUME LockInv, ListInv, Watch, NEW t \in Thread, Wait(t)
  PROVE  ListInv'
<1>1. op[t].pc = "waits" /\ UNCHANGED <<mem, meant, process, held, unmapped>>
  BY DEF Wait, At, listVars
<1>2. ~Lists(t)
  BY <1>1 DEF Lists
<1>3. CASE word = MtxSleeping
  <2>1. op' = op 
    BY <1>3 DEF Wait, Sleeps
  <2>2. OnePlace' /\ OnList' = OnList
    BY <1>1, <2>1 DEF ListInv, OnePlace, OnList, Linked
  <2> QED BY <1>1, <1>2, <2>1, <2>2, AwayKeeps
<1>4. CASE word # MtxSleeping
  <2>1. PICK pc : pc = "contends" /\ Goto(t, pc)
    BY <1>4 DEF Wait, Sleeps
  <2>2. /\ op[t].pc # "idle" /\ pc \notin {"clears", "aliases", "stores", "unlocks", "wakes", "idle", "unmaps"}
        /\ op[t].pc \notin {"unlocks", "wakes", "unmaps"}
    BY <1>1, <2>1
  <2> QED BY <1>1, <1>2, <2>1, <2>2, AwayMoves
<1> QED BY <1>3, <1>4

(* The steps that end with Released.                                       *)
LEMMA ReleasedLists ==
  ASSUME LockInv, ListInv, Watch, NEW t \in Thread, op[t].pc \in {"unlocks", "wakes"},
         held' = held \cup Returned(t), UNCHANGED <<mem, meant, process, unmapped>>,
         op'[t] = IF op[t].does = "push" THEN Idle ELSE [op[t] EXCEPT !.pc = "tests"],
         \A u \in Thread \ {t} : 
           \/ op'[u] = op[u] 
           \/ op[u].pc = "waits" /\ op'[u].pc = "contends" /\ op'[u].v = op[u].v
              /\ op'[u].does = op[u].does
  PROVE  ListInv'
<1>1. OnePlace /\ ~Lists(t) /\ op[t].pc # "idle"
  BY DEF ListInv, Lists
<1>2. \A u \in Thread \ {t} : /\ op'[u].v = op[u].v /\ (Linked(u)' <=> Linked(u)) 
                              /\ op'[u].pc # "idle" => op[u].pc # "idle"
  BY DEF Linked
<1>3. PICK R : /\ OnList = R \cup held \cup (IF Linked(t) THEN {op[t].v} ELSE {})
               /\ OnList' = R \cup held' \cup (IF Linked(t)' THEN {op'[t].v} ELSE {})
  BY <1>2, OnListOf
<1>4. CASE op[t].does = "push"
  <2>1. op'[t] = Idle /\ held' = held \cup {op[t].v} /\ op'[t].pc = "idle" /\ op'[t].does # "push"
    BY <1>4 DEF Returned, Idle
  <2>2. OnePlace'
    BY <1>1, <1>2, <2>1, PlaceLeft
  <2>3. Linked(t) /\ ~Linked(t)'
    BY <1>4, <2>1 DEF Linked
  <2>4. OnList' = OnList
    BY <1>3, <2>1, <2>3
  <2> QED BY <1>1, <2>1, <2>2, <2>4, AwayKeeps
<1>5. CASE op[t].does # "push"
  <2>1. CallOK(t)
    BY DEF LockInv, Calls
  <2>2. op'[t].pc = "tests" /\ op'[t].v = op[t].v /\ op'[t].does = op[t].does /\ held' = held
    BY <1>5, <2>1 DEF Returned, CallOK, IsCall, Fields
  <2>3. OnePlace'
    BY <1>1, <1>2, <2>2, PlacesStay
  <2>4. Linked(t) /\ Linked(t)'
    BY <1>5, <2>2 DEF Linked
  <2>5. OnList' = OnList
    BY <1>3, <2>2, <2>4
  <2> QED BY <1>1, <2>2, <2>3, <2>5, AwayKeeps
<1> QED BY <1>4, <1>5

(* AllocateChunk returns, and its Vpage is on the list.                    *)
LEMMA UnlockLists ==
  ASSUME LockInv, ListInv, Watch, NEW t \in Thread, Unlock(t)
  PROVE  ListInv'
<1>1. op[t].pc = "unlocks" /\ UNCHANGED <<mem, meant, unmapped>>
  BY DEF Unlock, At
<1>2. Calls /\ word # MtxUnlocked
  BY <1>1 DEF LockInv, MutexOK, Holds
<1>3. /\ op' = IF Wakes(word) THEN [op EXCEPT ![t].pc = "wakes"] ELSE Released(t, op)
      /\ held' = held \cup (IF Wakes(word) THEN {} ELSE Returned(t))
      /\ process' = process
  BY <1>2 DEF Unlock
<1>4. CASE Wakes(word)
  <2>1. PICK pc : pc = "wakes" /\ Goto(t, pc) /\ held' = held
    BY <1>3, <1>4 DEF Goto
  <2>2. ~Lists(t)
    BY <1>1 DEF Lists
  <2>3. /\ op[t].pc \notin {"idle", "unmaps"} /\ op[t].pc \in {"unlocks", "wakes"}
        /\ pc \notin {"clears", "aliases", "stores", "idle", "unmaps"} /\ pc \in {"unlocks", "wakes"}
    BY <1>1, <2>1
  <2> QED BY <1>1, <1>3, <2>1, <2>2, <2>3, AwayMoves
<1>5. CASE ~Wakes(word)
  <2>1. op' = Released(t, op) /\ held' = held \cup Returned(t)
    BY <1>3, <1>5
  <2>2. /\ op'[t] = IF op[t].does = "push" THEN Idle ELSE [op[t] EXCEPT !.pc = "tests"]
        /\ \A u \in Thread \ {t} : op'[u] = op[u]
    BY <1>2, <2>1 DEF Released, Calls
  <2> QED BY <1>1, <1>3, <2>1, <2>2, ReleasedLists
<1> QED BY <1>4, <1>5

(* So it does when it has to wake somebody.                                *)
LEMMA WakeLists ==
  ASSUME LockInv, ListInv, Watch, NEW t \in Thread, Wake(t)
  PROVE  ListInv'
<1>1. /\ op[t].pc = "wakes" /\ UNCHANGED <<mem, unmapped, meant, process>>
      /\ held' = held \cup Returned(t)
  BY DEF Wake, At
<1>2. Calls /\ asleep \subseteq {u \in Thread : op[u].pc = "waits"}
  BY DEF LockInv, MutexOK
<1>3. \A u \in Thread : Released(t, op)[u] = 
        IF u = t THEN IF op[t].does = "push" THEN Idle ELSE [op[t] EXCEPT !.pc = "tests"] ELSE op[u]
  BY <1>2 DEF Released, Calls
<1>4. CASE asleep = {}
  <2>1. op' = Released(t, op)
    BY <1>4 DEF Wake
  <2> QED BY <1>1, <1>3, <2>1, ReleasedLists
<1>5. CASE asleep # {}
  <2>1. PICK x \in asleep : op' = [Released(t, op) EXCEPT ![x].pc = "contends"]
    BY <1>5 DEF Wake
  <2>2. x \in Thread /\ op[x].pc = "waits" /\ x # t /\ CallOK(x)
    BY <1>1, <1>2 DEF Calls
  <2>3. DOMAIN Released(t, op) = Thread
    BY <1>2 DEF Released, Calls
  <2>4. /\ op'[x] = [op[x] EXCEPT !.pc = "contends"] 
        /\ \A u \in Thread \ {x} : op'[u] = Released(t, op)[u]
    BY <1>3, <2>1, <2>2, <2>3
  <2>5. op'[x].pc = "contends" /\ op'[x].v = op[x].v /\ op'[x].does = op[x].does
    BY <2>2, <2>4 DEF CallOK, IsCall, Fields
  <2>6. /\ op'[t] = IF op[t].does = "push" THEN Idle ELSE [op[t] EXCEPT !.pc = "tests"]
        /\ \A u \in Thread \ {t, x} : op'[u] = op[u]
    BY <1>3, <2>2, <2>4
  <2> QED BY <1>1, <2>2, <2>5, <2>6, ReleasedLists
<1> QED BY <1>4, <1>5

(* What is unmapped has been removed.                                      *)
LEMMA UnmapLists ==
  ASSUME LockInv, ListInv, Watch, NEW t \in Thread, Unmap(t)
  PROVE  ListInv'
<1>1. /\ op[t].pc = "unmaps" /\ UNCHANGED <<mem, held, meant, process>>
      /\ unmapped' = unmapped \cup {op[t].v} /\ op' = [op EXCEPT ![t] = Idle]
  BY DEF Unmap, At
<1>2. Idle.pc = "idle" /\ Idle.does # "push"
  BY DEF Idle
<1>3. op'[t] = Idle /\ \A u \in Thread \ {t} : op'[u] = op[u]
  BY <1>1, CallSet DEF LockInv
<1>4. OnePlace'
  BY <1>1, <1>2, <1>3, PlaceLeft DEF ListInv
<1>5. ~Linked(t) /\ ~Linked(t)'
  BY <1>1, <1>2, <1>3 DEF Linked
<1>6. \A u \in Thread \ {t} : op'[u].v = op[u].v /\ (Linked(u)' <=> Linked(u))
  BY <1>3 DEF Linked
<1>7. OnList' = OnList
  BY <1>1, <1>5, <1>6, OnListOf
<1> QED BY <1>1, <1>2, <1>3, <1>4, <1>7, AwayKeeps DEF Lists

(* What a step of a thread at the list has to show.                        *)
LEMMA ThereKeeps ==
  ASSUME ListInv, Watch, NEW t \in Thread, Lists(t), op[t].pc # "idle",
         UNCHANGED <<held, unmapped>>,
         op' = op \/ (/\ op'[t].v = op[t].v /\ \A u \in Thread \ {t} : op'[u] = op[u]),
         Sequential /\ ~overlapped' => Sequential'
  PROVE  ListInv'
<1>1. ~overlapped' => ~overlapped
  BY DEF Watch
<1>2. \A u \in Thread : op'[u].pc # "idle" => op[u].pc # "idle" /\ op'[u].v = op[u].v
  OBVIOUS
<1>3. OnePlace'
  BY <1>2, PlacesStay DEF ListInv
<1> QED BY <1>1, <1>3 DEF ListInv

(* AllocateChunk looks at the list, which has a front if it is not empty.  *)
LEMMA LookLists ==
  ASSUME LockInv, ListInv, Watch, NEW t \in Thread, Look(t)
  PROVE  ListInv'
<1>1. /\ op[t].pc = "looks" /\ Lists(t) /\ UNCHANGED <<mem, meant, held, unmapped>>
      /\ Calls /\ CallOK(t)
  BY DEF Look, At, Lists, listVars, LockInv, Calls
<1>2. op[t].does = "push"
  BY <1>1 DEF CallOK
<1> DEFINE to == IF IsEmpty(List) THEN "clears" ELSE "aliases"
<1>3. ASSUME ~(~IsEmpty(List) /\ Front(List) = Null)
      PROVE  /\ op'[t].pc = to /\ op'[t].orig = Front(List) /\ op'[t].v = op[t].v
             /\ op'[t].does = op[t].does /\ \A u \in Thread \ {t} : op'[u] = op[u]
             /\ process' = process
  <2> DEFINE r == [op[t] EXCEPT !.pc = to, !.orig = Front(List)]
  <2>1. op' = [op EXCEPT ![t] = r] /\ process' = process
    BY <1>1, <1>3 DEF Look, Calls
  <2>2. r.pc = to /\ r.orig = Front(List) /\ r.v = op[t].v /\ r.does = op[t].does
    BY <1>1 DEF CallOK, IsCall, Fields
  <2> HIDE DEF r, to
  <2>3. op'[t] = r /\ \A u \in Thread \ {t} : op'[u] = op[u]
    BY <1>1, <2>1, CallSet
  <2> QED BY <2>1, <2>2, <2>3
<1>4. op' = op \/ (/\ op'[t].v = op[t].v /\ \A u \in Thread \ {t} : op'[u] = op[u])
  BY <1>3 DEF Look
<1>5. ASSUME Sequential, ~overlapped' PROVE Sequential'
  <2>1. /\ Holding(meant) /\ List = meant.list
        /\ WellFormed(meant.list, meant.prev, meant.next, OnList)
        /\ IsEmpty(List) <=> meant.list.size = 0
    BY <1>1, <1>5, ReadsMeant
  <2>2. ~(~IsEmpty(List) /\ Front(List) = Null)
    BY <2>1, FrontOnList DEF Front
  <2>3. /\ op'[t].pc = to /\ op'[t].orig = Front(List) /\ op'[t].v = op[t].v
        /\ op'[t].does = op[t].does /\ \A u \in Thread \ {t} : op'[u] = op[u]
        /\ process' = process
    BY <1>3, <2>2
  <2>4. to \in {"clears", "aliases"}
    OBVIOUS
  <2>5. Knows(t)'
    BY <1>1, <2>1, <2>3 DEF Knows, Front
  <2> HIDE DEF to
  <2>6. OnList' = OnList
    <3>1. Linked(t)' <=> Linked(t)
      BY <1>1, <1>2, <2>3, <2>4 DEF Linked
    <3>2. \A u \in Thread \ {t} : op'[u].v = op[u].v /\ (Linked(u)' <=> Linked(u))
      BY <2>3 DEF Linked
    <3> QED BY <1>1, <2>3, <3>1, <3>2, OnListStays
  <2>7. WellFormed(meant.list, meant.prev, meant.next, OnList)'
    BY <1>1, <2>1, <2>6
  <2>8. Holding(meant)'
    BY <1>1, <2>1 DEF Holding
  <2> QED BY <1>1, <1>5, <2>3, <2>5, <2>7, <2>8, AtTheList
<1> QED BY <1>1, <1>4, <1>5, ThereKeeps

(* A push_back that begins.                                                *)
LEMMA PushBegins ==
  ASSUME LockInv, OnePlace, Sequential, Watch, ~overlapped', NEW t \in Thread, Lists(t),
         op[t].pc # "stores", op[t].does = "push", op'[t].does = "push", 
         op'[t].pc = "stores", op'[t].v = op[t].v, \A u \in Thread \ {t} : op'[u] = op[u], 
         UNCHANGED <<meant, held, process>>,
         Staged(t, PushBack(meant.list, meant.prev, meant.next, op[t].v))'
  PROVE  Sequential'
<1>1. OnList' = OnList
  <2>1. ~Linked(t)' /\ ~Linked(t)
    BY DEF Linked, Lists
  <2>2. \A u \in Thread \ {t} : op'[u].v = op[u].v /\ (Linked(u)' <=> Linked(u))
    BY DEF Linked
  <2> QED BY <2>1, <2>2, OnListStays
<1>2. WellFormed(meant.list, meant.prev, meant.next, OnList)'
  BY <1>1 DEF Sequential
<1>3. Knows(t)'
  BY DEF Knows, Whole
<1> QED BY <1>2, <1>3, AtTheList

(* On a cleared list ...                                                   *)
LEMMA ClearLists ==
  ASSUME LockInv, ListInv, Watch, NEW t \in Thread, Clear(t)
  PROVE  ListInv'
<1>1. /\ op[t].pc = "clears" /\ Lists(t) /\ UNCHANGED <<meant, made, held, unmapped, process>>
      /\ Calls /\ CallOK(t) /\ OnePlace /\ DOMAIN mem = Cell
      /\ mem' = [c \in Cell |-> IF c[2] \in {Null, op[t].v} THEN Null ELSE mem[c]]
  BY DEF Clear, At, Lists, LockInv, Calls, ListInv, Numbers
<1>2. op[t].does = "push" /\ op[t].v \in Vpage
  BY <1>1, VlistAssumption DEF CallOK, Vpage, LockInv, Numbers
<1>3. /\ op'[t].pc = "stores" /\ op'[t].todo = PushedFirst(op[t].v) /\ op'[t].v = op[t].v
      /\ op'[t].does = op[t].does /\ \A u \in Thread \ {t} : op'[u] = op[u]
  <2> DEFINE r == [op[t] EXCEPT !.pc = "stores", !.todo = PushedFirst(op[t].v)]
  <2>1. op' = [op EXCEPT ![t] = r]
    BY <1>1 DEF Clear, Calls
  <2>2. r.pc = "stores" /\ r.todo = PushedFirst(op[t].v) /\ r.v = op[t].v /\ r.does = op[t].does
    BY <1>1 DEF CallOK, IsCall, Fields
  <2> HIDE DEF r
  <2>3. op'[t] = r /\ \A u \in Thread \ {t} : op'[u] = op[u]
    BY <1>1, <2>1, CallSet
  <2> QED BY <2>2, <2>3
<1>4. ASSUME Sequential, ~overlapped' PROVE Sequential'
  <2>1. Holding(meant) /\ WellFormed(meant.list, meant.prev, meant.next, OnList)
    BY <1>1, <1>4, ReadsMeant
  <2>2. meant.list.size = 0
    BY <1>1, <1>4 DEF Sequential, Knows
  <2>3. PICK w : w = PushBack(meant.list, meant.prev, meant.next, op[t].v)
    OBVIOUS
  <2>4. Staged(t, w)'
    BY <1>1, <1>2, <1>3, <2>1, <2>2, <2>3, ClearStages
  <2>5. Staged(t, PushBack(meant.list, meant.prev, meant.next, op[t].v))'
    BY <1>1, <1>3, <2>3, <2>4
  <2> QED BY <1>1, <1>2, <1>3, <1>4, <2>5, PushBegins
<1> QED BY <1>1, <1>3, <1>4, ThereKeeps

(* ... and on one with items, whose front has memory to alias.             *)
LEMMA AliasLists ==
  ASSUME LockInv, ListInv, Watch, NEW t \in Thread, Alias(t)
  PROVE  ListInv'
<1>1. /\ op[t].pc = "aliases" /\ Lists(t) /\ UNCHANGED <<meant, made, held, unmapped>>
      /\ Calls /\ CallOK(t) /\ OnePlace /\ DOMAIN mem = Cell
  BY DEF Alias, At, Lists, LockInv, Calls, ListInv, Numbers
<1>2. op[t].does = "push" /\ op[t].v \in Vpage
  BY <1>1, VlistAssumption DEF CallOK, Vpage, LockInv, Numbers
<1>3. ASSUME op[t].orig \notin unmapped
      PROVE  /\ op'[t].pc = "stores" /\ op'[t].todo = Pushed(op[t].v) /\ op'[t].v = op[t].v
             /\ op'[t].does = op[t].does /\ \A u \in Thread \ {t} : op'[u] = op[u]
             /\ mem' = Owned(op[t].v) /\ process' = process
  <2> DEFINE r == [op[t] EXCEPT !.pc = "stores", !.todo = Pushed(op[t].v), !.orig = Null]
  <2>1. op' = [op EXCEPT ![t] = r] /\ mem' = Owned(op[t].v) /\ process' = process
    BY <1>1, <1>3 DEF Alias, Calls
  <2>2. r.pc = "stores" /\ r.todo = Pushed(op[t].v) /\ r.v = op[t].v /\ r.does = op[t].does
    BY <1>1 DEF CallOK, IsCall, Fields
  <2> HIDE DEF r
  <2>3. op'[t] = r /\ \A u \in Thread \ {t} : op'[u] = op[u]
    BY <1>1, <2>1, CallSet
  <2> QED BY <2>1, <2>2, <2>3
<1>4. op' = op \/ (/\ op'[t].v = op[t].v /\ \A u \in Thread \ {t} : op'[u] = op[u])
  BY <1>3 DEF Alias
<1>5. ASSUME Sequential, ~overlapped' PROVE Sequential'
  <2>1. Holding(meant) /\ WellFormed(meant.list, meant.prev, meant.next, OnList)
    BY <1>1, <1>5, ReadsMeant
  <2>2. meant.list.size # 0 /\ op[t].orig = meant.list.first
    BY <1>1, <1>5 DEF Sequential, Knows
  <2>3. op[t].orig \in OnList
    BY <2>1, <2>2, FrontOnList
  <2>4. op[t].orig \notin unmapped
    <3>1. \A u \in Thread : Linked(u) => op[u].v \notin unmapped
      BY <1>1 DEF OnePlace, Linked
    <3> HIDE DEF Linked
    <3> QED BY <1>1, <2>3, <3>1 DEF OnList, OnePlace
  <2>5. op[t].v \notin OnList
    <3>1. ~Linked(t)
      BY <1>1, <1>2 DEF Linked
    <3> QED BY <1>1, <3>1, NotOnList
  <2>6. PICK w : w = PushBack(meant.list, meant.prev, meant.next, op[t].v)
    OBVIOUS
  <2>7. /\ op'[t].pc = "stores" /\ op'[t].todo = Pushed(op[t].v) /\ op'[t].v = op[t].v
        /\ op'[t].does = op[t].does /\ \A u \in Thread \ {t} : op'[u] = op[u]
        /\ mem' = Owned(op[t].v) /\ process' = process
    BY <1>3, <2>4
  <2>8. Staged(t, w)'
    BY <1>1, <1>2, <2>1, <2>2, <2>5, <2>6, <2>7, AliasStages
  <2>9. Staged(t, PushBack(meant.list, meant.prev, meant.next, op[t].v))'
    BY <1>1, <2>6, <2>7, <2>8
  <2> QED BY <1>1, <1>2, <1>5, <2>7, <2>9, PushBegins
<1> QED BY <1>1, <1>4, <1>5, ThereKeeps

(* DeallocateChunk comes to a list that has its item.                      *)
LEMMA RemoveOfLists ==
  ASSUME LockInv, ListInv, Watch, NEW t \in Thread, RemoveOf(t)
  PROVE  ListInv'
<1>1. /\ op[t].pc = "tests" /\ Lists(t) /\ UNCHANGED <<mem, made, held, unmapped, process>>
      /\ Calls /\ CallOK(t) /\ OnePlace
  BY DEF RemoveOf, At, Lists, LockInv, Calls, ListInv
<1>2. op[t].does # "push"
  BY <1>1 DEF CallOK
<1>3. ASSUME ~IsEmpty(List)
      PROVE  /\ op'[t].pc = "stores" /\ op'[t].todo = Removed(op[t].v) /\ op'[t].v = op[t].v
             /\ op'[t].does = op[t].does /\ \A u \in Thread \ {t} : op'[u] = op[u]
             /\ meant' = meant
  <2> DEFINE r == [op[t] EXCEPT !.pc = "stores", !.todo = Removed(op[t].v)]
  <2>1. op' = [op EXCEPT ![t] = r] /\ meant' = meant
    BY <1>1, <1>3 DEF RemoveOf, Calls
  <2>2. r.pc = "stores" /\ r.todo = Removed(op[t].v) /\ r.v = op[t].v /\ r.does = op[t].does
    BY <1>1 DEF CallOK, IsCall, Fields
  <2> HIDE DEF r
  <2>3. op'[t] = r /\ \A u \in Thread \ {t} : op'[u] = op[u]
    BY <1>1, <2>1, CallSet
  <2> QED BY <2>1, <2>2, <2>3
<1>4. op'[t].v = op[t].v /\ \A u \in Thread \ {t} : op'[u] = op[u]
  <2>1. CASE IsEmpty(List)
    <3>1. PICK pc : Goto(t, pc)
      BY <2>1 DEF RemoveOf
    <3> QED BY <1>1, <3>1, PcMoves
  <2> QED BY <1>3, <2>1
<1>5. ASSUME Sequential, ~overlapped' PROVE Sequential'
  <2>1. /\ Holding(meant) /\ WellFormed(meant.list, meant.prev, meant.next, OnList)
        /\ IsEmpty(List) <=> meant.list.size = 0
    BY <1>1, <1>5, ReadsMeant
  <2>2. op[t].v \in OnList
    BY <1>1, <1>2 DEF OnList, Linked
  <2>3. ~IsEmpty(List)
    <3>1. PICK at : OnList = {at[i] : i \in 1..meant.list.size}
      BY <2>1 DEF WellFormed
    <3> QED BY <2>1, <2>2, <3>1
  <2>4. /\ op'[t].pc = "stores" /\ op'[t].todo = Removed(op[t].v) /\ op'[t].v = op[t].v
        /\ op'[t].does = op[t].does /\ \A u \in Thread \ {t} : op'[u] = op[u]
        /\ meant' = meant
    BY <1>3, <2>3
  <2>5. PICK w : w = Remove(meant.list, meant.prev, meant.next, op[t].v)
    OBVIOUS
  <2>6. Staged(t, w)'
    BY <1>1, <2>1, <2>2, <2>4, <2>5, RemoveStages
  <2>7. Knows(t)'
    BY <1>2, <2>4, <2>5, <2>6 DEF Knows, Whole
  <2>8. OnList' = OnList
    <3>1. Linked(t) /\ Linked(t)'
      BY <1>1, <1>2, <2>4 DEF Linked
    <3>2. \A u \in Thread \ {t} : op'[u].v = op[u].v /\ (Linked(u)' <=> Linked(u))
      BY <2>4 DEF Linked
    <3> QED BY <1>1, <2>4, <3>1, <3>2, OnListStays
  <2>9. WellFormed(meant.list, meant.prev, meant.next, OnList)'
    BY <2>1, <2>4, <2>8
  <2> QED BY <1>1, <1>5, <2>4, <2>7, <2>9, AtTheList
<1> QED BY <1>1, <1>4, <1>5, ThereKeeps

(* A whole operation keeps a list a list of the items on it.               *)
LEMMA WholeKeepsList ==
  ASSUME NEW t \in Thread, OnePlace, Sequential, op[t].pc = "stores", op[t].v \in Vpage,
         held' = held, op'[t].does = op[t].does, op'[t].v = op[t].v,
         op'[t].pc = IF op[t].does = "push" THEN "unlocks" ELSE "unmaps",
         \A u \in Thread \ {t} : op'[u] = op[u], meant' = Whole(t)
  PROVE  WellFormed(meant.list, meant.prev, meant.next, OnList)'
<1>1. WellFormed(meant.list, meant.prev, meant.next, OnList)
  BY DEF Sequential
<1>2. \A u \in Thread \ {t} : op'[u].v = op[u].v /\ (Linked(u)' <=> Linked(u))
  BY DEF Linked
<1>3. PICK R : /\ OnList = R \cup held \cup (IF Linked(t) THEN {op[t].v} ELSE {})
               /\ OnList' = R \cup held' \cup (IF Linked(t)' THEN {op'[t].v} ELSE {})
               /\ R = {op[u].v : u \in {x \in Thread \ {t} : Linked(x)}}
  BY <1>2, OnListOf
<1>4. op[t].v \notin R \cup held
  <2>1. \A u \in Thread \ {t} : Linked(u) => op[u].v # op[t].v
    BY DEF OnePlace, Linked
  <2> HIDE DEF Linked
  <2> QED BY <1>3, <2>1 DEF OnePlace
<1>5. CASE op[t].does = "push"
  <2>1. ~Linked(t) /\ Linked(t)'
    BY <1>5 DEF Linked
  <2>2. OnList' = OnList \cup {op[t].v} /\ op[t].v \notin OnList
    BY <1>3, <1>4, <2>1
  <2>3. PICK w : w = PushBack(meant.list, meant.prev, meant.next, op[t].v)
    OBVIOUS
  <2>4. WellFormed(w.list, w.prev, w.next, OnList \cup {op[t].v})
    BY <1>1, <2>2, <2>3, PushBackLinks
  <2>5. meant' = w
    BY <1>5, <2>3 DEF Whole
  <2> QED BY <2>2, <2>4, <2>5
<1>6. CASE op[t].does # "push"
  <2>1. Linked(t) /\ ~Linked(t)'
    BY <1>6 DEF Linked
  <2>2. OnList' = OnList \ {op[t].v} /\ op[t].v \in OnList
    BY <1>3, <1>4, <2>1
  <2>3. PICK w : w = Remove(meant.list, meant.prev, meant.next, op[t].v)
    OBVIOUS
  <2>4. WellFormed(w.list, w.prev, w.next, OnList \ {op[t].v})
    BY <1>1, <2>2, <2>3, RemoveUnlinks
  <2>5. meant' = w
    BY <1>6, <2>3 DEF Whole
  <2> QED BY <2>2, <2>4, <2>5
<1> QED BY <1>5, <1>6

(* A store of an operation that is alone at the list.                      *)
LEMMA StoreLists ==
  ASSUME LockInv, ListInv, Watch, NEW t \in Thread, Store(t)
  PROVE  ListInv'
<1>1. /\ op[t].pc = "stores" /\ Lists(t) /\ UNCHANGED <<made, held, unmapped>>
      /\ Calls /\ CallOK(t) /\ OnePlace /\ DOMAIN mem = Cell
  BY DEF Store, At, Lists, LockInv, Calls, ListInv, Numbers
<1>2. op[t].v \in Vpage
  BY <1>1, VlistAssumption DEF CallOK, Vpage, LockInv, Numbers
<1> DEFINE s    == Head(op[t].todo)
           last == Len(op[t].todo) = 1
           to   == IF ~last THEN "stores" ELSE IF op[t].does = "push" THEN "unlocks" ELSE "unmaps"
<1>3. ASSUME ~Faults(s)
      PROVE  /\ op'[t].pc = to /\ op'[t].todo = Tail(op[t].todo) /\ op'[t].v = op[t].v
             /\ op'[t].does = op[t].does /\ \A u \in Thread \ {t} : op'[u] = op[u]
             /\ mem' = Stored(s) /\ process' = process
             /\ meant' = IF last THEN Whole(t) ELSE meant
  <2> DEFINE r == [op[t] EXCEPT !.todo = Tail(op[t].todo), !.pc = to]
  <2>1. mem' = Stored(s) /\ process' = process /\ meant' = IF last THEN Whole(t) ELSE meant
    BY <1>3 DEF Store
  <2>2. op' = [op EXCEPT ![t].todo = Tail(@), ![t].pc = to]
    BY <1>3 DEF Store
  <2> HIDE DEF to, s, last
  <2>3. op' = [op EXCEPT ![t] = r] 
    BY <1>1, <2>2 DEF Calls
  <2>4. r.pc = to /\ r.todo = Tail(op[t].todo) /\ r.v = op[t].v /\ r.does = op[t].does
    BY <1>1 DEF CallOK, IsCall, Fields
  <2> HIDE DEF r
  <2>5. op'[t] = r /\ \A u \in Thread \ {t} : op'[u] = op[u]
    BY <1>1, <2>3, CallSet
  <2> QED BY <2>1, <2>4, <2>5
<1>4. op' = op \/ (/\ op'[t].v = op[t].v /\ \A u \in Thread \ {t} : op'[u] = op[u])
  <2>1. Faults(s) => op' = op
    BY DEF Store
  <2> QED BY <1>3, <2>1
<1>5. ASSUME Sequential, ~overlapped' PROVE Sequential'
  <2>1. PICK w : w = Whole(t)
    OBVIOUS
  <2>2. Staged(t, w)
    BY <1>1, <1>5, <2>1 DEF Sequential, Knows
  <2>3. ~Faults(s)
    <3>1. op[t].todo \in Seq(Place \X Item \X Int) /\ op[t].todo # <<>>
      BY <2>2 DEF Staged
    <3>2. s = op[t].todo[1] /\ 1 \in 1..Len(op[t].todo)
      BY <3>1
    <3> QED BY <2>2, <3>2 DEF Staged, Reaches
  <2> HIDE DEF to, s, last
  <2>4. /\ op'[t].pc = to /\ op'[t].todo = Tail(op[t].todo) /\ op'[t].v = op[t].v
        /\ op'[t].does = op[t].does /\ \A u \in Thread \ {t} : op'[u] = op[u]
        /\ mem' = Stored(s) /\ process' = process
        /\ meant' = IF last THEN Whole(t) ELSE meant
    BY <1>3, <2>3
  <2>5. /\ ~last => Staged(t, w)'
        /\ last => \A c \in Cell : mem'[c] = Value(w, c)
    BY <1>1, <2>2, <2>4, StoreStages DEF last, s
  <2>6. CASE last
    <3>1. op'[t].pc = (IF op[t].does = "push" THEN "unlocks" ELSE "unmaps") /\ meant' = w
      BY <2>1, <2>4, <2>6 DEF to
    <3>2. WellFormed(meant.list, meant.prev, meant.next, OnList)'
      BY <1>1, <1>2, <1>5, <2>1, <2>4, <3>1, WholeKeepsList
    <3>3. Holding(meant)'
      BY <2>5, <2>6, <3>1 DEF Holding
    <3>4. Knows(t)'
      BY <3>1 DEF Knows
    <3> QED BY <1>1, <1>5, <2>4, <3>2, <3>3, <3>4, AtTheList
  <2>7. CASE ~last
    <3>1. op'[t].pc = "stores" /\ meant' = meant
      BY <2>4, <2>7 DEF to
    <3>2. OnList' = OnList
      <4>1. Linked(t)' <=> Linked(t)
        BY <1>1, <2>4, <3>1 DEF Linked
      <4>2. \A u \in Thread \ {t} : op'[u].v = op[u].v /\ (Linked(u)' <=> Linked(u))
        BY <2>4 DEF Linked
      <4> QED BY <1>1, <2>4, <4>1, <4>2, OnListStays
    <3>3. WellFormed(meant.list, meant.prev, meant.next, OnList)'
      BY <1>5, <3>1, <3>2 DEF Sequential
    <3>4. Knows(t)'
      <4>1. Whole(t)' = w
        BY <2>1, <2>4, <3>1 DEF Whole
      <4> QED BY <2>5, <2>7, <3>1, <4>1 DEF Knows
    <3> QED BY <1>1, <1>5, <2>4, <3>1, <3>3, <3>4, AtTheList
  <2> QED BY <2>6, <2>7
<1> QED BY <1>1, <1>4, <1>5, ThereKeeps

----------------------------------------------------------------------------
(* At first the list is empty.                                             *)
LEMMA ListInit == Init => ListInv
<1> SUFFICES ASSUME Init PROVE ListInv
  OBVIOUS
<1>1. Idle.pc = "idle" /\ Idle.does # "push"
  BY DEF Idle
<1>2. \A t \in Thread : op[t].pc = "idle" /\ op[t].does # "push"
  BY <1>1 DEF Init
<1>3. OnePlace
  BY <1>2 DEF Init, OnePlace
<1>4. OnList = {}
  <2>1. \A t \in Thread : ~Linked(t)
    BY <1>2 DEF Linked
  <2> HIDE DEF Linked
  <2> QED BY <2>1 DEF OnList, Init
<1>5. /\ meant.list = [size |-> 0, first |-> Null, last |-> Null]
      /\ meant.prev = [v \in Vpage |-> Null] /\ meant.next = [v \in Vpage |-> Null]
      /\ \A c \in Cell : mem[c] = Null
  BY DEF Init, EmptyList
<1>6. WellFormed(meant.list, meant.prev, meant.next, OnList)
  <2>1. /\ meant.list.size = 0 /\ meant.list.first = Null /\ meant.list.last = Null
        /\ meant.list \in [size : Nat, first : Item, last : Item]
    BY <1>5 DEF Item
  <2>2. /\ meant.prev \in [Vpage -> Item] /\ meant.next \in [Vpage -> Item]
        /\ \A v \in Vpage : meant.prev[v] = Null /\ meant.next[v] = Null
    BY <1>5 DEF Item
  <2> DEFINE none == [i \in 1..0 |-> 1]
  <2>3. none \in [1..0 -> Vpage] /\ \A i \in 1..0 : FALSE
    OBVIOUS
  <2> HIDE DEF none
  <2>4. Chain(none, meant.list, meant.prev, meant.next)
    BY <2>1, <2>3 DEF Chain
  <2>5. OnList = {none[i] : i \in 1..meant.list.size}
    BY <1>4, <2>1, <2>3
  <2> QED BY <2>1, <2>2, <2>4, <2>5 DEF WellFormed
<1>7. Holding(meant)
  <2> SUFFICES ASSUME NEW c \in Cell PROVE Value(meant, c) = Null
    BY <1>5 DEF Holding
  <2>1. CASE c \in {<<"size", Null>>, <<"first", Null>>, <<"last", Null>>}
    <3>1. meant.list.size = Null /\ meant.list.first = Null /\ meant.list.last = Null
      BY <1>5 DEF Null
    <3> QED BY <2>1, <3>1, Values
  <2>2. ASSUME NEW x \in Vpage, c \in {<<"prev", x>>, <<"next", x>>} PROVE Value(meant, c) = Null
    <3>1. meant.prev[x] = Null /\ meant.next[x] = Null
      BY <1>5
    <3> QED BY <2>2, <3>1, Values
  <2> QED BY <2>1, <2>2, Cells
<1>8. \A t \in Thread : ~Lists(t) /\ Knows(t)
  BY <1>2 DEF Lists, Knows
<1>9. Sequential
  BY <1>6, <1>7, <1>8 DEF Sequential, Init
<1> QED BY <1>3, <1>9 DEF ListInv

(* Every step keeps it what it is.                                         *)
LEMMA ListNext ==
  ASSUME LockInv, ListInv, [Next]_vars
  PROVE  ListInv'
<1>1. CASE UNCHANGED vars
  <2>1. UNCHANGED <<op, mem, held, unmapped, meant, process, overlapped>>
    BY <1>1 DEF vars, lockVars, listVars
  <2>2. OnList' = OnList /\ (OnePlace => OnePlace')
    BY <2>1 DEF OnList, Linked, OnePlace
  <2>3. \A t \in Thread : (Lists(t)' <=> Lists(t)) /\ (Knows(t) => Knows(t)')
    <3> SUFFICES ASSUME NEW t \in Thread PROVE (Lists(t)' <=> Lists(t)) /\ (Knows(t) => Knows(t)')
      OBVIOUS
    <3>1. Whole(t)' = Whole(t)
      BY <2>1 DEF Whole
    <3>2. Staged(t, Whole(t)) => Staged(t, Whole(t))'
      BY <2>1, <3>1 DEF Staged, Reaches
    <3> QED BY <2>1, <3>2 DEF Lists, Knows
  <2>4. Sequential => Sequential'
    <3> HIDE DEF Lists, Knows
    <3>1. Holding(meant) => Holding(meant)'
      BY <2>1 DEF Holding
    <3> QED BY <2>1, <2>2, <2>3, <3>1 DEF Sequential
  <2> QED BY <2>1, <2>2, <2>4 DEF ListInv
<1>2. ASSUME NEW t \in Thread, Step(t), Watch PROVE ListInv'
  BY <1>2, AllocateChunkLists, LookLists, ClearLists, AliasLists, DeallocateChunkLists, 
     RemoveOfLists, UnmapLists, LockLists, WaitLists, UnlockLists, WakeLists, StoreLists 
  DEF Step
<1> QED BY <1>1, <1>2 DEF Next

(* As long as no two of its operations were under way at once, the stores  *)
(* of push_back and remove make of the list what the operations make of it *)
(* as wholes, CheckConsistency finds nothing wrong with it, no store goes  *)
(* through a null pointer and no unmapped address is aliased: whatever a   *)
(* Ppage loses, it loses because DeallocateChunk gave back the mutex.      *)
THEOREM TheListIsAtomic == Spec => []AtomicUnlessOverlapped
<1>1. ASSUME ListInv PROVE AtomicUnlessOverlapped
  <2> SUFFICES ASSUME ~overlapped PROVE
        /\ process = "runs"
        /\ (\A t \in Thread : ~Lists(t)) => 
             /\ List = meant.list 
             /\ Links("prev") = meant.prev /\ Links("next") = meant.next
             /\ CheckConsistency(meant.list, meant.next)
    BY DEF AtomicUnlessOverlapped
  <2>1. Sequential
    BY <1>1 DEF ListInv
  <2>2. ASSUME \A t \in Thread : ~Lists(t) 
        PROVE  /\ List = meant.list 
               /\ Links("prev") = meant.prev /\ Links("next") = meant.next
               /\ CheckConsistency(meant.list, meant.next)
    <3>1. \A t \in Thread : op[t].pc # "stores"
      BY <2>2 DEF Lists
    <3>2. Holding(meant) /\ WellFormed(meant.list, meant.prev, meant.next, OnList)
      BY <2>1, <3>1 DEF Sequential
    <3> QED BY <3>2, Reading, WellFormedIsConsistent
  <2> QED BY <2>1, <2>2 DEF Sequential
<1> QED BY <1>1, LockInit, LockNext, ListInit, ListNext, PTL DEF Spec
=============================================================================
