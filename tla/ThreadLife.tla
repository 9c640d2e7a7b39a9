----------------------------- MODULE ThreadLife -----------------------------
(***************************************************************************)
(* The life of a thread under MEDS: the interceptor of pthread_create and  *)
(* asan_thread_start, which wait for each other over a parameter on the    *)
(* creator's stack; the registry of thread contexts; the AsanThread object *)
(* that holds the thread's allocator cache and is unmapped by the last     *)
(* destructor of thread-specific data; and the ring of per-cache           *)
(* statistics, into which a cache is entered and from which none is taken. *)
(***************************************************************************)
EXTENDS Integers, FiniteSets, Sequences

CONSTANTS
  Os, Main,          \* threads of the operating system, and the first one
  Address,           \* bound: where AsanThread objects can be mapped
  MaxThreads,        \* kMaxNumberOfThreads; also a bound
  Iterations,        \* GetPthreadDestructorIterations()
  Null, Globals      \* no object; the head of the ring

ASSUME ThreadAssumption == 
  /\ Main \in Os /\ Address # {} /\ Null \notin Address /\ Globals \notin Address
  /\ MaxThreads \in Nat \ {0} /\ Iterations \in Nat \ {0} /\ Null \notin 0..MaxThreads

VARIABLES
  pc,        \* where a thread is
  child,     \* the thread that a creator is waiting for
  param,     \* ThreadStartParam of a new thread, on its creator's stack
  this,      \* the thread's AsanThread
  tsd,       \* the context its thread-specific data points to
  threads,   \* the contexts, by tid
  dead, invalid,   \* dead_threads_ and invalid_threads_ of the registry
  alive, running,  \* alive_threads_ and running_threads_
  mapped,    \* AsanThread objects in memory, with the tid of their context
  ready,     \* those whose cache is initialised
  next, prev,      \* the ring of statistics
  process    \* "runs", or how it ended

registry == <<threads, dead, invalid, alive, running>>
memory   == <<mapped, ready, next, prev>>
vars     == <<pc, child, param, this, tsd, registry, memory, process>>

Tid == 0..(MaxThreads - 1)

NoParam == [t |-> Null, is_registered |-> FALSE, valid |-> FALSE]

(* asanThreadRegistry: as many dead contexts are kept as there are threads *)
(* at most, so that none is reused.                                        *)
(* Mutant: a quarantine of no context.                                     *)
NoQuarantine == 0
QuarantineSize == MaxThreads

(* The main thread was created and started during initialisation.          *)
Init ==
  \E a \in Address :
    /\ pc = [k \in Os |-> IF k = Main THEN "works" ELSE "none"]
    /\ child = [k \in Os |-> Null]
    /\ param = [k \in Os |-> NoParam]
    /\ this = [k \in Os |-> IF k = Main THEN a ELSE Null]
    /\ tsd = [k \in Os |-> IF k = Main THEN 0 ELSE Null]
    /\ threads = <<[status |-> "running", detached |-> FALSE, thread |-> a, 
                    iterations |-> Iterations]>>
    /\ dead = <<>> /\ invalid = <<>>
    /\ alive = 1 /\ running = 1
    /\ mapped = [x \in {a} |-> 0]
    /\ ready = {a}
    /\ next = [x \in {Globals, a} |-> IF x = a THEN Globals ELSE a]
    /\ prev = [x \in {Globals, a} |-> IF x = a THEN Globals ELSE a]
    /\ process = "runs"

At(k, where) == process = "runs" /\ pc[k] = where
Goto(k, where) == pc' = [pc EXCEPT ![k] = where]
Die(how) == 
  process' = how /\ UNCHANGED <<pc, child, param, this, tsd, registry, memory>>

(* A context by tid, and the context that GetCurrentThread finds.          *)
Context(tid) == threads[tid + 1]
GetCurrentThread(k) == IF tsd[k] = Null THEN Null ELSE Context(tsd[k]).thread

----------------------------------------------------------------------------
(* The creator: REAL(pthread_create), with the parameter on its stack.     *)
PthreadCreate(k) ==
  /\ At(k, "works")
  /\ \E c \in Os : 
       /\ pc[c] = "none"
       /\ pc' = [pc EXCEPT ![k] = "creates", ![c] = "spins"]
       /\ child' = [child EXCEPT ![k] = c]
       /\ param' = [param EXCEPT ![c] = [NoParam EXCEPT !.valid = TRUE]]
  /\ UNCHANGED <<this, tsd, registry, memory, process>>

(* AsanThread::Create maps the object.  ThreadRegistry::CreateThread takes *)
(* an invalid context or makes a new one, which begins with all iterations *)
(* of the destructor.                                                      *)
Fresh(thread, detached) == 
  [status |-> "created", detached |-> detached, thread |-> thread, 
   iterations |-> Iterations]

Register(tid, context) == 
  IF tid = Len(threads) THEN Append(threads, context)
  ELSE [threads EXCEPT ![tid + 1] = [context EXCEPT !.iterations = Context(tid).iterations]]

Create(k) ==
  LET c == child[k] IN
  /\ At(k, "creates")
  /\ \E a \in Address \ DOMAIN mapped, detached \in BOOLEAN :
       LET tid == IF invalid # <<>> THEN Head(invalid) ELSE Len(threads) IN
       /\ tid < MaxThreads
       /\ threads' = Register(tid, Fresh(a, detached))
       /\ invalid' = IF invalid # <<>> THEN Tail(invalid) ELSE invalid
       /\ mapped' = [x \in DOMAIN mapped \cup {a} |-> IF x = a THEN tid ELSE mapped[x]]
       /\ this' = [this EXCEPT ![c] = a]
  /\ alive' = alive + 1
  /\ Goto(k, "tells")
  /\ UNCHANGED <<child, param, tsd, dead, running, ready, next, prev, process>>

(* MmapOrDie, and the limit of the registry.                               *)
LimitExceeded(k) ==
  /\ At(k, "creates") 
  /\ \/ Address \subseteq DOMAIN mapped
     \/ invalid = <<>> /\ Len(threads) = MaxThreads
  /\ Die("limit exceeded")

Tell(k) ==
  /\ At(k, "tells")
  /\ param' = [param EXCEPT ![child[k]].t = this[child[k]]]
  /\ Goto(k, "waits")
  /\ UNCHANGED <<child, this, tsd, registry, memory, process>>

(* The interceptor returns, and the parameter is gone.                     *)
(* Mutant: the creator does not wait for is_registered.                    *)
NoWait(k) == TRUE
MayReturn(k) == param[child[k]].is_registered

Return(k) ==
  /\ At(k, "waits") /\ MayReturn(k)
  /\ param' = [param EXCEPT ![child[k]] = NoParam]
  /\ child' = [child EXCEPT ![k] = Null]
  /\ Goto(k, "works")
  /\ UNCHANGED <<this, tsd, registry, memory, process>>

----------------------------------------------------------------------------
(* The new thread: asan_thread_start waits for its AsanThread and makes it *)
(* the current one.                                                        *)
SetCurrentThread(k) ==
  /\ At(k, "spins") /\ param[k].t # Null
  /\ IF tsd[k] # Null THEN Die("check failed")
     ELSE /\ tsd' = [tsd EXCEPT ![k] = mapped[param[k].t]]
          /\ Goto(k, "initialises")
          /\ UNCHANGED <<child, param, this, registry, memory, process>>

(* AllocatorGlobalStats::Register: the back links with s behind the head.  *)
(* Mutant: next_ is set before the entry it led to is told.                *)
BackToSelf(s, first) == 
  [x \in DOMAIN prev \cup {s} |-> IF x = s THEN s ELSE prev[x]]
BackLinks(s, first) == 
  [x \in DOMAIN prev \cup {s} |-> IF x = first THEN s ELSE IF x = s THEN Globals ELSE prev[x]]

(* AsanThread::Init: InitCache clears the statistics of the new cache and  *)
(* enters them behind the head of the ring, which writes to the first      *)
(* entry.  If that entry's object was unmapped, the write faults, unless   *)
(* another object has been mapped there: a cache of its own that is not    *)
(* initialised yet will clear what was written.                            *)
InitCache(k) ==
  LET s == this[k] 
      first == next[Globals] IN
  /\ At(k, "initialises")
  /\ IF first \notin {Globals} \cup DOMAIN mapped THEN Die("faulted")
     ELSE /\ next' = [x \in DOMAIN next \cup {s} |-> 
                        IF x = s THEN first ELSE IF x = Globals THEN s ELSE next[x]]
          /\ prev' = BackLinks(s, first)
          /\ ready' = ready \cup {s}
          /\ Goto(k, "starts")
          /\ UNCHANGED <<child, param, this, tsd, registry, mapped, process>>

(* ThreadRegistry::StartThread.                                            *)
StartThread(k) ==
  LET tid == mapped[this[k]] IN
  /\ At(k, "starts")
  /\ IF Context(tid).status # "created" THEN Die("check failed")
     ELSE /\ running' = running + 1
          /\ threads' = [threads EXCEPT ![tid + 1].status = "running"]
          /\ Goto(k, "signals")
          /\ UNCHANGED <<child, param, this, tsd, dead, invalid, alive, memory, process>>

(* Mutant: the creator of a detached thread is not told.                   *)
UnlessDetached(k) == ~Context(mapped[this[k]]).detached
Registered(k) == TRUE

Signal(k) ==
  /\ At(k, "signals")
  /\ param' = [param EXCEPT ![k].is_registered = Registered(k)]
  /\ Goto(k, "works")
  /\ UNCHANGED <<child, this, tsd, registry, memory, process>>

(* The start routine returns; the destructors of thread-specific data run  *)
(* in rounds.  The one of MEDS puts its value back in every round but the  *)
(* last.                                                                   *)
Finish(k) ==
  /\ At(k, "works") /\ k # Main
  /\ Goto(k, "destructs")
  /\ UNCHANGED <<child, param, this, tsd, registry, memory, process>>

(* Mutant: the value is not put back.                                      *)
Forgets(k) == [tsd EXCEPT ![k] = Null]
PutBack(k) == tsd

PlatformTSDDtor(k) ==
  /\ At(k, "destructs") /\ tsd[k] # Null
  /\ IF Context(tsd[k]).iterations > 1
     THEN /\ threads' = [threads EXCEPT ![tsd[k] + 1].iterations = @ - 1]
          /\ tsd' = PutBack(k)
          /\ UNCHANGED <<pc, this>>
     ELSE /\ tsd' = [tsd EXCEPT ![k] = Null]
          /\ this' = [this EXCEPT ![k] = Context(tsd[k]).thread]
          /\ Goto(k, IF this'[k] = Null THEN "late" ELSE "destroys")
          /\ UNCHANGED threads
  /\ UNCHANGED <<child, param, dead, invalid, alive, running, memory, process>>

(* AsanThread::Destroy, first half: FinishThread drops the context's link  *)
(* to the object; the context of a detached thread dies and is queued.     *)
(* Mutant: OnFinished keeps the link.                                      *)
LinkStays(context) == context.thread
OnFinished(context) == Null

(* Mutant: only a detached thread changes its state.                       *)
StillRunning(context) == 
  [context EXCEPT !.status = IF context.detached THEN "dead" ELSE @, 
                  !.thread = OnFinished(context)]
Finished(context) == 
  [context EXCEPT !.status = IF context.detached THEN "dead" ELSE "finished", 
                  !.thread = OnFinished(context)]

Reset(context) == [context EXCEPT !.status = "invalid"]

FinishThread(k) ==
  LET tid   == mapped[this[k]]
      ended == [threads EXCEPT ![tid + 1] = Finished(@)]
      queue == IF Context(tid).detached THEN Append(dead, tid) ELSE dead IN
  /\ At(k, "destroys")
  /\ IF Context(tid).status # "running" \/ alive = 0 \/ running = 0 THEN Die("check failed")
     ELSE /\ alive' = alive - 1 /\ running' = running - 1
          /\ IF Len(queue) <= QuarantineSize 
             THEN dead' = queue /\ threads' = ended /\ UNCHANGED invalid
             ELSE /\ dead' = Tail(queue)
                  /\ threads' = [ended EXCEPT ![Head(queue) + 1] = Reset(@)]
                  /\ invalid' = Append(invalid, Head(queue))
          /\ Goto(k, "unmaps")
          /\ UNCHANGED <<child, param, this, tsd, memory, process>>

(* Second half: the object is unmapped, and with it the cache and its      *)
(* place in the ring.  DestroyCache is not called.                         *)
Unmap(k) ==
  LET Without(f) == [x \in DOMAIN f \ {this[k]} |-> f[x]] IN
  /\ At(k, "unmaps")
  /\ mapped' = Without(mapped) 
  /\ next' = Without(next) /\ prev' = Without(prev)
  /\ ready' = ready \ {this[k]}
  /\ this' = [this EXCEPT ![k] = Null]
  /\ Goto(k, "late")
  /\ UNCHANGED <<child, param, tsd, registry, process>>

(* Destructors of others may still run, then the thread is gone.           *)
End(k) ==
  /\ At(k, "late")
  /\ Goto(k, "gone")
  /\ UNCHANGED <<child, param, this, tsd, registry, memory, process>>

Creator(k) == PthreadCreate(k) \/ Create(k) \/ LimitExceeded(k) \/ Tell(k) \/ Return(k)
Starts(k)  == SetCurrentThread(k) \/ InitCache(k) \/ StartThread(k) \/ Signal(k)
Ends(k)    == Finish(k) \/ PlatformTSDDtor(k) \/ FinishThread(k) \/ Unmap(k) \/ End(k)

Next == \E k \in Os : Creator(k) \/ Starts(k) \/ Ends(k)

(* The scheduler runs every thread that is creating or starting.           *)
Fairness == 
  \A k \in Os : WF_vars(Create(k) \/ LimitExceeded(k) \/ Tell(k) \/ Return(k)) /\ WF_vars(Starts(k))

Spec == Init /\ [][Next]_vars

FairSpec == Spec /\ Fairness
----------------------------------------------------------------------------
Having(statuses) == Cardinality({i \in 1..Len(threads) : threads[i].status \in statuses})

(* The types; the counters of the registry, which the limit and the        *)
(* reports rely on, are the numbers of contexts in the respective states;  *)
(* none of the CHECKs of SetCurrentThread, StartThread and FinishThread    *)
(* fails, whatever the order of creations, starts and ends.                *)
TypeOK ==
  /\ DOMAIN mapped \subseteq Address /\ ready \subseteq DOMAIN mapped
  /\ Len(threads) <= MaxThreads
  /\ DOMAIN next = {Globals} \cup ready /\ DOMAIN prev = DOMAIN next
  /\ alive = Having({"created", "running"}) /\ running = Having({"running"})
  /\ process # "check failed"

(* A context that names an AsanThread names one in memory whose context it *)
(* is: the searches over all threads (FindThreadByStackAddress, under the  *)
(* registry's mutex) read through this link while threads end.             *)
LinksMapped == 
  \A tid \in 0..(Len(threads) - 1) : 
    LET a == Context(tid).thread IN a # Null => a \in DOMAIN mapped /\ mapped[a] = tid

(* When pthread_create returns, the new thread is registered as started    *)
(* and no longer needs the parameter on its creator's stack.               *)
ReturnsStarted ==
  \A k \in Os : pc[k] \in {"spins", "initialises", "starts", "signals"} => param[k].valid

(* Application code runs with an initialised cache: from the first malloc  *)
(* of the start-up (GetThreadStackAndTls) to the last round but one of the *)
(* destructors, GetCurrentThread is this thread's object, in memory and    *)
(* with a cache.  (Later destructors use fallback_cache.)                  *)
CacheReady ==
  \A k \in Os : pc[k] \in {"starts", "signals", "works", "creates", "tells", "waits", "destructs"} =>
    GetCurrentThread(k) \in ready /\ mapped[GetCurrentThread(k)] = tsd[k]

(* "Never reuse ASan threads": while an object is in memory, which is      *)
(* longer than its context is alive, no other thread has its context.      *)
ContextsOwned == \A a, b \in DOMAIN mapped : mapped[a] = mapped[b] => a = b

(* Until the first thread has ended the ring is sound: every cache is in   *)
(* it once, and the two directions agree.                                  *)
RingSound ==
  (\A k \in Os : pc[k] \notin {"late", "gone"}) =>
    /\ \A x \in DOMAIN next : next[x] \in DOMAIN next /\ prev[next[x]] = x
    /\ \A x, y \in DOMAIN next : next[x] = next[y] => x = y

(* What the allocator's test shows of the interface (DestroyCache at the   *)
(* end of a cache) and "Per-thread stats, live in per-thread cache" need:  *)
(* the ring leads to statistics in memory only.                            *)
RingInMemory == \A x \in DOMAIN next : next[x] \in DOMAIN next

(* Creator and new thread wait for each other; the creator gets on, and    *)
(* with it the thread it waits for, unless the process has ended.          *)
CreationReturns ==
  \A k \in Os : pc[k] = "creates" ~> pc[k] = "works" \/ process # "runs"
=============================================================================
