----------------------------- MODULE PpageVlist -----------------------------
(***************************************************************************)
(* The vlist of one Ppage, one store at a time.  AllocateChunk appends a   *)
(* new Vpage while it holds the mutex of the Ppage; DeallocateChunk takes  *)
(* the mutex and releases it again, in one statement, and only then        *)
(* removes its Vpage.  The mutex is BlockingMutex over a futex.            *)
(*                                                                         *)
(* AliasingHeap has the two list operations as single steps.  Here         *)
(* `meant' goes through the same operations as single steps, and           *)
(* `overlapped' remembers whether two of them were ever under way at once. *)
(*                                                                         *)
(* The Vpage a Ppage is created for is not on the list and is left out.    *)
(* Stores are seen in program order; of what two unordered operations do   *)
(* to the list nothing is claimed.                                         *)
(***************************************************************************)
EXTENDS DoubleList, FiniteSets

CONSTANTS
  Thread,
  MaxPushes          \* bound: Vpages, each appended and removed once at most

ASSUME VlistAssumption == MaxPushes \in Nat

VARIABLES
  word,              \* the mutex
  asleep,            \* threads that wait in the futex
  mem,               \* the list's memory: cell |-> value
  made,              \* Vpages made so far
  held,              \* those the program can free
  unmapped,          \* those whose address has no memory any more
  op,                \* op[t]: what thread t is doing
  process,           \* "runs", or how it ended
  meant,             \* history: the list, changed by whole operations
  overlapped         \* history: two list operations were under way at once

lockVars == <<word, asleep>>
listVars == <<mem, made, held, unmapped, meant>>
vars == <<lockVars, listVars, op, process, overlapped>>

MtxUnlocked == 0
MtxLocked   == 1
MtxSleeping == 2

Vpage == 1..MaxPushes
Idle  == [pc |-> "idle", does |-> "none", v |-> Null, orig |-> Null, todo |-> <<>>]

(***************************************************************************)
(* Cells of memory, and the list they hold.                                *)
(***************************************************************************)
Cell == ({"size", "first", "last"} \X {Null}) \cup ({"prev", "next"} \X Vpage)

Get(field, v) == mem[<<field, v>>]
List == [size |-> Get("size", Null), first |-> Get("first", Null), last |-> Get("last", Null)]
Links(field) == [v \in Vpage |-> Get(field, v)]

Init ==
  /\ word = MtxUnlocked /\ asleep = {}
  /\ mem = [c \in Cell |-> Null]
  /\ made = 0 /\ held = {} /\ unmapped = {}
  /\ op = [t \in Thread |-> Idle]
  /\ process = "runs"
  /\ meant = [list |-> EmptyList, prev |-> [v \in Vpage |-> Null], 
              next |-> [v \in Vpage |-> Null]]
  /\ overlapped = FALSE

At(t, pc)   == process = "runs" /\ op[t].pc = pc
Goto(t, pc) == op' = [op EXCEPT ![t].pc = pc]

(***************************************************************************)
(* BlockingMutex.                                                          *)
(***************************************************************************)
(* Mutant: the first exchange succeeds on a locked mutex nobody sleeps for.*)
TakenIfNotSlept(old) == old # MtxSleeping

Taken(old) == old = MtxUnlocked

Locked(t) == Goto(t, IF op[t].does = "push" THEN "looks" ELSE "unlocks")

Lock(t) ==
  \/ /\ At(t, "locks")
     /\ word' = MtxLocked
     /\ IF Taken(word) THEN Locked(t) ELSE Goto(t, "contends")
     /\ UNCHANGED <<asleep, listVars, process>>
  \/ /\ At(t, "contends")
     /\ word' = MtxSleeping
     /\ IF word = MtxUnlocked THEN Locked(t) ELSE Goto(t, "waits")
     /\ UNCHANGED <<asleep, listVars, process>>

(* Mutant: FUTEX_WAIT is content with any word but MtxUnlocked.            *)
SleepsIfTaken(now) == now # MtxUnlocked

Sleeps(now) == now = MtxSleeping

(* FUTEX_WAIT goes to sleep only if the word still says so.                *)
Wait(t) ==
  /\ At(t, "waits") /\ t \notin asleep
  /\ IF Sleeps(word) THEN asleep' = asleep \cup {t} /\ UNCHANGED op
     ELSE Goto(t, "contends") /\ UNCHANGED asleep
  /\ UNCHANGED <<word, listVars, process>>

(* Mutant: sleepers are woken when there are none.                         *)
WakesIfLocked(old) == old = MtxLocked

Wakes(old) == old = MtxSleeping

(* Then the pusher returns its chunk, and the other one removes.           *)
Released(t, o) == [o EXCEPT ![t] = IF @.does = "push" THEN Idle ELSE [@ EXCEPT !.pc = "tests"]]
Returned(t) == IF op[t].does = "push" THEN {op[t].v} ELSE {}

(* CHECK_NE(v, MtxUnlocked) passes while only the holder unlocks.          *)
Unlock(t) ==
  /\ At(t, "unlocks")
  /\ word' = MtxUnlocked
  /\ IF word = MtxUnlocked THEN process' = "check_failed" /\ UNCHANGED <<op, held>>
     ELSE /\ op' = IF Wakes(word) THEN [op EXCEPT ![t].pc = "wakes"] ELSE Released(t, op)
          /\ held' = held \cup (IF Wakes(word) THEN {} ELSE Returned(t))
          /\ UNCHANGED process
  /\ UNCHANGED <<asleep, mem, made, unmapped, meant>>

(* FUTEX_WAKE, of one sleeper.                                             *)
Wake(t) ==
  /\ At(t, "wakes")
  /\ held' = held \cup Returned(t)
  /\ IF asleep = {} THEN op' = Released(t, op) /\ UNCHANGED asleep
     ELSE \E u \in asleep : 
            /\ asleep' = asleep \ {u}
            /\ op' = [Released(t, op) EXCEPT ![u].pc = "contends"]
  /\ UNCHANGED <<word, mem, made, unmapped, meant, process>>

(***************************************************************************)
(* Stores to the list's memory: <<field, of, value>>, where "adds" stands  *)
(* for ++ and --, and a store through a null pointer is a fault.           *)
(***************************************************************************)
Stored(s) ==
  IF s[1] = "adds" THEN [mem EXCEPT ![<<"size", Null>>] = @ + s[3]]
  ELSE [mem EXCEPT ![<<s[1], s[2]>>] = s[3]]

Faults(s) == s[1] \in {"prev", "next"} /\ s[2] = Null

(* push_back, behind the stores to v itself, which nobody else knows yet.  *)
PushedFirst(v) == << <<"last", Null, v>>, <<"first", Null, v>>, <<"size", Null, 1>> >>

(* Mutant: the new last item is not counted.                               *)
PushedUncounted(v) ==
  IF IsEmpty(List) THEN PushedFirst(v)
  ELSE << <<"next", List.last, v>>, <<"last", Null, v>> >>

Pushed(v) ==
  IF IsEmpty(List) THEN PushedFirst(v)
  ELSE << <<"next", List.last, v>>, <<"last", Null, v>>, <<"adds", Null, 1>> >>

Owned(v) == [mem EXCEPT ![<<"next", v>>] = Null,
                        ![<<"prev", v>>] = IF IsEmpty(List) THEN Null ELSE List.last]

Removed(v) ==
  LET n == Get("next", v)
      p == Get("prev", v)
      unlink == CASE n # Null /\ p # Null -> << <<"prev", n, p>>, <<"next", p, n>> >>
                  [] n # Null /\ p = Null -> << <<"prev", n, Null>>, <<"first", Null, n>> >>
                  [] n = Null /\ p # Null -> << <<"next", p, Null>>, <<"last", Null, p>> >>
                  [] OTHER -> << <<"first", Null, Null>>, <<"last", Null, Null>> >>
  IN  unlink \o << <<"next", v, Null>>, <<"prev", v, Null>>, <<"adds", Null, -1>> >>

(* What the whole operation makes of a list.                               *)
Whole(t) ==
  IF op[t].does = "push" THEN PushBack(meant.list, meant.prev, meant.next, op[t].v)
  ELSE Remove(meant.list, meant.prev, meant.next, op[t].v)

(* Behind the last store push_back is followed by the Unlock, remove by    *)
(* MmapFixedNoAccess.                                                      *)
Store(t) ==
  /\ At(t, "stores")
  /\ LET s    == Head(op[t].todo) 
         last == Len(op[t].todo) = 1
     IN
     IF Faults(s) THEN process' = "faults" /\ UNCHANGED <<mem, op, meant>>
     ELSE /\ mem' = Stored(s)
          /\ op' = [op EXCEPT ![t].todo = Tail(@), 
                              ![t].pc = IF ~last THEN "stores" 
                                        ELSE IF op[t].does = "push" THEN "unlocks" ELSE "unmaps"]
          /\ meant' = IF last THEN Whole(t) ELSE meant
          /\ UNCHANGED process
  /\ UNCHANGED <<lockVars, made, held, unmapped>>

(***************************************************************************)
(* AllocateChunk, for a free piece of the Ppage.                           *)
(***************************************************************************)
AllocateChunk(t) ==
  /\ At(t, "idle") /\ made < MaxPushes
  /\ made' = made + 1
  /\ op' = [op EXCEPT ![t] = [Idle EXCEPT !.pc = "locks", !.does = "push", !.v = made + 1]]
  /\ UNCHANGED <<lockVars, mem, held, unmapped, meant, process>>

(* vlist.empty(), then front()->addr.                                      *)
Look(t) ==
  /\ At(t, "looks")
  /\ IF ~IsEmpty(List) /\ Front(List) = Null 
     THEN process' = "faults" /\ UNCHANGED op
     ELSE /\ op' = [op EXCEPT ![t].pc = IF IsEmpty(List) THEN "clears" ELSE "aliases",
                              ![t].orig = Front(List)]
          /\ UNCHANGED process
  /\ UNCHANGED <<lockVars, listVars>>

(* MmapAliasing, clear(), and push_back begins.                            *)
Clear(t) ==
  /\ At(t, "clears")
  /\ mem' = [c \in Cell |-> IF c[2] \in {Null, op[t].v} THEN Null ELSE mem[c]]
  /\ op' = [op EXCEPT ![t].pc = "stores", ![t].todo = PushedFirst(op[t].v)]
  /\ UNCHANGED <<lockVars, made, held, unmapped, meant, process>>

(* MremapAliasing, which cannot alias an address without memory, and       *)
(* push_back begins.                                                       *)
Alias(t) ==
  /\ At(t, "aliases")
  /\ IF op[t].orig \in unmapped 
     THEN process' = "loses its memory" /\ UNCHANGED <<op, mem>>
     ELSE /\ mem' = Owned(op[t].v)
          /\ op' = [op EXCEPT ![t].pc = "stores", ![t].todo = Pushed(op[t].v), ![t].orig = Null]
          /\ UNCHANGED process
  /\ UNCHANGED <<lockVars, made, held, unmapped, meant>>

(***************************************************************************)
(* DeallocateChunk.                                                        *)
(***************************************************************************)
DeallocateChunk(t) ==
  /\ At(t, "idle")
  /\ \E v \in held :
       /\ held' = held \ {v}
       /\ op' = [op EXCEPT ![t] = [Idle EXCEPT !.pc = "locks", !.does = "remove", !.v = v]]
  /\ UNCHANGED <<lockVars, mem, made, unmapped, meant, process>>

(* vlist.remove reads the links, without the mutex.                        *)
RemoveOf(t) ==
  /\ At(t, "tests")
  /\ IF IsEmpty(List) 
     THEN Goto(t, "unmaps") /\ meant' = Whole(t)
     ELSE /\ op' = [op EXCEPT ![t].pc = "stores", ![t].todo = Removed(op[t].v)]
          /\ UNCHANGED meant
  /\ UNCHANGED <<lockVars, mem, made, held, unmapped, process>>

(* MmapFixedNoAccess.                                                      *)
Unmap(t) ==
  /\ At(t, "unmaps")
  /\ unmapped' = unmapped \cup {op[t].v}
  /\ op' = [op EXCEPT ![t] = Idle]
  /\ UNCHANGED <<lockVars, mem, made, held, meant, process>>

Step(t) ==
  \/ AllocateChunk(t) \/ Look(t) \/ Clear(t) \/ Alias(t)
  \/ DeallocateChunk(t) \/ RemoveOf(t) \/ Unmap(t)
  \/ Lock(t) \/ Wait(t) \/ Unlock(t) \/ Wake(t) \/ Store(t)

(* A thread between its first look at the list and its last store.         *)
Lists(t) == op[t].pc \in {"looks", "clears", "aliases", "tests", "stores"}

Watch == overlapped' = (overlapped \/ Cardinality({t \in Thread : Lists(t)})' > 1)

Next == (\E t \in Thread : Step(t)) /\ Watch

Spec == Init /\ [][Next]_vars

(* Every running thread is scheduled again; calls are not forced to begin. *)
Proceed(t) == op[t].pc # "idle" /\ Step(t) /\ Watch
FairSpec == Spec /\ \A t \in Thread : WF_vars(Proceed(t))

(***************************************************************************)
(* Properties.                                                             *)
(***************************************************************************)
Holds(t) == \/ op[t].pc \in {"looks", "clears", "aliases", "unlocks"}
            \/ op[t].pc = "stores" /\ op[t].does = "push"

(* Types; and the mutex excludes: at most one thread is between Lock and   *)
(* Unlock, and the word says so, so that no CHECK_NE(v, MtxUnlocked) of an *)
(* Unlock fails, whatever the removals without the mutex do to the list.   *)
Exclusive ==
  /\ word \in {MtxUnlocked, MtxLocked, MtxSleeping}
  /\ asleep \subseteq {t \in Thread : op[t].pc = "waits"}
  /\ DOMAIN mem = Cell /\ made \in 0..MaxPushes
  /\ held \subseteq 1..made /\ unmapped \subseteq 1..made
  /\ process # "check_failed"
  /\ Cardinality({t \in Thread : Holds(t)}) <= 1
  /\ (word = MtxUnlocked) = (\A t \in Thread : ~Holds(t))

(* As long as a thread sleeps in the futex, somebody is going to wake it:  *)
(* the holder, whose Unlock finds the word of sleepers, or a thread that   *)
(* is about to wake one or to write that word.  So no Unlock finds a plain *)
(* MtxLocked with all the others asleep, and no wake-up is lost between    *)
(* the exchange of a waiting thread and its FUTEX_WAIT.                    *)
NoLostWakeup ==
  asleep # {} => \/ word = MtxSleeping /\ \E t \in Thread : Holds(t)
                 \/ \E t \in Thread : op[t].pc \in {"contends", "wakes"}

(* As long as no two list operations were under way at once, the list is   *)
(* what the whole operations make of it whenever none is under way: so a   *)
(* step of AliasingHeap stands for all stores of push_back and remove, and *)
(* the fault, the lost update and the alias of an unmapped front need the  *)
(* mutex that DeallocateChunk has already given back.                      *)
AtomicUnlessOverlapped ==
  ~overlapped => 
    /\ process = "runs"
    /\ (\A t \in Thread : ~Lists(t)) => 
         /\ List = meant.list 
         /\ Links("prev") = meant.prev /\ Links("next") = meant.next
         /\ CheckConsistency(meant.list, meant.next)

(* Every call comes to its end, unless the process has ended: whoever is   *)
(* to wake a sleeper gets there.  There are finitely many calls, so all    *)
(* threads are idle again and again.                                       *)
CallsReturn == 
  []<>(process # "runs" \/ \A t \in Thread : op[t].pc = "idle")
=============================================================================
