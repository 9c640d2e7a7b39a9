------------------------- MODULE AddrHashMap_proofs -------------------------
(***************************************************************************)
(* The invariants of one bucket of AddrHashMap, that it implements         *)
(* LinearMap, also while Iterators walk through it, and what the Iterators *)
(* visit, for any number of threads, keys, values and embedded cells.      *)
(***************************************************************************)
EXTENDS AddrHashMapIterator, FiniteSetTheorems, WellFoundedInduction, TLAPS

----------------------------------------------------------------------------
(* The inductive invariant.                                                *)

(* A Handle that has the lock to write: for a removal or for a new element *)
(* it is kept from acquire to the end of release.                          *)
Writes(t) ==
  \/ call[t].pc \in {"held", "used"} /\ (call[t].kind = "remove" \/ call[t].created)
  \/ call[t].pc \in {"compact", "unlock"}

(* One that has it to read: for an added cell it has found.                *)
Reads(t) == call[t].pc \in {"held", "used"} /\ ~Writes(t) /\ ~Emb(t)

LocksOK ==
  /\ \A t \in Thread : writer = t <=> Writes(t)
  /\ \A t \in Thread : Reads(t) => readers[t] # 0
  /\ \A t, u \in Thread : Writes(t) => ~Reads(u)

(* The cell of a Handle exists; one that was found has the key, one that   *)
(* was created is not visible yet, and no other cell has its key.          *)
Located(t) ==
  IF Emb(t) THEN Index(t) \in 1..Embedded
  ELSE call[t].cell = InAdd(Index(t)) /\ Index(t) \in 1..add.size

Found(t) ==
  /\ Content(t).addr = call[t].key
  /\ call[t].kind = "remove" /\ call[t].pc = "used" => call[t].val = Content(t).val

Created(t) ==
  /\ call[t].kind = "insert"
  /\ Content(t).addr = NoKey /\ ~Present(call[t].key)
  /\ call[t].pc = "used" => Content(t).val = call[t].val

CellOK(t) == Located(t) /\ IF call[t].created THEN Created(t) ELSE Found(t)

(* What is known of a Handle wherever it is.                               *)
CallOK(t) ==
  /\ call[t].pc = "idle" => call[t] = Idle
  /\ call[t].pc # "idle" => call[t].key \in Key
  /\ call[t].pc # "idle" /\ call[t].kind = "insert" => call[t].val \in Value
  /\ call[t].pc \in {"scan", "peek", "readlock"} => call[t].kind # "remove"
  /\ call[t].pc \in {"scan", "peek", "readlock", "lock", "held"} /\ call[t].kind # "insert" => 
       call[t].val = NoValue
  /\ call[t].pc = "missed" => call[t].val = NoValue
  /\ call[t].pc \in {"held", "used"} => CellOK(t)
  /\ call[t].pc = "compact" => 
       Emb(t) /\ Index(t) \in 1..Embedded /\ embed[Index(t)].addr = NoKey

(* What the callers of the map see to, now and later.                      *)
KeysApart ==
  \A t, u \in Thread :
    /\ t # u /\ call[t].pc # "idle" /\ call[u].pc # "idle" /\ call[t].key = call[u].key
    => call[t].kind # "remove" /\ call[u].kind # "remove"

UniqueKeys ==
  \A k \in Key :
    /\ \A i, j \in EmbedAt(k) : i = j
    /\ \A i, j \in AddedAt(k) : i = j
    /\ EmbedAt(k) = {} \/ AddedAt(k) = {}

MapInv ==
  /\ TypeOK /\ ~failed
  /\ LocksOK
  /\ \A t \in Thread : CallOK(t)
  /\ KeysApart /\ UniqueKeys

Types ==
  /\ embed \in [1..Embedded -> Cell]
  /\ add \in [gen : Nat, cap : Nat, size : 0..add.cap, cells : [1..add.cap -> Cell]]
  /\ writer \in Thread \cup {NoThread} /\ readers \in [Thread -> Nat]
  /\ call \in [Thread -> Call]
  /\ calls \in 0..MaxCalls
  /\ failed \in BOOLEAN

----------------------------------------------------------------------------
(* What the steps do to the cells.                                         *)

(* The first of a set of cells is one of them.                             *)
LEMMA FirstOf ==
  ASSUME NEW S, S \subseteq Nat, S # {}
  PROVE  First(S) \in S /\ First(S) \in Nat
<1> DEFINE Less == {ss \in Nat \X Nat : ss[1] < ss[2]}
<1>1. IsWellFoundedOn(Less, Nat)
  BY NatLessThanWellFounded, Zenon DEF OpToRel
<1>2. \A x, y \in Nat : <<x, y>> \in Less <=> x < y
  OBVIOUS
<1> HIDE DEF Less
<1>3. \E i \in S : \A j \in S : ~ (<<j, i>> \in Less)
  BY <1>1, WFMin
<1>4. PICK i \in S : \A j \in S : ~ (<<j, i>> \in Less)
  BY <1>3
<1>5. ASSUME NEW j \in S PROVE i <= j
  <2>1. i \in Nat /\ j \in Nat /\ ~ (<<j, i>> \in Less)
    BY <1>4
  <2>2. ~ (j < i)
    BY <1>2, <2>1
  <2> QED BY <2>1, <2>2
<1> QED
  BY <1>5 DEF First

(* Where a key is there is a cell with it.                                 *)
LEMMA FirstCells ==
  ASSUME Types, NEW k
  PROVE  /\ EmbedAt(k) # {} => /\ First(EmbedAt(k)) \in 1..Embedded
                               /\ embed[First(EmbedAt(k))].addr = k
         /\ AddedAt(k) # {} => /\ First(AddedAt(k)) \in 1..add.size
                               /\ add.cells[First(AddedAt(k))].addr = k
<1>1. EmbedAt(k) \subseteq Nat /\ AddedAt(k) \subseteq Nat
  BY MapAssumption DEF Types, EmbedAt, AddedAt
<1>2. /\ EmbedAt(k) # {} => First(EmbedAt(k)) \in EmbedAt(k)
      /\ AddedAt(k) # {} => First(AddedAt(k)) \in AddedAt(k)
  BY <1>1, FirstOf
<1> QED
  BY <1>2 DEF Types, EmbedAt, AddedAt

(* The cell of a Handle that has one.                                      *)
LEMMA CellType ==
  ASSUME Types, NEW t \in Thread, Located(t)
  PROVE  /\ Content(t) \in Cell /\ Index(t) \in Nat
         /\ Emb(t) => Index(t) \in 1..Embedded /\ Content(t) = embed[Index(t)]
         /\ ~Emb(t) => /\ Index(t) \in 1..add.size /\ Index(t) \in 1..add.cap
                       /\ Content(t) = add.cells[Index(t)]
BY MapAssumption DEF Types, Located, Content

(* A store to the cell of a Handle changes nothing else.                   *)
LEMMA SetCellEffect ==
  ASSUME Types, NEW t \in Thread, Located(t), NEW c \in Cell, SetCell(t, c)
  PROVE  /\ embed' \in [1..Embedded -> Cell]
         /\ add' \in [gen : Nat, cap : Nat, size : 0..add'.cap, cells : [1..add'.cap -> Cell]]
         /\ add'.gen = add.gen /\ add'.cap = add.cap /\ add'.size = add.size
         /\ \A i \in 1..Embedded : embed'[i] = IF Emb(t) /\ i = Index(t) THEN c ELSE embed[i]
         /\ \A i \in 1..add.cap : 
              add'.cells[i] = IF ~Emb(t) /\ i = Index(t) THEN c ELSE add.cells[i]
<1>1. CASE Emb(t)
  <2>1. embed' = [embed EXCEPT ![Index(t)] = c] /\ add' = add
    BY <1>1 DEF SetCell
  <2> QED BY <1>1, <2>1, CellType DEF Types
<1>2. CASE ~Emb(t)
  <2>1. add' = [add EXCEPT !.cells[Index(t)] = c] /\ embed' = embed
    BY <1>2 DEF SetCell
  <2>2. /\ add'.gen = add.gen /\ add'.cap = add.cap /\ add'.size = add.size
        /\ add'.cells = [add.cells EXCEPT ![Index(t)] = c]
    BY <2>1 DEF Types
  <2>3. add'.cells \in [1..add.cap -> Cell]
    BY <2>2, <1>2, CellType DEF Types
  <2>4. add' \in [gen : Nat, cap : Nat, size : 0..add'.cap, cells : [1..add'.cap -> Cell]]
    BY <2>1, <2>2, <2>3 DEF Types
  <2>5. \A i \in 1..add.cap : add'.cells[i] = IF i = Index(t) THEN c ELSE add.cells[i]
    BY <2>2, <1>2 DEF Types
  <2> QED BY <1>2, <2>1, <2>2, <2>4, <2>5 DEF Types
<1> QED BY <1>1, <1>2

ArrayType == [gen : Nat, cap : Nat, size : 0..add.cap, cells : [1..add.cap -> Cell]]

(* The array that acquire may have made larger has the same cells and room *)
(* for one more.                                                           *)
LEMMA GrownEffect ==
  ASSUME Types
  PROVE  /\ Grown.gen \in Nat /\ Grown.cap \in Nat /\ Grown.size = add.size 
         /\ add.size < Grown.cap /\ Grown.cells \in [1..Grown.cap -> Cell]
         /\ Grown = [gen |-> Grown.gen, cap |-> Grown.cap, size |-> Grown.size, 
                     cells |-> Grown.cells]
         /\ \A i \in 1..add.size : Grown.cells[i] = add.cells[i]
         /\ \/ Grown = add 
            \/ \A i \in 1..Grown.cap : i > add.size => Grown.cells[i] = Empty
<1>0. add.gen \in Nat /\ add.cap \in Nat /\ add.size \in 0..add.cap /\ InitCap \in Nat \ {0}
      /\ add.cells \in [1..add.cap -> Cell]
  BY MapAssumption DEF Types
<1>1. CASE add.size < add.cap
  <2>1. Grown = add
    BY <1>1 DEF Grown
  <2>2. add = [gen |-> add.gen, cap |-> add.cap, size |-> add.size, cells |-> add.cells]
    BY DEF Types
  <2> QED BY <1>0, <1>1, <2>1, <2>2
<1>2. CASE ~(add.size < add.cap)
  <2> DEFINE cap == IF add.cap = 0 THEN InitCap ELSE 2 * add.cap + 1
             cells == [i \in 1..cap |-> IF i <= add.size THEN add.cells[i] ELSE Empty]
  <2>1. Grown = [gen |-> add.gen + 1, cap |-> cap, size |-> add.size, cells |-> cells]
    BY <1>2 DEF Grown
  <2>2. cap \in Nat /\ add.size < cap
    BY <1>0, <1>2
  <2>3. cells \in [1..cap -> Cell]
    <3>1. Empty \in Cell
      BY DEF Empty, Cell
    <3>2. \A i \in 1..cap : i <= add.size => i \in 1..add.cap
      BY <1>0, <2>2
    <3> HIDE DEF cap
    <3> QED BY <3>1, <3>2, <1>0
  <2>4. /\ \A i \in 1..add.size : cells[i] = add.cells[i]
        /\ \A i \in 1..cap : i > add.size => cells[i] = Empty
    <3> HIDE DEF cap
    <3> QED BY <1>0, <2>2
  <2> HIDE DEF cap, cells
  <2> QED BY <1>0, <2>1, <2>2, <2>3, <2>4
<1> QED BY <1>1, <1>2

(* A new added cell is free, and the cells before it stay what they were.  *)
LEMMA CreateAddedEffect ==
  ASSUME Types, Packed, NEW t \in Thread, CreateAdded(t), LocksOK
  PROVE  /\ add' \in ArrayType' /\ add'.size = add.size + 1 /\ add'.gen = Grown.gen
         /\ \A i \in 1..add.size : add'.cells[i] = add.cells[i]
         /\ \A i \in 1..add'.cap : i > add.size => add'.cells[i].addr = NoKey
         /\ failed' = FALSE
<1>1. add' = [Grown EXCEPT !.size = Grown.size + 1] 
      /\ failed' = (Grown.cells[Grown.size + 1].addr # NoKey)
  BY DEF CreateAdded
<1>2. /\ add'.gen = Grown.gen /\ add'.cap = Grown.cap /\ add'.size = add.size + 1 
      /\ add'.cells = Grown.cells
      /\ add' = [gen |-> add'.gen, cap |-> add'.cap, size |-> add'.size, cells |-> add'.cells]
  BY <1>1, GrownEffect
<1>3. add.size \in Nat /\ add.size + 1 \in 0..Grown.cap /\ add.size + 1 \in 1..Grown.cap
  BY GrownEffect DEF Types
<1>4. \A i \in 1..Grown.cap : i > add.size => Grown.cells[i].addr = NoKey
  <2>1. Grown = add => \A i \in 1..add.cap : i > add.size => add.cells[i].addr = NoKey
    BY DEF Packed
  <2>2. Empty.addr = NoKey
    BY DEF Empty
  <2> QED BY <2>1, <2>2, GrownEffect
<1>5. add' \in ArrayType'
  BY <1>2, <1>3, GrownEffect DEF ArrayType
<1>6. add.size + 1 > add.size
  BY <1>3
<1> QED BY <1>1, <1>2, <1>3, <1>4, <1>5, <1>6, GrownEffect

(* Without its last cell the array keeps the cells before it.              *)
LEMMA WithoutLastEffect ==
  ASSUME Types, add.size > 0
  PROVE  LET new == WithoutLast(add.size) IN
         /\ new = [gen |-> add.gen, cap |-> add.cap, size |-> add.size - 1, cells |-> new.cells]
         /\ new.cells \in [1..add.cap -> Cell]
         /\ \A i \in 1..add.cap : i # add.size => new.cells[i] = add.cells[i]
         /\ new.cells[add.size] = [add.cells[add.size] EXCEPT !.addr = NoKey]
<1> DEFINE n == add.size
           one == [add EXCEPT !.size = @ - 1]
           new == WithoutLast(n)
<1>1. new = [add EXCEPT !.size = @ - 1, !.cells[n].addr = NoKey]
  BY DEF WithoutLast
<1>2. /\ add.gen \in Nat /\ add.cap \in Nat /\ n \in 1..add.cap
      /\ add.cells \in [1..add.cap -> Cell]
  BY DEF Types
<1>3. /\ new = [gen |-> add.gen, cap |-> add.cap, size |-> n - 1, cells |-> new.cells]
      /\ new.cells = [add.cells EXCEPT ![n].addr = NoKey]
  BY <1>1 DEF Types
<1>4. [add.cells EXCEPT ![n].addr = NoKey] 
       = [add.cells EXCEPT ![n] = [add.cells[n] EXCEPT !.addr = NoKey]]
  BY <1>2
<1>5. [add.cells[n] EXCEPT !.addr = NoKey] \in Cell
  BY <1>2 DEF Cell
<1>6. /\ new.cells \in [1..add.cap -> Cell]
      /\ \A i \in 1..add.cap : i # n => new.cells[i] = add.cells[i]
      /\ new.cells[n] = [add.cells[n] EXCEPT !.addr = NoKey]
  BY <1>2, <1>3, <1>4, <1>5
<1> QED BY <1>3, <1>6

(* The last added element moves to the removed embedded cell.              *)
LEMMA MoveLastEffect ==
  ASSUME Types, NEW t \in Thread, CallOK(t), MoveLast(t)
  PROVE  /\ embed' \in [1..Embedded -> Cell] /\ add' \in ArrayType'
         /\ add.size \in 1..add.cap
         /\ add'.gen = add.gen /\ add'.cap = add.cap /\ add'.size = add.size - 1
         /\ Emb(t) /\ Index(t) \in 1..Embedded /\ embed[Index(t)].addr = NoKey
         /\ \A i \in 1..Embedded : 
              embed'[i] = IF i = Index(t) THEN add.cells[add.size] ELSE embed[i]
         /\ \A i \in 1..add.cap : i # add.size => add'.cells[i] = add.cells[i]
         /\ add'.cells[add.size].addr = NoKey
<1>1. /\ call[t].pc = "compact" /\ add.size > 0
      /\ embed' = [embed EXCEPT ![Index(t)] = add.cells[add.size]]
      /\ add' = WithoutLast(add.size)
  BY DEF MoveLast, At
<1>2. Emb(t) /\ Index(t) \in 1..Embedded /\ embed[Index(t)].addr = NoKey
  BY <1>1 DEF CallOK
<1>3. /\ add.size \in 1..add.cap /\ add.cap \in Nat /\ add.gen \in Nat
      /\ add.cells[add.size] \in Cell /\ add.size - 1 \in 0..add.cap
  BY <1>1 DEF Types
<1>4. /\ add' = [gen |-> add.gen, cap |-> add.cap, size |-> add.size - 1, cells |-> add'.cells]
      /\ add'.cells \in [1..add.cap -> Cell]
      /\ \A i \in 1..add.cap : i # add.size => add'.cells[i] = add.cells[i]
      /\ add'.cells[add.size] = [add.cells[add.size] EXCEPT !.addr = NoKey]
  BY <1>1, WithoutLastEffect
<1>5. add'.cells[add.size].addr = NoKey
  BY <1>3, <1>4 DEF Cell
<1>6. add'.gen = add.gen /\ add'.cap = add.cap /\ add'.size = add.size - 1
  BY <1>4
<1>7. add' \in ArrayType'
  BY <1>3, <1>4, <1>6 DEF ArrayType
<1>8. /\ embed' \in [1..Embedded -> Cell]
      /\ \A i \in 1..Embedded : 
              embed'[i] = IF i = Index(t) THEN add.cells[add.size] ELSE embed[i]
  BY <1>1, <1>2, <1>3 DEF Types
<1> QED BY <1>2, <1>3, <1>4, <1>5, <1>6, <1>7, <1>8

(* The last added element takes the place of the removed one.              *)
LEMMA EraseAddedEffect ==
  ASSUME Types, NEW t \in Thread, Located(t), EraseAdded(t)
  PROVE  /\ add' \in ArrayType' /\ embed' = embed
         /\ add.size \in 1..add.cap /\ Index(t) \in 1..add.size
         /\ add'.gen = add.gen /\ add'.cap = add.cap /\ add'.size = add.size - 1
         /\ \A i \in 1..add.cap : i # add.size => 
              add'.cells[i] = IF i = Index(t) THEN add.cells[add.size] ELSE add.cells[i]
         /\ add'.cells[add.size].addr = NoKey
<1> DEFINE n == add.size
           w == WithoutLast(n)
           x == Index(t)
           c == IF x = n THEN [w.cells[x] EXCEPT !.addr = NoKey] ELSE add.cells[n]
<1>1. ~Emb(t) /\ embed' = embed
      /\ add' = [w EXCEPT !.cells[x] = IF x = n THEN [@ EXCEPT !.addr = NoKey] ELSE add.cells[n]]
  BY DEF EraseAdded
<1>2. x \in 1..n /\ x \in 1..add.cap /\ x \in Nat
  BY <1>1, CellType
<1>3. n \in 1..add.cap /\ add.cap \in Nat /\ add.gen \in Nat /\ n - 1 \in 0..add.cap 
      /\ add.cells \in [1..add.cap -> Cell] /\ n > 0
  BY <1>2 DEF Types
<1>4. /\ w = [gen |-> add.gen, cap |-> add.cap, size |-> n - 1, cells |-> w.cells]
      /\ w.cells \in [1..add.cap -> Cell]
      /\ \A i \in 1..add.cap : i # n => w.cells[i] = add.cells[i]
      /\ w.cells[n] = [add.cells[n] EXCEPT !.addr = NoKey]
  BY <1>3, WithoutLastEffect
<1>5. c \in Cell /\ (x = n => c.addr = NoKey)
  BY <1>2, <1>3, <1>4 DEF Cell
<1>6. add' = [w EXCEPT !.cells[x] = c]
  BY <1>1
<1> HIDE DEF w
<1>7. add' = [gen |-> add.gen, cap |-> add.cap, size |-> n - 1, cells |-> [w.cells EXCEPT ![x] = c]]
  <2> HIDE DEF c
  <2> QED BY <1>4, <1>6
<1>8. /\ add'.gen = add.gen /\ add'.cap = add.cap /\ add'.size = n - 1 
      /\ add'.cells = [w.cells EXCEPT ![x] = c]
  <2> HIDE DEF c
  <2> QED BY <1>7
<1>9. /\ add'.cells \in [1..add.cap -> Cell]
      /\ \A i \in 1..add.cap : add'.cells[i] = IF i = x THEN c ELSE w.cells[i]
  <2> HIDE DEF c
  <2> QED BY <1>2, <1>4, <1>5, <1>8
<1>10. add' \in ArrayType'
  BY <1>3, <1>7, <1>8, <1>9 DEF ArrayType
<1>11. add'.cells[n].addr = NoKey
  BY <1>3, <1>4, <1>5, <1>9 DEF Cell
<1>12. \A i \in 1..add.cap : i # n => 
              add'.cells[i] = IF i = x THEN add.cells[n] ELSE add.cells[i]
  BY <1>4, <1>9
<1> QED BY <1>1, <1>2, <1>3, <1>8, <1>10, <1>11, <1>12

----------------------------------------------------------------------------
(* Types.                                                                  *)

PCs == {"idle", "scan", "peek", "readlock", "lock", "held", "used", "compact", "unlock", "missed"}

(* A call changes as a record of its type does; the other calls stay.      *)
LEMMA CallUpdate ==
  ASSUME Types, NEW t \in Thread, NEW c \in Call, call' = [call EXCEPT ![t] = c]
  PROVE  /\ call' \in [Thread -> Call]
         /\ \A u \in Thread \ {t} : call'[u] = call[u]
         /\ call'[t] = c
BY DEF Types

(* A step along a Handle changes where it is, and nothing of other threads. *)
LEMMA GoEffect ==
  ASSUME Types, NEW t \in Thread, NEW pc \in PCs, Go(t, pc)
  PROVE  /\ call' \in [Thread -> Call]
         /\ \A u \in Thread \ {t} : call'[u] = call[u]
         /\ call'[t] = [call[t] EXCEPT !.pc = pc]
<1> DEFINE c == [call[t] EXCEPT !.pc = pc]
<1>1. call[t] \in Call
  BY DEF Types
<1>2. c \in Call
  BY <1>1 DEF Call, PCs
<1>3. call' = [call EXCEPT ![t] = c]
  BY DEF Go
<1>4. call' \in [Thread -> Call] /\ call'[t] = c /\ \A u \in Thread \ {t} : call'[u] = call[u]
  <2> HIDE DEF c
  <2> QED BY <1>2, <1>3, CallUpdate
<1> QED BY <1>4

(* A call that holds a cell changes only where it is, its cell and whether *)
(* it made it.                                                             *)
LEMMA HoldEffect ==
  ASSUME Types, NEW t \in Thread, NEW created \in BOOLEAN, NEW cell, Hold(t, cell, created), 
         cell \in {"none", "embed", "add"} \X Nat \X Nat
  PROVE  /\ call' \in [Thread -> Call]
         /\ \A u \in Thread \ {t} : call'[u] = call[u]
         /\ call'[t] = [call[t] EXCEPT !.pc = "held", !.cell = cell, !.created = created]
<1> DEFINE c == [call[t] EXCEPT !.pc = "held", !.cell = cell, !.created = created]
<1>1. call[t] \in Call
  BY DEF Types
<1>2. c \in Call
  BY <1>1 DEF Call
<1>3. call' = [call EXCEPT ![t] = c]
  BY DEF Hold
<1>4. call' \in [Thread -> Call] /\ call'[t] = c /\ \A u \in Thread \ {t} : call'[u] = call[u]
  <2> HIDE DEF c
  <2> QED BY <1>2, <1>3, CallUpdate
<1> QED BY <1>4

(* No call is a call.                                                      *)
LEMMA IdleType == Idle \in Call
BY MapAssumption DEF Idle, Call

(* The Handle of a call that begins.                                       *)
NewCall(kind, k, v) == 
  [Idle EXCEPT !.kind = kind, !.key = k, !.val = v, 
     !.pc = IF kind = "remove" THEN "lock" ELSE "scan"]

(* A call that begins is one.                                              *)
LEMMA NewCallType ==
  ASSUME NEW k \in Key, NEW kind \in {"find", "insert", "remove"}, NEW v \in Value \cup {NoValue}
  PROVE  NewCall(kind, k, v) \in Call
BY IdleType DEF NewCall, Call

(* It has the kind and key it was made with and no cell.                   *)
LEMMA NewCallFields ==
  ASSUME NEW k, NEW kind, NEW v
  PROVE  /\ NewCall(kind, k, v).pc = IF kind = "remove" THEN "lock" ELSE "scan"
         /\ NewCall(kind, k, v).kind = kind /\ NewCall(kind, k, v).key = k 
         /\ NewCall(kind, k, v).val = v /\ NewCall(kind, k, v).created = FALSE
BY DEF NewCall, Idle

BeginsWith(t, kind, k, v) ==
  /\ Begin(t, kind, k, v)
  /\ kind = "insert" => v \in Value
  /\ kind # "insert" => v = NoValue
  /\ call' \in [Thread -> Call]
  /\ \A u \in Thread \ {t} : call'[u] = call[u]
  /\ call'[t] = NewCall(kind, k, v)

(* The beginning of a call changes its own record only.                    *)
LEMMA BeginEffect ==
  ASSUME Types, NEW t \in Thread, Start(t)
  PROVE  \E k \in Key, kind \in {"find", "insert", "remove"}, v \in Value \cup {NoValue} :
           BeginsWith(t, kind, k, v)
<1>1. ASSUME NEW k \in Key, NEW kind \in {"find", "insert", "remove"}, 
             NEW v \in Value \cup {NoValue}, Begin(t, kind, k, v),
             kind = "insert" => v \in Value, kind # "insert" => v = NoValue
      PROVE  BeginsWith(t, kind, k, v)
  <2>1. call' = [call EXCEPT ![t] = NewCall(kind, k, v)]
    BY <1>1 DEF Begin, NewCall
  <2>2. NewCall(kind, k, v) \in Call
    BY NewCallType
  <2>4. /\ call' \in [Thread -> Call] /\ call'[t] = NewCall(kind, k, v)
        /\ \A u \in Thread \ {t} : call'[u] = call[u]
    BY <2>1, <2>2, CallUpdate
  <2> QED BY <1>1, <2>4 DEF BeginsWith
<1>2. CASE \E k \in Key : Begin(t, "find", k, NoValue)
  BY <1>1, <1>2
<1>3. CASE \E k \in Key : Begin(t, "remove", k, NoValue)
  BY <1>1, <1>3
<1>4. CASE \E k \in Key, v \in Value : Begin(t, "insert", k, v)
  <2>1. PICK k \in Key, v \in Value : Begin(t, "insert", k, v)
    BY <1>4
  <2>2. BeginsWith(t, "insert", k, v)
    BY <1>1, <2>1
  <2>3. "insert" \in {"find", "insert", "remove"} /\ v \in Value \cup {NoValue}
    OBVIOUS
  <2> QED BY <2>2, <2>3
<1> QED BY <1>2, <1>3, <1>4 DEF Start

(* The variables keep their types.                                         *)
LEMMA TypesNext ==
  ASSUME MapInv, NEW t \in Thread, Start(t) \/ Work(t)
  PROVE  Types'
<1>1. Types /\ CallOK(t) /\ ~failed /\ call[t] \in Call /\ Packed /\ LocksOK
  BY DEF MapInv, TypeOK, Types
<1>m. embed \in [1..Embedded -> Cell] /\ add \in ArrayType
  BY <1>1 DEF Types, ArrayType
<1>2. ASSUME embed' \in [1..Embedded -> Cell], add' \in ArrayType', call' \in [Thread -> Call],
             writer' \in Thread \cup {NoThread}, readers' \in [Thread -> Nat],
             calls' = calls, failed' \in BOOLEAN
      PROVE  Types'
  BY <1>1, <1>2 DEF Types, ArrayType
<1>3. ASSUME UNCHANGED <<embed, add, lockVars, calls, failed>>, call' \in [Thread -> Call]
      PROVE  Types'
  BY <1>1, <1>3 DEF Types, lockVars
<1>4. CASE Start(t)
  <2>1. PICK k \in Key, kind \in {"find", "insert", "remove"}, v \in Value \cup {NoValue} :
          BeginsWith(t, kind, k, v)
    BY <1>1, <1>4, BeginEffect
  <2>2. calls < MaxCalls /\ calls' = calls + 1 /\ UNCHANGED <<embed, add, lockVars, failed>>
    BY <2>1 DEF Begin, BeginsWith
  <2>3. calls' \in 0..MaxCalls
    BY <1>1, <2>2, MapAssumption DEF Types
  <2> QED BY <1>1, <2>1, <2>2, <2>3 DEF Types, lockVars, BeginsWith
<1>5. CASE ScanHit(t)
  <2>1. InEmbed(call[t].i) \in {"none", "embed", "add"} \X Nat \X Nat
    BY <1>1, MapAssumption DEF InEmbed, Call
  <2> QED BY <1>1, <1>3, <1>5, <2>1, HoldEffect DEF ScanHit
<1>6. CASE ScanMiss(t)
  <2>1. CASE call[t].i < Embedded
    <3>1. call[t].i + 1 \in 1..Embedded
      BY <1>1, <2>1, MapAssumption DEF Call
    <3>2. call' = [call EXCEPT ![t].i = @ + 1]
      BY <1>6, <2>1 DEF ScanMiss
    <3>3. call' \in [Thread -> Call]
      BY <1>1, <3>1, <3>2 DEF Types, Call
    <3> QED BY <1>3, <1>6, <3>3 DEF ScanMiss
  <2>2. CASE ~(call[t].i < Embedded)
    <3>1. Go(t, "peek") /\ "peek" \in PCs
      BY <1>6, <2>2 DEF ScanMiss, PCs
    <3> QED BY <1>1, <1>3, <1>6, <3>1, GoEffect DEF ScanMiss
  <2> QED BY <2>1, <2>2
<1>7. CASE Peek(t)
  <2>1. (IF add.cap = 0 THEN "lock" ELSE "readlock") \in PCs
    BY DEF PCs
  <2> QED BY <1>1, <1>3, <1>7, <2>1, GoEffect DEF Peek
<1>8. CASE ReadHit(t)
  <2> DEFINE i == First(AddedAt(call[t].key))
  <2>1. i \in Nat /\ add.gen \in Nat
    BY <1>1, <1>8, FirstCells DEF ReadHit, Types
  <2>2. InAdd(i) \in {"none", "embed", "add"} \X Nat \X Nat
    BY <2>1 DEF InAdd
  <2>3. call' \in [Thread -> Call]
    BY <1>1, <1>8, <2>2, HoldEffect DEF ReadHit
  <2>4. readers' \in [Thread -> Nat]
    BY <1>1, <1>8 DEF ReadHit, KeepReadLock, Types
  <2> QED BY <1>1, <1>8, <2>3, <2>4 DEF ReadHit, Types
<1>9. CASE ReadMiss(t)
  BY <1>1, <1>3, <1>9, GoEffect DEF ReadMiss, PCs
<1>10. CASE LockRetry(t)
  <2>1. call' = [call EXCEPT ![t].pc = "scan", ![t].i = 1]
    BY <1>10 DEF LockRetry
  <2>2. call' = [call EXCEPT ![t] = [call[t] EXCEPT !.pc = "scan", !.i = 1]]
    BY <1>1, <2>1 DEF Types
  <2>3. [call[t] EXCEPT !.pc = "scan", !.i = 1] \in Call
    <3>1. 1 \in 1..Embedded
      BY MapAssumption
    <3> QED BY <1>1, <3>1 DEF Call
  <2>4. call' \in [Thread -> Call]
    BY <1>1, <2>2, <2>3, CallUpdate
  <2> QED BY <1>3, <1>10, <2>4 DEF LockRetry
<1>11. CASE LockFound(t)
  <2> DEFINE k == call[t].key
             cell == IF EmbedAt(k) # {} THEN InEmbed(First(EmbedAt(k)))
                     ELSE InAdd(First(AddedAt(k)))
  <2>1. /\ EmbedAt(k) # {} => First(EmbedAt(k)) \in Nat 
        /\ EmbedAt(k) = {} => First(AddedAt(k)) \in Nat
        /\ add.gen \in Nat
    BY <1>1, <1>11, FirstCells DEF LockFound, Present, Types
  <2>2. cell \in {"none", "embed", "add"} \X Nat \X Nat
    BY <2>1 DEF InAdd, InEmbed
  <2>3. call' \in [Thread -> Call]
    BY <1>1, <1>11, <2>2, HoldEffect DEF LockFound
  <2> QED BY <1>1, <1>11, <2>3 DEF LockFound, Types
<1>12. CASE LockMiss(t)
  BY <1>1, <1>3, <1>12, GoEffect DEF LockMiss, PCs
<1>13. CASE CreateEmbedded(t)
  <2>1. First(EmbedAt(NoKey)) \in Nat
    BY <1>1, <1>13, FirstCells DEF CreateEmbedded
  <2>2. InEmbed(First(EmbedAt(NoKey))) \in {"none", "embed", "add"} \X Nat \X Nat
    BY <2>1 DEF InEmbed
  <2>3. call' \in [Thread -> Call]
    BY <1>1, <1>13, <2>2, HoldEffect DEF CreateEmbedded
  <2> QED BY <1>1, <1>13, <2>3 DEF CreateEmbedded, Types
<1>14. CASE CreateAdded(t)
  <2>1. <<"add", Grown.gen, Grown.size + 1>> \in {"none", "embed", "add"} \X Nat \X Nat
    BY <1>1, GrownEffect DEF Types
  <2>2. call' \in [Thread -> Call]
    BY <1>1, <1>14, <2>1, HoldEffect DEF CreateAdded
  <2> QED BY <1>1, <1>m, <1>2, <1>14, <2>2, CreateAddedEffect DEF CreateAdded, Types
<1>15. CASE WriteValue(t)
  <2>1. Located(t) /\ call[t].val \in Value \cup {NoValue}
    BY <1>1, <1>15 DEF WriteValue, At, CallOK, CellOK, Call
  <2>2. [Content(t) EXCEPT !.val = call[t].val] \in Cell
    BY <1>1, <2>1, CellType DEF Cell
  <2>3. embed' \in [1..Embedded -> Cell] /\ add' \in ArrayType'
    BY <1>1, <1>15, <2>1, <2>2, SetCellEffect DEF WriteValue, ArrayType
  <2>4. call' \in [Thread -> Call]
    BY <1>1, <1>15, GoEffect DEF WriteValue, PCs
  <2> QED BY <1>1, <1>2, <1>15, <2>3, <2>4 DEF WriteValue, Types, lockVars
<1>16. CASE ReadValue(t)
  <2>1. Located(t)
    BY <1>1, <1>16 DEF ReadValue, At, CallOK, CellOK
  <2>2. Content(t).val \in Value \cup {NoValue}
    BY <1>1, <2>1, CellType DEF Cell
  <2>3. call' = [call EXCEPT ![t].pc = "used", ![t].val = Content(t).val]
    BY <1>16 DEF ReadValue
  <2>4. call' \in [Thread -> Call]
    BY <1>1, <2>2, <2>3 DEF Types, Call
  <2> QED BY <1>3, <1>16, <2>4 DEF ReadValue
<1>17. CASE Publish(t)
  <2>1. Located(t) /\ call[t].key \in Key
    BY <1>1, <1>17 DEF Publish, At, CallOK, CellOK
  <2>2. [Content(t) EXCEPT !.addr = call[t].key] \in Cell
    BY <1>1, <2>1, CellType DEF Cell
  <2>3. embed' \in [1..Embedded -> Cell] /\ add' \in ArrayType'
    BY <1>1, <1>17, <2>1, <2>2, SetCellEffect DEF Publish, ArrayType
  <2>4. call' \in [Thread -> Call]
    BY <1>1, <1>17, GoEffect DEF Publish, PCs
  <2> QED BY <1>1, <1>2, <1>17, <2>3, <2>4 DEF Publish, Types, lockVars
<1>18. CASE Erase(t)
  <2>1. Located(t)
    BY <1>1, <1>18 DEF Erase, At, CallOK, CellOK
  <2>2. [Content(t) EXCEPT !.addr = NoKey] \in Cell
    BY <1>1, <2>1, CellType DEF Cell
  <2>3. embed' \in [1..Embedded -> Cell] /\ add' \in ArrayType'
    BY <1>1, <1>18, <2>1, <2>2, SetCellEffect DEF Erase, ArrayType
  <2>4. call' \in [Thread -> Call]
    BY <1>1, <1>18, GoEffect DEF Erase, PCs
  <2> QED BY <1>1, <1>2, <1>18, <2>3, <2>4 DEF Erase, Types, lockVars
<1>19. CASE MoveLast(t)
  <2>1. call' \in [Thread -> Call]
    BY <1>1, <1>19, GoEffect DEF MoveLast, PCs
  <2> QED BY <1>1, <1>2, <1>19, <2>1, MoveLastEffect DEF MoveLast, Types, lockVars
<1>20. CASE MoveNothing(t)
  BY <1>1, <1>3, <1>20, GoEffect DEF MoveNothing, PCs
<1>21. CASE EraseAdded(t)
  <2>1. Located(t)
    BY <1>1, <1>21 DEF EraseAdded, At, CallOK, CellOK
  <2>2. call' \in [Thread -> Call]
    BY <1>1, <1>21, GoEffect DEF EraseAdded, PCs
  <2> QED BY <1>1, <1>m, <1>2, <1>21, <2>1, <2>2, EraseAddedEffect DEF EraseAdded, Types, lockVars
<1>22. CASE Unlock(t)
  BY <1>1, <1>m, <1>2, <1>22, IdleType DEF Unlock, Types, ArrayType
<1>23. CASE Leave(t)
  <2>1. readers' \in [Thread -> Nat]
    <3>1. ~Emb(t) => readers[t] # 0
      BY <1>1, <1>23 DEF Leave, At, LocksOK, Reads, Writes
    <3>2. readers' = IF Emb(t) THEN readers ELSE [readers EXCEPT ![t] = @ - 1]
      BY <1>23 DEF Leave, ReadUnlock
    <3> QED BY <1>1, <3>1, <3>2 DEF Types
  <2>2. call' \in [Thread -> Call]
    BY <1>1, <1>23, IdleType DEF Leave, Types
  <2>3. UNCHANGED <<embed, add, writer, calls>> /\ failed' \in BOOLEAN
    BY <1>23 DEF Leave
  <2> QED BY <1>1, <2>1, <2>2, <2>3 DEF Types
<1>24. CASE Return(t)
  <2>1. call' \in [Thread -> Call]
    BY <1>1, <1>24, IdleType DEF Return, Types
  <2> QED BY <1>3, <1>24, <2>1 DEF Return
<1> QED 
  BY <1>4, <1>5, <1>6, <1>7, <1>8, <1>9, <1>10, <1>11, <1>12, <1>13, <1>14, <1>15, <1>16, <1>17,
     <1>18, <1>19, <1>20, <1>21, <1>22, <1>23, <1>24 DEF Work, Acquire, Use, Release

----------------------------------------------------------------------------
(* The locks.                                                              *)

(* A step changes the call of its own thread only.                         *)
LEMMA OthersStay ==
  ASSUME Types, NEW t \in Thread, Start(t) \/ Work(t)
  PROVE  \A u \in Thread \ {t} : call'[u] = call[u]
<1>1. ASSUME NEW c, call' = [call EXCEPT ![t] = c] PROVE \A u \in Thread \ {t} : call'[u] = call[u]
  BY <1>1 DEF Types
<1>2. CASE Start(t)
  BY <1>1, <1>2 DEF Start, Begin
<1>3. ASSUME NEW pc, Go(t, pc) PROVE \A u \in Thread \ {t} : call'[u] = call[u]
  BY <1>3 DEF Go, Types
<1>4. ASSUME NEW cell, NEW created, Hold(t, cell, created)
      PROVE  \A u \in Thread \ {t} : call'[u] = call[u]
  BY <1>4 DEF Hold, Types
<1>5. CASE Acquire(t)
  <2>1. CASE ScanMiss(t)
    <3>1. CASE call[t].i < Embedded
      BY <2>1, <3>1 DEF ScanMiss, Types
    <3> QED BY <1>3, <2>1, <3>1 DEF ScanMiss
  <2>2. CASE LockRetry(t)
    BY <2>2 DEF LockRetry, Types
  <2> QED 
    BY <1>3, <1>4, <1>5, <2>1, <2>2 
    DEF Acquire, ScanHit, Peek, ReadHit, ReadMiss, LockFound, LockMiss, CreateEmbedded, CreateAdded
<1>6. CASE Use(t)
  BY <1>3, <1>6 DEF Use, WriteValue, ReadValue, Types
<1>7. CASE Release(t)
  BY <1>1, <1>3, <1>7 
  DEF Release, Publish, Erase, MoveLast, MoveNothing, EraseAdded, Unlock, Leave, Return
<1> QED BY <1>2, <1>5, <1>6, <1>7 DEF Work

(* A thread that keeps the lock it has, or goes on without one.            *)
LEMMA LocksKept ==
  ASSUME LocksOK, NEW t \in Thread, \A u \in Thread \ {t} : call'[u] = call[u],
         Writes(t)' <=> Writes(t), Reads(t)' <=> Reads(t), UNCHANGED lockVars
  PROVE  LocksOK'
<1>1. \A u \in Thread : (Writes(u)' <=> Writes(u)) /\ (Reads(u)' <=> Reads(u))
  BY DEF Writes, Reads, Emb
<1> HIDE DEF Writes, Reads
<1> QED BY <1>1 DEF LocksOK, lockVars

(* While the lock is free nobody is at a step that needs it.               *)
LEMMA FreeOfLocks ==
  ASSUME Types, LocksOK, Unlocked
  PROVE  \A u \in Thread : ~Writes(u) /\ ~Reads(u)
BY MapAssumption DEF LocksOK, Unlocked, Types

(* The write lock is taken when nobody has it.                             *)
LEMMA LocksTaken ==
  ASSUME Types, LocksOK, Unlocked, NEW t \in Thread, \A u \in Thread \ {t} : call'[u] = call[u],
         Writes(t)', writer' = t, readers' = readers
  PROVE  LocksOK'
<1>1. \A u \in Thread : ~Writes(u) /\ ~Reads(u)
  BY FreeOfLocks
<1>2. \A u \in Thread : Reads(u)' => Reads(u) \/ u = t
  BY DEF Reads, Writes, Emb
<1>3. \A u \in Thread : Writes(u)' => Writes(u) \/ u = t
  BY DEF Writes
<1>4. ~Reads(t)'
  BY DEF Reads
<1>5. \A u \in Thread : (Writes(u)' <=> u = t) /\ ~Reads(u)'
  BY <1>1, <1>2, <1>3, <1>4
<1>6. \A u \in Thread : readers'[u] = 0
  BY DEF Unlocked
<1> QED BY <1>5, <1>6 DEF LocksOK

(* The lock is held by those whose step needs it, one writer or readers.   *)
LEMMA LocksNext ==
  ASSUME MapInv, NEW t \in Thread, Start(t) \/ Work(t)
  PROVE  LocksOK'
<1>1. Types /\ CallOK(t) /\ call[t] \in Call /\ LocksOK /\ call' \in [Thread -> Call] /\ call'[t] \in Call
  BY TypesNext DEF MapInv, TypeOK, Types
<1>2. \A u \in Thread \ {t} : call'[u] = call[u]
  BY <1>1, OthersStay
<1>3. ASSUME ~Writes(t), ~Reads(t), call'[t].pc \in {"scan", "peek", "readlock", "lock", "missed", "idle"},
             UNCHANGED lockVars
      PROVE  LocksOK'
  <2>1. ~Writes(t)' /\ ~Reads(t)'
    BY <1>3 DEF Writes, Reads
  <2> QED BY <1>1, <1>2, <1>3, <2>1, LocksKept
<1>4. ASSUME call[t].pc \in {"scan", "peek", "readlock", "lock", "missed", "idle"}
      PROVE  ~Writes(t) /\ ~Reads(t)
  BY <1>4 DEF Writes, Reads
<1>5. ASSUME NEW from \in PCs, NEW pc \in PCs, At(t, from), Go(t, pc)
      PROVE  call[t].pc = from /\ call'[t] = [call[t] EXCEPT !.pc = pc] 
             /\ call'[t].pc = pc /\ call'[t].kind = call[t].kind
             /\ call'[t].created = call[t].created /\ call'[t].cell = call[t].cell
  <2>1. call'[t] = [call[t] EXCEPT !.pc = pc]
    BY <1>1, <1>5, GoEffect
  <2> QED BY <1>1, <1>5, <2>1 DEF At, Call
<1>6. ASSUME NEW cell, NEW created, Hold(t, cell, created)
      PROVE  /\ call'[t].pc = "held" /\ call'[t].cell = cell /\ call'[t].created = created
             /\ call'[t].kind = call[t].kind
  BY <1>1, <1>6 DEF Hold, Types, Call
<1>7. CASE Start(t)
  <2>1. PICK k \in Key, kind \in {"find", "insert", "remove"}, v \in Value \cup {NoValue} :
          BeginsWith(t, kind, k, v)
    BY <1>1, <1>7, BeginEffect
  <2>2. call[t].pc = "idle" /\ call'[t].pc \in {"scan", "lock"} /\ UNCHANGED lockVars
    BY <2>1, NewCallFields DEF BeginsWith, Begin, At
  <2> QED BY <1>3, <1>4, <2>2
<1>8. CASE ScanHit(t)
  <2>1. call[t].pc = "scan" /\ call[t].kind # "remove" /\ UNCHANGED lockVars
    BY <1>1, <1>8 DEF ScanHit, At, CallOK
  <2>2. /\ call'[t].pc = "held" /\ call'[t].cell = InEmbed(call[t].i) /\ call'[t].created = FALSE
        /\ call'[t].kind # "remove"
    BY <1>6, <1>8, <2>1 DEF ScanHit
  <2>3. ~Writes(t)' /\ ~Reads(t)'
    BY <2>2 DEF Writes, Reads, Emb, InEmbed
  <2>4. ~Writes(t) /\ ~Reads(t)
    BY <1>4, <2>1
  <2> QED BY <1>1, <1>2, <2>1, <2>3, <2>4, LocksKept
<1>9. CASE ScanMiss(t)
  <2>1. call[t].pc = "scan" /\ UNCHANGED lockVars
    BY <1>9 DEF ScanMiss, At
  <2>2. call'[t].pc \in {"scan", "peek"}
    <3>1. CASE call[t].i < Embedded
      BY <1>1, <1>9, <2>1, <3>1 DEF ScanMiss, Types, Call
    <3>2. CASE ~(call[t].i < Embedded)
      BY <1>1, <1>9, <2>1, <3>2 DEF ScanMiss, Go, Types, Call
    <3> QED BY <3>1, <3>2
  <2> QED BY <1>3, <1>4, <2>1, <2>2
<1>10. CASE Peek(t)
  <2>1. At(t, "peek") /\ UNCHANGED lockVars /\ \E pc \in {"lock", "readlock"} : Go(t, pc)
    BY <1>10 DEF Peek
  <2>2. call[t].pc = "peek" /\ call'[t].pc \in {"lock", "readlock"}
    BY <1>5, <2>1 DEF PCs
  <2> QED BY <1>3, <1>4, <2>1, <2>2
<1>11. CASE ReadHit(t)
  <2>1. call[t].pc = "readlock" /\ call[t].kind # "remove" /\ writer = NoThread 
        /\ readers' = [readers EXCEPT ![t] = @ + 1] /\ writer' = writer
    BY <1>1, <1>11 DEF ReadHit, At, CallOK, KeepReadLock
  <2>2. /\ call'[t].pc = "held" /\ call'[t].cell = InAdd(First(AddedAt(call[t].key))) 
        /\ call'[t].created = FALSE /\ call'[t].kind # "remove"
    BY <1>6, <1>11, <2>1 DEF ReadHit
  <2>3. ~Writes(t)' /\ Reads(t)'
    BY <2>2 DEF Writes, Reads, Emb, InAdd
  <2>4. ~Writes(t) /\ ~Reads(t)
    BY <1>4, <2>1
  <2>5. \A u \in Thread : ~Writes(u)
    BY <1>1, <2>1, MapAssumption DEF LocksOK
  <2>6. \A u \in Thread \ {t} : (Writes(u)' <=> Writes(u)) /\ (Reads(u)' <=> Reads(u))
    BY <1>2 DEF Writes, Reads, Emb
  <2>7. \A u \in Thread : ~Writes(u)'
    BY <2>3, <2>5, <2>6
  <2>8. \A u \in Thread : (Reads(u)' => readers'[u] # 0)
    BY <1>1, <2>1, <2>3, <2>4, <2>6 DEF LocksOK, Types
  <2>9. \A u \in Thread : writer' # u
    BY <2>1, MapAssumption
  <2> QED BY <2>7, <2>8, <2>9 DEF LocksOK
<1>12. CASE ReadMiss(t)
  BY <1>3, <1>4, <1>5, <1>12 DEF ReadMiss, PCs, lockVars
<1>13. CASE LockRetry(t)
  <2>1. call[t].pc = "lock" /\ UNCHANGED lockVars /\ call'[t].pc = "scan"
    BY <1>1, <1>13 DEF LockRetry, At, Types, Call
  <2> QED BY <1>3, <1>4, <2>1
<1>14. CASE LockFound(t)
  <2>1. Unlocked /\ writer' = t /\ readers' = readers /\ call[t].kind = "remove" 
        /\ \E cell : Hold(t, cell, FALSE)
    BY <1>14 DEF LockFound
  <2>2. Writes(t)'
    BY <1>6, <2>1 DEF Writes
  <2> QED BY <1>1, <1>2, <2>1, <2>2, LocksTaken
<1>15. CASE LockMiss(t)
  BY <1>3, <1>4, <1>5, <1>15 DEF LockMiss, PCs, lockVars
<1>16. CASE CreateEmbedded(t)
  <2>1. Unlocked /\ writer' = t /\ readers' = readers /\ \E cell : Hold(t, cell, TRUE)
    BY <1>16 DEF CreateEmbedded
  <2>2. Writes(t)'
    BY <1>6, <2>1 DEF Writes
  <2> QED BY <1>1, <1>2, <2>1, <2>2, LocksTaken
<1>17. CASE CreateAdded(t)
  <2>1. Unlocked /\ writer' = t /\ readers' = readers /\ \E cell : Hold(t, cell, TRUE)
    BY <1>17 DEF CreateAdded
  <2>2. Writes(t)'
    BY <1>6, <2>1 DEF Writes
  <2> QED BY <1>1, <1>2, <2>1, <2>2, LocksTaken
<1>18. CASE WriteValue(t)
  <2>1. /\ call[t].pc = "held" /\ call'[t].pc = "used" /\ call'[t].kind = call[t].kind
        /\ call'[t].created = call[t].created /\ call'[t].cell = call[t].cell /\ UNCHANGED lockVars
    BY <1>5, <1>18 DEF WriteValue, PCs
  <2>2. (Writes(t)' <=> Writes(t)) /\ (Reads(t)' <=> Reads(t))
    BY <2>1 DEF Writes, Reads, Emb
  <2> QED BY <1>1, <1>2, <2>1, <2>2, LocksKept
<1>19. CASE ReadValue(t)
  <2>1. /\ call[t].pc = "held" /\ call'[t].pc = "used" /\ call'[t].kind = call[t].kind
        /\ call'[t].created = call[t].created /\ call'[t].cell = call[t].cell /\ UNCHANGED lockVars
    BY <1>1, <1>19 DEF ReadValue, At, Types, Call
  <2>2. (Writes(t)' <=> Writes(t)) /\ (Reads(t)' <=> Reads(t))
    BY <2>1 DEF Writes, Reads, Emb
  <2> QED BY <1>1, <1>2, <2>1, <2>2, LocksKept
<1>20. ASSUME call[t].pc \in {"used", "compact"}, call'[t].pc \in {"compact", "unlock"}, 
              Writes(t), UNCHANGED lockVars
       PROVE  LocksOK'
  <2>1. Writes(t)' /\ ~Reads(t) /\ ~Reads(t)'
    BY <1>20 DEF Writes, Reads
  <2> QED BY <1>1, <1>2, <1>20, <2>1, LocksKept
<1>21. CASE Publish(t)
  <2>1. call[t].pc = "used" /\ call'[t].pc = "unlock" /\ call[t].created /\ UNCHANGED lockVars
    BY <1>5, <1>21 DEF Publish, PCs
  <2> QED BY <1>20, <2>1 DEF Writes
<1>22. CASE Erase(t)
  <2>1. call[t].pc = "used" /\ call'[t].pc = "compact" /\ call[t].kind = "remove" /\ UNCHANGED lockVars
    BY <1>5, <1>22 DEF Erase, PCs
  <2> QED BY <1>20, <2>1 DEF Writes
<1>23. CASE MoveLast(t)
  <2>1. call[t].pc = "compact" /\ call'[t].pc = "unlock" /\ UNCHANGED lockVars
    BY <1>5, <1>23 DEF MoveLast, PCs
  <2> QED BY <1>20, <2>1 DEF Writes
<1>24. CASE MoveNothing(t)
  <2>1. call[t].pc = "compact" /\ call'[t].pc = "unlock" /\ UNCHANGED lockVars
    BY <1>5, <1>24 DEF MoveNothing, PCs
  <2> QED BY <1>20, <2>1 DEF Writes
<1>25. CASE EraseAdded(t)
  <2>1. call[t].pc = "used" /\ call'[t].pc = "unlock" /\ call[t].kind = "remove" /\ UNCHANGED lockVars
    BY <1>5, <1>25 DEF EraseAdded, PCs
  <2> QED BY <1>20, <2>1 DEF Writes
<1>26. ASSUME call'[t] = Idle PROVE ~Writes(t)' /\ ~Reads(t)'
  BY <1>26 DEF Writes, Reads, Idle
<1>27. CASE Unlock(t)
  <2>1. call[t].pc = "unlock" /\ call'[t] = Idle /\ writer' = NoThread /\ readers' = readers
    BY <1>1, <1>27 DEF Unlock, At, Types
  <2>2. Writes(t) /\ writer = t
    BY <1>1, <2>1 DEF Writes, LocksOK
  <2>3. \A u \in Thread \ {t} : ~Writes(u) /\ (Writes(u)' <=> Writes(u)) /\ (Reads(u)' <=> Reads(u))
    BY <1>1, <1>2, <2>2 DEF Writes, Reads, Emb, LocksOK
  <2>4. ~Writes(t)' /\ ~Reads(t)' /\ ~Reads(t)
    BY <1>26, <2>1 DEF Reads
  <2>5. \A u \in Thread : ~Writes(u)' /\ (Reads(u)' <=> Reads(u))
    BY <2>3, <2>4
  <2>6. \A u \in Thread : writer' # u
    BY <2>1, MapAssumption
  <2> QED BY <1>1, <2>1, <2>5, <2>6 DEF LocksOK
<1>28. CASE Leave(t)
  <2>1. /\ call[t].pc = "used" /\ call[t].kind # "remove" /\ ~call[t].created /\ call'[t] = Idle 
        /\ writer' = writer /\ readers' = IF Emb(t) THEN readers ELSE [readers EXCEPT ![t] = @ - 1]
    BY <1>1, <1>28 DEF Leave, At, Types, ReadUnlock
  <2>2. ~Writes(t) /\ (Reads(t) <=> ~Emb(t))
    BY <2>1 DEF Writes, Reads
  <2>3. \A u \in Thread \ {t} : (Writes(u)' <=> Writes(u)) /\ (Reads(u)' <=> Reads(u))
    BY <1>2 DEF Writes, Reads, Emb
  <2>4. ~Writes(t)' /\ ~Reads(t)'
    BY <1>26, <2>1
  <2>5. \A u \in Thread : (Writes(u)' <=> Writes(u)) /\ (Reads(u)' => Reads(u))
    BY <2>2, <2>3, <2>4
  <2>6. \A u \in Thread : (Reads(u)' => readers'[u] # 0)
    BY <1>1, <2>1, <2>2, <2>3, <2>4 DEF LocksOK, Types
  <2> QED BY <1>1, <2>1, <2>5, <2>6 DEF LocksOK
<1>29. CASE Return(t)
  <2>1. call[t].pc = "missed" /\ call'[t].pc = "idle" /\ UNCHANGED lockVars
    BY <1>1, <1>29 DEF Return, At, Types, Idle
  <2> QED BY <1>3, <1>4, <2>1
<1> QED 
  BY <1>7, <1>8, <1>9, <1>10, <1>11, <1>12, <1>13, <1>14, <1>15, <1>16, <1>17, <1>18, <1>19, <1>21,
     <1>22, <1>23, <1>24, <1>25, <1>27, <1>28, <1>29 DEF Work, Acquire, Use, Release

----------------------------------------------------------------------------
(* The Handles.                                                            *)

(* A call that goes on keeps its fields.                                   *)
LEMMA GoFields ==
  ASSUME Types, NEW t \in Thread, NEW from \in PCs, NEW pc \in PCs, At(t, from), Go(t, pc)
  PROVE  /\ call[t].pc = from /\ call'[t].pc = pc /\ call'[t].kind = call[t].kind
         /\ call'[t].key = call[t].key /\ call'[t].val = call[t].val
         /\ call'[t].created = call[t].created /\ call'[t].cell = call[t].cell
<1>1. call'[t] = [call[t] EXCEPT !.pc = pc] /\ call[t] \in Call
  BY GoEffect DEF Types
<1> QED BY <1>1 DEF At, Call

(* A call that holds a cell keeps kind, key and value.                     *)
LEMMA HoldFields ==
  ASSUME Types, NEW t \in Thread, NEW cell, NEW created, Hold(t, cell, created)
  PROVE  /\ call'[t].pc = "held" /\ call'[t].kind = call[t].kind
         /\ call'[t].key = call[t].key /\ call'[t].val = call[t].val
         /\ call'[t].created = created /\ call'[t].cell = cell
BY DEF Hold, Types, Call

(* One thread has the lock to write, and then none has it to read.         *)
LEMMA OneWriter ==
  ASSUME LocksOK, NEW t \in Thread, NEW u \in Thread, t # u, writer = t
  PROVE  ~Writes(u) /\ ~Reads(u)
BY DEF LocksOK

(* A cell that is being created or removed is in one thread's hands.       *)
LEMMA CellsDiffer ==
  ASSUME MapInv, NEW t \in Thread, NEW u \in Thread, t # u, 
         call[t].pc \in {"held", "used"}, call[u].pc \in {"held", "used"},
         call[u].created \/ call[u].kind = "remove"
  PROVE  ~((Emb(t) <=> Emb(u)) /\ Index(t) = Index(u))
<1> SUFFICES ASSUME Emb(t) <=> Emb(u), Index(t) = Index(u) PROVE FALSE
  OBVIOUS
<1>1. /\ CallOK(t) /\ CallOK(u) /\ LocksOK /\ KeysApart
      /\ CellOK(t) /\ CellOK(u) /\ call[t].key \in Key /\ call[u].key \in Key
  BY DEF MapInv, CallOK
<1>2. Content(t) = Content(u)
  BY DEF Content
<1>3. ~call[t].created
  BY <1>1 DEF LocksOK, Writes
<1>4. Content(t).addr = call[t].key
  BY <1>1, <1>3 DEF CellOK, Found
<1>5. CASE call[u].created
  BY <1>1, <1>2, <1>4, <1>5, MapAssumption DEF CellOK, Created
<1>6. CASE ~call[u].created
  <2>1. call[u].key = call[t].key /\ call[u].kind = "remove"
    BY <1>1, <1>2, <1>4, <1>6 DEF CellOK, Found
  <2> QED BY <1>1, <2>1 DEF KeysApart
<1> QED BY <1>5, <1>6

(* While addresses stay where they are, so do the keys.                    *)
AddrsStay ==
  /\ \A i \in 1..Embedded : embed'[i].addr = embed[i].addr
  /\ add'.size = add.size /\ add'.cap = add.cap /\ add'.gen = add.gen
  /\ \A i \in 1..add.cap : add'.cells[i].addr = add.cells[i].addr

(* Where no address is stored, each key is where it was.                   *)
LEMMA KeysStay ==
  ASSUME Types, Types', AddrsStay, NEW k
  PROVE  EmbedAt(k)' = EmbedAt(k) /\ AddedAt(k)' = AddedAt(k) /\ (Present(k)' <=> Present(k))
<1>1. EmbedAt(k)' = EmbedAt(k)
  BY DEF EmbedAt, AddrsStay, Types
<1>2. AddedAt(k)' = AddedAt(k)
  <2>1. add'.size = add.size /\ \A i \in 1..add.size : i \in 1..add.cap
    BY DEF AddrsStay, Types
  <2> QED BY <2>1 DEF AddedAt, AddrsStay
<1> QED BY <1>1, <1>2 DEF Present

(* A value is stored into the cell the call holds, in the current array.   *)
LEMMA WriteValueEffect ==
  ASSUME MapInv, NEW t \in Thread, WriteValue(t)
  PROVE  /\ call[t].pc = "held" /\ call[t].kind = "insert" /\ Located(t)
         /\ AddrsStay
         /\ \A i \in 1..Embedded : ~(Emb(t) /\ i = Index(t)) => embed'[i] = embed[i]
         /\ \A i \in 1..add.cap : ~(~Emb(t) /\ i = Index(t)) => add'.cells[i] = add.cells[i]
         /\ Emb(t) => embed'[Index(t)].val = call[t].val
         /\ ~Emb(t) => add'.cells[Index(t)].val = call[t].val
<1> DEFINE c == [Content(t) EXCEPT !.val = call[t].val]
<1>1. /\ Types /\ call[t].pc = "held" /\ call[t].kind = "insert" /\ Located(t) 
      /\ call[t].val \in Value \cup {NoValue}
  BY DEF MapInv, TypeOK, Types, WriteValue, At, CallOK, CellOK, Call
<1>2. c \in Cell /\ c.addr = Content(t).addr /\ c.val = call[t].val
  BY <1>1, CellType DEF Cell
<1>3. SetCell(t, c)
  BY DEF WriteValue
<1> HIDE DEF c
<1>4. /\ add'.gen = add.gen /\ add'.cap = add.cap /\ add'.size = add.size
      /\ \A i \in 1..Embedded : embed'[i] = IF Emb(t) /\ i = Index(t) THEN c ELSE embed[i]
      /\ \A i \in 1..add.cap : 
              add'.cells[i] = IF ~Emb(t) /\ i = Index(t) THEN c ELSE add.cells[i]
  BY <1>1, <1>2, <1>3, SetCellEffect
<1>5. /\ Emb(t) => Index(t) \in 1..Embedded /\ Content(t) = embed[Index(t)]
      /\ ~Emb(t) => Index(t) \in 1..add.cap /\ Content(t) = add.cells[Index(t)]
  BY <1>1, CellType
<1>6. AddrsStay
  BY <1>2, <1>4, <1>5 DEF AddrsStay
<1> QED BY <1>1, <1>2, <1>4, <1>5, <1>6

(* A Handle without a lock keeps its embedded cell.                        *)
LEMMA UnlockedCall ==
  ASSUME Types, NEW u \in Thread, CallOK(u), call'[u] = call[u], ~Writes(u), ~Reads(u),
         ASSUME call[u].pc \in {"held", "used"}, Emb(u), Index(u) \in 1..Embedded,
                embed[Index(u)].addr = call[u].key, call[u].kind # "remove"
         PROVE  embed'[Index(u)].addr = call[u].key
  PROVE  CallOK(u)'
<1>1. call[u].pc # "compact"
  BY DEF Writes
<1>2. ASSUME call[u].pc \in {"held", "used"} PROVE CellOK(u)'
  <2>1. Emb(u) /\ ~call[u].created /\ call[u].kind # "remove" /\ CellOK(u)
    BY <1>2 DEF Writes, Reads, CallOK
  <2>2. Index(u) \in 1..Embedded /\ embed[Index(u)].addr = call[u].key
    BY <2>1 DEF CellOK, Located, Found, Content
  <2>3. embed'[Index(u)].addr = call[u].key
    BY <1>2, <2>1, <2>2
  <2>4. Emb(u)' /\ Index(u)' = Index(u)
    BY <2>1 DEF Emb, Index
  <2>5. Content(u)' = embed'[Index(u)]
    BY <2>4 DEF Content
  <2> QED BY <2>1, <2>2, <2>3, <2>4, <2>5 DEF CellOK, Located, Found
<1> QED BY <1>1, <1>2 DEF CallOK

(* The address is stored into the cell that was prepared, which had none.  *)
LEMMA PublishEffect ==
  ASSUME MapInv, NEW t \in Thread, Publish(t)
  PROVE  /\ call[t].pc = "used" /\ call[t].created /\ Located(t) /\ Created(t) /\ failed' = FALSE
         /\ add'.gen = add.gen /\ add'.cap = add.cap /\ add'.size = add.size
         /\ \A i \in 1..Embedded : ~(Emb(t) /\ i = Index(t)) => embed'[i] = embed[i]
         /\ \A i \in 1..add.cap : ~(~Emb(t) /\ i = Index(t)) => add'.cells[i] = add.cells[i]
         /\ Emb(t) => /\ embed[Index(t)].addr = NoKey /\ embed'[Index(t)].addr = call[t].key
                      /\ embed'[Index(t)].val = call[t].val
         /\ ~Emb(t) => /\ add.cells[Index(t)].addr = NoKey 
                       /\ add'.cells[Index(t)].addr = call[t].key
                       /\ add'.cells[Index(t)].val = call[t].val
<1> DEFINE c == [Content(t) EXCEPT !.addr = call[t].key]
<1>1. /\ Types /\ call[t].pc = "used" /\ call[t].created /\ Located(t) /\ Created(t)
      /\ call[t].key \in Key
  BY DEF MapInv, TypeOK, Types, Publish, At, CallOK, CellOK
<1>2. c \in Cell /\ c.addr = call[t].key /\ c.val = Content(t).val
  BY <1>1, CellType DEF Cell
<1>3. SetCell(t, c) /\ failed' = (Content(t).addr # NoKey)
  BY DEF Publish
<1>4. Content(t).addr = NoKey /\ Content(t).val = call[t].val
  BY <1>1 DEF Created
<1> HIDE DEF c
<1>5. /\ add'.gen = add.gen /\ add'.cap = add.cap /\ add'.size = add.size
      /\ \A i \in 1..Embedded : embed'[i] = IF Emb(t) /\ i = Index(t) THEN c ELSE embed[i]
      /\ \A i \in 1..add.cap : 
              add'.cells[i] = IF ~Emb(t) /\ i = Index(t) THEN c ELSE add.cells[i]
  BY <1>1, <1>2, <1>3, SetCellEffect
<1>6. /\ Emb(t) => Index(t) \in 1..Embedded /\ Content(t) = embed[Index(t)]
      /\ ~Emb(t) => Index(t) \in 1..add.cap /\ Content(t) = add.cells[Index(t)]
  BY <1>1, CellType
<1> QED BY <1>1, <1>2, <1>3, <1>4, <1>5, <1>6

(* The address of an embedded cell is cleared.                             *)
LEMMA EraseEffect ==
  ASSUME MapInv, NEW t \in Thread, Erase(t)
  PROVE  /\ call[t].pc = "used" /\ call[t].kind = "remove" /\ ~call[t].created 
         /\ Located(t) /\ Found(t) /\ failed' = FALSE
         /\ add' = add /\ Emb(t) /\ Index(t) \in 1..Embedded
         /\ \A i \in 1..Embedded : i # Index(t) => embed'[i] = embed[i]
         /\ embed[Index(t)].addr = call[t].key /\ embed'[Index(t)].addr = NoKey
<1> DEFINE c == [Content(t) EXCEPT !.addr = NoKey]
<1>1. /\ Types /\ call[t].pc = "used" /\ call[t].kind = "remove" /\ Emb(t)
      /\ CellOK(t) /\ SetCell(t, c) /\ failed' = (Content(t).addr # call[t].key)
  BY DEF MapInv, TypeOK, Types, Erase, At, CallOK
<1>2. Located(t) /\ ~call[t].created /\ Found(t)
  BY <1>1 DEF CellOK, Created
<1>3. c \in Cell /\ c.addr = NoKey
  BY <1>1, <1>2, CellType DEF Cell
<1>4. Content(t) = embed[Index(t)] /\ Index(t) \in 1..Embedded
  BY <1>1, <1>2, CellType
<1>5. add' = add
  BY <1>1 DEF SetCell
<1> HIDE DEF c
<1>6. \A i \in 1..Embedded : embed'[i] = IF i = Index(t) THEN c ELSE embed[i]
  BY <1>1, <1>2, <1>3, SetCellEffect
<1> QED BY <1>1, <1>2, <1>3, <1>4, <1>5, <1>6 DEF Found

(* A step of one thread leaves the Handles of the others in order.         *)
LEMMA OtherCalls ==
  ASSUME MapInv, NEW t \in Thread, Start(t) \/ Work(t), NEW u \in Thread, u # t
  PROVE  CallOK(u)'
<1>1. /\ Types /\ Types' /\ CallOK(t) /\ CallOK(u) /\ call[u] \in Call /\ LocksOK /\ KeysApart
      /\ call'[u] = call[u]
  BY TypesNext, OthersStay DEF MapInv, TypeOK, Types
<1>2. ASSUME UNCHANGED <<embed, add>> PROVE CallOK(u)'
  <2>1. Emb(u)' = Emb(u) /\ Index(u)' = Index(u) /\ Content(u)' = Content(u)
    BY <1>1, <1>2 DEF Emb, Index, Content
  <2>2. Present(call[u].key)' = Present(call[u].key)
    BY <1>2, <1>1 DEF Present, EmbedAt, AddedAt
  <2>3. CellOK(u) => CellOK(u)'
    BY <1>1, <1>2, <2>1, <2>2 DEF CellOK, Located, Created, Found, InAdd
  <2> QED BY <1>1, <1>2, <2>1, <2>3 DEF CallOK
<1>3. CASE WriteValue(t)
  <2>1. /\ call[t].pc = "held" /\ Located(t) /\ AddrsStay
        /\ \A i \in 1..Embedded : ~(Emb(t) /\ i = Index(t)) => embed'[i] = embed[i]
        /\ \A i \in 1..add.cap : ~(~Emb(t) /\ i = Index(t)) => add'.cells[i] = add.cells[i]
    BY <1>3, WriteValueEffect
  <2>2. Emb(u)' = Emb(u) /\ Index(u)' = Index(u)
    BY <1>1 DEF Emb, Index
  <2>3. Present(call[u].key)' = Present(call[u].key)
    <3>1. PICK k : k = call[u].key /\ k = call'[u].key
      BY <1>1
    <3>2. EmbedAt(k)' = EmbedAt(k) /\ AddedAt(k)' = AddedAt(k)
      BY <1>1, <2>1, KeysStay
    <3>3. Present(k)' = Present(k)
      BY ONLY <3>2 DEF Present
    <3> QED BY ONLY <3>1, <3>3 DEF Present, EmbedAt, AddedAt
  <2>4. ASSUME call[u].pc \in {"held", "used"} PROVE CellOK(u)'
    <3>1. CellOK(u) /\ Located(u)
      BY <1>1, <2>4 DEF CallOK, CellOK
    <3>2. /\ Emb(u) => Index(u) \in 1..Embedded
          /\ ~Emb(u) => Index(u) \in 1..add.cap
      BY <1>1, <3>1, CellType
    <3>3. Content(u)'.addr = Content(u).addr
      BY <2>1, <2>2, <3>2 DEF Content, AddrsStay
    <3>4. call[u].created \/ call[u].kind = "remove" => Content(u)' = Content(u)
      <4>1. call[u].created \/ call[u].kind = "remove" 
              => ~((Emb(t) <=> Emb(u)) /\ Index(t) = Index(u))
        BY <1>1, <2>1, <2>4, CellsDiffer
      <4> QED BY <2>1, <2>2, <3>2, <4>1 DEF Content
    <3>5. Located(u)'
      BY <1>1, <2>1, <2>2, <3>1 DEF Located, AddrsStay, InAdd
    <3> QED BY <1>1, <2>3, <3>1, <3>3, <3>4, <3>5 DEF CellOK, Created, Found
  <2>5. call[u].pc = "compact" => (Emb(u) /\ Index(u) \in 1..Embedded /\ embed[Index(u)].addr = NoKey)'
    BY <1>1, <2>1, <2>2 DEF CallOK, AddrsStay
  <2> QED BY <1>1, <2>4, <2>5 DEF CallOK
<1>4. ASSUME ~Writes(u), ~Reads(u), 
             \A i \in 1..Embedded : 
               /\ embed[i].addr \in Key
               /\ call[u].pc # "idle" /\ call[u].key = embed[i].addr
               => embed'[i].addr = embed[i].addr
      PROVE  CallOK(u)'
  <2>1. ASSUME call[u].pc \in {"held", "used"}, Emb(u), Index(u) \in 1..Embedded,
                embed[Index(u)].addr = call[u].key, call[u].kind # "remove"
         PROVE  embed'[Index(u)].addr = call[u].key
    BY <1>1, <1>4, <2>1 DEF CallOK
  <2> QED BY <1>1, <1>4, <2>1, UnlockedCall
<1>5. CASE CreateAdded(t)
  <2>1. Unlocked /\ embed' = embed
    BY <1>5 DEF CreateAdded
  <2>2. ~Writes(u) /\ ~Reads(u)
    BY <1>1, <2>1, FreeOfLocks
  <2> QED BY <1>4, <2>1, <2>2
<1>6. Writes(t) => ~Writes(u) /\ ~Reads(u)
  BY <1>1, OneWriter DEF LocksOK
<1>7. CASE Publish(t)
  <2>1. /\ call[t].pc = "used" /\ call[t].created
        /\ \A i \in 1..Embedded : ~(Emb(t) /\ i = Index(t)) => embed'[i] = embed[i]
        /\ Emb(t) => embed[Index(t)].addr = NoKey
    BY <1>7, PublishEffect
  <2>2. Writes(t)
    BY <2>1 DEF Writes
  <2> QED BY <1>4, <1>6, <2>1, <2>2, MapAssumption
<1>8. CASE Erase(t)
  <2>1. /\ call[t].pc = "used" /\ call[t].kind = "remove"
        /\ \A i \in 1..Embedded : i # Index(t) => embed'[i] = embed[i]
        /\ embed[Index(t)].addr = call[t].key
    BY <1>8, EraseEffect
  <2>2. Writes(t)
    BY <2>1 DEF Writes
  <2>3. call[u].pc # "idle" => call[u].key # call[t].key
    BY <1>1, <2>1 DEF KeysApart
  <2> QED BY <1>4, <1>6, <2>1, <2>2, <2>3
<1>9. CASE MoveLast(t)
  <2>1. /\ call[t].pc = "compact" /\ embed[Index(t)].addr = NoKey
        /\ \A i \in 1..Embedded : i # Index(t) => embed'[i] = embed[i]
    BY <1>1, <1>9, MoveLastEffect DEF MoveLast, At
  <2>2. Writes(t)
    BY <2>1 DEF Writes
  <2> QED BY <1>4, <1>6, <2>1, <2>2, MapAssumption
<1>10. CASE EraseAdded(t)
  <2>1. call[t].pc = "used" /\ call[t].kind = "remove" /\ embed' = embed
    BY <1>10 DEF EraseAdded, At
  <2>2. Writes(t)
    BY <2>1 DEF Writes
  <2> QED BY <1>4, <1>6, <2>1, <2>2
<1>11. CASE Start(t)
  BY <1>2, <1>11 DEF Start, Begin
<1> QED
  BY <1>2, <1>3, <1>5, <1>7, <1>8, <1>9, <1>10, <1>11
  DEF Work, Acquire, Use, Release, ScanHit, ScanMiss, Peek, ReadHit, ReadMiss, LockRetry, LockFound,
      LockMiss, CreateEmbedded, ReadValue, MoveNothing, Unlock, Leave, Return

(* A cell is added behind the last one, in the array or in one twice as    *)
(* large.                                                                  *)
LEMMA CreateAddedCell ==
  ASSUME MapInv, NEW t \in Thread, CreateAdded(t)
  PROVE  /\ add' \in ArrayType' /\ add'.size = add.size + 1 
         /\ \A i \in 1..add.size : add'.cells[i] = add.cells[i]
         /\ \A i \in 1..add'.cap : i > add.size => add'.cells[i].addr = NoKey
         /\ add'.size \in 1..add'.size /\ add'.size \in 1..add'.cap
         /\ call'[t].cell = <<"add", add'.gen, add'.size>>
         /\ failed' = FALSE
<1>1. Types /\ Packed /\ LocksOK
  BY DEF MapInv, TypeOK, Types
<1>2. /\ add' \in ArrayType' /\ add'.size = add.size + 1 /\ add'.gen = Grown.gen
      /\ \A i \in 1..add.size : add'.cells[i] = add.cells[i]
      /\ \A i \in 1..add'.cap : i > add.size => add'.cells[i].addr = NoKey
      /\ failed' = FALSE
  BY <1>1, CreateAddedEffect
<1>3. call'[t].cell = <<"add", Grown.gen, Grown.size + 1>>
  BY <1>1, HoldFields DEF CreateAdded
<1>4. add'.size \in 1..add'.size /\ add'.size \in 1..add'.cap
  BY <1>1, <1>2 DEF Types, ArrayType
<1> QED BY <1>1, <1>2, <1>3, <1>4, GrownEffect

(* The key of a Handle that has created a cell is in no cell.              *)
LEMMA AbsentStays ==
  ASSUME Types, Types', NEW k \in Key, ~Present(k), embed' = embed,
         add' = add \/ (/\ add'.size = add.size + 1
                        /\ \A i \in 1..add.size : add'.cells[i] = add.cells[i]
                        /\ add'.cells[add'.size].addr = NoKey)
  PROVE  EmbedAt(k)' = {} /\ AddedAt(k)' = {}
<1>1. EmbedAt(k) = {} /\ AddedAt(k) = {}
  BY DEF Present
<1>2. CASE add' = add
  BY <1>1, <1>2 DEF EmbedAt, AddedAt
<1>3. CASE /\ add'.size = add.size + 1
           /\ \A i \in 1..add.size : add'.cells[i] = add.cells[i]
           /\ add'.cells[add'.size].addr = NoKey
  <2>1. \A i \in 1..add'.size : i \in 1..add.size \/ i = add'.size
    BY <1>3 DEF Types
  <2>2. \A i \in 1..add'.size : add'.cells[i].addr # k
    BY <1>1, <1>3, <2>1, MapAssumption DEF AddedAt
  <2> QED BY <1>1, <2>2 DEF EmbedAt, AddedAt
<1> QED BY <1>2, <1>3

(* The call that takes the step is where its cell allows it to be.         *)
LEMMA OwnCall ==
  ASSUME MapInv, NEW t \in Thread, Start(t) \/ Work(t)
  PROVE  CallOK(t)'
<1>1. /\ Types /\ Types' /\ CallOK(t) /\ call[t] \in Call /\ LocksOK /\ KeysApart /\ UniqueKeys
  BY TypesNext DEF MapInv, TypeOK, Types
<1>2. ASSUME call'[t] = Idle PROVE CallOK(t)'
  BY <1>2 DEF CallOK, Idle
<1>3. CASE Start(t)
  <2>1. PICK k \in Key, kind \in {"find", "insert", "remove"}, v \in Value \cup {NoValue} :
          BeginsWith(t, kind, k, v)
    BY <1>1, <1>3, BeginEffect
  <2>2. /\ call'[t].pc = IF kind = "remove" THEN "lock" ELSE "scan"
        /\ call'[t].kind = kind /\ call'[t].key = k /\ call'[t].val = v
        /\ kind = "insert" => v \in Value
        /\ kind # "insert" => v = NoValue
    <3>1. call'[t] = NewCall(kind, k, v)
      BY <2>1 DEF BeginsWith
    <3>2. /\ kind = "insert" => v \in Value
          /\ kind # "insert" => v = NoValue
      BY <2>1 DEF BeginsWith
    <3>3. /\ NewCall(kind, k, v).pc = IF kind = "remove" THEN "lock" ELSE "scan"
          /\ NewCall(kind, k, v).kind = kind /\ NewCall(kind, k, v).key = k 
          /\ NewCall(kind, k, v).val = v
      BY DEF NewCall, Idle
    <3> QED BY ONLY <3>1, <3>2, <3>3
  <2> QED BY <2>2 DEF CallOK
(* From one place in acquire to the next.                                  *)
<1>4. ASSUME call[t].pc \in {"scan", "peek", "readlock", "lock"},
             call'[t].pc \in {"scan", "peek", "readlock", "lock", "missed"}, 
             call'[t].key = call[t].key, call'[t].kind = call[t].kind, call'[t].val = call[t].val,
             call'[t].pc \in {"lock", "missed"} \/ call[t].kind # "remove",
             call'[t].pc = "missed" => call[t].kind # "insert"
      PROVE  CallOK(t)'
  BY <1>1, <1>4 DEF CallOK
<1>5. CASE ScanMiss(t)
  <2>1. /\ call[t].pc = "scan" /\ call'[t].pc \in {"scan", "peek"}
        /\ call'[t].key = call[t].key /\ call'[t].kind = call[t].kind /\ call'[t].val = call[t].val
    <3>1. CASE call[t].i < Embedded
      <4>1. call'[t] = [call[t] EXCEPT !.i = @ + 1] /\ call[t].pc = "scan"
        BY <1>1, <1>5, <3>1 DEF ScanMiss, At, Types
      <4> QED BY <1>1, <4>1 DEF Call
    <3>2. CASE ~(call[t].i < Embedded)
      BY <1>1, <1>5, <3>2, GoFields DEF ScanMiss, PCs
    <3> QED BY <3>1, <3>2
  <2> QED BY <1>1, <1>4, <2>1 DEF CallOK
<1>6. CASE Peek(t)
  <2>1. At(t, "peek") /\ \E pc \in {"lock", "readlock"} : Go(t, pc)
    BY <1>6 DEF Peek
  <2>2. /\ call[t].pc = "peek" /\ call'[t].pc \in {"lock", "readlock"}
        /\ call'[t].key = call[t].key /\ call'[t].kind = call[t].kind /\ call'[t].val = call[t].val
    BY <1>1, <2>1, GoFields DEF PCs
  <2> QED BY <1>1, <1>4, <2>2 DEF CallOK
<1>7. CASE ReadMiss(t)
  <2>1. /\ call[t].pc = "readlock" /\ call'[t].pc = "lock"
        /\ call'[t].key = call[t].key /\ call'[t].kind = call[t].kind /\ call'[t].val = call[t].val
    BY <1>1, <1>7, GoFields DEF ReadMiss, PCs
  <2> QED BY <1>4, <2>1
<1>8. CASE LockRetry(t)
  <2>1. /\ call[t].pc = "lock" /\ call'[t].pc = "scan" /\ call[t].kind # "remove"
        /\ call'[t].key = call[t].key /\ call'[t].kind = call[t].kind /\ call'[t].val = call[t].val
    BY <1>1, <1>8 DEF LockRetry, At, Types, Call
  <2> QED BY <1>4, <2>1
<1>9. CASE LockMiss(t)
  <2>1. /\ call[t].pc = "lock" /\ call'[t].pc = "missed" /\ call[t].kind # "insert"
        /\ call'[t].key = call[t].key /\ call'[t].kind = call[t].kind /\ call'[t].val = call[t].val
    BY <1>1, <1>9, GoFields DEF LockMiss, PCs
  <2> QED BY <1>4, <2>1
(* A cell is found or created.                                             *)
<1>10. ASSUME call[t].pc \in {"scan", "readlock", "lock"}, call'[t].pc = "held",
              call'[t].key = call[t].key, call'[t].kind = call[t].kind, call'[t].val = call[t].val,
              CellOK(t)'
       PROVE  CallOK(t)'
  BY <1>1, <1>10 DEF CallOK
<1>11. ASSUME UNCHANGED <<embed, add>>, call'[t].key = call[t].key, call'[t].pc = "held",
              ~call'[t].created, NEW i,
              \/ call'[t].cell = InEmbed(i) /\ i \in 1..Embedded /\ embed[i].addr = call[t].key
              \/ call'[t].cell = InAdd(i) /\ i \in 1..add.size /\ add.cells[i].addr = call[t].key
       PROVE  CellOK(t)'
  <2>1. CASE call'[t].cell = InEmbed(i) /\ i \in 1..Embedded /\ embed[i].addr = call[t].key
    <3>1. Emb(t)' /\ Index(t)' = i
      BY <2>1 DEF Emb, Index, InEmbed
    <3>2. Content(t)' = embed[i]
      BY <1>11, <3>1 DEF Content
    <3> QED BY <1>11, <2>1, <3>1, <3>2 DEF CellOK, Located, Found
  <2>2. CASE call'[t].cell = InAdd(i) /\ i \in 1..add.size /\ add.cells[i].addr = call[t].key
    <3>1. ~Emb(t)' /\ Index(t)' = i
      BY <2>2 DEF Emb, Index, InAdd
    <3>2. Content(t)' = add.cells[i]
      BY <1>11, <3>1 DEF Content
    <3> QED BY <1>11, <2>2, <3>1, <3>2 DEF CellOK, Located, Found, InAdd
  <2> QED BY <1>11, <2>1, <2>2
<1>12. CASE ScanHit(t)
  <2>1. /\ call[t].pc = "scan" /\ UNCHANGED <<embed, add>> /\ embed[call[t].i].addr = call[t].key
        /\ call[t].i \in 1..Embedded
    BY <1>1, <1>12 DEF ScanHit, At, Call
  <2>2. /\ call'[t].pc = "held" /\ call'[t].key = call[t].key /\ call'[t].kind = call[t].kind 
        /\ call'[t].val = call[t].val /\ call'[t].cell = InEmbed(call[t].i) /\ ~call'[t].created
    BY <1>1, <1>12, HoldFields DEF ScanHit
  <2> QED BY <1>10, <1>11, <2>1, <2>2
<1>13. CASE ReadHit(t)
  <2> DEFINE i == First(AddedAt(call[t].key))
  <2>1. /\ call[t].pc = "readlock" /\ UNCHANGED <<embed, add>>
        /\ i \in 1..add.size /\ add.cells[i].addr = call[t].key
    BY <1>1, <1>13, FirstCells DEF ReadHit, At
  <2>2. /\ call'[t].pc = "held" /\ call'[t].key = call[t].key /\ call'[t].kind = call[t].kind 
        /\ call'[t].val = call[t].val /\ call'[t].cell = InAdd(i) /\ ~call'[t].created
    BY <1>1, <1>13, HoldFields DEF ReadHit
  <2> QED BY <1>10, <1>11, <2>1, <2>2
<1>14. CASE LockFound(t)
  <2> DEFINE k == call[t].key
  <2>1. call[t].pc = "lock" /\ UNCHANGED <<embed, add>> /\ Present(k)
    BY <1>14 DEF LockFound, At
  <2>2. /\ call'[t].pc = "held" /\ call'[t].key = call[t].key /\ call'[t].kind = call[t].kind 
        /\ call'[t].val = call[t].val /\ ~call'[t].created
        /\ call'[t].cell = IF EmbedAt(k) # {} THEN InEmbed(First(EmbedAt(k)))
                           ELSE InAdd(First(AddedAt(k)))
    BY <1>1, <1>14, HoldFields DEF LockFound
  <2>3. CASE EmbedAt(k) # {}
    BY <1>1, <1>10, <1>11, <2>1, <2>2, <2>3, FirstCells
  <2>4. CASE EmbedAt(k) = {}
    <3>1. AddedAt(k) # {}
      BY <2>1, <2>4 DEF Present
    <3> QED BY <1>1, <1>10, <1>11, <2>1, <2>2, <2>4, <3>1, FirstCells
  <2> QED BY <2>3, <2>4
<1>15. ASSUME call[t].pc = "lock", call[t].kind = "insert", ~Present(call[t].key),
              call'[t].pc = "held", call'[t].key = call[t].key, call'[t].kind = call[t].kind, 
              call'[t].created, Located(t)', Content(t)'.addr = NoKey, embed' = embed,
              add' = add \/ (/\ add'.size = add.size + 1
                             /\ \A i \in 1..add.size : add'.cells[i] = add.cells[i]
                             /\ add'.cells[add'.size].addr = NoKey)
       PROVE  CellOK(t)'
  <2>1. call[t].key \in Key
    BY <1>1, <1>15 DEF CallOK
  <2>2. \A k \in Key : k = call[t].key => EmbedAt(k)' = {} /\ AddedAt(k)' = {}
    BY <1>1, <1>15, AbsentStays
  <2>3. ~Present(call[t].key)'
    BY <1>15, <2>1, <2>2 DEF Present, EmbedAt, AddedAt
  <2> QED BY <1>15, <2>3 DEF CellOK, Created
<1>16. CASE CreateEmbedded(t)
  <2> DEFINE i == First(EmbedAt(NoKey))
  <2>1. /\ call[t].pc = "lock" /\ call[t].kind = "insert" /\ ~Present(call[t].key)
        /\ UNCHANGED <<embed, add>> /\ i \in 1..Embedded /\ embed[i].addr = NoKey
    BY <1>1, <1>16, FirstCells DEF CreateEmbedded, At
  <2>2. /\ call'[t].pc = "held" /\ call'[t].key = call[t].key /\ call'[t].kind = call[t].kind 
        /\ call'[t].val = call[t].val /\ call'[t].created /\ call'[t].cell = InEmbed(i)
    BY <1>1, <1>16, HoldFields DEF CreateEmbedded
  <2>3. Emb(t)' /\ Index(t)' = i
    BY <2>2 DEF Emb, Index, InEmbed
  <2>4. Located(t)' /\ Content(t)'.addr = NoKey
    BY <2>1, <2>3 DEF Located, Content
  <2> QED BY <1>10, <1>15, <2>1, <2>2, <2>4
<1>17. CASE CreateAdded(t)
  <2>1. /\ call[t].pc = "lock" /\ call[t].kind = "insert" /\ ~Present(call[t].key)
        /\ embed' = embed
    BY <1>1, <1>17 DEF CreateAdded, At
  <2>2. /\ call'[t].pc = "held" /\ call'[t].key = call[t].key /\ call'[t].kind = call[t].kind 
        /\ call'[t].val = call[t].val /\ call'[t].created
    BY <1>1, <1>17, HoldFields DEF CreateAdded
  <2>3. /\ add'.size = add.size + 1 /\ add'.size > add.size
        /\ \A i \in 1..add.size : add'.cells[i] = add.cells[i]
        /\ add'.cells[add'.size].addr = NoKey
        /\ add'.size \in 1..add'.size
        /\ call'[t].cell = <<"add", add'.gen, add'.size>>
    <3>1. add.size \in Nat
      BY <1>1 DEF Types
    <3>2. /\ add'.size = add.size + 1 /\ add'.size \in 1..add'.cap
          /\ \A i \in 1..add'.cap : i > add.size => add'.cells[i].addr = NoKey
      BY <1>17, CreateAddedCell
    <3>3. add'.size > add.size
      BY <3>1, <3>2
    <3> QED BY <1>17, <3>2, <3>3, CreateAddedCell
  <2>4. ~Emb(t)' /\ Index(t)' = add'.size
    BY <2>3 DEF Emb, Index
  <2>5. Located(t)' /\ Content(t)'.addr = NoKey
    BY <2>3, <2>4 DEF Located, Content, InAdd
  <2> QED BY <1>10, <1>15, <2>1, <2>2, <2>3, <2>5
(* The use of the value.                                                   *)
<1>18. CASE WriteValue(t)
  <2>1. /\ call[t].pc = "held" /\ call'[t].pc = "used" /\ call'[t].kind = call[t].kind
        /\ call'[t].key = call[t].key /\ call'[t].val = call[t].val
        /\ call'[t].created = call[t].created /\ call'[t].cell = call[t].cell
    BY <1>1, <1>18, GoFields DEF WriteValue, PCs
  <2>2. /\ call[t].kind = "insert" /\ Located(t) /\ AddrsStay
        /\ Emb(t) => embed'[Index(t)].val = call[t].val
        /\ ~Emb(t) => add'.cells[Index(t)].val = call[t].val
    BY <1>18, WriteValueEffect
  <2>3. Emb(t)' = Emb(t) /\ Index(t)' = Index(t)
    BY <2>1 DEF Emb, Index
  <2>4. /\ Emb(t) => Index(t) \in 1..Embedded
        /\ ~Emb(t) => Index(t) \in 1..add.cap
    BY <1>1, <2>2, CellType
  <2>5. Content(t)'.addr = Content(t).addr /\ Content(t)'.val = call[t].val
    BY <2>2, <2>3, <2>4 DEF Content, AddrsStay
  <2>6. Located(t)'
    BY <2>1, <2>2, <2>3 DEF Located, InAdd, AddrsStay
  <2>7. Present(call[t].key)' = Present(call[t].key)
    <3>1. \A k : EmbedAt(k)' = EmbedAt(k) /\ AddedAt(k)' = AddedAt(k)
      BY <1>1, <2>2, KeysStay
    <3>2. EmbedAt(call[t].key)' = EmbedAt(call[t].key) /\ AddedAt(call[t].key)' = AddedAt(call[t].key)
      BY <2>1, <3>1 DEF EmbedAt, AddedAt
    <3> QED BY <3>2 DEF Present
  <2>8. CellOK(t)'
    BY <1>1, <2>1, <2>2, <2>5, <2>6, <2>7 DEF CallOK, CellOK, Created, Found
  <2> QED BY <1>1, <2>1, <2>2, <2>8 DEF CallOK
<1>19. CASE ReadValue(t)
  <2>1. /\ call[t].pc = "held" /\ call[t].kind # "insert" /\ UNCHANGED <<embed, add>>
        /\ call'[t].pc = "used" /\ call'[t].kind = call[t].kind
        /\ call'[t].key = call[t].key /\ call'[t].val = Content(t).val
        /\ call'[t].created = call[t].created /\ call'[t].cell = call[t].cell
    BY <1>1, <1>19 DEF ReadValue, At, Types, Call
  <2>2. Emb(t)' = Emb(t) /\ Index(t)' = Index(t) /\ Content(t)' = Content(t)
    BY <2>1 DEF Emb, Index, Content
  <2>3. CellOK(t) /\ ~call[t].created
    BY <1>1, <2>1 DEF CallOK, CellOK, Created
  <2>4. CellOK(t)'
    BY <2>1, <2>2, <2>3 DEF CellOK, Located, Found, InAdd
  <2> QED BY <1>1, <2>1, <2>4 DEF CallOK
(* release                                                                 *)
<1>20. ASSUME call[t].pc \in {"used", "compact"}, call'[t].pc = "unlock", 
              call'[t].key = call[t].key, call'[t].kind = call[t].kind, call'[t].val = call[t].val
       PROVE  CallOK(t)'
  BY <1>1, <1>20 DEF CallOK
<1>21. CASE Publish(t)
  BY <1>1, <1>20, <1>21, GoFields DEF Publish, PCs
<1>22. CASE Erase(t)
  <2>1. /\ call[t].pc = "used" /\ call'[t].pc = "compact" /\ call'[t].kind = call[t].kind
        /\ call'[t].key = call[t].key /\ call'[t].val = call[t].val /\ call'[t].cell = call[t].cell
    BY <1>1, <1>22, GoFields DEF Erase, PCs
  <2>2. Emb(t) /\ Index(t) \in 1..Embedded /\ embed'[Index(t)].addr = NoKey 
        /\ call[t].kind = "remove"
    BY <1>22, EraseEffect
  <2>3. Emb(t)' = Emb(t) /\ Index(t)' = Index(t)
    BY <2>1 DEF Emb, Index
  <2> QED BY <1>1, <2>1, <2>2, <2>3 DEF CallOK
<1>23. CASE MoveLast(t)
  BY <1>1, <1>20, <1>23, GoFields DEF MoveLast, PCs
<1>24. CASE MoveNothing(t)
  BY <1>1, <1>20, <1>24, GoFields DEF MoveNothing, PCs
<1>25. CASE EraseAdded(t)
  BY <1>1, <1>20, <1>25, GoFields DEF EraseAdded, PCs
<1>26. CASE Unlock(t)
  BY <1>1, <1>2, <1>26 DEF Unlock, Types
<1>27. CASE Leave(t)
  BY <1>1, <1>2, <1>27 DEF Leave, Types
<1>28. CASE Return(t)
  BY <1>1, <1>2, <1>28 DEF Return, Types
<1> QED
  BY <1>3, <1>5, <1>6, <1>7, <1>8, <1>9, <1>12, <1>13, <1>14, <1>16, <1>17, <1>18, <1>19, <1>21,
     <1>22, <1>23, <1>24, <1>25, <1>26, <1>27, <1>28 DEF Work, Acquire, Use, Release

----------------------------------------------------------------------------
(* The keys.                                                               *)

(* A Handle keeps its key and its kind until it is released.               *)
LEMMA WorkKeepsKey ==
  ASSUME Types, NEW t \in Thread, Work(t), call'[t].pc # "idle"
  PROVE  call[t].pc # "idle" /\ call'[t].key = call[t].key /\ call'[t].kind = call[t].kind
<1>1. ASSUME NEW from \in PCs \ {"idle"}, NEW pc \in PCs, At(t, from), Go(t, pc)
      PROVE  call[t].pc # "idle" /\ call'[t].key = call[t].key /\ call'[t].kind = call[t].kind
  BY <1>1, GoFields
<1>2. ASSUME NEW from \in PCs \ {"idle"}, At(t, from), NEW cell, NEW created, Hold(t, cell, created)
      PROVE  call[t].pc # "idle" /\ call'[t].key = call[t].key /\ call'[t].kind = call[t].kind
  BY <1>2, HoldFields DEF At
<1>3. call'[t] # Idle
  BY DEF Idle
<1>4. ~Unlock(t) /\ ~Leave(t) /\ ~Return(t)
  BY <1>3 DEF Unlock, Leave, Return, Types
<1>5. CASE ScanMiss(t)
  <2>1. CASE call[t].i < Embedded
    <3>1. call'[t] = [call[t] EXCEPT !.i = @ + 1] /\ call[t].pc = "scan" /\ call[t] \in Call
      BY <1>5, <2>1 DEF ScanMiss, At, Types
    <3> QED BY <3>1 DEF Call
  <2> QED BY <1>1, <1>5, <2>1 DEF ScanMiss, PCs
<1>6. CASE LockRetry(t)
  BY <1>6 DEF LockRetry, At, Types, Call
<1>7. CASE ReadValue(t)
  BY <1>7 DEF ReadValue, At, Types, Call
<1>8. CASE Peek(t)
  <2>1. At(t, "peek") /\ \E pc \in {"lock", "readlock"} : Go(t, pc)
    BY <1>8 DEF Peek
  <2> QED BY <1>1, <2>1 DEF PCs
<1>9. CASE ScanHit(t) \/ ReadHit(t) \/ LockFound(t) \/ CreateEmbedded(t) \/ CreateAdded(t)
  BY <1>2, <1>9 DEF ScanHit, ReadHit, LockFound, CreateEmbedded, CreateAdded, PCs
<1>10. CASE ReadMiss(t) \/ LockMiss(t) \/ WriteValue(t)
  BY <1>1, <1>10 DEF ReadMiss, LockMiss, WriteValue, PCs
<1>11. CASE Publish(t) \/ Erase(t) \/ MoveLast(t) \/ MoveNothing(t) \/ EraseAdded(t)
  BY <1>1, <1>11 DEF Publish, Erase, MoveLast, MoveNothing, EraseAdded, PCs
<1> QED
  BY <1>4, <1>5, <1>6, <1>7, <1>8, <1>9, <1>10, <1>11 DEF Work, Acquire, Use, Release

(* No key gets a second cell.                                              *)
LEMMA ApartNext ==
  ASSUME MapInv, NEW t \in Thread, Start(t) \/ Work(t)
  PROVE  KeysApart'
<1>1. Types /\ KeysApart
  BY DEF MapInv, TypeOK, Types
<1>2. \A u \in Thread \ {t} : call'[u] = call[u]
  BY <1>1, OthersStay
<1>3. CASE Work(t)
  <2>1. call'[t].pc # "idle" => 
          call[t].pc # "idle" /\ call'[t].key = call[t].key /\ call'[t].kind = call[t].kind
    BY <1>1, <1>3, WorkKeepsKey
  <2> QED BY <1>1, <1>2, <2>1 DEF KeysApart
<1>4. CASE Start(t)
  <2>1. PICK k \in Key, kind \in {"find", "insert", "remove"}, v \in Value \cup {NoValue} :
          BeginsWith(t, kind, k, v)
    BY <1>1, <1>4, BeginEffect
  <2>2. Undisturbed(kind, k) /\ call'[t] = NewCall(kind, k, v)
    BY <2>1 DEF BeginsWith, Begin
  <2>3. call'[t].kind = kind /\ call'[t].key = k
    BY <2>2 DEF NewCall, Idle
  <2>4. \A u \in Thread \ {t} : call[u].pc # "idle" /\ call[u].key = k => 
           kind # "remove" /\ call[u].kind # "remove"
    BY <2>2 DEF Undisturbed
  <2> QED BY <1>1, <1>2, <2>3, <2>4 DEF KeysApart
<1> QED BY <1>3, <1>4

(* The same of cells: those that hold keys hold different ones.            *)
CellsApart ==
  /\ \A i, j \in 1..Embedded : embed[i].addr = embed[j].addr /\ embed[i].addr \in Key => i = j
  /\ \A i, j \in 1..add.size : 
       add.cells[i].addr = add.cells[j].addr /\ add.cells[i].addr \in Key => i = j
  /\ \A i \in 1..Embedded, j \in 1..add.size : 
       embed[i].addr \in Key => add.cells[j].addr # embed[i].addr

(* A key with one cell, said of the cells and of the keys.                 *)
LEMMA UniqueCells ==
  ASSUME Types
  PROVE  UniqueKeys <=> CellsApart
<1>1. ASSUME UniqueKeys PROVE CellsApart
  <2>1. \A i \in 1..Embedded : i \in EmbedAt(embed[i].addr)
    BY DEF EmbedAt, Types
  <2>2. \A i \in 1..add.size : i \in AddedAt(add.cells[i].addr)
    BY DEF AddedAt
  <2>3. /\ \A i, j \in 1..Embedded : embed[i].addr = embed[j].addr /\ embed[i].addr \in Key => i = j
        /\ \A i, j \in 1..add.size : 
             add.cells[i].addr = add.cells[j].addr /\ add.cells[i].addr \in Key => i = j
    BY <1>1, <2>1, <2>2 DEF UniqueKeys
  <2>4. ASSUME NEW i \in 1..Embedded, NEW j \in 1..add.size, embed[i].addr \in Key,
               add.cells[j].addr = embed[i].addr
        PROVE  FALSE
    BY <1>1, <2>1, <2>2, <2>4 DEF UniqueKeys
  <2> QED BY <2>3, <2>4 DEF CellsApart
<1>2. ASSUME CellsApart PROVE UniqueKeys
  <2> SUFFICES ASSUME NEW k \in Key
               PROVE  /\ \A i, j \in EmbedAt(k) : i = j
                      /\ \A i, j \in AddedAt(k) : i = j
                      /\ EmbedAt(k) = {} \/ AddedAt(k) = {}
    BY DEF UniqueKeys
  <2>1. \A i \in EmbedAt(k) : i \in 1..Embedded /\ embed[i].addr = k
    BY DEF EmbedAt, Types
  <2>2. \A i \in AddedAt(k) : i \in 1..add.size /\ add.cells[i].addr = k
    BY DEF AddedAt
  <2> QED BY <1>2, <2>1, <2>2 DEF CellsApart
<1> QED BY <1>1, <1>2

(* Unless one of them is being created, the added cells hold keys.         *)
LEMMA AddedKeys ==
  ASSUME MapInv, NEW t \in Thread, Writes(t) \/ Unlocked,
         ~(call[t].pc \in {"held", "used"} /\ call[t].created)
  PROVE  \A i \in 1..add.size : add.cells[i].addr \in Key
<1>1. Types /\ Packed /\ LocksOK
  BY DEF MapInv, TypeOK, Types
<1>2. \A u \in Thread : ~(call[u].pc \in {"held", "used"} /\ call[u].created)
  <2>1. CASE Unlocked
    BY <1>1, <2>1, FreeOfLocks DEF Writes
  <2>2. CASE Writes(t)
    <3>1. \A u \in Thread \ {t} : ~Writes(u)
      BY <1>1, <2>2 DEF LocksOK
    <3> QED BY <3>1 DEF Writes
  <2> QED BY <2>1, <2>2
<1>3. \A i \in 1..add.size : i \in 1..add.cap /\ ~(i > add.size) /\ add.cells[i] \in Cell
  BY <1>1 DEF Types
<1>4. \A i \in 1..add.size : add.cells[i].addr # NoKey
  BY <1>1, <1>2, <1>3 DEF Packed
<1> QED BY <1>3, <1>4 DEF Cell

(* The same, as an implication.                                            *)
LEMMA UniqueIsApart == Types => (UniqueKeys <=> CellsApart)
BY UniqueCells

(* The same, of the next state.                                            *)
LEMMA UniqueThen == Types' => (UniqueKeys' <=> CellsApart')
BY UniqueIsApart, PTL

(* Keys keep to one cell.                                                  *)
LEMMA UniqueNext ==
  ASSUME MapInv, NEW t \in Thread, Start(t) \/ Work(t)
  PROVE  UniqueKeys'
<1>1. Types /\ Types' /\ CallOK(t) /\ CellsApart /\ UniqueKeys
  BY TypesNext, UniqueCells DEF MapInv, TypeOK, Types
<1>2. ASSUME CellsApart' PROVE UniqueKeys'
  BY <1>1, <1>2, UniqueThen
<1>3. ASSUME UNCHANGED <<embed, add>> PROVE UniqueKeys'
  <2>1. CellsApart'
    BY <1>1, <1>3 DEF CellsApart
  <2> QED BY <1>2, <2>1
<1>4. CASE WriteValue(t)
  <2>1. AddrsStay
    BY <1>4, WriteValueEffect
  <2>2. \A i \in 1..add.size : i \in 1..add.cap
    BY <1>1 DEF Types
  <2>3. CellsApart'
    BY <1>1, <2>1, <2>2 DEF CellsApart, AddrsStay
  <2> QED BY <1>2, <2>3
<1>5. CASE CreateAdded(t)
  <2>1. /\ embed' = embed /\ add'.size = add.size + 1 /\ add.size \in Nat
        /\ \A i \in 1..add.size : add'.cells[i] = add.cells[i]
        /\ \A i \in 1..add'.cap : i > add.size => add'.cells[i].addr = NoKey
        /\ add'.size \in 1..add'.cap /\ add'.cap \in Nat
    <3>1. add.size \in Nat /\ add'.cap \in Nat
      BY <1>1 DEF Types
    <3>2. embed' = embed
      BY <1>5 DEF CreateAdded
    <3> QED BY <1>5, <3>1, <3>2, CreateAddedCell
  <2>2. \A i \in 1..add'.size : i \in 1..add.size \/ add'.cells[i].addr \notin Key
    BY <2>1, MapAssumption
  <2>3. CellsApart'
    BY <1>1, <2>1, <2>2 DEF CellsApart
  <2> QED BY <1>2, <2>3
<1>6. CASE Publish(t)
  <2>1. /\ Located(t) /\ Created(t) /\ add'.size = add.size /\ call[t].pc = "used"
        /\ \A i \in 1..Embedded : ~(Emb(t) /\ i = Index(t)) => embed'[i] = embed[i]
        /\ \A i \in 1..add.cap : ~(~Emb(t) /\ i = Index(t)) => add'.cells[i] = add.cells[i]
        /\ Emb(t) => embed'[Index(t)].addr = call[t].key
        /\ ~Emb(t) => add'.cells[Index(t)].addr = call[t].key
    BY <1>6, PublishEffect
  <2>2. /\ \A i \in 1..Embedded : embed[i].addr # call[t].key
        /\ \A i \in 1..add.size : add.cells[i].addr # call[t].key
    BY <1>1, <2>1 DEF Created, Present, EmbedAt, AddedAt, Types
  <2>3. \A i \in 1..add.size : i \in 1..add.cap
    BY <1>1 DEF Types
  <2>4. CASE Emb(t)
    <3>1. \A i \in 1..add.size : add'.cells[i] = add.cells[i]
      BY <2>1, <2>3, <2>4
    <3>2. \A i \in 1..Embedded : embed'[i].addr = IF i = Index(t) THEN call[t].key ELSE embed[i].addr
      BY <2>1, <2>4
    <3>3. CellsApart'
      BY <1>1, <2>1, <2>2, <3>1, <3>2 DEF CellsApart
    <3> QED BY <1>2, <3>3
  <2>5. CASE ~Emb(t)
    <3>1. \A i \in 1..Embedded : embed'[i] = embed[i]
      BY <2>1, <2>5
    <3>2. \A i \in 1..add.size : 
            add'.cells[i].addr = IF i = Index(t) THEN call[t].key ELSE add.cells[i].addr
      BY <2>1, <2>3, <2>5
    <3>3. CellsApart'
      BY <1>1, <2>1, <2>2, <3>1, <3>2 DEF CellsApart
    <3> QED BY <1>2, <3>3
  <2> QED BY <2>4, <2>5
<1>7. CASE Erase(t)
  <2>1. /\ add' = add /\ \A i \in 1..Embedded : i # Index(t) => embed'[i] = embed[i]
        /\ embed'[Index(t)].addr = NoKey
    BY <1>7, EraseEffect
  <2>2. \A i \in 1..Embedded : embed'[i].addr = embed[i].addr \/ embed'[i].addr \notin Key
    BY <2>1, MapAssumption
  <2>3. CellsApart'
    BY <1>1, <2>1, <2>2 DEF CellsApart
  <2> QED BY <1>2, <2>3
<1>8. CASE MoveLast(t)
  <2>1. /\ add.size \in 1..add.cap /\ add'.size = add.size - 1 /\ add.cap \in Nat
        /\ \A i \in 1..Embedded : 
              embed'[i] = IF i = Index(t) THEN add.cells[add.size] ELSE embed[i]
        /\ \A i \in 1..add.cap : i # add.size => add'.cells[i] = add.cells[i]
    BY <1>1, <1>8, MoveLastEffect DEF Types
  <2>2. \A i \in 1..add'.size : i \in 1..add.size /\ i # add.size /\ add'.cells[i] = add.cells[i]
    BY <2>1
  <2>3. add.size \in 1..add.size
    BY <2>1
  <2>4. CellsApart'
    BY <1>1, <2>1, <2>2, <2>3 DEF CellsApart
  <2> QED BY <1>2, <2>4
<1>9. CASE EraseAdded(t)
  <2>1. Located(t)
    BY <1>1, <1>9 DEF EraseAdded, At, CallOK, CellOK
  <2>2. /\ embed' = embed /\ add.size \in 1..add.cap /\ add'.size = add.size - 1 /\ add.cap \in Nat
        /\ \A i \in 1..add.cap : i # add.size => 
              add'.cells[i] = IF i = Index(t) THEN add.cells[add.size] ELSE add.cells[i]
    BY <1>1, <1>9, <2>1, EraseAddedEffect DEF Types
  <2>3. \A i \in 1..add'.size : 
          /\ i \in 1..add.size /\ i # add.size 
          /\ add'.cells[i] = IF i = Index(t) THEN add.cells[add.size] ELSE add.cells[i]
    BY <2>2
  <2>4. add.size \in 1..add.size
    BY <2>2
  <2>5. CellsApart'
    BY <1>1, <2>2, <2>3, <2>4 DEF CellsApart
  <2> QED BY <1>2, <2>5
<1>10. CASE Start(t)
  BY <1>3, <1>10 DEF Start, Begin
<1> QED
  BY <1>3, <1>4, <1>5, <1>6, <1>7, <1>8, <1>9, <1>10
  DEF Work, Acquire, Use, Release, ScanHit, ScanMiss, Peek, ReadHit, ReadMiss, LockRetry, LockFound,
      LockMiss, CreateEmbedded, ReadValue, MoveNothing, Unlock, Leave, Return

(* The added cells stay packed, but for the one being removed.             *)
LEMMA PackedNext ==
  ASSUME MapInv, NEW t \in Thread, Start(t) \/ Work(t)
  PROVE  Packed'
<1> DEFINE Creates(u, i) == call[u].pc \in {"held", "used"} /\ call[u].created /\ call[u].cell = InAdd(i)
<1>1. /\ Types /\ Types' /\ CallOK(t) /\ Packed /\ LocksOK
      /\ \A u \in Thread \ {t} : call'[u] = call[u]
  BY TypesNext, OthersStay DEF MapInv, TypeOK, Types
<1>2. \A i \in 1..add.cap : 
        IF i > add.size THEN add.cells[i].addr = NoKey
        ELSE add.cells[i].addr # NoKey \/ \E u \in Thread : Creates(u, i)
  BY <1>1 DEF Packed
<1>3. ASSUME \A i \in 1..add'.cap : 
               IF i > add'.size THEN add'.cells[i].addr = NoKey
               ELSE add'.cells[i].addr # NoKey \/ \E u \in Thread : Creates(u, i)'
      PROVE  Packed'
  BY <1>3 DEF Packed
<1>4. ASSUME add'.cap = add.cap, add'.size = add.size, add'.gen = add.gen,
             \A i \in 1..add.cap : add'.cells[i].addr = add.cells[i].addr,
             call[t].pc \in {"held", "used"} /\ call[t].created =>
               call'[t].pc \in {"held", "used"} /\ call'[t].created /\ call'[t].cell = call[t].cell
      PROVE  Packed'
  <2>1. \A u \in Thread, i \in 1..add.cap : Creates(u, i) => Creates(u, i)'
    BY <1>1, <1>4 DEF InAdd
  <2> QED BY <1>2, <1>3, <1>4, <2>1
(* All added cells hold keys before or after the step.                     *)
<1>5. ASSUME \A i \in 1..add'.size : add'.cells[i].addr \in Key,
             \A i \in 1..add'.cap : i > add'.size => add'.cells[i].addr = NoKey
      PROVE  Packed'
  <2>1. \A i \in 1..add'.cap : i > add'.size \/ i \in 1..add'.size
    BY <1>1 DEF Types
  <2> QED BY <1>3, <1>5, <2>1, MapAssumption
<1>6. CASE WriteValue(t)
  <2>1. call'[t].pc = "used" /\ call'[t].created = call[t].created /\ call'[t].cell = call[t].cell
    BY <1>1, <1>6, GoFields DEF WriteValue, PCs
  <2>2. AddrsStay
    BY <1>6, WriteValueEffect
  <2> QED BY <1>4, <2>1, <2>2 DEF AddrsStay
<1>7. CASE CreateAdded(t)
  <2>1. Unlocked /\ call[t].pc = "lock"
    BY <1>7 DEF CreateAdded, At
  <2>2. \A i \in 1..add.size : add.cells[i].addr \in Key
    BY <2>1, AddedKeys
  <2>3. /\ add'.size = add.size + 1 /\ add.size \in Nat /\ add'.cap \in Nat
        /\ \A i \in 1..add.size : add'.cells[i] = add.cells[i]
        /\ \A i \in 1..add'.cap : i > add.size => add'.cells[i].addr = NoKey
        /\ call'[t].cell = <<"add", add'.gen, add'.size>>
    <3>1. add.size \in Nat /\ add'.cap \in Nat
      BY <1>1 DEF Types
    <3> QED BY <1>7, <3>1, CreateAddedCell
  <2>4. call'[t].pc = "held" /\ call'[t].created
    BY <1>1, <1>7, HoldFields DEF CreateAdded
  <2>6. ASSUME NEW i \in 1..add'.cap
        PROVE  IF i > add'.size THEN add'.cells[i].addr = NoKey
               ELSE add'.cells[i].addr # NoKey \/ \E u \in Thread : Creates(u, i)'
    <3>1. CASE i > add'.size
      BY <2>3, <3>1
    <3>2. CASE i = add'.size
      <4>1. Creates(t, i)'
        BY <2>3, <2>4, <3>2 DEF InAdd
      <4> QED BY <2>3, <3>2, <4>1
    <3>3. CASE i < add'.size
      BY <2>2, <2>3, <3>3, MapAssumption
    <3> QED BY <2>3, <3>1, <3>2, <3>3
  <2> QED BY <1>3, <2>6
<1>8. CASE Publish(t)
  <2>1. /\ call[t].pc = "used" /\ call[t].created /\ Located(t) /\ call[t].key \in Key
        /\ add'.gen = add.gen /\ add'.cap = add.cap /\ add'.size = add.size
        /\ \A i \in 1..add.cap : ~(~Emb(t) /\ i = Index(t)) => add'.cells[i] = add.cells[i]
        /\ ~Emb(t) => add'.cells[Index(t)].addr = call[t].key
    BY <1>1, <1>8, PublishEffect DEF CallOK
  <2>2. \A u \in Thread \ {t} : ~(call[u].pc \in {"held", "used"} /\ call[u].created)
    BY <1>1, <2>1 DEF LocksOK, Writes
  <2>3. ASSUME NEW i \in 1..add.cap, ~(i > add.size), add.cells[i].addr = NoKey
        PROVE  ~Emb(t) /\ i = Index(t)
    <3>1. call[t].cell = InAdd(i)
      BY <1>2, <2>2, <2>3
    <3> QED BY <3>1 DEF Emb, Index, InAdd
  <2>4. ASSUME NEW i \in 1..add.cap
        PROVE  IF i > add.size THEN add'.cells[i].addr = NoKey ELSE add'.cells[i].addr # NoKey
    <3>1. CASE ~Emb(t) /\ i = Index(t)
      <4>1. ~(i > add.size)
        BY <1>1, <2>1, <3>1, CellType DEF Types
      <4> QED BY <2>1, <3>1, <4>1, MapAssumption
    <3>2. CASE ~(~Emb(t) /\ i = Index(t))
      BY <1>2, <2>1, <2>3, <3>2
    <3> QED BY <3>1, <3>2
  <2> QED BY <1>3, <2>1, <2>4
<1>9. CASE Erase(t)
  BY <1>4, <1>9, EraseEffect
<1>10. CASE MoveLast(t)
  <2>1. call[t].pc = "compact" /\ Writes(t)
    BY <1>10 DEF MoveLast, At, Writes
  <2>2. \A i \in 1..add.size : add.cells[i].addr \in Key
    BY <2>1, AddedKeys
  <2>3. /\ add.size \in 1..add.cap /\ add'.size = add.size - 1 /\ add.cap \in Nat
        /\ add'.cap = add.cap
        /\ \A i \in 1..add.cap : i # add.size => add'.cells[i] = add.cells[i]
        /\ add'.cells[add.size].addr = NoKey
    BY <1>1, <1>10, MoveLastEffect DEF Types
  <2>4. \A i \in 1..add'.size : add'.cells[i].addr \in Key
    BY <2>2, <2>3
  <2>5. \A i \in 1..add'.cap : i > add'.size => add'.cells[i].addr = NoKey
    BY <1>2, <2>3
  <2> QED BY <1>5, <2>4, <2>5
<1>11. CASE EraseAdded(t)
  <2>1. call[t].pc = "used" /\ call[t].kind = "remove" /\ Writes(t) /\ Located(t) /\ ~call[t].created
    BY <1>1, <1>11 DEF EraseAdded, At, Writes, CallOK, CellOK, Created
  <2>2. \A i \in 1..add.size : add.cells[i].addr \in Key
    BY <2>1, AddedKeys
  <2>3. /\ add.size \in 1..add.cap /\ add'.size = add.size - 1 /\ add.cap \in Nat
        /\ add'.cap = add.cap
        /\ \A i \in 1..add.cap : i # add.size => 
              add'.cells[i] = IF i = Index(t) THEN add.cells[add.size] ELSE add.cells[i]
        /\ add'.cells[add.size].addr = NoKey /\ Index(t) \in 1..add.size
    BY <1>1, <1>11, <2>1, EraseAddedEffect DEF Types
  <2>4. \A i \in 1..add'.size : add'.cells[i].addr \in Key
    BY <2>2, <2>3
  <2>5. \A i \in 1..add'.cap : i > add'.size => add'.cells[i].addr = NoKey
    BY <1>2, <2>3
  <2> QED BY <1>5, <2>4, <2>5
(* No other step changes a cell or takes one from a thread that creates it. *)
<1>12. ASSUME add' = add, ~(call[t].pc \in {"held", "used"} /\ call[t].created) PROVE Packed'
  BY <1>4, <1>12
<1>13. CASE Start(t)
  BY <1>12, <1>13 DEF Start, Begin, At
<1>14. CASE ReadValue(t)
  <2>1. add' = add /\ call[t].pc = "held" /\ call[t].kind # "insert"
    BY <1>14 DEF ReadValue, At
  <2>2. ~call[t].created
    BY <1>1, <2>1 DEF CallOK, CellOK, Created
  <2> QED BY <1>12, <2>1, <2>2
<1>15. CASE Acquire(t) /\ ~CreateAdded(t)
  <2>1. add' = add /\ call[t].pc \in {"scan", "peek", "readlock", "lock"}
    BY <1>15 DEF Acquire, ScanHit, ScanMiss, Peek, ReadHit, ReadMiss, LockRetry, LockFound, LockMiss, 
                 CreateEmbedded, At
  <2> QED BY <1>12, <2>1
<1>16. CASE MoveNothing(t) \/ Unlock(t) \/ Leave(t) \/ Return(t)
  <2>1. add' = add /\ ~(call[t].pc \in {"held", "used"} /\ call[t].created)
    BY <1>16 DEF MoveNothing, Unlock, Leave, Return, At
  <2> QED BY <1>12, <2>1
<1> QED
  BY <1>6, <1>7, <1>8, <1>9, <1>10, <1>11, <1>13, <1>14, <1>15, <1>16 DEF Work, Use, Release

(* None of the CHECKs of the bucket fails.                                 *)
LEMMA NoFailure ==
  ASSUME MapInv, NEW t \in Thread, Start(t) \/ Work(t)
  PROVE  ~failed'
<1>1. /\ Types /\ CallOK(t) /\ ~failed
  BY DEF MapInv, TypeOK, Types
<1>2. CASE CreateAdded(t)
  BY <1>2, CreateAddedCell
<1>3. CASE Publish(t)
  BY <1>3, PublishEffect
<1>4. CASE Erase(t)
  BY <1>4, EraseEffect
<1>5. CASE EraseAdded(t)
  BY <1>1, <1>5 DEF EraseAdded, At, CallOK, CellOK, Created, Found
<1>6. CASE Leave(t)
  BY <1>1, <1>6 DEF Leave, At, CallOK, CellOK, Found
<1> QED
  BY <1>1, <1>2, <1>3, <1>4, <1>5, <1>6
  DEF Start, Begin, Work, Acquire, Use, Release, ScanHit, ScanMiss, Peek, ReadHit, ReadMiss, LockRetry, 
      LockFound, LockMiss, CreateEmbedded, WriteValue, ReadValue, MoveLast, MoveNothing, Unlock, Return

(* Every step keeps the invariant.                                         *)
LEMMA MapInvNext ==
  ASSUME MapInv, [Next]_vars
  PROVE  MapInv'
<1>1. CASE UNCHANGED vars
  <2>1. UNCHANGED <<embed, add, writer, readers, call, calls, failed>>
    BY <1>1 DEF vars, lockVars
  <2>2. TypeOK'
    BY <2>1 DEF MapInv, TypeOK, Packed, InAdd
  <2>3. LocksOK'
    BY <2>1 DEF MapInv, LocksOK, Writes, Reads, Emb
  <2>4. KeysApart' /\ UniqueKeys' /\ ~failed'
    BY <2>1 DEF MapInv, KeysApart, UniqueKeys, EmbedAt, AddedAt
  <2>5. ASSUME NEW u \in Thread PROVE CallOK(u)'
    BY <2>1 DEF MapInv, CallOK, CellOK, Located, Created, Found, Content, Index, Emb, InAdd, Present, 
                EmbedAt, AddedAt
  <2> QED BY <2>2, <2>3, <2>4, <2>5 DEF MapInv
<1>2. ASSUME NEW t \in Thread, Start(t) \/ Work(t) PROVE MapInv'
  <2>1. Types' /\ Packed' /\ ~failed' /\ LocksOK' /\ KeysApart' /\ UniqueKeys'
    BY <1>2, TypesNext, PackedNext, NoFailure, LocksNext, ApartNext, UniqueNext
  <2>2. \A u \in Thread : CallOK(u)'
    BY <1>2, OwnCall, OtherCalls
  <2> QED BY <2>1, <2>2 DEF MapInv, TypeOK, Types
<1> QED BY <1>1, <1>2 DEF Next

(* The empty bucket satisfies it.                                          *)
LEMMA MapInvInit == Init => MapInv
<1> SUFFICES ASSUME Init PROVE MapInv
  OBVIOUS
<1>1. /\ embed = [i \in 1..Embedded |-> Empty] 
      /\ add = [gen |-> 0, cap |-> 0, size |-> 0, cells |-> <<>>]
      /\ writer = NoThread /\ readers = [t \in Thread |-> 0]
      /\ call = [t \in Thread |-> Idle] /\ calls = 0 /\ failed = FALSE
  BY DEF Init
<1>2. /\ add.gen = 0 /\ add.cap = 0 /\ add.size = 0 /\ add.cells = <<>>
  BY <1>1
<1>3. Empty \in Cell /\ Empty.addr = NoKey
  BY DEF Empty, Cell
<1>4. add \in [gen : Nat, cap : Nat, size : 0..add.cap, cells : [1..add.cap -> Cell]]
  <2>1. <<>> \in [1..0 -> Cell]
    OBVIOUS
  <2> QED BY <1>1, <1>2, <2>1
<1>5. Types
  <2>1. call \in [Thread -> Call] /\ embed \in [1..Embedded -> Cell]
    BY <1>1, <1>3, IdleType
  <2>2. readers \in [Thread -> Nat] /\ calls \in 0..MaxCalls /\ writer \in Thread \cup {NoThread}
    BY <1>1, MapAssumption
  <2> QED BY <1>1, <1>4, <2>1, <2>2 DEF Types
<1>6. \A t \in Thread : call[t].pc = "idle" /\ call[t] = Idle
  BY <1>1 DEF Idle
<1>7. Packed /\ UniqueKeys
  BY <1>1, <1>2, <1>3, MapAssumption DEF Packed, UniqueKeys, EmbedAt, AddedAt
<1>8. LocksOK
  BY <1>1, <1>6, MapAssumption DEF LocksOK, Writes, Reads
<1>9. KeysApart /\ \A t \in Thread : CallOK(t)
  BY <1>6 DEF KeysApart, CallOK
<1> QED BY <1>1, <1>5, <1>7, <1>8, <1>9 DEF MapInv, TypeOK, Types

(* So it holds always.                                                     *)
LEMMA MapInvariant == Spec => []MapInv
BY MapInvInit, MapInvNext, PTL DEF Spec

----------------------------------------------------------------------------
(* The type invariant of the bucket and its Handles, with the added cells  *)
(* packed, for any number of threads, keys and calls.                      *)
THEOREM TheTypesHold == Spec => []TypeOK
<1>1. MapInv => TypeOK
  BY DEF MapInv
<1> QED BY <1>1, MapInvariant, PTL

(* No CHECK of acquire or release fails.                                   *)
THEOREM TheMapChecksHold == Spec => []ChecksHold
<1>1. MapInv => ChecksHold
  BY DEF MapInv, ChecksHold
<1> QED BY <1>1, MapInvariant, PTL

(* A key is never in two cells.                                            *)
THEOREM KeysHaveOneCell == Spec => []NoTwins
<1>1. ASSUME MapInv PROVE NoTwins
  <2> SUFFICES ASSUME NEW k \in Key 
               PROVE  Cardinality(EmbedAt(k)) + Cardinality(AddedAt(k)) <= 1
    BY DEF NoTwins
  <2>1. /\ \A i, j \in EmbedAt(k) : i = j
        /\ \A i, j \in AddedAt(k) : i = j
        /\ EmbedAt(k) = {} \/ AddedAt(k) = {}
    BY <1>1 DEF MapInv, UniqueKeys
  <2>2. ASSUME NEW S, \A i, j \in S : i = j PROVE Cardinality(S) = 0 \/ Cardinality(S) = 1
    <3>1. CASE S = {}
      BY <3>1, FS_EmptySet
    <3>2. CASE S # {}
      <4>1. PICK x \in S : TRUE
        BY <3>2
      <4>2. S = {x}
        BY <2>2, <4>1
      <4> QED BY <4>2, FS_Singleton
    <3> QED BY <3>1, <3>2
  <2>3. Cardinality({}) = 0
    BY FS_EmptySet
  <2> QED BY <2>1, <2>2, <2>3
<1> QED BY <1>1, MapInvariant, PTL

(* A Handle never refers to an array that was replaced.                    *)
THEOREM CellsAreCurrent == Spec => []CellsCurrent
<1>1. ASSUME MapInv PROVE CellsCurrent
  <2> SUFFICES ASSUME NEW t \in Thread, call[t].pc \in {"held", "used"}, ~Emb(t)
               PROVE  call[t].cell[2] = add.gen /\ Index(t) <= add.size
    BY DEF CellsCurrent
  <2>1. Located(t) /\ Types
    BY <1>1 DEF MapInv, TypeOK, Types, CallOK, CellOK
  <2> QED BY <2>1 DEF Located, InAdd, Types
<1> QED BY <1>1, MapInvariant, PTL

----------------------------------------------------------------------------
(* The bucket implements LinearMap.                                        *)

(* A cell that can be found says that key k has value v.                   *)
Bound(k, v) ==
  \/ \E i \in 1..Embedded : embed[i].addr = k /\ embed[i].val = v
  \/ \E i \in 1..add.size : add.cells[i].addr = k /\ add.cells[i].val = v

ElementsAreBound ==
  /\ DOMAIN Elements \subseteq Key
  /\ \A k \in Key : \A v : Bound(k, v) <=> k \in DOMAIN Elements /\ Elements[k] = v

(* The map as a function from keys to values.                              *)
LEMMA BoundElements == MapInv => ElementsAreBound
<1> SUFFICES ASSUME MapInv PROVE ElementsAreBound
  OBVIOUS
<1>1. Types /\ UniqueKeys
  BY DEF MapInv, TypeOK, Types
<1>2. ASSUME NEW k \in Key
      PROVE  \A v : Bound(k, v) <=> Present(k) /\ ValueOf(k) = v
  <2>1. /\ EmbedAt(k) # {} => /\ First(EmbedAt(k)) \in 1..Embedded
                              /\ embed[First(EmbedAt(k))].addr = k
        /\ AddedAt(k) # {} => /\ First(AddedAt(k)) \in 1..add.size
                              /\ add.cells[First(AddedAt(k))].addr = k
    BY <1>1, FirstCells
  <2>2. /\ \A i \in EmbedAt(k) : i = First(EmbedAt(k))
        /\ \A i \in AddedAt(k) : i = First(AddedAt(k)) /\ EmbedAt(k) = {}
    <3>1. /\ EmbedAt(k) # {} => First(EmbedAt(k)) \in EmbedAt(k)
          /\ AddedAt(k) # {} => First(AddedAt(k)) \in AddedAt(k)
      BY <1>1, <2>1 DEF EmbedAt, AddedAt, Types
    <3> QED BY <1>1, <3>1 DEF UniqueKeys
  <2>3. /\ \A i \in 1..Embedded : embed[i].addr = k <=> i \in EmbedAt(k)
        /\ \A i \in 1..add.size : add.cells[i].addr = k <=> i \in AddedAt(k)
    BY <1>1 DEF EmbedAt, AddedAt, Types
  <2>4. CASE EmbedAt(k) # {}
    BY <2>1, <2>2, <2>3, <2>4 DEF Bound, Present, ValueOf
  <2>5. CASE EmbedAt(k) = {}
    BY <2>1, <2>2, <2>3, <2>5 DEF Bound, Present, ValueOf
  <2> QED BY <2>4, <2>5
<1> QED BY <1>2 DEF ElementsAreBound, Elements

(* The same, of the next state.                                            *)
LEMMA BoundElementsNext == MapInv' => ElementsAreBound'
BY BoundElements, PTL

(* What a change of the cells means for the map.                           *)
LEMMA ElementsStay ==
  ASSUME MapInv, MapInv', \A k \in Key : \A v : Bound(k, v)' <=> Bound(k, v)
  PROVE  Elements' = Elements
<1>1. ElementsAreBound /\ ElementsAreBound'
  BY BoundElements, BoundElementsNext
<1>2. \A k \in Key : \A v : 
        k \in DOMAIN Elements' /\ Elements'[k] = v <=> k \in DOMAIN Elements /\ Elements[k] = v
  BY <1>1 DEF ElementsAreBound
<1>3. \A k \in Key : /\ k \in DOMAIN Elements' <=> k \in DOMAIN Elements
                     /\ k \in DOMAIN Elements => Elements'[k] = Elements[k]
  BY <1>2
<1>4. DOMAIN Elements' = DOMAIN Elements
  BY <1>1, <1>3 DEF ElementsAreBound
<1>5. /\ Elements = [k \in DOMAIN Elements |-> Elements[k]]
      /\ Elements' = [k \in DOMAIN Elements' |-> Elements'[k]]
  BY DEF Elements
<1>6. \A k \in DOMAIN Elements : Elements'[k] = Elements[k]
  BY <1>1, <1>3 DEF ElementsAreBound
<1> HIDE DEF Elements
<1> QED BY <1>4, <1>5, <1>6

(* One more key, or another value of a key, is a Put of the abstract map.  *)
LEMMA ElementsPut ==
  ASSUME MapInv, MapInv', NEW x \in Key, NEW y,
         \A k \in Key : \A v : Bound(k, v)' <=> IF k = x THEN v = y ELSE Bound(k, v)
  PROVE  Elements' = Linear!Put(Elements, x, y)
<1>1. ElementsAreBound /\ ElementsAreBound'
  BY BoundElements, BoundElementsNext
<1>2. \A k \in Key : \A v : 
        k \in DOMAIN Elements' /\ Elements'[k] = v 
          <=> IF k = x THEN v = y ELSE k \in DOMAIN Elements /\ Elements[k] = v
  BY <1>1 DEF ElementsAreBound
<1>3. \A k \in Key : /\ k \in DOMAIN Elements' <=> k \in DOMAIN Elements \cup {x}
                     /\ k \in DOMAIN Elements' => Elements'[k] = IF k = x THEN y ELSE Elements[k]
  BY <1>2
<1>4. DOMAIN Elements' = DOMAIN Elements \cup {x}
  BY <1>1, <1>3 DEF ElementsAreBound
<1>5. Elements' = [k \in DOMAIN Elements' |-> Elements'[k]]
  BY DEF Elements
<1>6. \A k \in DOMAIN Elements' : Elements'[k] = IF k = x THEN y ELSE Elements[k]
  BY <1>1, <1>3 DEF ElementsAreBound
<1> HIDE DEF Elements
<1> QED BY <1>4, <1>5, <1>6 DEF Linear!Put

(* One key less is a Drop.                                                 *)
LEMMA ElementsDrop ==
  ASSUME MapInv, MapInv', NEW x \in Key,
         \A k \in Key : \A v : Bound(k, v)' <=> k # x /\ Bound(k, v)
  PROVE  Elements' = Linear!Drop(Elements, x)
<1>1. ElementsAreBound /\ ElementsAreBound'
  BY BoundElements, BoundElementsNext
<1>2. \A k \in Key : \A v : 
        k \in DOMAIN Elements' /\ Elements'[k] = v 
          <=> k # x /\ k \in DOMAIN Elements /\ Elements[k] = v
  BY <1>1 DEF ElementsAreBound
<1>3. \A k \in Key : /\ k \in DOMAIN Elements' <=> k \in DOMAIN Elements \ {x}
                     /\ k \in DOMAIN Elements' => Elements'[k] = Elements[k]
  BY <1>2
<1>4. DOMAIN Elements' = DOMAIN Elements \ {x}
  BY <1>1, <1>3 DEF ElementsAreBound
<1>5. Elements' = [k \in DOMAIN Elements' |-> Elements'[k]]
  BY DEF Elements
<1>6. \A k \in DOMAIN Elements' : Elements'[k] = Elements[k]
  BY <1>1, <1>3 DEF ElementsAreBound
<1> HIDE DEF Elements
<1> QED BY <1>4, <1>5, <1>6 DEF Linear!Drop

(* The value of a key that a Handle has found.                             *)
LEMMA LookupFound ==
  ASSUME MapInv, NEW t \in Thread, call[t].pc \in {"held", "used"}, ~call[t].created
  PROVE  Linear!Lookup(call[t].key) = Content(t).val
<1>1. Types /\ Located(t) /\ Content(t).addr = call[t].key /\ call[t].key \in Key
  BY DEF MapInv, TypeOK, Types, CallOK, CellOK, Found
<1>2. Bound(call[t].key, Content(t).val)
  BY <1>1, CellType DEF Bound
<1>3. ElementsAreBound
  BY BoundElements
<1>4. call[t].key \in DOMAIN Elements /\ Elements[call[t].key] = Content(t).val
  BY <1>1, <1>2, <1>3 DEF ElementsAreBound
<1> QED BY <1>4 DEF Linear!Lookup

(* Without a store to the cells the map is what it was.                    *)
LEMMA UnchangedElements ==
  ASSUME MapInv, MapInv', UNCHANGED <<embed, add>>
  PROVE  Elements' = Elements
<1>1. \A k \in Key : \A v : Bound(k, v)' <=> Bound(k, v)
  BY DEF Bound
<1> QED BY <1>1, ElementsStay

(* A cell without an address adds nothing, even if the array is a new one. *)
LEMMA CreateAddedElements ==
  ASSUME MapInv, MapInv', NEW t \in Thread, CreateAdded(t)
  PROVE  Elements' = Elements
<1>1. embed' = embed
  BY DEF CreateAdded
<1>2. /\ add'.size = add.size + 1 /\ add.size \in Nat /\ add'.cap \in Nat
      /\ \A i \in 1..add.size : add'.cells[i] = add.cells[i]
      /\ \A i \in 1..add'.cap : i > add.size => add'.cells[i].addr = NoKey
      /\ add'.size \in 1..add'.cap
  <2>1. add.size \in Nat /\ add'.cap \in Nat
    BY DEF MapInv, TypeOK
  <2> QED BY <2>1, CreateAddedCell
<1>3. \A i \in 1..add'.size : i \in 1..add.size \/ add'.cells[i].addr \notin Key
  BY <1>2, MapAssumption
<1>4. \A i \in 1..add.size : i \in 1..add'.size
  BY <1>2
<1>5. \A k \in Key : \A v : Bound(k, v)' <=> Bound(k, v)
  BY <1>1, <1>2, <1>3, <1>4 DEF Bound
<1> QED BY <1>5, ElementsStay

(* A store to a cell that cannot be found yet, or to the one of its key.   *)
LEMMA WriteValueElements ==
  ASSUME MapInv, MapInv', NEW t \in Thread, WriteValue(t)
  PROVE  IF call[t].created THEN Elements' = Elements
         ELSE Elements' = Linear!Put(Elements, call[t].key, call[t].val)
<1>1. /\ call[t].pc = "held" /\ Located(t) /\ AddrsStay
      /\ \A i \in 1..Embedded : ~(Emb(t) /\ i = Index(t)) => embed'[i] = embed[i]
      /\ \A i \in 1..add.cap : ~(~Emb(t) /\ i = Index(t)) => add'.cells[i] = add.cells[i]
      /\ Emb(t) => embed'[Index(t)].val = call[t].val
      /\ ~Emb(t) => add'.cells[Index(t)].val = call[t].val
  BY WriteValueEffect
<1>2. /\ Types /\ UniqueKeys /\ CellOK(t) /\ call[t].key \in Key 
      /\ \A i \in 1..add.size : i \in 1..add.cap
  <2>1. Types /\ UniqueKeys /\ CallOK(t)
    BY DEF MapInv, TypeOK, Types
  <2>2. CellOK(t) /\ call[t].key \in Key
    BY ONLY <1>1, <2>1 DEF CallOK
  <2>3. add.cap \in Nat /\ add.size \in 0..add.cap
    BY ONLY <2>1 DEF Types
  <2>4. \A i \in 1..add.size : i \in 1..add.cap
    BY ONLY <2>3
  <2> QED BY ONLY <2>1, <2>2, <2>4
<1>3. CellsApart
  BY <1>2, UniqueCells
<1>4. /\ add'.size = add.size
      /\ \A i \in 1..Embedded : embed'[i].addr = embed[i].addr
      /\ \A i \in 1..add.size : add'.cells[i].addr = add.cells[i].addr
  BY <1>1, <1>2 DEF AddrsStay
<1>5. /\ Emb(t) => Index(t) \in 1..Embedded /\ Content(t) = embed[Index(t)]
      /\ ~Emb(t) => Index(t) \in 1..add.size /\ Content(t) = add.cells[Index(t)]
  BY <1>1, <1>2, CellType
<1>6. CASE call[t].created
  <2>1. Content(t).addr = NoKey
    BY <1>2, <1>6 DEF CellOK, Created
  <2>2. /\ \A i \in 1..Embedded : embed[i].addr \in Key => embed'[i] = embed[i]
        /\ \A i \in 1..add.size : add.cells[i].addr \in Key => add'.cells[i] = add.cells[i]
    BY <1>1, <1>2, <1>5, <2>1, MapAssumption
  <2>3. \A k \in Key : \A v : Bound(k, v)' <=> Bound(k, v)
    BY <1>4, <2>2 DEF Bound
  <2> QED BY <1>6, <2>3, ElementsStay
<1>7. CASE ~call[t].created
  <2>1. Content(t).addr = call[t].key
    BY <1>2, <1>7 DEF CellOK, Found
  <2>2. ASSUME NEW k \in Key, NEW v PROVE Bound(k, v)' <=> IF k = call[t].key THEN v = call[t].val ELSE Bound(k, v)
    <3>1. CASE k = call[t].key
      <4>1. CASE Emb(t)
        <5>1. /\ \A i \in 1..Embedded : embed[i].addr = k => i = Index(t)
              /\ \A i \in 1..add.size : add.cells[i].addr # k
          BY <1>3, <1>5, <2>1, <3>1, <4>1 DEF CellsApart
        <5>2. embed'[Index(t)].addr = k /\ embed'[Index(t)].val = call[t].val
          BY <1>1, <1>4, <1>5, <2>1, <3>1, <4>1
        <5> QED BY <1>4, <1>5, <3>1, <4>1, <5>1, <5>2 DEF Bound
      <4>2. CASE ~Emb(t)
        <5>1. /\ \A i \in 1..add.size : add.cells[i].addr = k => i = Index(t)
              /\ \A i \in 1..Embedded : embed[i].addr # k
          BY <1>3, <1>5, <2>1, <3>1, <4>2 DEF CellsApart
        <5>2. add'.cells[Index(t)].addr = k /\ add'.cells[Index(t)].val = call[t].val
          BY <1>1, <1>4, <1>5, <2>1, <3>1, <4>2
        <5> QED BY <1>4, <1>5, <3>1, <4>2, <5>1, <5>2 DEF Bound
      <4> QED BY <4>1, <4>2
    <3>2. CASE k # call[t].key
      <4>1. /\ \A i \in 1..Embedded : embed[i].addr = k => embed'[i] = embed[i]
            /\ \A i \in 1..add.size : add.cells[i].addr = k => add'.cells[i] = add.cells[i]
        BY <1>1, <1>2, <1>5, <2>1, <3>2
      <4> QED BY <1>4, <3>2, <4>1 DEF Bound
    <3> QED BY <3>1, <3>2
  <2> QED BY <1>2, <1>7, <2>2, ElementsPut
<1> QED BY <1>6, <1>7

(* The store of the address puts the key, with the value the cell has.     *)
LEMMA PublishElements ==
  ASSUME MapInv, MapInv', NEW t \in Thread, Publish(t)
  PROVE  Elements' = Linear!Put(Elements, call[t].key, call[t].val)
<1>1. /\ call[t].pc = "used" /\ Located(t) /\ Created(t) /\ add'.size = add.size
      /\ \A i \in 1..Embedded : ~(Emb(t) /\ i = Index(t)) => embed'[i] = embed[i]
      /\ \A i \in 1..add.cap : ~(~Emb(t) /\ i = Index(t)) => add'.cells[i] = add.cells[i]
      /\ Emb(t) => /\ embed[Index(t)].addr = NoKey /\ embed'[Index(t)].addr = call[t].key
                   /\ embed'[Index(t)].val = call[t].val
      /\ ~Emb(t) => /\ add.cells[Index(t)].addr = NoKey 
                    /\ add'.cells[Index(t)].addr = call[t].key
                    /\ add'.cells[Index(t)].val = call[t].val
  BY PublishEffect
<1>2. /\ Types /\ call[t].key \in Key /\ \A i \in 1..add.size : i \in 1..add.cap
  <2>1. Types /\ CallOK(t)
    BY DEF MapInv, TypeOK, Types
  <2>2. call[t].key \in Key
    BY ONLY <1>1, <2>1 DEF CallOK
  <2>3. add.cap \in Nat /\ add.size \in 0..add.cap
    BY ONLY <2>1 DEF Types
  <2>4. \A i \in 1..add.size : i \in 1..add.cap
    BY ONLY <2>3
  <2> QED BY ONLY <2>1, <2>2, <2>4
<1>3. /\ \A i \in 1..Embedded : embed[i].addr # call[t].key
      /\ \A i \in 1..add.size : add.cells[i].addr # call[t].key
  BY <1>1, <1>2 DEF Created, Present, EmbedAt, AddedAt, Types
<1>4. /\ Emb(t) => Index(t) \in 1..Embedded
      /\ ~Emb(t) => Index(t) \in 1..add.size
  BY <1>1, <1>2, CellType
<1>5. ASSUME NEW k \in Key, NEW v 
      PROVE  Bound(k, v)' <=> IF k = call[t].key THEN v = call[t].val ELSE Bound(k, v)
  <2>0. k # NoKey
    BY MapAssumption
  <2>1. CASE Emb(t)
    <3>1. \A i \in 1..add.size : add'.cells[i] = add.cells[i]
      BY <1>1, <1>2, <2>1
    <3> QED BY <1>1, <1>3, <1>4, <2>0, <2>1, <3>1 DEF Bound
  <2>2. CASE ~Emb(t)
    <3>1. \A i \in 1..add.size : i # Index(t) => add'.cells[i] = add.cells[i]
      BY <1>1, <1>2, <2>2
    <3>2. \A i \in 1..Embedded : embed'[i] = embed[i]
      BY <1>1, <2>2
    <3> QED BY <1>1, <1>3, <1>4, <2>0, <2>2, <3>1, <3>2 DEF Bound
  <2> QED BY <2>1, <2>2
<1> QED BY <1>2, <1>5, ElementsPut

(* Clearing an embedded cell drops its key.                                *)
LEMMA EraseElements ==
  ASSUME MapInv, MapInv', NEW t \in Thread, Erase(t)
  PROVE  Elements' = Linear!Drop(Elements, call[t].key)
<1>1. /\ call[t].pc = "used" /\ add' = add /\ Index(t) \in 1..Embedded
      /\ \A i \in 1..Embedded : i # Index(t) => embed'[i] = embed[i]
      /\ embed[Index(t)].addr = call[t].key /\ embed'[Index(t)].addr = NoKey
  BY EraseEffect
<1>2. Types /\ UniqueKeys /\ call[t].key \in Key
  BY <1>1 DEF MapInv, TypeOK, Types, CallOK
<1>3. CellsApart
  BY <1>2, UniqueCells
<1>4. /\ \A i \in 1..Embedded : embed[i].addr = call[t].key => i = Index(t)
      /\ \A i \in 1..add.size : add.cells[i].addr # call[t].key
  BY <1>1, <1>2, <1>3 DEF CellsApart
<1>5. \A k \in Key : \A v : Bound(k, v)' <=> k # call[t].key /\ Bound(k, v)
  BY <1>1, <1>4, MapAssumption DEF Bound
<1> QED BY <1>2, <1>5, ElementsDrop

(* Clearing an added cell drops its key.                                   *)
LEMMA EraseAddedElements ==
  ASSUME MapInv, MapInv', NEW t \in Thread, EraseAdded(t)
  PROVE  Elements' = Linear!Drop(Elements, call[t].key)
<1>1. /\ call[t].pc = "used" /\ call[t].kind = "remove" /\ ~Emb(t)
  BY DEF EraseAdded, At
<1>2. Types /\ UniqueKeys /\ call[t].key \in Key /\ CellOK(t) /\ Located(t)
  BY <1>1 DEF MapInv, TypeOK, Types, CallOK, CellOK
<1>3. CellsApart
  BY <1>2, UniqueCells
<1>4. /\ embed' = embed /\ add.size \in 1..add.cap /\ add'.size = add.size - 1 /\ add.cap \in Nat
      /\ \A i \in 1..add.cap : i # add.size => 
            add'.cells[i] = IF i = Index(t) THEN add.cells[add.size] ELSE add.cells[i]
      /\ Index(t) \in 1..add.size
  BY <1>2, EraseAddedEffect DEF Types
<1>5. \A i \in 1..add'.size : 
        /\ i \in 1..add.size /\ i # add.size 
        /\ add'.cells[i] = IF i = Index(t) THEN add.cells[add.size] ELSE add.cells[i]
  BY <1>4
<1>6. \A i \in 1..add.size : i = add.size \/ i \in 1..add'.size
  BY <1>4
<1>7. add.cells[Index(t)].addr = call[t].key
  BY <1>1, <1>2 DEF CellOK, Created, Found, Content
<1>8. /\ \A i \in 1..add.size : add.cells[i].addr = call[t].key => i = Index(t)
      /\ \A i \in 1..Embedded : embed[i].addr # call[t].key
  BY <1>2, <1>3, <1>4, <1>7 DEF CellsApart
<1>9. ASSUME NEW k \in Key, NEW v PROVE Bound(k, v)' <=> k # call[t].key /\ Bound(k, v)
  <2>1. ASSUME NEW i \in 1..add'.size, add'.cells[i].addr = k, add'.cells[i].val = v
        PROVE  k # call[t].key /\ Bound(k, v)
    <3>1. add.size \in 1..add.size
      BY <1>4
    <3>2. PICK j \in 1..add.size : j # Index(t) /\ add.cells[j] = add'.cells[i]
      BY <1>5, <3>1
    <3> QED BY <1>8, <2>1, <3>2 DEF Bound
  <2>2. ASSUME NEW i \in 1..add.size, add.cells[i].addr = k, add.cells[i].val = v, k # call[t].key
        PROVE  \E j \in 1..add'.size : add'.cells[j].addr = k /\ add'.cells[j].val = v
    <3>1. i # Index(t)
      BY <1>7, <2>2
    <3>2. CASE i = add.size
      BY <1>4, <1>5, <1>6, <2>2, <3>1, <3>2
    <3>3. CASE i # add.size
      BY <1>5, <1>6, <2>2, <3>1, <3>3
    <3> QED BY <3>2, <3>3
  <2>3. ASSUME NEW i \in 1..Embedded, embed[i].addr = k, embed[i].val = v
        PROVE  k # call[t].key /\ Bound(k, v) /\ Bound(k, v)'
    BY <1>4, <1>8, <2>3 DEF Bound
  <2> QED BY <1>4, <2>1, <2>2, <2>3 DEF Bound
<1> QED BY <1>2, <1>9, ElementsDrop

(* Moving the last cell into the gap neither adds nor drops one.           *)
LEMMA MoveLastElements ==
  ASSUME MapInv, MapInv', NEW t \in Thread, MoveLast(t)
  PROVE  Elements' = Elements
<1>1. Types /\ CallOK(t)
  BY DEF MapInv, TypeOK, Types
<1>2. /\ add.size \in 1..add.cap /\ add'.size = add.size - 1 /\ add.cap \in Nat
      /\ Index(t) \in 1..Embedded /\ embed[Index(t)].addr = NoKey
      /\ \A i \in 1..Embedded : 
            embed'[i] = IF i = Index(t) THEN add.cells[add.size] ELSE embed[i]
      /\ \A i \in 1..add.cap : i # add.size => add'.cells[i] = add.cells[i]
  BY <1>1, MoveLastEffect DEF Types
<1>3. \A i \in 1..add'.size : i \in 1..add.size /\ i # add.size /\ add'.cells[i] = add.cells[i]
  BY <1>2
<1>4. \A i \in 1..add.size : i = add.size \/ i \in 1..add'.size
  BY <1>2
<1>5. add.size \in 1..add.size
  BY <1>2
<1>6. \A k \in Key : \A v : Bound(k, v)' <=> Bound(k, v)
  BY <1>2, <1>3, <1>4, <1>5, MapAssumption DEF Bound
<1> QED BY <1>6, ElementsStay

----------------------------------------------------------------------------
(* The calls of LinearMap.                                                 *)

PendingType == 
  [phase : {"idle", "begun", "done"}, kind : {"find", "insert", "remove"},
   key : Key \cup {NoKey, NoValue}, val : Value \cup {NoValue}]

(* How far a call is, by where its Handle is.                              *)
LEMMA PhaseOf ==
  ASSUME Types, NEW t \in Thread
  PROVE  /\ Phase(t) \in {"idle", "begun", "done"}
         /\ Phase(t) = "idle" <=> call[t].pc = "idle"
         /\ Phase(t) = "done" <=> 
              \/ call[t].pc \in {"missed", "compact", "unlock"}
              \/ /\ call[t].pc = "used" 
                 /\ call[t].kind = "find" \/ (call[t].kind = "insert" /\ ~call[t].created)
<1>1. CASE call[t].pc = "idle"
  BY <1>1 DEF Phase
<1>2. CASE call[t].pc \in {"missed", "compact", "unlock"}
  BY <1>2 DEF Phase
<1>3. CASE call[t].pc = "used" /\ (call[t].kind = "find" \/ (call[t].kind = "insert" /\ ~call[t].created))
  BY <1>3 DEF Phase
<1>4. CASE /\ call[t].pc # "idle" /\ call[t].pc \notin {"missed", "compact", "unlock"}
           /\ ~(call[t].pc = "used" /\ (call[t].kind = "find" \/ (call[t].kind = "insert" /\ ~call[t].created)))
  BY <1>4 DEF Phase
<1> QED BY <1>1, <1>2, <1>3, <1>4

(* The phase of a call of the next state.                                  *)
LEMMA PhaseNext ==
  ASSUME Types', NEW t \in Thread
  PROVE  /\ Phase(t)' \in {"idle", "begun", "done"}
         /\ Phase(t)' = "idle" <=> call'[t].pc = "idle"
         /\ Phase(t)' = "done" <=> 
              \/ call'[t].pc \in {"missed", "compact", "unlock"}
              \/ /\ call'[t].pc = "used" 
                 /\ call'[t].kind = "find" \/ (call'[t].kind = "insert" /\ ~call'[t].created)
<1>1. CASE call'[t].pc = "idle"
  BY <1>1 DEF Phase
<1>2. CASE call'[t].pc \in {"missed", "compact", "unlock"}
  BY <1>2 DEF Phase
<1>3. CASE call'[t].pc = "used" /\ (call'[t].kind = "find" \/ (call'[t].kind = "insert" /\ ~call'[t].created))
  BY <1>3 DEF Phase
<1>4. CASE /\ call'[t].pc # "idle" /\ call'[t].pc \notin {"missed", "compact", "unlock"}
           /\ ~(call'[t].pc = "used" /\ (call'[t].kind = "find" \/ (call'[t].kind = "insert" /\ ~call'[t].created)))
  BY <1>4 DEF Phase
<1> QED BY <1>1, <1>2, <1>3, <1>4

PendingAre ==
  /\ PendingCalls \in [Thread -> PendingType]
  /\ \A t \in Thread : 
       /\ PendingCalls[t].phase = Phase(t) /\ PendingCalls[t].kind = call[t].kind
       /\ PendingCalls[t].key = IF Phase(t) = "idle" THEN NoValue ELSE call[t].key
       /\ PendingCalls[t].val = IF Phase(t) = "done" \/ call[t].kind = "insert" 
                                THEN call[t].val ELSE NoValue

(* What the abstract map sees of a call.                                   *)
LEMMA PendingFields == Types => PendingAre
<1> SUFFICES ASSUME Types PROVE PendingAre
  OBVIOUS
<1> DEFINE key(t) == IF Phase(t) = "idle" THEN NoValue ELSE call[t].key
           val(t) == IF Phase(t) = "done" \/ call[t].kind = "insert" THEN call[t].val ELSE NoValue
           p(t) == [phase |-> Phase(t), kind |-> call[t].kind, key |-> key(t), val |-> val(t)]
<1>1. PendingCalls = [t \in Thread |-> p(t)]
  BY DEF PendingCalls
<1>2. \A t \in Thread : 
        /\ Phase(t) \in {"idle", "begun", "done"} /\ call[t].kind \in {"find", "insert", "remove"}
        /\ key(t) \in Key \cup {NoKey, NoValue} /\ val(t) \in Value \cup {NoValue}
  BY PhaseOf DEF Types, Call
<1> HIDE DEF key, val
<1>3. \A t \in Thread : p(t) \in PendingType
  BY <1>2 DEF PendingType
<1>4. PendingCalls \in [Thread -> PendingType]
  <2> HIDE DEF p
  <2> QED BY <1>1, <1>3
<1>5. \A t \in Thread : 
        /\ PendingCalls[t].phase = Phase(t) /\ PendingCalls[t].kind = call[t].kind
        /\ PendingCalls[t].key = key(t) /\ PendingCalls[t].val = val(t)
  BY <1>1
<1>6. \A t \in Thread : 
        /\ key(t) = IF Phase(t) = "idle" THEN NoValue ELSE call[t].key
        /\ val(t) = IF Phase(t) = "done" \/ call[t].kind = "insert" THEN call[t].val ELSE NoValue
  BY DEF key, val
<1> QED BY <1>4, <1>5, <1>6 DEF PendingAre

(* The same, of the next state.                                            *)
LEMMA PendingFieldsNext == Types' => PendingAre'
BY PendingFields, PTL

(* What LinearMap sees of the other calls stays the same.                  *)
LEMMA OthersPending ==
  ASSUME Types, Types', NEW t \in Thread, \A u \in Thread \ {t} : call'[u] = call[u]
  PROVE  /\ \A u \in Thread \ {t} : PendingCalls'[u] = PendingCalls[u]
         /\ PendingCalls \in [Thread -> PendingType] /\ PendingCalls' \in [Thread -> PendingType]
<1>1. PendingAre /\ PendingAre'
  BY PendingFields, PendingFieldsNext
<1>2. PendingCalls \in [Thread -> PendingType] /\ PendingCalls' \in [Thread -> PendingType]
  BY <1>1 DEF PendingAre, PendingType
<1>3. \A u \in Thread \ {t} : Phase(u)' = Phase(u)
  BY DEF Phase
<1>4. ASSUME NEW u \in Thread \ {t} PROVE PendingCalls'[u] = PendingCalls[u]
  <2>1. /\ PendingCalls'[u].phase = PendingCalls[u].phase
        /\ PendingCalls'[u].kind = PendingCalls[u].kind
        /\ PendingCalls'[u].key = PendingCalls[u].key
        /\ PendingCalls'[u].val = PendingCalls[u].val
    BY <1>1, <1>3 DEF PendingAre
  <2>2. PendingCalls[u] \in PendingType /\ PendingCalls'[u] \in PendingType
    BY <1>2
  <2> QED BY <2>1, <2>2 DEF PendingType
<1> QED BY <1>2, <1>4

(* A step inside a call does not change what LinearMap sees of it.         *)
LEMMA PendingStay ==
  ASSUME Types, Types', NEW t \in Thread, \A u \in Thread \ {t} : call'[u] = call[u],
         Phase(t)' = Phase(t), call'[t].kind = call[t].kind, call'[t].key = call[t].key,
         Phase(t) = "done" \/ call[t].kind = "insert" => call'[t].val = call[t].val
  PROVE  PendingCalls' = PendingCalls
<1>1. PendingAre /\ PendingAre'
  BY PendingFields, PendingFieldsNext
<1>2. /\ PendingCalls[t] \in PendingType /\ PendingCalls'[t] \in PendingType
      /\ \A u \in Thread \ {t} : PendingCalls'[u] = PendingCalls[u]
  BY OthersPending
<1>3. PendingCalls'[t] = PendingCalls[t]
  <2>1. /\ PendingCalls'[t].phase = PendingCalls[t].phase
        /\ PendingCalls'[t].kind = PendingCalls[t].kind
        /\ PendingCalls'[t].key = PendingCalls[t].key
        /\ PendingCalls'[t].val = PendingCalls[t].val
    BY <1>1 DEF PendingAre
  <2> QED BY <1>2, <2>1 DEF PendingType
<1>4. PendingCalls = [u \in Thread |-> PendingCalls[u]] 
      /\ PendingCalls' = [u \in Thread |-> PendingCalls'[u]]
  BY DEF PendingCalls
<1> HIDE DEF PendingCalls
<1> QED BY <1>2, <1>3, <1>4

(* Where it takes effect, its result is the value of the Handle.           *)
LEMMA PendingDone ==
  ASSUME Types, Types', NEW t \in Thread, \A u \in Thread \ {t} : call'[u] = call[u],
         Phase(t) = "begun", Phase(t)' = "done", 
         call'[t].kind = call[t].kind, call'[t].key = call[t].key
  PROVE  PendingCalls' = [PendingCalls EXCEPT ![t].phase = "done", ![t].val = call'[t].val]
<1> DEFINE f == PendingCalls
           g == PendingCalls'
           y == call'[t].val
           h == [f EXCEPT ![t].phase = "done", ![t].val = y]
<1>1. PendingAre /\ PendingAre'
  BY PendingFields, PendingFieldsNext
<1>2. /\ f \in [Thread -> PendingType] /\ g \in [Thread -> PendingType]
      /\ \A u \in Thread \ {t} : g[u] = f[u]
  BY OthersPending
<1>3. y \in Value \cup {NoValue}
  BY DEF Types, Call
<1>4. g[t].phase = "done" /\ g[t].kind = f[t].kind /\ g[t].key = f[t].key /\ g[t].val = y
  BY <1>1 DEF PendingAre
<1> HIDE DEF f, g, y
<1>5. /\ h \in [Thread -> PendingType] /\ \A u \in Thread \ {t} : h[u] = f[u]
      /\ h[t].phase = "done" /\ h[t].kind = f[t].kind /\ h[t].key = f[t].key /\ h[t].val = y
  <2>1. f \in [Thread -> [phase : {"idle", "begun", "done"}, kind : {"find", "insert", "remove"},
                          key : Key \cup {NoKey, NoValue}, val : Value \cup {NoValue}]]
    BY <1>2 DEF PendingType
  <2>2. h \in [Thread -> [phase : {"idle", "begun", "done"}, kind : {"find", "insert", "remove"},
                          key : Key \cup {NoKey, NoValue}, val : Value \cup {NoValue}]]
    BY ONLY <2>1, <1>3, t \in Thread
  <2>3. \A u \in Thread \ {t} : h[u] = f[u]
    BY ONLY <2>1, t \in Thread
  <2>4. h[t].phase = "done" /\ h[t].kind = f[t].kind /\ h[t].key = f[t].key /\ h[t].val = y
    BY ONLY <2>1, t \in Thread
  <2> QED BY <2>2, <2>3, <2>4 DEF PendingType
<1> HIDE DEF h
<1>6. h[t] = g[t]
  <2>1. h[t] \in PendingType /\ g[t] \in PendingType
    BY <1>2, <1>5
  <2> QED BY <1>4, <1>5, <2>1 DEF PendingType
<1>7. \A u \in Thread : h[u] = g[u]
  BY <1>2, <1>5, <1>6
<1>8. h = g
  BY <1>2, <1>5, <1>7
<1> QED BY <1>8 DEF f, g, h, y

(* The call that begins or has come to its end.                           *)
LEMMA PendingSet ==
  ASSUME Types, Types', NEW t \in Thread, \A u \in Thread \ {t} : call'[u] = call[u],
         NEW p \in PendingType, p.phase = Phase(t)', p.kind = call'[t].kind,
         p.key = (IF Phase(t)' = "idle" THEN NoValue ELSE call'[t].key),
         p.val = (IF Phase(t)' = "done" \/ call'[t].kind = "insert" THEN call'[t].val ELSE NoValue)
  PROVE  PendingCalls' = [PendingCalls EXCEPT ![t] = p]
<1> DEFINE f == PendingCalls
           g == PendingCalls'
           h == [f EXCEPT ![t] = p]
<1>1. PendingAre /\ PendingAre'
  BY PendingFields, PendingFieldsNext
<1>2. /\ f \in [Thread -> PendingType] /\ g \in [Thread -> PendingType]
      /\ \A u \in Thread \ {t} : g[u] = f[u]
  BY OthersPending
<1>3. g[t].phase = p.phase /\ g[t].kind = p.kind /\ g[t].key = p.key /\ g[t].val = p.val
  BY <1>1 DEF PendingAre
<1> HIDE DEF f, g
<1>4. g[t] = p
  <2>1. g[t] \in PendingType
    BY <1>2
  <2> QED BY <1>3, <2>1 DEF PendingType
<1>5. h = g
  BY <1>2, <1>4
<1> QED BY <1>5 DEF f, g

----------------------------------------------------------------------------
(* Every step is one of LinearMap, or it changes nothing that LinearMap    *)
(* sees.                                                                   *)
Stutters == UNCHANGED <<Elements, PendingCalls>>

(* Steps inside a call that leave the cells alone.                         *)
LEMMA InsideCall ==
  ASSUME MapInv, MapInv', NEW t \in Thread, Start(t) \/ Work(t),
         Elements' = Elements, Phase(t)' = Phase(t), 
         call'[t].kind = call[t].kind, call'[t].key = call[t].key, call'[t].val = call[t].val
  PROVE  Stutters
<1>1. Types /\ Types'
  BY DEF MapInv, TypeOK, Types
<1>2. \A u \in Thread \ {t} : call'[u] = call[u]
  BY <1>1, OthersStay
<1> QED BY <1>1, <1>2, PendingStay DEF Stutters

(* Where a call takes effect.                                              *)
LEMMA TakesEffect ==
  ASSUME MapInv, MapInv', NEW t \in Thread, Start(t) \/ Work(t),
         Phase(t) = "begun", Phase(t)' = "done",
         call'[t].kind = call[t].kind, call'[t].key = call[t].key,
         call[t].kind = "insert" => call'[t].val = call[t].val,
         call[t].kind # "insert" => call'[t].val = Linear!Lookup(call[t].key),
         call[t].kind = "find" => Elements' = Elements,
         call[t].kind = "insert" => Elements' = Linear!Put(Elements, call[t].key, call[t].val),
         call[t].kind = "remove" => Elements' = Linear!Drop(Elements, call[t].key)
  PROVE  Linear!Next
<1> DEFINE kind == call[t].kind
<1>1. Types /\ Types'
  BY DEF MapInv, TypeOK, Types
<1>2. \A u \in Thread \ {t} : call'[u] = call[u]
  BY <1>1, OthersStay
<1>3. PendingCalls' = [PendingCalls EXCEPT ![t].phase = "done", ![t].val = call'[t].val]
  BY <1>1, <1>2, PendingDone
<1>4. /\ PendingCalls[t].phase = "begun" /\ PendingCalls[t].kind = kind
      /\ PendingCalls[t].key = call[t].key
      /\ kind = "insert" => PendingCalls[t].val = call[t].val
      /\ PendingCalls \in [Thread -> PendingType]
  BY <1>1, PendingFields DEF PendingAre, PendingType
<1>5. Linear!Effect(t, kind)
  <2>1. call'[t].val = IF kind = "insert" THEN PendingCalls[t].val 
                       ELSE Linear!Lookup(PendingCalls[t].key)
    BY <1>4
  <2>2. PendingCalls' = [PendingCalls EXCEPT ![t].phase = "done", 
                           ![t].val = IF kind = "insert" THEN PendingCalls[t].val
                                      ELSE Linear!Lookup(PendingCalls[t].key)]
    BY ONLY <1>3, <2>1
  <2> QED BY <1>4, <2>2 DEF Linear!Effect
<1>6. kind \in {"find", "insert", "remove"}
  BY <1>1 DEF Types, Call
<1>7. CASE kind = "find"
  BY <1>5, <1>7 DEF Linear!Next, Linear!Find
<1>8. CASE kind = "insert"
  BY <1>4, <1>5, <1>8 DEF Linear!Next, Linear!Insert
<1>9. CASE kind = "remove"
  BY <1>4, <1>5, <1>9 DEF Linear!Next, Linear!Remove
<1> QED BY <1>6, <1>7, <1>8, <1>9

(* A call that begins is one that begins there.                            *)
LEMMA BeginsCall ==
  ASSUME MapInv, MapInv', NEW t \in Thread, Start(t)
  PROVE  Linear!Next
<1>1. Types /\ Types'
  BY DEF MapInv, TypeOK, Types
<1>2. PICK k \in Key, kind \in {"find", "insert", "remove"}, v \in Value \cup {NoValue} :
        BeginsWith(t, kind, k, v)
  BY <1>1, BeginEffect
<1>3. /\ call[t].pc = "idle" /\ UNCHANGED <<embed, add>>
      /\ \A u \in Thread \ {t} : call'[u] = call[u]
      /\ call'[t] = NewCall(kind, k, v)
      /\ kind = "insert" => v \in Value
      /\ kind # "insert" => v = NoValue
  BY <1>2 DEF BeginsWith, Begin, At
<1>4. /\ call'[t].pc \in {"lock", "scan"} /\ call'[t].kind = kind /\ call'[t].key = k 
      /\ call'[t].val = v
  <2> DEFINE c == NewCall(kind, k, v)
  <2>1. /\ c.pc = (IF kind = "remove" THEN "lock" ELSE "scan") /\ c.kind = kind /\ c.key = k 
        /\ c.val = v
    BY DEF NewCall, Idle
  <2>2. call'[t] = c
    BY <1>3
  <2> HIDE DEF c
  <2> QED BY <2>1, <2>2
<1>5. Phase(t) = "idle" /\ Phase(t)' = "begun"
  BY <1>1, <1>3, <1>4, PhaseOf, PhaseNext
<1>6. Elements' = Elements
  BY <1>3, UnchangedElements
<1> DEFINE p == Linear!Pending("begun", kind, k, v)
<1>7. /\ p \in PendingType /\ p.phase = "begun" /\ p.kind = kind /\ p.key = k /\ p.val = v
  BY DEF Linear!Pending, PendingType
<1>8. p.val = IF kind = "insert" THEN v ELSE NoValue
  BY <1>3, <1>7
<1> HIDE DEF p
<1>9. PendingCalls' = [PendingCalls EXCEPT ![t] = p]
  BY <1>1, <1>3, <1>4, <1>5, <1>7, <1>8, PendingSet
<1>10. PendingCalls[t].phase = "idle"
  BY <1>1, <1>5, PendingFields DEF PendingAre
<1>11. Linear!Begin(t)
  BY <1>3, <1>6, <1>9, <1>10 DEF p, Linear!Begin
<1> QED BY <1>11 DEF Linear!Next

(* A call that ends is one that ends there, with what it returns.          *)
LEMMA EndsCall ==
  ASSUME MapInv, MapInv', NEW t \in Thread, Unlock(t) \/ Leave(t) \/ Return(t)
  PROVE  Linear!Next
<1>1. Types /\ Types' /\ CallOK(t)
  BY DEF MapInv, TypeOK, Types
<1>2. /\ UNCHANGED <<embed, add>> /\ call' = [call EXCEPT ![t] = Idle]
      /\ \/ call[t].pc \in {"unlock", "missed"}
         \/ call[t].pc = "used" /\ call[t].kind # "remove" /\ ~call[t].created
  BY DEF Unlock, Leave, Return, At
<1>3. call'[t] = Idle /\ \A u \in Thread \ {t} : call'[u] = call[u]
  BY <1>1, <1>2 DEF Types
<1>4. call'[t].pc = "idle" /\ call'[t].kind = "find" 
  BY <1>3 DEF Idle
<1>5. Phase(t) = "done" /\ Phase(t)' = "idle"
  <2>1. call[t].kind \in {"find", "insert", "remove"}
    BY <1>1 DEF Types, Call
  <2> QED BY <1>1, <1>2, <1>4, <2>1, PhaseOf, PhaseNext
<1>6. Elements' = Elements
  BY <1>2, UnchangedElements
<1>7. /\ Linear!Idle \in PendingType /\ Linear!Idle.phase = "idle" /\ Linear!Idle.kind = "find" 
      /\ Linear!Idle.key = NoValue /\ Linear!Idle.val = NoValue
  BY DEF Linear!Idle, Linear!Pending, PendingType
<1>8. PendingCalls' = [PendingCalls EXCEPT ![t] = Linear!Idle]
  BY <1>1, <1>3, <1>4, <1>5, <1>7, PendingSet
<1>9. PendingCalls[t].phase = "done"
  BY <1>1, <1>5, PendingFields DEF PendingAre
<1>10. Linear!End(t)
  BY <1>6, <1>8, <1>9 DEF Linear!End
<1> QED BY <1>10 DEF Linear!Next

(* The steps of acquire: a lookup or an insertion that finds its key, or   *)
(* misses it, takes effect, the others change nothing.                     *)
LEMMA AcquireIsLinear ==
  ASSUME MapInv, MapInv', NEW t \in Thread, Acquire(t)
  PROVE  Linear!Next \/ Stutters
<1>1. Types /\ Types' /\ CallOK(t) /\ (Start(t) \/ Work(t))
  BY DEF MapInv, TypeOK, Types, Work
<1>2. ASSUME call[t].pc \in {"scan", "peek", "readlock", "lock"},
             call'[t].pc \in {"scan", "peek", "readlock", "lock", "held"}, Elements' = Elements,
             call'[t].kind = call[t].kind, call'[t].key = call[t].key, call'[t].val = call[t].val
      PROVE  Stutters
  <2>1. Phase(t) = "begun" /\ Phase(t)' = "begun"
    BY <1>1, <1>2, PhaseOf, PhaseNext
  <2> QED BY <1>1, <1>2, <2>1, InsideCall
<1>3. ASSUME NEW pc \in {"scan", "peek", "readlock", "lock"}, At(t, pc), UNCHANGED <<embed, add>>,
             NEW to \in {"scan", "peek", "readlock", "lock"}, Go(t, to)
      PROVE  Stutters
  <2>1. pc \in PCs /\ to \in PCs
    BY DEF PCs
  <2>2. /\ call[t].pc = pc /\ call'[t].pc = to /\ call'[t].kind = call[t].kind
        /\ call'[t].key = call[t].key /\ call'[t].val = call[t].val
    BY <1>1, <1>3, <2>1, GoFields
  <2> QED BY <1>2, <1>3, <2>2, UnchangedElements
<1>4. ASSUME NEW pc \in {"scan", "peek", "readlock", "lock"}, At(t, pc), Elements' = Elements,
             NEW cell, NEW created, Hold(t, cell, created)
      PROVE  Stutters
  <2>1. /\ call'[t].pc = "held" /\ call'[t].kind = call[t].kind
        /\ call'[t].key = call[t].key /\ call'[t].val = call[t].val
    BY <1>1, <1>4, HoldFields
  <2>2. call[t].pc = pc
    BY <1>4 DEF At
  <2> QED BY <1>2, <1>4, <2>1, <2>2
<1>5. CASE ScanHit(t)
  BY <1>4, <1>5, UnchangedElements DEF ScanHit
<1>6. CASE ScanMiss(t)
  <2>1. CASE call[t].i < Embedded
    <3>1. call[t].pc = "scan" /\ call' = [call EXCEPT ![t].i = @ + 1]
      BY <1>6, <2>1 DEF ScanMiss, At
    <3>2. /\ call'[t].pc = call[t].pc /\ call'[t].kind = call[t].kind
          /\ call'[t].key = call[t].key /\ call'[t].val = call[t].val
      BY <1>1, <3>1 DEF Types, Call
    <3>3. Elements' = Elements
      BY <1>6, UnchangedElements DEF ScanMiss
    <3> QED BY <1>2, <3>1, <3>2, <3>3
  <2>2. CASE ~(call[t].i < Embedded)
    BY <1>3, <1>6, <2>2 DEF ScanMiss
  <2> QED BY <2>1, <2>2
<1>7. CASE Peek(t)
  <2>1. (IF add.cap = 0 THEN "lock" ELSE "readlock") \in {"scan", "peek", "readlock", "lock"}
    OBVIOUS
  <2> QED BY <1>3, <1>7, <2>1 DEF Peek
<1>8. CASE ReadHit(t)
  BY <1>4, <1>8, UnchangedElements DEF ReadHit
<1>9. CASE ReadMiss(t)
  BY <1>3, <1>9 DEF ReadMiss
<1>10. CASE LockRetry(t)
  <2>1. call[t].pc = "lock" /\ call' = [call EXCEPT ![t].pc = "scan", ![t].i = 1]
    BY <1>10 DEF LockRetry, At
  <2>2. /\ call'[t].pc = "scan" /\ call'[t].kind = call[t].kind
        /\ call'[t].key = call[t].key /\ call'[t].val = call[t].val
    BY <1>1, <2>1 DEF Types, Call
  <2>3. Elements' = Elements
    BY <1>10, UnchangedElements DEF LockRetry
  <2> QED BY <1>2, <2>1, <2>2, <2>3
<1>11. CASE LockFound(t)
  BY <1>4, <1>11, UnchangedElements DEF LockFound
<1>12. CASE LockMiss(t)
  <2>1. /\ call[t].pc = "lock" /\ call'[t].pc = "missed" /\ call'[t].kind = call[t].kind
        /\ call'[t].key = call[t].key /\ call'[t].val = call[t].val
    BY <1>1, <1>12, GoFields DEF LockMiss, PCs
  <2>2. /\ call[t].kind # "insert" /\ ~Present(call[t].key) /\ Elements' = Elements
        /\ call[t].key \in Key /\ call[t].val = NoValue
    BY <1>1, <1>12, <2>1, UnchangedElements DEF LockMiss, CallOK
  <2>3. call[t].key \notin DOMAIN Elements
    BY <2>2 DEF Elements
  <2>4. Linear!Lookup(call[t].key) = NoValue
    BY <2>3 DEF Linear!Lookup
  <2>5. Elements' = Linear!Drop(Elements, call[t].key)
    <3>1. Elements = [k \in DOMAIN Elements |-> Elements[k]]
      BY DEF Elements
    <3>2. DOMAIN Elements \ {call[t].key} = DOMAIN Elements
      BY <2>3
    <3> HIDE DEF Elements
    <3> QED BY <2>2, <3>1, <3>2 DEF Linear!Drop
  <2>6. Phase(t) = "begun" /\ Phase(t)' = "done"
    BY <1>1, <2>1, PhaseOf, PhaseNext
  <2> QED BY <1>1, <2>1, <2>2, <2>4, <2>5, <2>6, TakesEffect
<1>13. CASE CreateEmbedded(t)
  BY <1>4, <1>13, UnchangedElements DEF CreateEmbedded
<1>14. CASE CreateAdded(t)
  BY <1>4, <1>14, CreateAddedElements DEF CreateAdded
<1> QED
  BY <1>5, <1>6, <1>7, <1>8, <1>9, <1>10, <1>11, <1>12, <1>13, <1>14 DEF Acquire

(* The use of the value in between.                                        *)
LEMMA UseIsLinear ==
  ASSUME MapInv, MapInv', NEW t \in Thread, Use(t)
  PROVE  Linear!Next \/ Stutters
<1>1. Types /\ Types' /\ CallOK(t) /\ (Start(t) \/ Work(t))
  BY DEF MapInv, TypeOK, Types, Work
<1>2. CASE WriteValue(t)
  <2>1. /\ call[t].pc = "held" /\ call[t].kind = "insert" /\ call'[t].pc = "used" 
        /\ call'[t].kind = call[t].kind /\ call'[t].key = call[t].key 
        /\ call'[t].val = call[t].val /\ call'[t].created = call[t].created
    BY <1>1, <1>2, GoFields DEF WriteValue, PCs
  <2>2. CASE call[t].created
    <3>1. Phase(t) = "begun" /\ Phase(t)' = "begun"
      BY <1>1, <2>1, <2>2, PhaseOf, PhaseNext
    <3>2. Elements' = Elements
      BY <1>2, <2>2, WriteValueElements
    <3> QED BY <1>1, <2>1, <3>1, <3>2, InsideCall
  <2>3. CASE ~call[t].created
    <3>1. Phase(t) = "begun" /\ Phase(t)' = "done"
      BY <1>1, <2>1, <2>3, PhaseOf, PhaseNext
    <3>2. Elements' = Linear!Put(Elements, call[t].key, call[t].val)
      BY <1>2, <2>3, WriteValueElements
    <3> QED BY <1>1, <2>1, <3>1, <3>2, TakesEffect
  <2> QED BY <2>2, <2>3
<1>3. CASE ReadValue(t)
  <2>1. /\ call[t].pc = "held" /\ call[t].kind # "insert" /\ Elements' = Elements
        /\ call' = [call EXCEPT ![t].pc = "used", ![t].val = Content(t).val]
    BY <1>3, UnchangedElements DEF ReadValue, At
  <2>2. /\ call'[t].pc = "used" /\ call'[t].kind = call[t].kind /\ call'[t].key = call[t].key
        /\ call'[t].created = call[t].created
        /\ call'[t].val = Content(t).val
    BY <1>1, <2>1 DEF Types, Call
  <2>3. call[t].kind \in {"find", "remove"}
    BY <1>1, <2>1 DEF Types, Call
  <2>4. CASE call[t].kind = "find"
    <3>1. Phase(t) = "begun" /\ Phase(t)' = "done"
      BY <1>1, <2>1, <2>2, <2>4, PhaseOf, PhaseNext
    <3>2. ~call[t].created
      BY <1>1, <2>1, <2>4 DEF CallOK, CellOK, Created
    <3>3. Linear!Lookup(call[t].key) = Content(t).val
      BY <2>1, <3>2, LookupFound
    <3> QED BY <1>1, <2>1, <2>2, <2>4, <3>1, <3>3, TakesEffect
  <2>5. CASE call[t].kind = "remove"
    <3>1. Phase(t) = "begun" /\ Phase(t)' = "begun"
      BY <1>1, <2>1, <2>2, <2>5, PhaseOf, PhaseNext
    <3>2. \A u \in Thread \ {t} : call'[u] = call[u]
      BY <1>1, OthersStay
    <3>3. PendingCalls' = PendingCalls
      BY <1>1, <2>2, <2>5, <3>1, <3>2, PendingStay
    <3> QED BY <2>1, <3>3 DEF Stutters
  <2> QED BY <2>3, <2>4, <2>5
<1> QED BY <1>2, <1>3 DEF Use

(* The steps of release: an insertion takes effect with the store of its   *)
(* address, a removal when it is cleared.                                  *)
LEMMA ReleaseIsLinear ==
  ASSUME MapInv, MapInv', NEW t \in Thread, Release(t)
  PROVE  Linear!Next \/ Stutters
<1>1. Types /\ Types' /\ CallOK(t) /\ (Start(t) \/ Work(t))
  BY DEF MapInv, TypeOK, Types, Work
<1>2. CASE Publish(t)
  <2>1. /\ call[t].pc = "used" /\ call[t].created /\ call'[t].pc = "unlock" 
        /\ call'[t].kind = call[t].kind /\ call'[t].key = call[t].key 
        /\ call'[t].val = call[t].val
    BY <1>1, <1>2, GoFields DEF Publish, PCs
  <2>2. call[t].kind = "insert"
    BY <1>1, <2>1 DEF CallOK, CellOK, Created
  <2>3. Phase(t) = "begun" /\ Phase(t)' = "done"
    BY <1>1, <2>1, <2>2, PhaseOf, PhaseNext
  <2>4. Elements' = Linear!Put(Elements, call[t].key, call[t].val)
    BY <1>2, PublishElements
  <2> QED BY <1>1, <2>1, <2>2, <2>3, <2>4, TakesEffect
<1>3. ASSUME Erase(t) \/ EraseAdded(t), call'[t].pc \in {"compact", "unlock"}, 
             call'[t].kind = call[t].kind, call'[t].key = call[t].key, call'[t].val = call[t].val,
             Elements' = Linear!Drop(Elements, call[t].key)
      PROVE  Linear!Next
  <2>1. call[t].pc = "used" /\ call[t].kind = "remove"
    BY <1>3 DEF Erase, EraseAdded, At
  <2>2. ~call[t].created /\ call[t].val = Content(t).val
    BY <1>1, <2>1 DEF CallOK, CellOK, Created, Found
  <2>3. Phase(t) = "begun" /\ Phase(t)' = "done"
    BY <1>1, <1>3, <2>1, PhaseOf, PhaseNext
  <2>4. Linear!Lookup(call[t].key) = call'[t].val
    BY <1>3, <2>1, <2>2, LookupFound
  <2> QED BY <1>1, <1>3, <2>1, <2>3, <2>4, TakesEffect
<1>4. CASE Erase(t)
  <2>1. /\ call'[t].pc = "compact" /\ call'[t].kind = call[t].kind 
        /\ call'[t].key = call[t].key /\ call'[t].val = call[t].val
    BY <1>1, <1>4, GoFields DEF Erase, PCs
  <2> QED BY <1>3, <1>4, <2>1, EraseElements
<1>5. CASE EraseAdded(t)
  <2>1. /\ call'[t].pc = "unlock" /\ call'[t].kind = call[t].kind 
        /\ call'[t].key = call[t].key /\ call'[t].val = call[t].val
    BY <1>1, <1>5, GoFields DEF EraseAdded, PCs
  <2> QED BY <1>3, <1>5, <2>1, EraseAddedElements
<1>6. CASE MoveLast(t) \/ MoveNothing(t)
  <2>1. /\ call[t].pc = "compact" /\ call'[t].pc = "unlock" /\ call'[t].kind = call[t].kind 
        /\ call'[t].key = call[t].key /\ call'[t].val = call[t].val
    BY <1>1, <1>6, GoFields DEF MoveLast, MoveNothing, PCs
  <2>2. Elements' = Elements
    BY <1>6, MoveLastElements, UnchangedElements DEF MoveNothing
  <2>3. Phase(t) = "done" /\ Phase(t)' = "done"
    BY <1>1, <2>1, PhaseOf, PhaseNext
  <2> QED BY <1>1, <2>1, <2>2, <2>3, InsideCall
<1>7. CASE Unlock(t) \/ Leave(t) \/ Return(t)
  BY <1>7, EndsCall
<1> QED
  BY <1>2, <1>4, <1>5, <1>6, <1>7 DEF Release

(* Every step is a step of the abstract map or leaves it alone.            *)
LEMMA StepIsLinear ==
  ASSUME MapInv, MapInv', [Next]_vars
  PROVE  [Linear!Next]_<<Elements, PendingCalls>>
<1>1. CASE UNCHANGED vars
  <2>1. call' = call /\ UNCHANGED <<embed, add>>
    BY <1>1 DEF vars
  <2>2. Elements' = Elements
    BY <2>1, UnchangedElements
  <2>3. PendingCalls' = PendingCalls
    <3>1. \A t \in Thread : Phase(t)' = Phase(t)
      BY <2>1 DEF Phase
    <3> QED BY <2>1, <3>1 DEF PendingCalls
  <2> QED BY <2>2, <2>3
<1>2. ASSUME NEW t \in Thread, Start(t) \/ Work(t) PROVE Linear!Next \/ Stutters
  BY <1>2, BeginsCall, AcquireIsLinear, UseIsLinear, ReleaseIsLinear DEF Work
<1> QED BY <1>1, <1>2 DEF Next, Stutters

(* The empty bucket is the empty map.                                      *)
LEMMA InitIsLinear == Init => Linear!Init
<1> SUFFICES ASSUME Init PROVE Linear!Init
  OBVIOUS
<1>1. /\ embed = [i \in 1..Embedded |-> Empty] /\ add.size = 0
      /\ call = [t \in Thread |-> Idle]
  BY DEF Init
<1>2. \A k \in Key : ~Present(k)
  BY <1>1, MapAssumption DEF Present, EmbedAt, AddedAt, Empty
<1>3. DOMAIN Elements = {}
  BY <1>2 DEF Elements
<1>4. Elements = [k \in {} |-> NoValue]
  <2>1. Elements = [k \in DOMAIN Elements |-> Elements[k]]
    BY DEF Elements
  <2> HIDE DEF Elements
  <2> QED BY <1>3, <2>1
<1>5. \A t \in Thread : call[t].pc = "idle" /\ call[t].kind = "find"
  BY <1>1 DEF Idle
<1>6. \A t \in Thread : Phase(t) = "idle"
  BY <1>5 DEF Phase
<1>7. PendingCalls = [t \in Thread |-> Linear!Idle]
  BY <1>5, <1>6 DEF PendingCalls, Linear!Idle, Linear!Pending
<1> QED BY <1>4, <1>7 DEF Linear!Init

(* The bucket is linearizable: every find, insertion and removal takes     *)
(* effect at one moment between its beginning and its end, and its result  *)
(* is the one it has there.                                                *)
THEOREM TheMapIsLinear == Spec => LinearMapKept
<1>1. Init => Linear!Init
  BY InitIsLinear
<1>2. MapInv /\ MapInv' /\ [Next]_vars => [Linear!Next]_<<Elements, PendingCalls>>
  BY StepIsLinear
<1> QED BY <1>1, <1>2, MapInvariant, PTL DEF Spec, LinearMapKept, Linear!Spec

----------------------------------------------------------------------------
(* The Iterator.                                                           *)

IterType ==
  [pc : {"off", "look", "cell", "visit", "advance"}, in : {"embed", "add"}, pos : Nat, gen : Nat,
   seen : SUBSET Key, since : Nat]

(* An Iterator behind the first added cell has the lock to read, and what  *)
(* keeps the others from replacing the array keeps its pointer current.    *)
Protected(t) ==
  OnAdded(t) /\ iter[t].pos > 0 => 
    /\ readers[t] # 0 /\ iter[t].pos < add.cap
    /\ iter[t].pc \in {"cell", "visit"} => iter[t].gen = add.gen

InPlace(t) ==
  /\ iter[t].pc = "off" => iter[t] = Off
  /\ iter[t].pc # "off" => call[t].pc = "idle" /\ calls > 0
  /\ iter[t].since <= calls
  /\ iter[t].in = "embed" => iter[t].pos < Embedded /\ iter[t].pc # "cell"
  /\ iter[t].pc = "cell" => add.cap # 0
  /\ Protected(t)

(* The cells an Iterator has passed: n of the array it is in.              *)
Passed(t) == 
  IF iter[t].pc \in {"visit", "advance"} THEN iter[t].pos + 1 ELSE iter[t].pos

Behind(k, added, n) ==
  \/ \E i \in 1..Embedded : embed[i].addr = k /\ (added \/ i <= n)
  \/ \E i \in 1..add.cap : add.cells[i].addr = k /\ added /\ i <= n

(* A walk that no call and no other walk has met: it has seen the keys of  *)
(* the cells behind it, all of which are still where they were.            *)
Alone(t) == iter[t].pc # "off" /\ iter[t].since = calls

OthersRest(t) == 
  \A u \in Thread : call[u].pc = "idle" /\ (u # t => iter[u].pc = "off")

Sees(t) ==
  /\ OnAdded(t) /\ iter[t].pc = "cell" => iter[t].gen = add.gen
  /\ \A k \in Key : k \in iter[t].seen <=> Behind(k, OnAdded(t), Passed(t))

IterInv ==
  /\ iter \in [Thread -> IterType]
  /\ \A t \in Thread : InPlace(t)
  /\ \A t \in Thread : Alone(t) => OthersRest(t) /\ Sees(t)

(* More read locks and more calls, when nothing else changes, disturb no   *)
(* Handle.                                                                 *)
LEMMA MoreLocks ==
  ASSUME MapInv, UNCHANGED <<embed, add, writer, call, failed>>,
         readers' \in [Thread -> Nat], \A t \in Thread : readers[t] # 0 => readers'[t] # 0,
         calls' \in 0..MaxCalls
  PROVE  MapInv'
<1>1. TypeOK'
  BY DEF MapInv, TypeOK, Packed, InAdd
<1>2. LocksOK'
  BY DEF MapInv, LocksOK, Writes, Reads, Emb
<1>3. KeysApart' /\ UniqueKeys' /\ ~failed'
  BY DEF MapInv, KeysApart, UniqueKeys, EmbedAt, AddedAt
<1>4. ASSUME NEW u \in Thread PROVE CallOK(u)'
  BY DEF MapInv, CallOK, CellOK, Located, Created, Found, Content, Index, Emb, InAdd, Present, 
         EmbedAt, AddedAt
<1> QED BY <1>1, <1>2, <1>3, <1>4 DEF MapInv

(* The Iterators leave the invariant of the map as it is: what they change *)
(* of it are read locks and the number of calls.                           *)
LEMMA WalksKeepMapInv ==
  ASSUME MapInv, NEW t \in Thread, IterBegin(t) \/ Iterate(t)
  PROVE  MapInv'
<1>1. Types
  BY DEF MapInv, TypeOK, Types
<1>2. CASE IterBegin(t)
  <2>1. UNCHANGED <<embed, add, writer, readers, call, failed>> /\ calls' = calls + 1 
        /\ calls < MaxCalls
    BY <1>2 DEF IterBegin, lockVars
  <2>2. calls' \in 0..MaxCalls
    BY <1>1, <2>1, MapAssumption DEF Types
  <2> QED BY <1>1, <2>1, <2>2, MoreLocks DEF Types
<1>3. CASE NextAdded(t)
  <2>1. /\ UNCHANGED <<embed, add, writer, call, calls, failed>> 
        /\ readers' = [readers EXCEPT ![t] = @ + 1]
    BY <1>3 DEF NextAdded, KeepReadLock
  <2>2. readers' \in [Thread -> Nat] /\ \A u \in Thread : readers[u] # 0 => readers'[u] # 0
    BY <1>1, <2>1 DEF Types
  <2> QED BY <1>1, <2>1, <2>2, MoreLocks DEF Types
<1>4. CASE UNCHANGED vars
  BY <1>4, MapInvNext
<1> QED
  BY <1>2, <1>3, <1>4 
  DEF Iterate, LoadAdded, LookAdded, LookFreed, LookEmbedded, Visit, NextEmbedded, IterEnd

(* A step of a Handle: the array is replaced only while the bucket is      *)
(* unlocked, and a thread gives back no lock but its own.                  *)
LEMMA HandleStep ==
  ASSUME MapInv, NEW t \in Thread, Work(t)
  PROVE  /\ call[t].pc # "idle" /\ calls' = calls
         /\ \A u \in Thread \ {t} : readers'[u] = readers[u]
         /\ (\E u \in Thread : readers[u] # 0) => add'.gen = add.gen /\ add'.cap = add.cap
         /\ add.cap # 0 => add'.cap # 0
<1>1. Types /\ Packed /\ LocksOK /\ CallOK(t)
  BY DEF MapInv, TypeOK, Types
<1>2. call[t].pc # "idle" /\ calls' = calls
  <2>1. CASE Acquire(t)
    BY <2>1 DEF Acquire, ScanHit, ScanMiss, Peek, ReadHit, ReadMiss, LockRetry, LockFound, LockMiss,
                CreateEmbedded, CreateAdded, At
  <2>2. CASE Use(t)
    BY <2>2 DEF Use, WriteValue, ReadValue, At
  <2>3. CASE Release(t)
    BY <2>3 DEF Release, Publish, Erase, MoveLast, MoveNothing, EraseAdded, Unlock, Leave, Return, At
  <2> QED BY <2>1, <2>2, <2>3 DEF Work
<1>3. \A u \in Thread \ {t} : readers'[u] = readers[u]
  <2>1. ASSUME NEW n, readers' = [readers EXCEPT ![t] = n] 
        PROVE  \A u \in Thread \ {t} : readers'[u] = readers[u]
    BY <1>1, <2>1 DEF Types
  <2>2. CASE Acquire(t)
    BY <2>1, <2>2 
    DEF Acquire, ScanHit, ScanMiss, Peek, ReadHit, ReadMiss, LockRetry, LockFound, LockMiss,
        CreateEmbedded, CreateAdded, KeepReadLock, lockVars
  <2>3. CASE Use(t)
    BY <2>3 DEF Use, WriteValue, ReadValue, lockVars
  <2>4. CASE Release(t)
    BY <2>1, <2>4 
    DEF Release, Publish, Erase, MoveLast, MoveNothing, EraseAdded, Unlock, Leave, Return, 
        ReadUnlock, lockVars
  <2> QED BY <2>2, <2>3, <2>4 DEF Work
<1>4. CASE CreateAdded(t)
  <2>1. Unlocked /\ add'.cap = Grown.cap
    <3>1. add' = [Grown EXCEPT !.size = Grown.size + 1]
      BY <1>4 DEF CreateAdded
    <3> QED BY <1>1, <1>4, <3>1, GrownEffect DEF CreateAdded
  <2>2. Grown.cap # 0
    <3>1. Grown.cap \in Nat /\ add.size \in Nat /\ add.size < Grown.cap
      BY <1>1, GrownEffect DEF Types
    <3> QED BY <3>1
  <2> QED BY <1>2, <1>3, <2>1, <2>2 DEF Unlocked
<1>5. CASE ~CreateAdded(t)
  <2>1. add'.gen = add.gen /\ add'.cap = add.cap
    <3>1. CASE add' = add
      BY <3>1
    <3>2. ASSUME NEW c, SetCell(t, c) PROVE add'.gen = add.gen /\ add'.cap = add.cap
      BY <1>1, <3>2 DEF SetCell, Types
    <3>3. CASE Acquire(t)
      BY <1>5, <3>1, <3>3 
      DEF Acquire, ScanHit, ScanMiss, Peek, ReadHit, ReadMiss, LockRetry, LockFound, LockMiss,
          CreateEmbedded
    <3>4. CASE Use(t)
      BY <3>1, <3>2, <3>4 DEF Use, WriteValue, ReadValue
    <3>5. CASE MoveLast(t)
      BY <1>1, <3>5, MoveLastEffect
    <3>6. CASE EraseAdded(t)
      <4>1. Located(t)
        BY <1>1, <3>6 DEF EraseAdded, At, CallOK, CellOK
      <4> QED BY <1>1, <3>6, <4>1, EraseAddedEffect
    <3>7. CASE Release(t)
      BY <3>1, <3>2, <3>5, <3>6, <3>7
      DEF Release, Publish, Erase, MoveNothing, Unlock, Leave, Return
    <3> QED BY <3>3, <3>4, <3>7 DEF Work
  <2> QED BY <1>2, <1>3, <2>1
<1> QED BY <1>4, <1>5

(* A step of an Iterator concerns nobody else, so it is enough to look at  *)
(* where it gets to and, for a walk that is alone, at what it has seen.    *)
LEMMA WalkStep ==
  ASSUME MapInv, IterInv, NEW t \in Thread, NEW r \in IterType, 
         iter' = [iter EXCEPT ![t] = r], UNCHANGED <<embed, add, call, calls>>,
         \A u \in Thread \ {t} : readers'[u] = readers[u],
         iter[t].pc # "off", r.since = iter[t].since \/ r = Off,
         InPlace(t)', Alone(t) /\ OthersRest(t) /\ Sees(t) /\ r.pc # "off" => Sees(t)'
  PROVE  IterInv'
<1>1. /\ iter' \in [Thread -> IterType] /\ iter'[t] = r
      /\ \A u \in Thread \ {t} : iter'[u] = iter[u]
  BY DEF IterInv
<1>2. ASSUME NEW u \in Thread PROVE InPlace(u)'
  <2>1. CASE u # t
    <3>1. iter'[u] = iter[u] /\ readers'[u] = readers[u]
      BY <1>1, <2>1
    <3> QED BY <3>1 DEF IterInv, InPlace, Protected, OnAdded
  <2> QED BY <2>1
<1>3. ASSUME NEW u \in Thread, Alone(u)' PROVE OthersRest(u)' /\ Sees(u)'
  <2>1. CASE u # t
    <3>1. iter'[u] = iter[u]
      BY <1>1, <2>1
    <3>2. Alone(u)
      BY <1>3, <3>1 DEF Alone
    <3>3. OthersRest(u)
      BY <3>2 DEF IterInv
    <3> QED BY <2>1, <3>3 DEF OthersRest
  <2>2. CASE u = t
    <3>1. r.pc # "off" /\ r.since = iter[t].since /\ Alone(t)
      BY <1>1, <1>3, <2>2 DEF Alone, Off
    <3>2. OthersRest(t) /\ Sees(t)
      BY <3>1 DEF IterInv
    <3>3. OthersRest(t)'
      BY <1>1, <3>2 DEF OthersRest
    <3> QED BY <2>2, <3>1, <3>2, <3>3
  <2> QED BY <2>1, <2>2
<1> QED BY <1>1, <1>2, <1>3 DEF IterInv

(* One more cell behind an Iterator.                                       *)
LEMMA OneMoreBehind ==
  ASSUME Types, NEW n \in Nat, NEW k \in Key
  PROVE  /\ n < add.cap => 
              (Behind(k, TRUE, n + 1) <=> Behind(k, TRUE, n) \/ add.cells[n + 1].addr = k)
         /\ n < Embedded => 
              (Behind(k, FALSE, n + 1) <=> Behind(k, FALSE, n) \/ embed[n + 1].addr = k)
         /\ add.cap = 0 => (Behind(k, TRUE, n + 1) <=> Behind(k, TRUE, n))
         /\ n >= Embedded => (Behind(k, FALSE, n) <=> Behind(k, TRUE, 0))
         /\ ~Behind(k, FALSE, 0)
<1>1. add.cap \in Nat /\ Embedded \in Nat
  BY MapAssumption DEF Types
<1>2. ASSUME n < add.cap
      PROVE  Behind(k, TRUE, n + 1) <=> Behind(k, TRUE, n) \/ add.cells[n + 1].addr = k
  <2>1. n + 1 \in 1..add.cap /\ n + 1 <= n + 1
    BY <1>1, <1>2
  <2>2. \A i \in 1..add.cap : i <= n + 1 <=> i <= n \/ i = n + 1
    BY <1>1
  <2> QED BY <2>1, <2>2 DEF Behind
<1>3. ASSUME n < Embedded
      PROVE  Behind(k, FALSE, n + 1) <=> Behind(k, FALSE, n) \/ embed[n + 1].addr = k
  <2>1. n + 1 \in 1..Embedded /\ n + 1 <= n + 1
    BY <1>1, <1>3
  <2>2. \A i \in 1..Embedded : i <= n + 1 <=> i <= n \/ i = n + 1
    BY <1>1
  <2> QED BY <2>1, <2>2 DEF Behind
<1>4. ASSUME add.cap = 0 PROVE Behind(k, TRUE, n + 1) <=> Behind(k, TRUE, n)
  BY <1>4 DEF Behind
<1>5. ASSUME n >= Embedded PROVE Behind(k, FALSE, n) <=> Behind(k, TRUE, 0)
  <2>1. \A i \in 1..Embedded : i <= n
    BY <1>1, <1>5
  <2>2. \A i \in 1..add.cap : ~(i <= 0)
    BY <1>1
  <2> QED BY <2>1, <2>2 DEF Behind
<1>6. ~Behind(k, FALSE, 0)
  BY <1>1 DEF Behind
<1> QED BY <1>2, <1>3, <1>4, <1>5, <1>6

(* The pointer to the added cells is loaded.                               *)
LEMMA LoadAddedKeeps ==
  ASSUME MapInv, IterInv, NEW t \in Thread, LoadAdded(t)
  PROVE  IterInv'
<1>1. Types /\ iter[t] \in IterType /\ InPlace(t)
  BY DEF MapInv, TypeOK, Types, IterInv
<1> DEFINE pc == IF add.cap = 0 THEN "advance" ELSE "cell"
           r == [iter[t] EXCEPT !.pc = pc, !.gen = add.gen]
<1>2. /\ call[t].pc = "idle" /\ iter[t].pc = "look" /\ iter[t].in = "add"
      /\ UNCHANGED vars /\ iter' = [iter EXCEPT ![t] = r]
  BY <1>1 DEF LoadAdded, Doing, OnAdded
<1>3. /\ r \in IterType /\ r.pc = pc /\ r.gen = add.gen /\ r.in = "add" /\ r.pos = iter[t].pos
      /\ r.seen = iter[t].seen /\ r.since = iter[t].since
  BY <1>1, <1>2 DEF IterType, Types
<1>4. pc \in {"advance", "cell"} /\ (pc = "cell" <=> add.cap # 0)
  OBVIOUS
<1> HIDE DEF r, pc
<1>5. iter'[t] = r 
  BY <1>1, <1>2, <1>3 DEF IterInv
<1>6. UNCHANGED <<embed, add, readers, call, calls>>
  BY <1>2 DEF vars, lockVars
<1>7. InPlace(t)'
  BY <1>1, <1>2, <1>3, <1>4, <1>5, <1>6 DEF InPlace, Protected, OnAdded
<1>8. ASSUME Sees(t) PROVE Sees(t)'
  <2> DEFINE n == iter[t].pos
  <2>1. n \in Nat /\ OnAdded(t) /\ OnAdded(t)' /\ Passed(t) = n 
        /\ Passed(t)' = IF add.cap = 0 THEN n + 1 ELSE n
    BY <1>1, <1>2, <1>3, <1>4, <1>5 DEF IterType, OnAdded, Passed
  <2> HIDE DEF n
  <2>2. \A k \in Key : Behind(k, TRUE, Passed(t)') <=> Behind(k, TRUE, n)
    <3>1. CASE add.cap = 0
      <4>1. \A k \in Key : Behind(k, TRUE, n + 1) <=> Behind(k, TRUE, n)
        BY <1>1, <2>1, <3>1, OneMoreBehind
      <4> QED BY <2>1, <3>1, <4>1
    <3>2. CASE add.cap # 0
      BY <2>1, <3>2
    <3> QED BY <3>1, <3>2
  <2>3. \A k \in Key : Behind(k, OnAdded(t), Passed(t))' <=> Behind(k, OnAdded(t), Passed(t))
    BY <1>6, <2>1, <2>2 DEF Behind
  <2> QED BY <1>3, <1>5, <1>6, <1>8, <2>3 DEF Sees
<1> QED BY <1>2, <1>3, <1>6, <1>7, <1>8, WalkStep

(* A cell is looked at: its key, if it has one, is visited.                *)
LEMMA LookFields ==
  ASSUME IterInv, NEW t \in Thread, NEW key \in Key \cup {NoKey}, Look(t, key)
  PROVE  \E r \in IterType : 
           /\ iter' = [iter EXCEPT ![t] = r] /\ iter'[t] = r 
           /\ r.pc \in {"visit", "advance"} /\ r.in = iter[t].in /\ r.pos = iter[t].pos
           /\ r.gen = iter[t].gen /\ r.since = iter[t].since
           /\ \A k \in Key : k \in r.seen <=> k \in iter[t].seen \/ k = key
<1> DEFINE pc == IF key = NoKey THEN "advance" ELSE "visit"
           seen == iter[t].seen \cup ({key} \ {NoKey})
           r == [iter[t] EXCEPT !.pc = pc, !.seen = seen]
<1>1. iter[t] \in IterType
  BY DEF IterInv
<1>2. seen \in SUBSET Key /\ \A k \in Key : k \in seen <=> k \in iter[t].seen \/ k = key
  BY <1>1, MapAssumption DEF IterType
<1>3. pc \in {"visit", "advance"}
  OBVIOUS
<1>4. iter' = [iter EXCEPT ![t] = r]
  BY DEF Look
<1> HIDE DEF pc, seen
<1>5. /\ r \in IterType /\ r.pc = pc /\ r.in = iter[t].in /\ r.pos = iter[t].pos
      /\ r.gen = iter[t].gen /\ r.since = iter[t].since /\ r.seen = seen
  BY <1>1, <1>2, <1>3 DEF IterType
<1> HIDE DEF r
<1>6. iter'[t] = r
  BY <1>4 DEF IterInv
<1> QED BY <1>2, <1>3, <1>4, <1>5, <1>6

(* In the array that is in use.                                            *)
LEMMA LookAddedKeeps ==
  ASSUME MapInv, IterInv, NEW t \in Thread, LookAdded(t)
  PROVE  IterInv'
<1>1. Types /\ iter[t] \in IterType /\ InPlace(t)
  BY DEF MapInv, TypeOK, Types, IterInv
<1>2. PICK n \in Nat : n = iter[t].pos
  BY <1>1 DEF IterType
<1>3. PICK key : key = add.cells[n + 1].addr
  OBVIOUS
<1>4. /\ call[t].pc = "idle" /\ iter[t].pc = "cell" /\ iter[t].gen = add.gen
      /\ UNCHANGED vars /\ Look(t, key)
  BY <1>2, <1>3 DEF LookAdded, Doing
<1>5. OnAdded(t)
  BY <1>1, <1>4 DEF InPlace, IterType, OnAdded
<1>6. n < add.cap /\ n + 1 \in 1..add.cap
  BY <1>1, <1>2, <1>4, <1>5 DEF InPlace, Protected, Types
<1>7. key \in Key \cup {NoKey}
  BY <1>1, <1>3, <1>6 DEF Types, Cell
<1>8. PICK r \in IterType : 
           /\ iter' = [iter EXCEPT ![t] = r] /\ iter'[t] = r 
           /\ r.pc \in {"visit", "advance"} /\ r.in = iter[t].in /\ r.pos = iter[t].pos
           /\ r.gen = iter[t].gen /\ r.since = iter[t].since
           /\ \A k \in Key : k \in r.seen <=> k \in iter[t].seen \/ k = key
  BY <1>4, <1>7, LookFields
<1>9. UNCHANGED <<embed, add, readers, call, calls>>
  BY <1>4 DEF vars, lockVars
<1>10. InPlace(t)'
  BY <1>1, <1>4, <1>8, <1>9 DEF InPlace, Protected, OnAdded
<1>11. ASSUME Sees(t) PROVE Sees(t)'
  <2>1. OnAdded(t)' /\ Passed(t) = n /\ Passed(t)' = n + 1
    BY <1>2, <1>4, <1>5, <1>8 DEF OnAdded, Passed
  <2>2. \A k \in Key : Behind(k, TRUE, n + 1) <=> Behind(k, TRUE, n) \/ k = key
    BY <1>1, <1>3, <1>6, OneMoreBehind
  <2>3. \A k \in Key : Behind(k, OnAdded(t), Passed(t))' <=> Behind(k, TRUE, n + 1)
    BY <1>9, <2>1 DEF Behind
  <2>4. \A k \in Key : k \in iter[t].seen <=> Behind(k, TRUE, n)
    BY <1>5, <1>11, <2>1 DEF Sees
  <2> QED BY <1>4, <1>8, <2>2, <2>3, <2>4 DEF Sees
<1> QED BY <1>4, <1>8, <1>9, <1>10, <1>11, WalkStep

(* In one that was replaced: this befalls no walk that is alone.           *)
LEMMA LookFreedKeeps ==
  ASSUME MapInv, IterInv, NEW t \in Thread, LookFreed(t)
  PROVE  IterInv'
<1>1. iter[t] \in IterType /\ InPlace(t)
  BY DEF IterInv
<1>2. /\ call[t].pc = "idle" /\ iter[t].pc = "cell" /\ iter[t].gen # add.gen /\ UNCHANGED vars
  BY DEF LookFreed, Doing
<1>3. PICK pc \in {"advance", "visit"} : iter' = [iter EXCEPT ![t].pc = pc]
  BY DEF LookFreed
<1> DEFINE r == [iter[t] EXCEPT !.pc = pc]
<1>4. r \in IterType /\ r.pc = pc /\ r.in = iter[t].in /\ r.pos = iter[t].pos 
      /\ r.gen = iter[t].gen /\ r.since = iter[t].since
  BY <1>1 DEF IterType
<1>5. iter' = [iter EXCEPT ![t] = r]
  BY <1>3
<1> HIDE DEF r
<1>6. iter'[t] = r
  BY <1>5 DEF IterInv
<1>7. UNCHANGED <<embed, add, readers, call, calls>>
  BY <1>2 DEF vars, lockVars
<1>8. OnAdded(t) /\ ~(iter[t].pos > 0)
  BY <1>1, <1>2 DEF InPlace, Protected, OnAdded, IterType
<1>9. InPlace(t)'
  BY <1>1, <1>2, <1>4, <1>6, <1>7, <1>8 DEF InPlace, Protected, OnAdded
<1>10. ~Sees(t)
  BY <1>2, <1>8 DEF Sees
<1> QED BY <1>2, <1>4, <1>5, <1>7, <1>9, <1>10, WalkStep

(* Among the embedded cells.                                               *)
LEMMA LookEmbeddedKeeps ==
  ASSUME MapInv, IterInv, NEW t \in Thread, LookEmbedded(t)
  PROVE  IterInv'
<1>1. Types /\ iter[t] \in IterType /\ InPlace(t)
  BY DEF MapInv, TypeOK, Types, IterInv
<1>2. PICK n \in Nat : n = iter[t].pos
  BY <1>1 DEF IterType
<1>3. PICK key : key = embed[n + 1].addr
  OBVIOUS
<1>4. /\ call[t].pc = "idle" /\ iter[t].pc = "look" /\ iter[t].in = "embed"
      /\ UNCHANGED vars /\ Look(t, key)
  BY <1>2, <1>3 DEF LookEmbedded, Doing
<1>5. n < Embedded /\ n + 1 \in 1..Embedded
  BY <1>1, <1>2, <1>4, MapAssumption DEF InPlace
<1>6. key \in Key \cup {NoKey}
  BY <1>1, <1>3, <1>5 DEF Types, Cell
<1>7. PICK r \in IterType : 
           /\ iter' = [iter EXCEPT ![t] = r] /\ iter'[t] = r 
           /\ r.pc \in {"visit", "advance"} /\ r.in = iter[t].in /\ r.pos = iter[t].pos
           /\ r.gen = iter[t].gen /\ r.since = iter[t].since
           /\ \A k \in Key : k \in r.seen <=> k \in iter[t].seen \/ k = key
  BY <1>4, <1>6, LookFields
<1>8. UNCHANGED <<embed, add, readers, call, calls>>
  BY <1>4 DEF vars, lockVars
<1>9. InPlace(t)'
  BY <1>1, <1>4, <1>7, <1>8 DEF InPlace, Protected, OnAdded
<1>10. ASSUME Sees(t) PROVE Sees(t)'
  <2>1. (OnAdded(t) <=> FALSE) /\ (OnAdded(t)' <=> FALSE) /\ Passed(t) = n /\ Passed(t)' = n + 1
    BY <1>2, <1>4, <1>7 DEF OnAdded, Passed
  <2>2. \A k \in Key : Behind(k, FALSE, n + 1) <=> Behind(k, FALSE, n) \/ k = key
    BY <1>1, <1>3, <1>5, OneMoreBehind
  <2>3. \A k \in Key : Behind(k, OnAdded(t), Passed(t))' <=> Behind(k, FALSE, n + 1)
    BY <1>8, <2>1 DEF Behind
  <2>4. \A k \in Key : k \in iter[t].seen <=> Behind(k, FALSE, n)
    BY <1>10, <2>1 DEF Sees, Behind
  <2> QED BY <1>4, <1>7, <2>1, <2>2, <2>3, <2>4 DEF Sees
<1> QED BY <1>4, <1>7, <1>8, <1>9, <1>10, WalkStep

(* The caller uses the element it has come to.                             *)
LEMMA VisitKeeps ==
  ASSUME MapInv, IterInv, NEW t \in Thread, Visit(t)
  PROVE  IterInv'
<1>1. iter[t] \in IterType /\ InPlace(t)
  BY DEF IterInv
<1> DEFINE r == [iter[t] EXCEPT !.pc = "advance"]
<1>2. /\ call[t].pc = "idle" /\ iter[t].pc = "visit"
      /\ UNCHANGED vars /\ iter' = [iter EXCEPT ![t] = r]
  BY DEF Visit, Doing
<1>3. /\ r \in IterType /\ r.pc = "advance" /\ r.gen = iter[t].gen /\ r.in = iter[t].in 
      /\ r.pos = iter[t].pos /\ r.seen = iter[t].seen /\ r.since = iter[t].since
  BY <1>1 DEF IterType
<1> HIDE DEF r
<1>4. iter'[t] = r 
  BY <1>2 DEF IterInv
<1>5. UNCHANGED <<embed, add, readers, call, calls>>
  BY <1>2 DEF vars, lockVars
<1>6. InPlace(t)'
  BY <1>1, <1>2, <1>3, <1>4, <1>5 DEF InPlace, Protected, OnAdded
<1>7. ASSUME Sees(t) PROVE Sees(t)'
  <2>1. (OnAdded(t)' <=> OnAdded(t)) /\ Passed(t)' = Passed(t)
    BY <1>2, <1>3, <1>4 DEF OnAdded, Passed
  <2>2. \A k \in Key : Behind(k, OnAdded(t), Passed(t))' <=> Behind(k, OnAdded(t), Passed(t))
    BY <1>5, <2>1 DEF Behind
  <2> QED BY <1>2, <1>3, <1>4, <1>7, <2>2 DEF Sees
<1> QED BY <1>2, <1>3, <1>5, <1>6, <1>7, WalkStep

(* On to the next embedded cell, or to the added ones.                     *)
LEMMA NextEmbeddedKeeps ==
  ASSUME MapInv, IterInv, NEW t \in Thread, NextEmbedded(t)
  PROVE  IterInv'
<1>1. Types /\ iter[t] \in IterType /\ InPlace(t)
  BY DEF MapInv, TypeOK, Types, IterInv
<1>2. PICK n \in Nat : n = iter[t].pos
  BY <1>1 DEF IterType
<1> DEFINE in == IF n + 1 < Embedded THEN "embed" ELSE "add"
           pos == IF n + 1 < Embedded THEN n + 1 ELSE 0
           r == [iter[t] EXCEPT !.pc = "look", !.in = in, !.pos = pos]
<1>3. /\ call[t].pc = "idle" /\ iter[t].pc = "advance" /\ iter[t].in = "embed" /\ UNCHANGED vars 
      /\ iter' = [iter EXCEPT ![t] = r]
  BY <1>1, <1>2 DEF NextEmbedded, Doing, IterType
<1>4. in \in {"embed", "add"} /\ pos \in Nat
  OBVIOUS
<1>5. \/ n + 1 < Embedded /\ in = "embed" /\ pos = n + 1
      \/ n + 1 >= Embedded /\ in = "add" /\ pos = 0
  BY MapAssumption
<1> HIDE DEF in, pos
<1>6. /\ r \in IterType /\ r.pc = "look" /\ r.gen = iter[t].gen /\ r.in = in 
      /\ r.pos = pos /\ r.seen = iter[t].seen /\ r.since = iter[t].since
  BY <1>1, <1>4 DEF IterType
<1> HIDE DEF r
<1>7. iter'[t] = r 
  BY <1>3 DEF IterInv
<1>8. UNCHANGED <<embed, add, readers, call, calls>>
  BY <1>3 DEF vars, lockVars
<1>9. InPlace(t)'
  BY <1>1, <1>3, <1>5, <1>6, <1>7, <1>8 DEF InPlace, Protected, OnAdded
<1>10. ASSUME Sees(t) PROVE Sees(t)'
  <2>1. (OnAdded(t) <=> FALSE) /\ (OnAdded(t)' <=> in = "add") /\ Passed(t) = n + 1 
        /\ Passed(t)' = pos
    BY <1>2, <1>3, <1>6, <1>7 DEF OnAdded, Passed
  <2>2. \A k \in Key : Behind(k, in = "add", pos) <=> Behind(k, FALSE, n + 1)
    <3>1. CASE n + 1 < Embedded
      <4>1. (in = "add" <=> FALSE) /\ pos = n + 1
        BY <1>5, <3>1, MapAssumption
      <4> QED BY <4>1 DEF Behind
    <3>2. CASE n + 1 >= Embedded
      <4>1. (in = "add" <=> TRUE) /\ pos = 0 
        BY <1>5, <3>2, MapAssumption
      <4>2. n + 1 \in Nat
        OBVIOUS
      <4>3. \A k \in Key : Behind(k, FALSE, n + 1) <=> Behind(k, TRUE, 0)
        BY <1>1, <3>2, <4>2, OneMoreBehind
      <4> QED BY <4>1, <4>3 DEF Behind
    <3>3. n + 1 < Embedded \/ n + 1 >= Embedded
      BY MapAssumption
    <3> QED BY <3>1, <3>2, <3>3
  <2>3. \A k \in Key : Behind(k, OnAdded(t), Passed(t))' <=> Behind(k, in = "add", pos)
    BY <1>8, <2>1 DEF Behind
  <2>4. \A k \in Key : k \in iter[t].seen <=> Behind(k, FALSE, n + 1)
    BY <1>10, <2>1 DEF Sees, Behind
  <2> QED BY <1>3, <1>6, <1>7, <2>2, <2>3, <2>4 DEF Sees
<1> QED BY <1>3, <1>6, <1>8, <1>9, <1>10, WalkStep

(* On to the next added cell, with the lock to read once more.             *)
LEMMA NextAddedKeeps ==
  ASSUME MapInv, IterInv, NEW t \in Thread, NextAdded(t)
  PROVE  IterInv'
<1>1. Types /\ iter[t] \in IterType /\ InPlace(t)
  BY DEF MapInv, TypeOK, Types, IterInv
<1>2. PICK n \in Nat : n = iter[t].pos
  BY <1>1 DEF IterType
<1> DEFINE pos == n + 1
           r == [iter[t] EXCEPT !.pc = "look", !.pos = pos]
<1>3. /\ call[t].pc = "idle" /\ iter[t].pc = "advance" /\ iter[t].in = "add" 
      /\ UNCHANGED <<embed, add, call, calls>>
      /\ readers' = [readers EXCEPT ![t] = @ + 1]
      /\ iter' = [iter EXCEPT ![t] = r]
  BY <1>1, <1>2 DEF NextAdded, Doing, OnAdded, KeepReadLock
<1>4. add.cap # 0 /\ ~(n + 1 >= add.size)
  BY <1>2 DEF NextAdded, AtLast
<1>5. n + 1 < add.cap
  BY <1>1, <1>4 DEF Types
<1>6. pos \in Nat /\ pos = n + 1
  OBVIOUS
<1> HIDE DEF pos
<1>7. /\ r \in IterType /\ r.pc = "look" /\ r.gen = iter[t].gen /\ r.in = "add"
      /\ r.pos = pos /\ r.seen = iter[t].seen /\ r.since = iter[t].since
  BY <1>1, <1>3, <1>6 DEF IterType
<1> HIDE DEF r
<1>8. iter'[t] = r 
  BY <1>3 DEF IterInv
<1>9. readers'[t] # 0 /\ \A u \in Thread \ {t} : readers'[u] = readers[u]
  BY <1>1, <1>3 DEF Types
<1>10. InPlace(t)'
  BY <1>1, <1>3, <1>5, <1>6, <1>7, <1>8, <1>9 DEF InPlace, Protected, OnAdded
<1>11. ASSUME Sees(t) PROVE Sees(t)'
  <2>1. (OnAdded(t)' <=> OnAdded(t)) /\ Passed(t)' = Passed(t)
    BY <1>2, <1>3, <1>6, <1>7, <1>8 DEF OnAdded, Passed
  <2>2. \A k \in Key : Behind(k, OnAdded(t), Passed(t))' <=> Behind(k, OnAdded(t), Passed(t))
    BY <1>3, <2>1 DEF Behind
  <2> QED BY <1>3, <1>6, <1>7, <1>8, <1>11, <2>2 DEF Sees
<1> QED BY <1>3, <1>6, <1>7, <1>9, <1>10, <1>11, WalkStep

(* The end of the walk.                                                    *)
LEMMA IterEndKeeps ==
  ASSUME MapInv, IterInv, NEW t \in Thread, IterEnd(t)
  PROVE  IterInv'
<1>1. Types /\ iter[t] \in IterType /\ InPlace(t)
  BY DEF MapInv, TypeOK, Types, IterInv
<1>2. iter[t].pc = "advance" /\ UNCHANGED vars /\ iter' = [iter EXCEPT ![t] = Off]
  BY DEF IterEnd, Doing
<1>3. /\ Off \in IterType /\ Off.pc = "off" /\ Off.in = "embed" /\ Off.pos = 0 /\ Off.since = 0
  BY DEF Off, IterType
<1>4. iter'[t] = Off
  BY <1>2 DEF IterInv
<1>5. UNCHANGED <<embed, add, readers, call, calls>>
  BY <1>2 DEF vars, lockVars
<1>6. InPlace(t)'
  BY <1>1, <1>3, <1>4, <1>5, MapAssumption DEF InPlace, Protected, OnAdded, Types
<1> QED BY <1>2, <1>3, <1>5, <1>6, WalkStep

(* A walk begins: it is alone if everybody is idle.                        *)
LEMMA IterBeginKeeps ==
  ASSUME MapInv, IterInv, NEW t \in Thread, IterBegin(t)
  PROVE  IterInv'
<1>1. Types /\ calls \in Nat /\ iter[t] \in IterType
  BY MapAssumption DEF MapInv, TypeOK, Types, IterInv
<1> DEFINE since == IF AllIdle THEN calls + 1 ELSE 0
           r == [Off EXCEPT !.pc = "look", !.since = since]
<1>2. /\ call[t].pc = "idle" /\ iter[t].pc = "off" /\ calls' = calls + 1 
      /\ UNCHANGED <<embed, add, readers, call>> /\ iter' = [iter EXCEPT ![t] = r]
  BY DEF IterBegin, Doing, lockVars
<1>3. since \in Nat /\ since <= calls + 1 /\ (since = calls + 1 => AllIdle)
  BY <1>1
<1> HIDE DEF since
<1>4. /\ r \in IterType /\ r.pc = "look" /\ r.in = "embed" /\ r.pos = 0 
      /\ r.seen = {} /\ r.since = since
  BY <1>3 DEF Off, IterType
<1> HIDE DEF r
<1>5. /\ iter' \in [Thread -> IterType] /\ iter'[t] = r
      /\ \A u \in Thread \ {t} : iter'[u] = iter[u]
  BY <1>2, <1>4 DEF IterInv
<1>6. ASSUME NEW u \in Thread PROVE InPlace(u)'
  <2>1. CASE u = t
    BY <1>1, <1>2, <1>3, <1>4, <1>5, <2>1, MapAssumption DEF InPlace, Protected, OnAdded
  <2>2. CASE u # t
    <3>1. iter'[u] = iter[u] /\ InPlace(u) /\ iter[u] \in IterType
      BY <1>5, <2>2 DEF IterInv
    <3> QED BY <1>1, <1>2, <3>1 DEF InPlace, Protected, OnAdded, IterType
  <2> QED BY <2>1, <2>2
<1>7. ASSUME NEW u \in Thread, Alone(u)' PROVE OthersRest(u)' /\ Sees(u)'
  <2>1. u = t
    <3>1. SUFFICES ASSUME u # t PROVE FALSE
      OBVIOUS
    <3>2. iter'[u] = iter[u] /\ InPlace(u) /\ iter[u].since \in Nat
      BY <1>5, <3>1 DEF IterInv, IterType
    <3> QED BY <1>1, <1>2, <1>7, <3>2 DEF Alone, InPlace
  <2>2. AllIdle
    BY <1>2, <1>3, <1>4, <1>5, <1>7, <2>1 DEF Alone
  <2>3. OthersRest(u)'
    BY <1>2, <1>5, <2>1, <2>2 DEF AllIdle, OthersRest
  <2>4. (OnAdded(t)' <=> FALSE) /\ Passed(t)' = 0
    BY <1>4, <1>5 DEF OnAdded, Passed
  <2>5. \A k \in Key : ~Behind(k, FALSE, 0)
    BY <1>1, OneMoreBehind
  <2>6. \A k \in Key : ~Behind(k, OnAdded(t), Passed(t))'
    BY <1>2, <2>4, <2>5 DEF Behind
  <2>7. Sees(t)'
    BY <1>4, <1>5, <2>4, <2>6 DEF Sees
  <2> QED BY <2>1, <2>3, <2>7
<1> QED BY <1>5, <1>6, <1>7 DEF IterInv

(* A Handle ends the solitude of every walk, and the thread it belongs to  *)
(* is on none.                                                             *)
LEMMA HandlesKeeps ==
  ASSUME MapInv, IterInv, NEW t \in Thread, Handles(t)
  PROVE  IterInv'
<1>1. Types /\ calls \in Nat
  BY MapAssumption DEF MapInv, TypeOK, Types
<1>2. iter' = iter
  BY DEF Handles
<1>3. \A u \in Thread \ {t} : call'[u] = call[u]
  BY <1>1, OthersStay DEF Handles
<1>4. CASE Work(t)
  <2>1. /\ call[t].pc # "idle" /\ calls' = calls
        /\ \A u \in Thread \ {t} : readers'[u] = readers[u]
        /\ (\E u \in Thread : readers[u] # 0) => add'.gen = add.gen /\ add'.cap = add.cap
        /\ add.cap # 0 => add'.cap # 0
    BY <1>4, HandleStep
  <2>2. ASSUME NEW u \in Thread PROVE InPlace(u)' /\ ~Alone(u)'
    <3>1. InPlace(u) /\ (Alone(u) => OthersRest(u))
      BY DEF IterInv
    <3>2. ~Alone(u)'
      BY <1>2, <2>1, <3>1 DEF Alone, OthersRest
    <3>3. CASE iter[u].pc = "off"
      <4>1. iter[u].pc = "off" /\ iter[u].in = "embed" /\ iter[u] = Off
        BY <3>1, <3>3 DEF InPlace, Off
      <4> QED BY <1>2, <2>1, <3>1, <3>2, <4>1 DEF InPlace, Protected, OnAdded
    <3>4. CASE iter[u].pc # "off"
      <4>1. u # t
        BY <2>1, <3>1, <3>4 DEF InPlace
      <4> QED BY <1>2, <1>3, <2>1, <3>1, <3>2, <4>1 DEF InPlace, Protected, OnAdded
    <3> QED BY <3>3, <3>4
  <2> QED BY <1>2, <2>2 DEF IterInv
<1>5. CASE iter[t].pc = "off" /\ Start(t)
  <2>1. UNCHANGED <<embed, add, readers>> /\ calls' = calls + 1
    BY <1>5 DEF Start, Begin, lockVars
  <2>2. ASSUME NEW u \in Thread PROVE InPlace(u)' /\ ~Alone(u)'
    <3>1. InPlace(u) /\ iter[u] \in IterType
      BY DEF IterInv
    <3>2. iter[u].pc # "off" => call'[u] = call[u]
      BY <1>3, <1>5
    <3>3. iter[u].since <= calls' /\ iter[u].since # calls' /\ calls' > 0
      BY <1>1, <2>1, <3>1 DEF InPlace, IterType
    <3> QED BY <1>2, <2>1, <3>1, <3>2, <3>3 DEF InPlace, Protected, OnAdded, Alone
  <2> QED BY <1>2, <2>2 DEF IterInv
<1> QED BY <1>4, <1>5 DEF Handles

(* Every step keeps the invariants of the map and of the Iterators.        *)
LEMMA IterInvNext ==
  ASSUME MapInv, IterInv, [IterNext]_iterVars
  PROVE  MapInv' /\ IterInv'
<1>1. CASE UNCHANGED iterVars
  <2>1. UNCHANGED vars /\ UNCHANGED <<embed, add, readers, call, calls, iter>>
    BY <1>1 DEF iterVars, vars, lockVars
  <2>2. MapInv'
    BY <2>1, MapInvNext
  <2>3. \A t \in Thread : InPlace(t)'
    BY <2>1 DEF IterInv, InPlace, Protected, OnAdded
  <2>4. ASSUME NEW t \in Thread, Alone(t)' PROVE OthersRest(t)' /\ Sees(t)'
    <3>1. OthersRest(t) /\ Sees(t)
      BY <2>1, <2>4 DEF IterInv, Alone
    <3>2. \A k \in Key : Behind(k, OnAdded(t), Passed(t))' <=> Behind(k, OnAdded(t), Passed(t))
      BY <2>1 DEF Behind, OnAdded, Passed
    <3> QED BY <2>1, <3>1, <3>2 DEF OthersRest, Sees, OnAdded
  <2> QED BY <2>1, <2>2, <2>3, <2>4 DEF IterInv
<1>2. ASSUME NEW t \in Thread, IterBegin(t) \/ Iterate(t) PROVE MapInv' /\ IterInv'
  BY <1>2, WalksKeepMapInv, IterBeginKeeps, LoadAddedKeeps, LookAddedKeeps, LookFreedKeeps, 
     LookEmbeddedKeeps, VisitKeeps, NextEmbeddedKeeps, NextAddedKeeps, IterEndKeeps 
  DEF Iterate
<1>3. ASSUME NEW t \in Thread, Handles(t) PROVE MapInv' /\ IterInv'
  <2>1. Next
    BY <1>3 DEF Handles, Next
  <2> QED BY <1>3, <2>1, MapInvNext, HandlesKeeps
<1> QED BY <1>1, <1>2, <1>3 DEF IterNext

(* They hold at first.                                                     *)
LEMMA IterInvInit == IterInit => MapInv /\ IterInv
<1> SUFFICES ASSUME IterInit PROVE MapInv /\ IterInv
  OBVIOUS
<1>1. MapInv
  BY MapInvInit DEF IterInit
<1>2. /\ Off \in IterType /\ Off.pc = "off" /\ Off.in = "embed" /\ Off.pos = 0 /\ Off.since = 0
  BY DEF Off, IterType
<1>3. iter = [t \in Thread |-> Off] /\ calls = 0
  BY DEF IterInit, Init
<1> QED
  BY <1>1, <1>2, <1>3, MapAssumption DEF IterInv, InPlace, Protected, OnAdded, Alone

(* So they hold always.                                                    *)
LEMMA IterInvariant == IterSpec => [](MapInv /\ IterInv)
BY IterInvInit, IterInvNext, PTL DEF IterSpec

(* Behind the first added cell the Iterator looks at cells of the array    *)
(* that is in use: it has the lock to read since it went to the second,    *)
(* and acquire replaces the array under the lock to write.                 *)
THEOREM LaterCellsAreCurrent == IterSpec => []LaterCellsCurrent
<1>1. IterInv => LaterCellsCurrent
  BY DEF IterInv, InPlace, Protected, LaterCellsCurrent
<1> QED BY <1>1, IterInvariant, PTL

(* A walk that was alone all the way ends when it has come past every key  *)
(* of the bucket.                                                          *)
THEOREM WalksVisitAll == IterSpec => VisitsAll
<1>1. ASSUME MapInv, IterInv, NEW t \in Thread, IterEnd(t), iter[t].since = calls
      PROVE  iter[t].seen = {k \in Key : Present(k)}
  <2>1. Types /\ Packed /\ iter[t] \in IterType
    BY <1>1 DEF MapInv, TypeOK, Types, IterInv
  <2>2. /\ iter[t].pc = "advance" /\ iter[t].in = "add" 
        /\ add.cap = 0 \/ iter[t].pos + 1 >= add.size
        /\ \A u \in Thread : call[u].pc = "idle"
    BY <1>1 DEF IterEnd, AtLast, Doing, OnAdded, IterInv, Alone, OthersRest
  <2>3. PICK n \in Nat : n = iter[t].pos + 1
    BY <2>1 DEF IterType
  <2>4. \A k \in Key : k \in iter[t].seen <=> Behind(k, OnAdded(t), Passed(t))
    BY <1>1, <2>2 DEF IterInv, Alone, Sees
  <2>5. \A k \in Key : k \in iter[t].seen <=> Behind(k, TRUE, n)
    BY <2>2, <2>3, <2>4 DEF Passed, OnAdded, Behind
  <2>6. add.size \in Nat /\ add.cap \in Nat /\ add.size <= add.cap /\ DOMAIN embed = 1..Embedded
    BY <2>1 DEF Types
  <2>7. \A i \in 1..add.cap : i > add.size => add.cells[i].addr = NoKey
    BY <2>1 DEF Packed
  <2>8. \A i \in 1..add.size : i \in 1..add.cap /\ i <= n
    BY <2>2, <2>3, <2>6
  <2>9. ASSUME NEW k \in Key PROVE Behind(k, TRUE, n) <=> Present(k)
    <3>1. \A i \in 1..add.cap : add.cells[i].addr = k => i \in 1..add.size
      BY <2>6, <2>7, MapAssumption
    <3> QED BY <2>6, <2>8, <3>1 DEF Behind, Present, EmbedAt, AddedAt
  <2> QED BY <2>1, <2>5, <2>9 DEF IterType
<1>2. MapInv /\ IterInv /\ [IterNext]_iterVars 
        => [\A t \in Thread : IterEnd(t) /\ iter[t].since = calls => 
              iter[t].seen = {k \in Key : Present(k)}]_iterVars
  BY <1>1
<1> QED BY <1>2, IterInvariant, PTL DEF IterSpec, VisitsAll

(* The walks, and the read locks they keep, leave what the calls do a      *)
(* linearizable map, none of whose CHECKs fails.                           *)
THEOREM TheMapIsLinearAmidWalks == IterSpec => LinearMapKept /\ []ChecksHold
<1>1. IterInit => Linear!Init
  BY InitIsLinear DEF IterInit
<1>2. MapInv /\ MapInv' /\ [IterNext]_iterVars => [Linear!Next]_<<Elements, PendingCalls>>
  <2> SUFFICES ASSUME MapInv, MapInv', [IterNext]_iterVars
               PROVE  [Linear!Next]_<<Elements, PendingCalls>>
    OBVIOUS
  <2>1. CASE UNCHANGED <<embed, add, call>>
    <3>1. Elements' = Elements
      BY <2>1, UnchangedElements
    <3>2. PendingCalls' = PendingCalls
      <4>1. \A t \in Thread : Phase(t)' = Phase(t)
        BY <2>1 DEF Phase
      <4> QED BY <2>1, <4>1 DEF PendingCalls
    <3> QED BY <3>1, <3>2
  <2>2. ASSUME NEW t \in Thread, IterBegin(t) \/ Iterate(t) PROVE UNCHANGED <<embed, add, call>>
    BY <2>2 
    DEF IterBegin, Iterate, LoadAdded, LookAdded, LookFreed, LookEmbedded, Visit, NextEmbedded, 
        NextAdded, IterEnd, vars
  <2>3. ASSUME NEW t \in Thread, Handles(t) PROVE [Linear!Next]_<<Elements, PendingCalls>>
    BY <2>3, StepIsLinear DEF Handles, Next
  <2>4. CASE UNCHANGED iterVars
    BY <2>1, <2>4 DEF iterVars, vars
  <2> QED BY <2>1, <2>2, <2>3, <2>4 DEF IterNext
<1>3. MapInv => ChecksHold
  BY DEF MapInv, ChecksHold
<1> QED BY <1>1, <1>2, <1>3, IterInvariant, PTL DEF IterSpec, LinearMapKept, Linear!Spec
=============================================================================
