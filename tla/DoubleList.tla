----------------------------- MODULE DoubleList -----------------------------
(***************************************************************************)
(* The intrusive list DoubleList of sanitizer_common/                      *)
(* sanitizer_doublelist.h, as operators.  A list is its header             *)
(* [size, first, last]; the links of the items are functions "prev" and    *)
(* "next" from item to item.  An operation yields the new header and the   *)
(* new links.  An operation whose Faults operator is true dereferences a   *)
(* null or a garbage pointer.                                              *)
(***************************************************************************)
EXTENDS Integers, Sequences

Null == 0              \* nullptr; items are positive integers
Wild == -1             \* the value of a pointer field nobody has written

EmptyList == [size |-> 0, first |-> Null, last |-> Null]

IsEmpty(list) == list.size = 0
Front(list)   == list.first

PushBackFaults(list) == ~IsEmpty(list) /\ list.last \in {Null, Wild}

(* Mutant: an item is linked but not counted.                              *)
PushBackUncounted(list, prev, next, x) == 
  IF IsEmpty(list)
  THEN [list |-> [size |-> 1, first |-> x, last |-> x],
        prev |-> [prev EXCEPT ![x] = Null],
        next |-> [next EXCEPT ![x] = Null]]
  ELSE [list |-> [list EXCEPT !.last = x],
        prev |-> [prev EXCEPT ![x] = list.last],
        next |-> [next EXCEPT ![x] = Null, ![list.last] = x]]

PushBack(list, prev, next, x) == 
  IF IsEmpty(list)
  THEN [list |-> [size |-> 1, first |-> x, last |-> x],
        prev |-> [prev EXCEPT ![x] = Null],
        next |-> [next EXCEPT ![x] = Null]]
  ELSE [list |-> [size |-> list.size + 1, first |-> list.first, last |-> x],
        prev |-> [prev EXCEPT ![x] = list.last],
        next |-> [next EXCEPT ![x] = Null, ![list.last] = x]]

RemoveFaults(list, prev, next, x) == 
  ~IsEmpty(list) /\ Wild \in {prev[x], next[x]}

(* Mutant: removing the front leaves it the front.                         *)
RemoveKeepsFirst(list, prev, next, x) == 
  IF IsEmpty(list)
  THEN [list |-> list, prev |-> prev, next |-> next]
  ELSE [list |-> [size  |-> list.size - 1,
                  first |-> list.first,
                  last  |-> IF next[x] = Null THEN prev[x] ELSE list.last],
        prev |-> [i \in DOMAIN prev |-> IF i = x THEN Null ELSE prev[i]],
        next |-> [i \in DOMAIN next |-> IF i = x THEN Null ELSE next[i]]]

Remove(list, prev, next, x) == 
  IF IsEmpty(list)
  THEN [list |-> list, prev |-> prev, next |-> next]
  ELSE [list |-> [size  |-> list.size - 1,
                  first |-> IF prev[x] = Null THEN next[x] ELSE list.first,
                  last  |-> IF next[x] = Null THEN prev[x] ELSE list.last],
        prev |-> [i \in DOMAIN prev |-> 
                    IF i = x THEN Null ELSE IF i = next[x] THEN prev[x] ELSE prev[i]],
        next |-> [i \in DOMAIN next |-> 
                    IF i = x THEN Null ELSE IF i = prev[x] THEN next[x] ELSE next[i]]]

(* The k-th item met on the way from first_ along next, Null when the walk *)
(* has fallen off the list.                                                *)
Walk(list, next) == 
  LET at[k \in 1..list.size] == 
        IF k = 1 THEN list.first
        ELSE IF at[k - 1] \in DOMAIN next THEN next[at[k - 1]] ELSE Null
  IN  at

(* What CheckConsistency asserts.                                          *)
CheckConsistency(list, next) == 
  IF list.size = 0
  THEN list.first = Null /\ list.last = Null
  ELSE LET at == Walk(list, next)
       IN  /\ list.last \in DOMAIN next
           /\ at[list.size] = list.last
           /\ \A k \in 1..(list.size - 1) : at[k] # list.last
           /\ next[list.last] = Null
=============================================================================
