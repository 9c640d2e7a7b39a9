--------------------------- MODULE PrivateMemory ---------------------------
(***************************************************************************)
(* What a program may assume of malloc and free: a chunk it has been given *)
(* has bytes of its own, which hold what the program last wrote to them    *)
(* until it frees the chunk.  Nothing is promised of the first contents.   *)
(***************************************************************************)
CONSTANTS 
  Chunk,          \* chunks that may be given out
  Offsets(_),     \* the byte positions of a chunk
  Value

VARIABLE content  \* content[ch][i], for the chunks the program holds

Init == content = [ch \in {} |-> {}]

(* The chunks in S keep their bytes.                                      *)
Same(S) == \A ch \in S : content'[ch] = content[ch]

Malloc == 
  \E ch \in Chunk \cap (DOMAIN content' \ DOMAIN content) : 
    /\ DOMAIN content' = DOMAIN content \cup {ch}
    /\ content'[ch] \in [Offsets(ch) -> Value]
    /\ Same(DOMAIN content)

Free == 
  \E ch \in DOMAIN content : 
    /\ DOMAIN content' = DOMAIN content \ {ch}
    /\ Same(DOMAIN content')

Write == 
  \E ch \in DOMAIN content : \E i \in Offsets(ch), v \in Value :
    content' = [content EXCEPT ![ch][i] = v]

Next == Malloc \/ Free \/ Write

Spec == Init /\ [][Next]_content
=============================================================================
