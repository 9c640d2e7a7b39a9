----------------------------- MODULE LinearMap -----------------------------
(***************************************************************************)
(* What the users of AddrHashMap rely on: a map on which every call takes  *)
(* effect at one moment between its beginning and its end.                 *)
(***************************************************************************)
CONSTANTS Thread, Key, Value, NoValue

VARIABLES 
  content,     \* the map
  pending      \* pending[t]: the call of thread t; when done, val is its result

Put(f, x, y) == [z \in DOMAIN f \cup {x} |-> IF z = x THEN y ELSE f[z]]
Drop(f, x)   == [z \in DOMAIN f \ {x} |-> f[z]]
Lookup(k)    == IF k \in DOMAIN content THEN content[k] ELSE NoValue

Pending(phase, kind, k, v) == [phase |-> phase, kind |-> kind, key |-> k, val |-> v]

Idle == Pending("idle", "find", NoValue, NoValue)

Init ==
  /\ content = [k \in {} |-> NoValue]
  /\ pending = [t \in Thread |-> Idle]

Begin(t) ==
  /\ pending[t].phase = "idle"
  /\ \E k \in Key : \/ \E kind \in {"find", "remove"} : 
                         pending' = [pending EXCEPT ![t] = Pending("begun", kind, k, NoValue)]
                    \/ \E v \in Value : 
                         pending' = [pending EXCEPT ![t] = Pending("begun", "insert", k, v)]
  /\ UNCHANGED content

Effect(t, kind) ==
  /\ pending[t].phase = "begun" /\ pending[t].kind = kind
  /\ pending' = [pending EXCEPT ![t].phase = "done", 
                   ![t].val = IF kind = "insert" THEN @ ELSE Lookup(pending[t].key)]

Find(t)   == Effect(t, "find") /\ UNCHANGED content
Insert(t) == Effect(t, "insert") /\ content' = Put(content, pending[t].key, pending[t].val)
Remove(t) == Effect(t, "remove") /\ content' = Drop(content, pending[t].key)

End(t) ==
  /\ pending[t].phase = "done"
  /\ pending' = [pending EXCEPT ![t] = Idle]
  /\ UNCHANGED content

Next == \E t \in Thread : Begin(t) \/ Find(t) \/ Insert(t) \/ Remove(t) \/ End(t)

Spec == Init /\ [][Next]_<<content, pending>>
=============================================================================
