--------------------------- MODULE AuthenticatedMap ---------------------------
(***************************************************************************)
(* What a trie promises: it is a map from keys to values, which only        *)
(* insert, remove and clear change, and only as they say.  It may give up   *)
(* (panic) when too little of it is known; it never answers wrongly.        *)
(***************************************************************************)
CONSTANTS Keys, Values

VARIABLES
  content, \* the map
  status   \* "ok" or "panicked"

vars == <<content, status>>

Maps == UNION {[keys -> Values]: keys \in SUBSET Keys}

Init == content \in Maps /\ status = "ok"

Insert(key, value) ==
  /\ status = "ok"
  /\ content' = [k \in DOMAIN content \cup {key} |-> IF k = key THEN value ELSE content[k]]
  /\ UNCHANGED status

Remove(key) ==
  /\ status = "ok"
  /\ content' = [k \in DOMAIN content \ {key} |-> content[k]]
  /\ UNCHANGED status

Clear ==
  /\ status = "ok"
  /\ content' = <<>>
  /\ UNCHANGED status

Panic ==
  /\ status = "ok"
  /\ status' = "panicked"
  /\ UNCHANGED content

Next ==
  \/ \E key \in Keys, value \in Values: Insert(key, value)
  \/ \E key \in Keys: Remove(key)
  \/ Clear
  \/ Panic

Spec == Init /\ [][Next]_vars
=============================================================================
