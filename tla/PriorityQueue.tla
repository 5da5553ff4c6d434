------------------------- MODULE PriorityQueue -------------------------
(* What heap-inl.h promises its callers: a set of nodes and its least.    *)
(* A node is its rank in the order of the caller's less_than.             *)
EXTENDS Naturals

CONSTANTS N,            \* the nodes are 1..N
          Null

VARIABLES queue, min

Least(q) == IF q = {} THEN Null ELSE CHOOSE x \in q : \A y \in q : x <= y

Init == queue = {} /\ min = Null

Insert(x) == /\ x \notin queue
             /\ queue' = queue \cup {x}
             /\ min' = Least(queue')

Remove(x) == /\ x \in queue
             /\ queue' = queue \ {x}
             /\ min' = Least(queue')

Next == \E x \in 1..N : Insert(x) \/ Remove(x)

Spec == Init /\ [][Next]_<<queue, min>>
=============================================================================
