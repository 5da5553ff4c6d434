------------------------- MODULE IntrusiveQueue -------------------------
(* The intrusive queues of libuv (queue.h) as sequences of their nodes; the *)
(* daemon's lists (datastructure.h) are the same in this respect.  A        *)
(* node's links are in the node itself, so uv__queue_remove takes it out of *)
(* whichever queue it is in, and a node in none is linked to itself only.   *)
EXTENDS Naturals, Sequences, SequencesExt

(* Queue q after uv__queue_remove of node r. *)
Unlinked(q, r) == IF Contains(q, r) THEN RemoveAt(q, CHOOSE i \in DOMAIN q : q[i] = r) ELSE q
=============================================================================
