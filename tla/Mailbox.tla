---------------------------- MODULE Mailbox ----------------------------
(* What armd_module_post and on_message promise, with no mutex, no ring     *)
(* buffer and no wake-up: every module owns a bounded FIFO box.  A post     *)
(* either puts its message at the end of the box or, only when the box is   *)
(* full, is refused with -ENOSPC.  The one event-loop thread hands the      *)
(* oldest message of some box to that module's on_message, one message of   *)
(* the whole program at a time.  Closing a module throws away what its box  *)
(* still holds; a post to a closed module has no effect on any box, and its *)
(* return value means nothing.                                              *)
EXTENDS Naturals, Sequences

CONSTANTS Modules,    \* the modules of the program
          Posters,    \* the threads that call armd_module_post
          Msgs,       \* the messages they may post
          Capacity,   \* how many messages a box holds
          NoMsg       \* no message is being handled

VARIABLES box,        \* box[m]: accepted by m and not yet handed over
          hand,       \* the message on_message is working on, or NoMsg
          closed,     \* the modules that were stopped
          call,       \* call[t]: target and message of t's last call, or <<>>
          ret         \* ret[t]: what it returns, "none" until that is decided

vars == <<box, hand, closed, call, ret>>

Init == /\ box = [m \in Modules |-> <<>>]
        /\ hand = NoMsg
        /\ closed = {}
        /\ call = [t \in Posters |-> <<>>]
        /\ ret = [t \in Posters |-> "none"]

InCall(t) == call[t] # <<>> /\ ret[t] = "none"

Call(t, m, x) == /\ ~InCall(t)
                 /\ call' = [call EXCEPT ![t] = <<m, x>>]
                 /\ ret' = [ret EXCEPT ![t] = "none"]
                 /\ UNCHANGED <<box, hand, closed>>

(* A call is answered once, and it is its own message that goes to the box   *)
(* it was meant for.                                                         *)
Answer(t, r) == /\ InCall(t)
                /\ ret' = [ret EXCEPT ![t] = r]
                /\ UNCHANGED <<hand, closed, call>>

Accept(t, m, x) == /\ call[t] = <<m, x>>
                   /\ m \notin closed
                   /\ Len(box[m]) < Capacity
                   /\ box' = [box EXCEPT ![m] = Append(@, x)]
                   /\ Answer(t, "ok")

Refuse(t, m, x) == /\ call[t] = <<m, x>>
                   /\ m \notin closed
                   /\ Len(box[m]) = Capacity
                   /\ Answer(t, "nospace")
                   /\ UNCHANGED box

PostToClosed(t, m, x) == /\ call[t] = <<m, x>>
                         /\ m \in closed
                         /\ Answer(t, "ok") \/ Answer(t, "nospace")
                         /\ UNCHANGED box

Deliver(m) == /\ hand = NoMsg
              /\ box[m] # <<>>
              /\ hand' = Head(box[m])
              /\ box' = [box EXCEPT ![m] = Tail(@)]
              /\ UNCHANGED <<closed, call, ret>>

Finish == /\ hand # NoMsg
          /\ hand' = NoMsg
          /\ UNCHANGED <<box, closed, call, ret>>

Close(m) == /\ m \notin closed
            /\ hand = NoMsg
            /\ closed' = closed \cup {m}
            /\ box' = [box EXCEPT ![m] = <<>>]
            /\ UNCHANGED <<hand, call, ret>>

Next == \/ Finish
        \/ \E m \in Modules : Deliver(m) \/ Close(m)
        \/ \E t \in Posters, m \in Modules, x \in Msgs :
             Call(t, m, x) \/ Accept(t, m, x) \/ Refuse(t, m, x) \/ PostToClosed(t, m, x)

Spec == Init /\ [][Next]_vars
=============================================================================
