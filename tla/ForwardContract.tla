--------------------------- MODULE ForwardContract ---------------------------
(***************************************************************************)
(* What the forward queue promises, without counters or goroutines: a       *)
(* bounded first-in first-out lane, at most Servers tasks out of it at a    *)
(* time, and every task resolved, dropped or refused, once.                 *)
(***************************************************************************)
EXTENDS Integers, Sequences, FiniteSets

CONSTANTS Tasks, Servers, Capacity

VARIABLES lane,     \* the pending tasks, oldest first
          status    \* [Tasks -> Statuses]

Statuses == {"new", "refused", "pending", "held", "resolved", "dropped"}

AtStatus(s) == {t \in Tasks : status[t] = s}

Init == lane = <<>> /\ status = [t \in Tasks |-> "new"]

Accept(t) ==
    /\ status[t] = "new" /\ Len(lane) < Capacity
    /\ lane' = Append(lane, t)
    /\ status' = [status EXCEPT ![t] = "pending"]

\* Backpressure: a task is turned away only when the lane is full.
Reject(t) ==
    /\ status[t] = "new" /\ Len(lane) = Capacity
    /\ status' = [status EXCEPT ![t] = "refused"]
    /\ UNCHANGED lane

\* The oldest pending task leaves the lane, to a free server or dropped.
TakeOrDrop ==
    /\ lane # <<>>
    /\ lane' = Tail(lane)
    /\ \/ /\ Cardinality(AtStatus("held")) < Servers
          /\ status' = [status EXCEPT ![Head(lane)] = "held"]
       \/ status' = [status EXCEPT ![Head(lane)] = "dropped"]

Resolve(t) ==
    /\ status[t] = "held"
    /\ status' = [status EXCEPT ![t] = "resolved"]
    /\ UNCHANGED lane

Next == TakeOrDrop \/ \E t \in Tasks : Accept(t) \/ Reject(t) \/ Resolve(t)

Spec == Init /\ [][Next]_<<lane, status>>
=============================================================================
