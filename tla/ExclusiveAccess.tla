--------------------------- MODULE ExclusiveAccess ---------------------------
(***************************************************************************)
(* What misc/dispatch.h promises its callers, without queues of waiters,   *)
(* counters or condition variables: the state that belongs to the target   *)
(* thread is touched by one party at a time - the target itself, running   *)
(* its own code or a callback, or one client holding the lock - and the    *)
(* callbacks run in the order in which they were submitted.                *)
(***************************************************************************)
EXTENDS Naturals, Sequences, FiniteSets, Subsequences

CONSTANTS
  Clients,   (* threads that submit callbacks and take the lock            *)
  Target,    (* the thread whose state is shared                           *)
  Items,     (* callbacks                                                  *)
  NoItem

VARIABLES
  pending,   (* submitted callbacks, oldest first                          *)
  callback,  (* the callback being executed                                *)
  active     (* who may touch the target's state                           *)

vars == <<pending, callback, active>>

Init ==
  /\ pending = <<>>
  /\ callback = NoItem
  /\ active = {Target}

Submit(item) ==
  /\ pending' = Append(pending, item)
  /\ UNCHANGED <<callback, active>>

(* All but n pending callbacks are dropped; the others keep their order.   *)
Cancel(n) ==
  /\ \E kept \in [1..n -> DOMAIN pending] :
       Increasing(kept) /\ pending' = Pick(pending, kept)
  /\ UNCHANGED <<callback, active>>

(* The target stops touching its state and becomes available.              *)
Trap ==
  /\ active = {Target}
  /\ callback = NoItem
  /\ active' = {}
  /\ UNCHANGED <<pending, callback>>

(* The target goes back to its own code, with all callbacks done.          *)
Resume ==
  /\ active = {}
  /\ pending = <<>>
  /\ active' = {Target}
  /\ UNCHANGED <<pending, callback>>

StartCallback ==
  /\ active = {}
  /\ pending # <<>>
  /\ callback' = Head(pending)
  /\ pending' = Tail(pending)
  /\ active' = {Target}

EndCallback ==
  /\ callback # NoItem
  /\ callback' = NoItem
  /\ active' = {}
  /\ UNCHANGED pending

Acquire(c) ==
  /\ active = {}
  /\ active' = {c}
  /\ UNCHANGED <<pending, callback>>

Release(c) ==
  /\ active = {c}
  /\ active' = {}
  /\ UNCHANGED <<pending, callback>>

Next ==
  \/ \E item \in Items : Submit(item)
  \/ \E n \in 0..Len(pending) : Cancel(n)
  \/ Trap \/ Resume \/ StartCallback \/ EndCallback
  \/ \E c \in Clients : Acquire(c) \/ Release(c)

Spec == Init /\ [][Next]_vars

=============================================================================
