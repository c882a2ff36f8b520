------------------------------ MODULE MCCancel ------------------------------
(***************************************************************************)
(* Model checking instance of the cancellation objects and of the end of   *)
(* the player, which waits for cancelled commands.  They do not interact   *)
(* here: in a behaviour one of them is used, and the other is idle.        *)
(*   Cancel: the player's playback_abort, which every thread may trigger,  *)
(* and below it a demuxer's and a stream's object, both owned by one       *)
(* thread.                                                                 *)
(*   ClientLifetime: three handles; asynchronous commands of one of them   *)
(* and of a key binding.                                                   *)
(***************************************************************************)
EXTENDS ClientLifetime

CONSTANTS abort, demuxer, stream, playing, opener

MCObjects == {abort, demuxer, stream}
MCThreads == {playing, opener}
MCOwner == [c \in MCObjects |-> IF c = abort THEN playing ELSE opener]
MCLinks == {<<demuxer, abort>>, <<stream, abort>>, <<stream, demuxer>>}
MCShared == {abort}

CONSTANTS Objects, Threads, Owner, Shared, CanBeParent, None, Timeouts, MaxOps
VARIABLES triggered, cb, fd, slaves, parent, lock, alive, stack, ops, called, exempt
cancel == <<triggered, cb, fd, slaves, parent, lock, alive, stack, ops, called, exempt>>
Cancelling == INSTANCE Cancel

ASSUME CancelAssumed == Assumption /\ Cancelling!CancelAssumption

VARIABLE part       (* the one that is used                                *)
allvars == <<vars, cancel, part>>

AllInit ==
  /\ part \in {"cancel", "lifetime"}
  /\ Init /\ Cancelling!Init /\ (part = "cancel" => is_cli)

InCancel(A) == part = "cancel" /\ A /\ UNCHANGED <<vars, part>>
InLifetime(A) == part = "lifetime" /\ A /\ UNCHANGED <<cancel, part>>
AllNext == InCancel(Cancelling!Next) \/ InLifetime(Next)

(* The fairness of Cancel.                                                 *)
AllSpec ==
  /\ AllInit /\ [][AllNext]_allvars
  /\ \A t \in Threads : WF_allvars(InCancel(Cancelling!Step(t)))
-----------------------------------------------------------------------------
(* The types of both; no freed slave is used, no command without a client. *)
TypesOK == TypeOK /\ Cancelling!TypeOK

(* A trigger of mp_cancel reaches all that it has to when the lock is free *)
(* again: file descriptor, callback, and slaves (see Cancel).              *)
TriggerComplete == Cancelling!TriggerComplete

(* The calls of mp_cancel return, though they nest locks (see Cancel).     *)
CallsReturn == Cancelling!CallsReturn
=============================================================================
