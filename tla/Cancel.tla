------------------------------- MODULE Cancel -------------------------------
(***************************************************************************)
(* misc/thread_tools.c: mp_cancel, the semaphore that aborts I/O.  It is   *)
(* triggered and reset; it has a callback, a file descriptor and slaves,   *)
(* which are triggered as well.  Triggering holds the lock of an object    *)
(* while it locks each of the slaves in turn.                              *)
(*                                                                         *)
(* A thread has a stack of what it is about to do: Head(stack[t]) is what  *)
(* it does now, what is below waits for it, with the locks it holds.       *)
(* An object is used by its owner, a shared one by all threads (and it is  *)
(* never destroyed).                                                       *)
(***************************************************************************)
EXTENDS Naturals, Sequences

CONSTANTS
  Objects, Threads,
  Owner,          (* the thread that owns an object                        *)
  Shared,         (* objects that all threads use                          *)
  CanBeParent,    (* <<slave, parent>>: the links that the program makes;  *)
                  (* a parent is valid as long as its slaves               *)
  None,
  Timeouts,       (* of mp_cancel_wait()                                   *)
  MaxOps          (* bound                                                 *)

CancelAssumption ==
  /\ Owner \in [Objects -> Threads] /\ Shared \subseteq Objects
  /\ CanBeParent \subseteq Objects \X Objects
  /\ \A l \in CanBeParent : l[2] \in Shared \/ Owner[l[2]] = Owner[l[1]]
  /\ None \notin Objects \cup Threads
  /\ Timeouts \subseteq {"finite", "infinite"}
  /\ MaxOps \in Nat

VARIABLES
  triggered, cb, fd, slaves, parent,   (* struct mp_cancel                 *)
  lock,           (* the thread that holds the lock of an object           *)
  alive,
  stack,          (* what the threads are doing                            *)
  ops,            (* bound counter                                         *)
  called,         (* history: the callback was called since it was set     *)
  exempt          (* history: reset since it was last triggered or linked  *)

vars == <<triggered, cb, fd, slaves, parent, lock, alive, stack, ops, called, exempt>>
links == <<slaves, parent, alive>>

Init ==
  /\ triggered = [c \in Objects |-> FALSE] /\ cb = [c \in Objects |-> FALSE]
  /\ fd = [c \in Objects |-> "none"]
  /\ slaves = [c \in Objects |-> {}] /\ parent = [c \in Objects |-> None]
  /\ lock = [c \in Objects |-> None] /\ alive = Objects
  /\ stack = [t \in Threads |-> <<>>] /\ ops = 0
  /\ called = [c \in Objects |-> FALSE] /\ exempt = [c \in Objects |-> FALSE]

Frame(op, c, arg) == [op |-> op, obj |-> c, arg |-> arg, at |-> "lock", todo |-> {}]

Top(t) == Head(stack[t])
Doing(t, op, at) == stack[t] # <<>> /\ Top(t).op = op /\ Top(t).at = at
Pop(t) == [stack EXCEPT ![t] = Tail(@)]

-----------------------------------------------------------------------------
(* The calls.  The owner links, destroys and waits; mp_cancel_set_parent() *)
(* and the destructor first leave the old parent.                          *)

Leave(c) == IF parent[c] = None THEN <<>> ELSE <<Frame("remove", parent[c], c)>>

Begin(t) ==
  /\ stack[t] = <<>> /\ ops < MaxOps /\ ops' = ops + 1
  /\ \E c \in alive :
       /\ c \in Shared \/ Owner[c] = t
       /\ \/ \E op \in {"trigger", "reset", "set_cb", "get_fd"} :
               stack' = [stack EXCEPT ![t] = <<Frame(op, c, None)>>]
          \/ \E timeout \in Timeouts :
               stack' = [stack EXCEPT ![t] = <<Frame("wait", c, timeout)>>]
          \/ \E q \in alive :
               /\ Owner[c] = t /\ <<c, q>> \in CanBeParent /\ parent[c] # q
               /\ stack' = [stack EXCEPT ![t] = Leave(c) \o <<Frame("adopt", q, c)>>]
          \/ /\ Owner[c] = t /\ c \notin Shared /\ slaves[c] = {}
             /\ stack' = [stack EXCEPT ![t] = Leave(c) \o <<Frame("free", c, None)>>]
  /\ UNCHANGED <<triggered, cb, fd, lock, called, exempt, links>>

-----------------------------------------------------------------------------
(* trigger_locked(), from the moment the lock is taken: the state and the  *)
(* broadcast that wakes up those who wait, the callback, then the slaves   *)
(* one by one, then the file descriptor.                                   *)

WokenNever(s, c) == s                                    (* mutant of Woken *)
Woken(s, c) ==
  [u \in Threads |->
     IF s[u] # <<>> /\ Head(s[u]).op = "wait" /\ Head(s[u]).obj = c /\ Head(s[u]).at = "sleep"
     THEN <<[Head(s[u]) EXCEPT !.at = "lock"]>> \o Tail(s[u]) ELSE s[u]]

trigger_locked(t, c, subs) ==
  /\ triggered' = [triggered EXCEPT ![c] = TRUE]
  /\ called' = [called EXCEPT ![c] = cb'[c]]
  /\ exempt' = [exempt EXCEPT ![c] = FALSE]
  /\ lock' = [lock EXCEPT ![c] = t]
  /\ stack' = [Woken(stack, c) EXCEPT ![t] =
                 <<[Top(t) EXCEPT !.at = "slaves", !.todo = subs]>> \o Tail(@)]

(* What is done under the lock before the (re)trigger.  A new mechanism is *)
(* triggered at once if the object already is.                             *)
Triggers(t) == Top(t).op = "trigger" \/ triggered[Top(t).obj]

Locked(t) ==
  /\ stack[t] # <<>> /\ Top(t).at = "lock" /\ lock[Top(t).obj] = None
  /\ LET c == Top(t).obj
         op == Top(t).op
         s == Top(t).arg IN
     /\ op \in {"trigger", "set_cb", "get_fd", "adopt"}
     /\ cb' = [cb EXCEPT ![c] = @ \/ op = "set_cb"]
     /\ fd' = [fd EXCEPT ![c] = IF op = "get_fd" /\ @ = "none" THEN "empty" ELSE @]
     /\ IF op = "adopt"
        THEN /\ parent' = [parent EXCEPT ![s] = c]
             /\ slaves' = [slaves EXCEPT ![c] = @ \cup {s}]
        ELSE UNCHANGED <<parent, slaves>>
     /\ IF Triggers(t) /\ (op = "get_fd" => fd[c] = "none")
        THEN trigger_locked(t, c, slaves'[c])
        ELSE /\ stack' = Pop(t) /\ UNCHANGED <<triggered, lock>>
             /\ called' = [called EXCEPT ![c] = @ /\ op # "set_cb"]
             /\ exempt' = IF op = "adopt" THEN [exempt EXCEPT ![s] = FALSE] ELSE exempt
  /\ UNCHANGED <<alive, ops>>

TriggerSlave(t) ==
  /\ stack[t] # <<>> /\ Top(t).at = "slaves"
  /\ \E s \in Top(t).todo :
       stack' = [stack EXCEPT ![t] =
                   <<Frame("trigger", s, None), [Top(t) EXCEPT !.todo = @ \ {s}]>> \o Tail(@)]
  /\ UNCHANGED <<triggered, cb, fd, lock, ops, called, exempt, links>>

(* the wakeup pipe, and the unlock                                         *)
Unlock(c) == [lock EXCEPT ![c] = None]
Notified(c) == IF fd[c] = "none" THEN "none" ELSE "readable"
TriggerDone(t) ==
  /\ stack[t] # <<>> /\ Top(t).at = "slaves" /\ Top(t).todo = {}
  /\ fd' = [fd EXCEPT ![Top(t).obj] = Notified(Top(t).obj)]
  /\ lock' = Unlock(Top(t).obj)
  /\ stack' = Pop(t)
  /\ UNCHANGED <<triggered, cb, ops, called, exempt, links>>

(* mp_cancel_reset() flushes the pipe.                                     *)
Unflushed(state) == state                              (* mutant of Flushed *)
Flushed(state) == IF state = "none" THEN "none" ELSE "empty"
Reset(t) ==
  /\ Doing(t, "reset", "lock") /\ lock[Top(t).obj] = None
  /\ LET c == Top(t).obj IN
     /\ triggered' = [triggered EXCEPT ![c] = FALSE]
     /\ fd' = [fd EXCEPT ![c] = Flushed(@)]
     /\ exempt' = [exempt EXCEPT ![c] = TRUE]
     /\ called' = [called EXCEPT ![c] = FALSE]
  /\ stack' = Pop(t)
  /\ UNCHANGED <<cb, lock, ops, links>>

(* mp_cancel_set_parent(): leaving the old parent takes the parent's lock. *)
Unlocked(c) == TRUE                                       (* mutant of Free *)
Free(c) == lock[c] = None
Remove(t) ==
  /\ Doing(t, "remove", "lock") /\ Free(Top(t).obj)
  /\ slaves' = [slaves EXCEPT ![Top(t).obj] = @ \ {Top(t).arg}]
  /\ parent' = [parent EXCEPT ![Top(t).arg] = None]
  /\ stack' = Pop(t)
  /\ UNCHANGED <<triggered, cb, fd, lock, alive, ops, called, exempt>>

Destroy(t) ==
  /\ Doing(t, "free", "lock")
  /\ alive' = alive \ {Top(t).obj} /\ stack' = Pop(t)
  /\ UNCHANGED <<triggered, cb, fd, slaves, parent, lock, ops, called, exempt>>

-----------------------------------------------------------------------------
(* mp_cancel_wait(); a finite deadline passes sooner or later.             *)

Sleep(t) ==
  /\ Doing(t, "wait", "lock") /\ Free(Top(t).obj)
  /\ IF triggered[Top(t).obj]
     THEN stack' = Pop(t)
     ELSE stack' = [stack EXCEPT ![t] = <<[Top(t) EXCEPT !.at = "sleep"]>> \o Tail(@)]
  /\ UNCHANGED <<triggered, cb, fd, lock, ops, called, exempt, links>>

Expires(timeout) == timeout # "infinite"
Timeout(t) ==
  /\ Doing(t, "wait", "sleep") /\ Expires(Top(t).arg) /\ Free(Top(t).obj)
  /\ stack' = Pop(t)
  /\ UNCHANGED <<triggered, cb, fd, lock, ops, called, exempt, links>>

Step(t) == \/ Locked(t) \/ TriggerSlave(t) \/ TriggerDone(t) \/ Reset(t)
           \/ Remove(t) \/ Destroy(t) \/ Sleep(t) \/ Timeout(t)
Next == \E t \in Threads : Begin(t) \/ Step(t)

(* The threads run, and a lock is handed on.                               *)
Spec == Init /\ [][Next]_vars /\ \A t \in Threads : WF_vars(Step(t))

-----------------------------------------------------------------------------
(* No thread locks or triggers an object that is gone, and no object has a *)
(* dead slave: destroying a slave waits for a trigger that may visit it.   *)
NoDeadObject ==
  /\ \A t \in Threads : \A i \in 1 .. Len(stack[t]) :
       stack[t][i].obj \in alive /\ stack[t][i].todo \subseteq alive
  /\ \A c \in alive : slaves[c] \subseteq alive

(* The fields have the types of the code; the links are kept on both ends, *)
(* and lead to no object that is gone.                                     *)
TypeOK ==
  /\ triggered \in [Objects -> BOOLEAN] /\ cb \in [Objects -> BOOLEAN]
  /\ fd \in [Objects -> {"none", "empty", "readable"}]
  /\ lock \in [Objects -> Threads \cup {None}] /\ alive \subseteq Objects
  /\ \A c \in Objects : slaves[c] = {s \in Objects : parent[s] = c}
  /\ NoDeadObject

(* A trigger is complete when the lock is free again.  The file descriptor *)
(* is readable if and only if the object is triggered; the callback has    *)
(* been called, also one that was set too late; and the slaves have been   *)
(* triggered, also those linked while or after it happened, unless they    *)
(* were reset themselves.                                                  *)
TriggerComplete ==
  \A c \in alive : lock[c] = None =>
    /\ fd[c] # "none" => (fd[c] = "readable") = triggered[c]
    /\ triggered[c] /\ cb[c] => called[c]
    /\ triggered[c] => \A s \in slaves[c] : triggered[s] \/ exempt[s]

(* A waiting thread returns if what it waits for stays triggered, and the  *)
(* threads do not block each other for ever: a call that does not wait for *)
(* a trigger returns, though it holds locks while it takes others.         *)
Acts(t) == stack[t] # <<>> /\ (Top(t).op = "wait" => triggered[Top(t).obj])
CallsReturn == \A t \in Threads : Acts(t) ~> ~Acts(t)
=============================================================================
