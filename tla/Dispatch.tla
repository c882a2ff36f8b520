------------------------------ MODULE Dispatch ------------------------------
(***************************************************************************)
(* misc/dispatch.c: a queue through which other threads run callbacks in a *)
(* target thread, or lock the target thread out of its own state.          *)
(*                                                                         *)
(* Every critical section of queue->lock is one action.  The target keeps  *)
(* the mutex between re-acquiring it and the next decision of its loop:    *)
(* that is tpc = "loop", and no client action is enabled then.             *)
(* queue->cond is the set "waiters" of the threads blocked on it.          *)
(***************************************************************************)
EXTENDS Naturals, Sequences, FiniteSets, Subsequences

CONSTANTS
  Clients,      (* threads that are not the target thread                  *)
  Fns,          (* (fn, fn_data) pairs handed to the asynchronous calls    *)
  Target,       (* the thread calling mp_dispatch_queue_process()          *)
  NoThread,
  NoItem,
  MaxWait,      (* bound: deadlines are 0 (none or elapsed) .. MaxWait     *)
  MaxCalls      (* bound: calls one client may make                        *)

VARIABLES
  queue,            (* head .. tail                                        *)
  wakeup_fn,        (* mp_dispatch_set_wakeup_fn() was called on creation  *)
  interrupted,
  wait,             (* queue->wait                                         *)
  in_process,
  locked,
  lock_requests,
  locked_explicit,  (* locked_explicit_thread_id, NoThread when FALSE      *)
  waiters,          (* threads blocked in mp_cond_wait(&queue->cond)       *)
  running,          (* the item whose fn the target is executing           *)
  completed,        (* item.completed of each client's mp_dispatch_run()   *)
  tpc,              (* where the target thread is                          *)
  pc,               (* where each client is                                *)
  woken,            (* wakeup_fn was called since the last external wait   *)
  terminate,        (* flag set by the exit callback, e.g. terminate_vo()  *)
  calls,            (* calls made by each client                           *)
  owed              (* history: notifications no later callback has seen   *)

qvars == <<queue, interrupted, owed>>
lvars == <<locked, lock_requests, locked_explicit>>
tvars == <<wait, in_process, running, tpc, terminate>>
cvars == <<completed, pc, calls>>
dvars == <<qvars, lvars, tvars, cvars, waiters, woken>>
vars == <<dvars, wakeup_fn>>

Threads == Clients \cup {Target}

Items == [kind : {"async", "notify"}, key : Fns]
           \cup [kind : {"sync", "exit"}, key : Clients]

ASSUME DispatchAssumption ==
  /\ IsFiniteSet(Clients)
  /\ Target \notin Clients
  /\ NoThread \notin Clients \cup {Target}
  /\ Clients \cap Fns = {}
  /\ NoItem \notin Items
  /\ MaxWait \in Nat
  /\ MaxCalls \in Nat

IsSync(item) == item.kind \in {"sync", "exit"}

TargetPC == {"outside", "loop", "blocked", "running", "sleeping", "returned",
             "external", "exited"}

ClientPC == {"idle", "wakeup", "run_wakeup", "run_wait", "exit_wakeup",
             "exit_wait", "join", "lock_wakeup", "lock_retry", "lock_wait1",
             "lock_wait2", "held", "gone", "destroyed"}

Init ==
  /\ wakeup_fn \in BOOLEAN
  /\ queue = <<>> /\ interrupted = FALSE /\ owed = {}
  /\ wait = 0 /\ in_process = FALSE /\ running = NoItem
  /\ tpc = "outside" /\ terminate = FALSE
  /\ locked = FALSE /\ lock_requests = 0 /\ locked_explicit = NoThread
  /\ waiters = {} /\ woken = FALSE
  /\ completed = [c \in Clients |-> FALSE]
  /\ pc = [c \in Clients |-> "idle"]
  /\ calls = [c \in Clients |-> 0]

-----------------------------------------------------------------------------
(* Helpers *)

(* queue->lock can be taken: the target does not hold it.                  *)
LockFree == tpc # "loop"

Broadcast == waiters' = {}

Goto(c, label) == pc' = [pc EXCEPT ![c] = label]

StartCall(c) ==
  /\ pc[c] = "idle"
  /\ calls[c] < MaxCalls
  /\ calls' = [calls EXCEPT ![c] = @ + 1]
  /\ LockFree

(* An equal notification is queued already: the new one is dropped.        *)
Mergeable(item) ==
  /\ item.kind = "notify"
  /\ \E i \in DOMAIN queue : queue[i] = item

LinkFirst(item) == queue' = <<item>> \o queue           (* mutant of Link *)
Link(item) == queue' = Append(queue, item)

(* The locked part of mp_dispatch_append().                                *)
AppendItem(item) ==
  IF Mergeable(item)
  THEN UNCHANGED <<queue, interrupted, waiters>>
  ELSE /\ Link(item)
       /\ interrupted' = (interrupted \/ ~wakeup_fn)
       /\ Broadcast

(* Its last line runs unlocked, and is skipped by the early return.        *)
CallsWakeup(item) == wakeup_fn /\ ~Mergeable(item)

-----------------------------------------------------------------------------
(* Clients: asynchronous calls *)

(* mp_dispatch_enqueue() and mp_dispatch_enqueue_autofree()                *)
Enqueue(c, f) ==
  LET item == [kind |-> "async", key |-> f] IN
  /\ StartCall(c)
  /\ AppendItem(item)
  /\ Goto(c, IF CallsWakeup(item) THEN "wakeup" ELSE "idle")
  /\ UNCHANGED <<lvars, tvars, completed, woken, owed>>

(* mp_dispatch_enqueue_notify()                                            *)
EnqueueNotify(c, f) ==
  LET item == [kind |-> "notify", key |-> f] IN
  /\ StartCall(c)
  /\ AppendItem(item)
  /\ owed' = owed \cup {f}
  /\ Goto(c, IF CallsWakeup(item) THEN "wakeup" ELSE "idle")
  /\ UNCHANGED <<lvars, tvars, completed, woken>>

(* queue->wakeup_fn(queue->wakeup_ctx), after the unlock                   *)
SkipLockWakeup(c) == wakeup_fn /\ pc[c] # "lock_wakeup" (* mutant of Wakes *)
Wakes(c) == wakeup_fn

WakeupFn(c) ==
  /\ pc[c] \in {"wakeup", "run_wakeup", "exit_wakeup", "lock_wakeup"}
  /\ woken' = (woken \/ Wakes(c))
  /\ Goto(c, CASE pc[c] = "wakeup"      -> "idle"
               [] pc[c] = "run_wakeup"  -> "run_wait"
               [] pc[c] = "exit_wakeup" -> "exit_wait"
               [] pc[c] = "lock_wakeup" -> "lock_retry")
  /\ UNCHANGED <<qvars, lvars, tvars, waiters, completed, calls>>

(* mp_dispatch_cancel_fn(): drops every queued item with this callback.    *)
Kept(f) == {i \in DOMAIN queue : queue[i].key # f}

CancelFn(c, f) ==
  /\ StartCall(c)
  /\ \E p \in Enumerations(Kept(f)) : queue' = Pick(queue, p)
  /\ owed' = owed \ {f}
  /\ UNCHANGED <<interrupted, lvars, tvars, waiters, completed, pc, woken>>

(* mp_dispatch_interrupt()                                                 *)
Interrupt(c) ==
  /\ StartCall(c)
  /\ interrupted' = TRUE
  /\ Broadcast
  /\ UNCHANGED <<queue, owed, lvars, tvars, completed, pc, woken>>

(* mp_dispatch_adjust_timeout(); the guard is the code's condition, a call *)
(* that finds it false changes nothing.                                    *)
AdjustTimeout(c, until) ==
  /\ StartCall(c)
  /\ in_process
  /\ wait > until
  /\ wait' = until
  /\ Broadcast
  /\ UNCHANGED <<qvars, lvars, in_process, running, tpc, terminate,
                 completed, pc, woken>>

-----------------------------------------------------------------------------
(* Clients: synchronous calls *)

(* mp_dispatch_run(): the item is on the caller's stack.                   *)
Submit(c, kind, wakeup, wait_item) ==
  LET item == [kind |-> kind, key |-> c] IN
  /\ StartCall(c)
  /\ AppendItem(item)
  /\ completed' = [completed EXCEPT ![c] = FALSE]
  /\ Goto(c, IF CallsWakeup(item) THEN wakeup ELSE wait_item)
  /\ UNCHANGED <<lvars, tvars, woken, owed>>

Run(c) == Submit(c, "sync", "run_wakeup", "run_wait")

(* while (!item.completed) mp_cond_wait()                                  *)
CompletedOnce(c) == TRUE                             (* mutant of Completed *)
Completed(c) == completed[c]

RunWait(c) ==
  /\ pc[c] \in {"run_wait", "exit_wait"}
  /\ c \notin waiters
  /\ LockFree
  /\ IF Completed(c)
     THEN /\ Goto(c, IF pc[c] = "run_wait" THEN "idle" ELSE "join")
          /\ UNCHANGED waiters
     ELSE /\ waiters' = waiters \cup {c}
          /\ UNCHANGED pc
  /\ UNCHANGED <<qvars, lvars, tvars, completed, woken, calls>>

(* The way to destroy a queue that its comment recommends: terminate all   *)
(* senders, run a callback that makes the target exit, join it.            *)
Leave(c) ==
  /\ pc[c] = "idle"
  /\ Goto(c, "gone")
  /\ UNCHANGED <<qvars, lvars, tvars, waiters, completed, woken, calls>>

RunExit(c) ==
  /\ \A d \in Clients \ {c} : pc[d] = "gone"
  /\ Submit(c, "exit", "exit_wakeup", "exit_wait")

Destroy(c) ==
  /\ pc[c] = "join"
  /\ tpc = "exited"
  /\ Goto(c, "destroyed")
  /\ UNCHANGED <<qvars, lvars, tvars, waiters, completed, woken, calls>>

-----------------------------------------------------------------------------
(* Clients: the exclusive lock *)

Grantable == in_process /\ ~locked

AddNoRequest == UNCHANGED lock_requests             (* mutant of AddRequest *)
AddRequest == lock_requests' = lock_requests + 1

(* The second loop of mp_dispatch_lock(), up to its wait or its return.    *)
TryGrant(c) ==
  IF Grantable
  THEN /\ locked' = TRUE
       /\ locked_explicit' = c
       /\ Goto(c, "held")
       /\ UNCHANGED waiters
  ELSE /\ waiters' = waiters \cup {c}
       /\ Goto(c, "lock_wait2")
       /\ UNCHANGED <<locked, locked_explicit>>

(* mp_dispatch_lock(), up to where it first lets go of the mutex.          *)
Lock(c) ==
  /\ StartCall(c)
  /\ AddRequest
  /\ IF in_process
     THEN TryGrant(c)
     ELSE /\ Goto(c, "lock_wakeup")
          /\ UNCHANGED <<locked, locked_explicit, waiters>>
  /\ UNCHANGED <<qvars, tvars, completed, woken>>

(* The first loop, after wakeup_fn was called unlocked.                    *)
LockRetry(c) ==
  /\ pc[c] = "lock_retry"
  /\ LockFree
  /\ IF in_process
     THEN TryGrant(c)
     ELSE /\ waiters' = waiters \cup {c}
          /\ Goto(c, "lock_wait1")
          /\ UNCHANGED <<locked, locked_explicit>>
  /\ UNCHANGED <<qvars, tvars, lock_requests, completed, woken, calls>>

(* The first loop, after its mp_cond_wait() returned.                      *)
LockWait1(c) ==
  /\ pc[c] = "lock_wait1"
  /\ c \notin waiters
  /\ LockFree
  /\ IF in_process
     THEN TryGrant(c)
     ELSE /\ Goto(c, "lock_wakeup")
          /\ UNCHANGED <<locked, locked_explicit, waiters>>
  /\ UNCHANGED <<qvars, tvars, lock_requests, completed, woken, calls>>

LockWait2(c) ==
  /\ pc[c] = "lock_wait2"
  /\ c \notin waiters
  /\ LockFree
  /\ TryGrant(c)
  /\ UNCHANGED <<qvars, tvars, lock_requests, completed, woken, calls>>

(* mp_dispatch_unlock()                                                    *)
Unlock(c) ==
  /\ pc[c] = "held"
  /\ LockFree
  /\ locked' = FALSE
  /\ locked_explicit' = NoThread
  /\ lock_requests' = lock_requests - 1
  /\ Broadcast
  /\ Goto(c, "idle")
  /\ UNCHANGED <<qvars, tvars, completed, woken, calls>>

-----------------------------------------------------------------------------
(* The target thread: mp_dispatch_queue_process() *)

(* A queue with a wakeup_fn is polled: its target waits elsewhere.         *)
BeginProcess(timeout) ==
  /\ \/ tpc = "outside"
     \/ tpc = "returned" /\ ~wakeup_fn /\ ~terminate
  /\ wakeup_fn => timeout = 0
  /\ wait' = timeout
  /\ in_process' = TRUE
  /\ IF lock_requests > 0 THEN Broadcast ELSE UNCHANGED waiters
  /\ tpc' = "loop"
  /\ UNCHANGED <<qvars, lvars, running, cvars, woken, terminate>>

LoopBlocked ==
  /\ tpc = "loop"
  /\ lock_requests > 0
  /\ waiters' = waiters \cup {Target}
  /\ tpc' = "blocked"
  /\ UNCHANGED <<qvars, lvars, wait, in_process, running, cvars, woken,
                 terminate>>

DropLocked == locked' = FALSE

LoopTake ==
  /\ tpc = "loop"
  /\ lock_requests = 0
  /\ queue # <<>>
  /\ running' = Head(queue)
  /\ queue' = Tail(queue)
  /\ owed' = owed \ {f \in Fns : Head(queue) = [kind |-> "notify", key |-> f]}
  /\ locked' = TRUE
  /\ tpc' = "running"
  /\ UNCHANGED <<interrupted, wait, in_process, lock_requests,
                 locked_explicit, waiters, cvars, woken, terminate>>

(* item->fn() returned.  The exit callback has set the owner's flag.       *)
FinishItem ==
  /\ tpc = "running"
  /\ DropLocked
  /\ Broadcast
  /\ completed' = [c \in Clients |-> completed[c] \/ (IsSync(running) /\ running.key = c)]
  /\ terminate' = (terminate \/ running.kind = "exit")
  /\ running' = NoItem
  /\ tpc' = "loop"
  /\ UNCHANGED <<qvars, lock_requests, locked_explicit, wait, in_process,
                 pc, woken, calls>>

LoopSleep ==
  /\ tpc = "loop"
  /\ lock_requests = 0
  /\ queue = <<>>
  /\ wait > 0
  /\ ~interrupted
  /\ waiters' = waiters \cup {Target}
  /\ tpc' = "sleeping"
  /\ UNCHANGED <<qvars, lvars, wait, in_process, running, cvars, woken,
                 terminate>>

IdleRegardless == queue = <<>>                            (* mutant of Idle *)
Idle == lock_requests = 0 /\ queue = <<>>

LoopExit ==
  /\ tpc = "loop"
  /\ Idle
  /\ wait = 0 \/ interrupted
  /\ in_process' = FALSE
  /\ interrupted' = FALSE
  /\ tpc' = "returned"
  /\ UNCHANGED <<queue, owed, lvars, wait, running, waiters, cvars, woken,
                 terminate>>

(* Either wait returned because of a wakeup.                               *)
TargetWakes ==
  /\ tpc \in {"blocked", "sleeping"}
  /\ Target \notin waiters
  /\ tpc' = "loop"
  /\ UNCHANGED <<qvars, lvars, wait, in_process, running, waiters, cvars,
                 woken, terminate>>

(* mp_cond_timedwait_until() timed out.                                    *)
TimedOut ==
  /\ tpc = "sleeping"
  /\ waiters' = waiters \ {Target}
  /\ wait' = 0
  /\ tpc' = "loop"
  /\ UNCHANGED <<qvars, lvars, in_process, running, cvars, woken, terminate>>

-----------------------------------------------------------------------------
(* The loop around it, and the condition variable *)

(* The exit flag is looked at right after mp_dispatch_queue_process().     *)
TargetExits ==
  /\ tpc = "returned"
  /\ terminate
  /\ tpc' = "exited"
  /\ UNCHANGED <<qvars, lvars, wait, in_process, running, waiters, cvars,
                 woken, terminate>>

(* The target of a polled queue sleeps in its own primitive, e.g. wait_vo() *)
ExternalWait ==
  /\ tpc = "returned"
  /\ wakeup_fn
  /\ ~terminate
  /\ tpc' = "external"
  /\ UNCHANGED <<qvars, lvars, wait, in_process, running, waiters, cvars,
                 woken, terminate>>

ExternalReturn ==
  /\ tpc = "external"
  /\ tpc' = "outside"
  /\ woken' = FALSE
  /\ UNCHANGED <<qvars, lvars, wait, in_process, running, waiters, cvars,
                 terminate>>

ExternalWakes == woken /\ ExternalReturn

SpuriousWakeup(t) ==
  /\ t \in waiters
  /\ waiters' = waiters \ {t}
  /\ UNCHANGED <<qvars, lvars, tvars, cvars, woken>>

ClientStep(c) ==
  \/ WakeupFn(c) \/ RunWait(c) \/ Destroy(c)
  \/ LockRetry(c) \/ LockWait1(c) \/ LockWait2(c) \/ Unlock(c)

ClientCall(c) ==
  \/ \E f \in Fns : Enqueue(c, f) \/ EnqueueNotify(c, f) \/ CancelFn(c, f)
  \/ Interrupt(c)
  \/ \E until \in 0..MaxWait : AdjustTimeout(c, until)
  \/ Run(c) \/ RunExit(c) \/ Lock(c) \/ Leave(c)

TargetStep ==
  \/ \E timeout \in 0..MaxWait : BeginProcess(timeout)
  \/ LoopBlocked \/ LoopTake \/ FinishItem \/ LoopSleep \/ LoopExit
  \/ TargetWakes \/ TargetExits \/ ExternalWait \/ ExternalWakes

Next ==
  /\ \/ \E c \in Clients : ClientStep(c) \/ ClientCall(c)
     \/ TargetStep
     \/ TimedOut
     \/ ExternalReturn
     \/ \E t \in Threads : SpuriousWakeup(t)
  /\ UNCHANGED wakeup_fn

(* Threads that can continue do continue.  Fairness is strong for clients: *)
(* what they wait for is the mutex, and a thread that finds it free again  *)
(* and again gets it.  Nobody is obliged to make a call, and no timeout    *)
(* and no spurious wakeup is relied upon.                                  *)
Fairness ==
  /\ WF_dvars(TargetStep)
  /\ \A c \in Clients : SF_dvars(ClientStep(c))

Spec == Init /\ [][Next]_vars /\ Fairness

-----------------------------------------------------------------------------
(* Properties *)

(* Every variable of the queue, its target and its clients keeps its type. *)
TypeOK ==
  /\ queue \in Seq(Items) /\ running \in Items \cup {NoItem}
  /\ interrupted \in BOOLEAN /\ in_process \in BOOLEAN /\ locked \in BOOLEAN
  /\ wakeup_fn \in BOOLEAN /\ woken \in BOOLEAN /\ terminate \in BOOLEAN
  /\ wait \in 0..MaxWait /\ lock_requests \in Nat
  /\ locked_explicit \in Clients \cup {NoThread}
  /\ waiters \subseteq Threads /\ owed \subseteq Fns
  /\ completed \in [Clients -> BOOLEAN] /\ calls \in [Clients -> 0..MaxCalls]
  /\ tpc \in TargetPC /\ pc \in [Clients -> ClientPC]

(* Who may touch the target's state: the target in its own code or in a    *)
(* callback, and a client between mp_dispatch_lock() and _unlock().        *)
TargetActive == tpc \in {"outside", "returned", "external", "running", "exited"}
Holders == {c \in Clients : pc[c] = "held"}

(* "Grant exclusive access to the target thread's state": a lock holder is *)
(* alone, the target is trapped in mp_dispatch_queue_process() and runs no *)
(* callback meanwhile.                                                     *)
Exclusive ==
  /\ TargetActive => Holders = {}
  /\ \A c, d \in Holders : c = d

(* lock_requests counts exactly the threads inside mp_dispatch_lock() or   *)
(* holding the lock, so the target neither leaves early nor stays trapped. *)
RequestPC == {"lock_wakeup", "lock_retry", "lock_wait1", "lock_wait2", "held"}
Requesters == {c \in Clients : pc[c] \in RequestPC}
RequestsCounted == lock_requests = Cardinality(Requesters)

(* The stack item of mp_dispatch_run() is reachable from the queue or the  *)
(* target only while its caller is still inside the call, exactly once,    *)
(* and an unfinished call always has its item there.                       *)
Places(c) ==
  Cardinality({i \in DOMAIN queue : IsSync(queue[i]) /\ queue[i].key = c})
    + (IF running # NoItem /\ IsSync(running) /\ running.key = c THEN 1 ELSE 0)
InRun(c) == pc[c] \in {"run_wakeup", "run_wait", "exit_wakeup", "exit_wait"}
NoDanglingItem ==
  \A c \in Clients : Places(c) = IF InRun(c) /\ ~completed[c] THEN 1 ELSE 0

(* The assertions of queue_dtor() hold when a queue is destroyed the way   *)
(* the comment on mp_dispatch_create() recommends.                         *)
DestroySafe ==
  (\E c \in Clients : pc[c] = "destroyed") =>
    queue = <<>> /\ ~in_process /\ lock_requests = 0 /\ ~locked

NothingDangles == NoDanglingItem /\ DestroySafe

(* The assertions in mp_dispatch_lock(), _unlock() and _queue_process():   *)
(* locked is held by exactly the callback or the explicit lock owner.      *)
LockedAgrees ==
  /\ locked <=> (running # NoItem \/ Holders # {})
  /\ Holders = IF locked_explicit = NoThread THEN {} ELSE {locked_explicit}
  /\ running # NoItem <=> tpc = "running"

(* The target's position tells whether it is inside the function, ...      *)
InProcessAgrees ==
  in_process <=> tpc \in {"loop", "blocked", "running", "sleeping"}

(* ... and a lock holder keeps it there, with no callback running.         *)
HolderTraps == Holders # {} => in_process /\ running = NoItem

(* The inductive invariant: Exclusive needs that the lock is granted only  *)
(* to a trapped target, which needs lock_requests to count the lockers.    *)
IInv ==
  /\ TypeOK
  /\ RequestsCounted
  /\ LockedAgrees
  /\ InProcessAgrees
  /\ HolderTraps

(* The queue implements ExclusiveAccess: callbacks run in submission order *)
(* and never together with a lock holder or with the target's own code.    *)
Abstract == INSTANCE ExclusiveAccess WITH
  pending <- queue,
  callback <- running,
  active <- Holders \cup (IF TargetActive THEN {Target} ELSE {})
ImplementsExclusiveAccess == Abstract!Spec

(* mp_dispatch_run() and mp_dispatch_lock() return, and a notified         *)
(* callback runs, or is cancelled, eventually: nobody sleeps through a     *)
(* wakeup, and a notification is only merged with one that is to come.     *)
Unserved(x) ==
  \/ x \in Clients /\ (InRun(x) \/ (x \in Requesters /\ pc[x] # "held"))
  \/ x \in owed
Served == \A x \in Clients \cup Fns : Unserved(x) ~> ~Unserved(x)

=============================================================================
