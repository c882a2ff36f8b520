--------------------------- MODULE DispatchProofs ---------------------------
(* Proofs about Dispatch as MCDispatch checks it, for any number of        *)
(* clients, callbacks and calls.                                           *)
EXTENDS MCDispatch, FiniteSetTheorems, SequenceTheorems, TLAPS

-----------------------------------------------------------------------------
(* Moving one client adds it to, or removes it from, a set of clients      *)
(* defined by their position.                                              *)
LEMMA GotoSet ==
  ASSUME NEW S, pc \in [Clients -> ClientPC], NEW c \in Clients, NEW l, Goto(c, l)
  PROVE  {d \in Clients : pc'[d] \in S} =
           IF l \in S THEN {d \in Clients : pc[d] \in S} \cup {c}
                      ELSE {d \in Clients : pc[d] \in S} \ {c}
  BY DEF Goto

(* Requesters is finite, and lock_requests follows the move of one client. *)
LEMMA GotoCounts ==
  ASSUME TypeOK, RequestsCounted, NEW c \in Clients, NEW l, Goto(c, l)
  PROVE  Cardinality(Requesters') =
           IF l \in RequestPC
           THEN IF pc[c] \in RequestPC THEN lock_requests ELSE lock_requests + 1
           ELSE IF pc[c] \in RequestPC THEN lock_requests - 1 ELSE lock_requests
<1>1. Requesters' = IF l \in RequestPC THEN Requesters \cup {c} ELSE Requesters \ {c}
  BY GotoSet DEF TypeOK, Requesters
<1>2. c \in Requesters <=> pc[c] \in RequestPC
  BY DEF Requesters
<1>3. IsFiniteSet(Requesters)
  BY DispatchAssumption, FS_Subset DEF Requesters
<1>4. QED
  BY <1>1, <1>2, <1>3, FS_AddElement, FS_RemoveElement DEF RequestsCounted

(* No request, no holder: what the target checks before it takes an item   *)
(* and before it returns.                                                  *)
LEMMA NoRequests ==
  ASSUME RequestsCounted, lock_requests = 0
  PROVE  Holders = {}
<1>1. IsFiniteSet(Requesters)
  BY DispatchAssumption, FS_Subset DEF Requesters
<1>2. Requesters = {}
  BY <1>1, FS_EmptySet DEF RequestsCounted
<1>3. QED
  BY <1>2 DEF Requesters, Holders, RequestPC

(* A client inside mp_dispatch_lock() or holding the lock is counted.      *)
LEMMA SomeRequest ==
  ASSUME TypeOK, RequestsCounted, NEW c \in Clients, pc[c] \in RequestPC
  PROVE  lock_requests > 0
<1>1. IsFiniteSet(Requesters)
  BY DispatchAssumption, FS_Subset DEF Requesters
<1>2. Requesters # {}
  BY DEF Requesters
<1>3. QED
  BY <1>1, <1>2, FS_EmptySet DEF RequestsCounted, TypeOK

(* Cancelling yields a queue of items again.                               *)
LEMMA PickType ==
  ASSUME NEW S, NEW s \in Seq(S), NEW kept \in SUBSET DOMAIN s,
         NEW p \in Enumerations(kept)
  PROVE  Pick(s, p) \in Seq(S)
<1>1. IsFiniteSet(kept)
  BY FS_Interval, FS_Subset, LenProperties
<1>2. Cardinality(kept) \in Nat
  BY <1>1, FS_CardinalityType
<1>3. p \in [1..Cardinality(kept) -> kept]
  BY DEF Enumerations
<1>4. \A i \in 1..Cardinality(kept) : s[p[i]] \in S
  BY <1>3, ElementOfSeq, LenProperties
<1>5. Pick(s, p) \in [1..Cardinality(kept) -> S]
  BY <1>3, <1>4 DEF Pick
<1>6. QED
  BY <1>2, <1>5, SeqDef

-----------------------------------------------------------------------------
(* Appending an item *)
LEMMA AppendType ==
  ASSUME TypeOK, NEW item \in Items, AppendItem(item)
  PROVE  queue' \in Seq(Items) /\ interrupted' \in BOOLEAN /\ waiters' \subseteq Threads
<1>1. interrupted' \in BOOLEAN
  BY DispatchAssumption DEF TypeOK, AppendItem, Link
<1>2. queue' \in Seq(Items)
  <2>1. queue' = queue \/ queue' = Append(queue, item)
    BY Zenon DEF AppendItem, Link
  <2>2. queue \in Seq(Items)
    BY DEF TypeOK
  <2>3. QED
    BY <2>1, <2>2, AppendProperties
<1>3. waiters' \subseteq Threads
  BY DEF TypeOK, AppendItem, Link, Broadcast
<1>4. QED
  BY <1>1, <1>2, <1>3

(* Every call hands a proper item to the queue.                            *)
LEMMA ItemTypes ==
  /\ \A f \in Fns : [kind |-> "async", key |-> f] \in Items
  /\ \A f \in Fns : [kind |-> "notify", key |-> f] \in Items
  /\ \A c \in Clients : [kind |-> "sync", key |-> c] \in Items
  /\ \A c \in Clients : [kind |-> "exit", key |-> c] \in Items
  BY DEF Items

(* The bound on the calls of a client is kept.                             *)
LEMMA CallsType ==
  ASSUME TypeOK, NEW c \in Clients, StartCall(c)
  PROVE  calls' \in [Clients -> 0..MaxCalls]
  BY DispatchAssumption DEF TypeOK, StartCall

(* Taking the lock keeps the types, granted or not.                        *)
LEMMA GrantType ==
  ASSUME TypeOK, NEW c \in Clients, TryGrant(c)
  PROVE  /\ locked' \in BOOLEAN /\ locked_explicit' \in Clients \cup {NoThread}
         /\ pc' \in [Clients -> ClientPC] /\ waiters' \subseteq Threads
  BY DEF TypeOK, TryGrant, Goto, ClientPC, Threads

-----------------------------------------------------------------------------
(* Type correctness *)

(* Every step of the queue keeps the types.                                *)
LEMMA TypeStep ==
  ASSUME TypeOK, RequestsCounted, [Next]_vars
  PROVE  TypeOK'
<1>0. wakeup_fn' = wakeup_fn
  BY DEF Next, vars
<1> USE <1>0 DEF TypeOK, vars, dvars, qvars, lvars, tvars, cvars, ClientPC, TargetPC
<1>1. ASSUME NEW c \in Clients, ClientStep(c) PROVE TypeOK'
  <2>1. CASE WakeupFn(c)
    BY <2>1, DispatchAssumption DEF WakeupFn, Goto
  <2>2. CASE RunWait(c)
    BY <2>2, SMTT(60) DEF RunWait, Goto, Threads
  <2>3. CASE Destroy(c)
    BY <2>3 DEF Destroy, Goto
  <2>4. CASE LockRetry(c)
    BY <2>4, GrantType DEF LockRetry, Goto, Threads
  <2>5. CASE LockWait1(c)
    BY <2>5, GrantType DEF LockWait1, Goto, Threads
  <2>6. CASE LockWait2(c)
    BY <2>6, GrantType DEF LockWait2
  <2>7. CASE Unlock(c)
    <3>1. lock_requests > 0
      BY <2>7, SomeRequest DEF Unlock, RequestPC
    <3>2. lock_requests' \in Nat
      BY <2>7, <3>1 DEF Unlock
    <3>3. locked' \in BOOLEAN /\ pc' \in [Clients -> ClientPC]
      BY <2>7 DEF Unlock, Goto
    <3>4. QED
      BY <2>7, <3>2, <3>3 DEF Unlock, Broadcast
  <2>8. QED
    BY <1>1, <2>1, <2>2, <2>3, <2>4, <2>5, <2>6, <2>7 DEF ClientStep
<1>2. ASSUME NEW c \in Clients, ClientCall(c) PROVE TypeOK'
  <2>1. ASSUME NEW f \in Fns, Enqueue(c, f) PROVE TypeOK'
    <3>1. /\ queue' \in Seq(Items) /\ interrupted' \in BOOLEAN
          /\ waiters' \subseteq Threads /\ calls' \in [Clients -> 0..MaxCalls]
      BY <2>1, AppendType, ItemTypes, CallsType DEF Enqueue
    <3>2. QED
      BY <2>1, <3>1, ZenonT(60) DEF Enqueue, Goto
  <2>2. ASSUME NEW f \in Fns, EnqueueNotify(c, f) PROVE TypeOK'
    <3>1. /\ queue' \in Seq(Items) /\ interrupted' \in BOOLEAN
          /\ waiters' \subseteq Threads /\ calls' \in [Clients -> 0..MaxCalls]
      BY <2>2, AppendType, ItemTypes, CallsType DEF EnqueueNotify
    <3>2. QED
      BY <2>2, <3>1, ZenonT(60) DEF EnqueueNotify, Goto
  <2>3. ASSUME NEW f \in Fns, CancelFn(c, f) PROVE TypeOK'
    <3>1. queue' \in Seq(Items)
      BY <2>3, PickType DEF CancelFn, Kept
    <3>2. calls' \in [Clients -> 0..MaxCalls]
      BY <2>3, CallsType DEF CancelFn
    <3>3. QED
      BY <2>3, <3>1, <3>2 DEF CancelFn
  <2>4. CASE Interrupt(c)
    <3>1. calls' \in [Clients -> 0..MaxCalls]
      BY <2>4, CallsType DEF Interrupt
    <3>2. QED
      BY <2>4, <3>1 DEF Interrupt, Broadcast
  <2>5. ASSUME NEW until \in 0..MaxWait, AdjustTimeout(c, until) PROVE TypeOK'
    <3>1. calls' \in [Clients -> 0..MaxCalls]
      BY <2>5, CallsType DEF AdjustTimeout
    <3>2. QED
      BY <2>5, <3>1 DEF AdjustTimeout, Broadcast
  <2>6. ASSUME NEW kind \in {"sync", "exit"}, NEW l1 \in ClientPC, NEW l2 \in ClientPC,
               Submit(c, kind, l1, l2)
        PROVE  TypeOK'
    <3>1. [kind |-> kind, key |-> c] \in Items
      BY DEF Items
    <3>2. /\ queue' \in Seq(Items) /\ interrupted' \in BOOLEAN
          /\ waiters' \subseteq Threads /\ calls' \in [Clients -> 0..MaxCalls]
      BY <2>6, <3>1, AppendType, CallsType DEF Submit
    <3>3. QED
      BY <2>6, <3>2, ZenonT(60) DEF Submit, Goto
  <2>7. CASE Lock(c)
    <3>1. calls' \in [Clients -> 0..MaxCalls]
      BY <2>7, CallsType DEF Lock, AddRequest
    <3>2. /\ locked' \in BOOLEAN /\ locked_explicit' \in Clients \cup {NoThread}
          /\ pc' \in [Clients -> ClientPC] /\ waiters' \subseteq Threads
      BY <2>7 DEF Lock, AddRequest, TryGrant, Grantable, Goto, Threads
    <3>3. lock_requests' \in Nat
      BY <2>7 DEF Lock, AddRequest
    <3>4. QED
      BY <2>7, <3>1, <3>2, <3>3 DEF Lock, AddRequest
  <2>8. CASE Leave(c)
    BY <2>8 DEF Leave, Goto
  <2>9. QED
    BY <1>2, <2>1, <2>2, <2>3, <2>4, <2>5, <2>6, <2>7, <2>8
       DEF ClientCall, Run, RunExit
<1>3. CASE TargetStep
  <2>1. ASSUME NEW timeout \in 0..MaxWait, BeginProcess(timeout) PROVE TypeOK'
    BY <2>1 DEF BeginProcess, Broadcast
  <2>2. CASE LoopBlocked
    BY <2>2 DEF LoopBlocked, Threads
  <2>3. CASE LoopTake
    <3>1. Head(queue) \in Items /\ Tail(queue) \in Seq(Items)
      BY <2>3, HeadTailProperties DEF LoopTake
    <3>2. QED
      BY <2>3, <3>1 DEF LoopTake
  <2>4. CASE FinishItem
    <3>1. completed' \in [Clients -> BOOLEAN]
      BY <2>4, Zenon DEF FinishItem, DropLocked, IsSync
    <3>2. terminate' \in BOOLEAN
      BY <2>4, Zenon DEF FinishItem, DropLocked
    <3>3. QED
      BY <2>4, <3>1, <3>2 DEF FinishItem, DropLocked, Broadcast
  <2>5. CASE LoopSleep
    BY <2>5 DEF LoopSleep, Threads
  <2>6. CASE LoopExit
    BY <2>6 DEF LoopExit, Idle
  <2>7. CASE TargetWakes
    BY <2>7 DEF TargetWakes
  <2>8. CASE TargetExits
    BY <2>8 DEF TargetExits
  <2>9. CASE ExternalWait
    BY <2>9 DEF ExternalWait
  <2>10. CASE ExternalWakes
    BY <2>10 DEF ExternalWakes, ExternalReturn
  <2>11. QED
    BY <1>3, <2>1, <2>2, <2>3, <2>4, <2>5, <2>6, <2>7, <2>8, <2>9, <2>10
       DEF TargetStep
<1>4. CASE TimedOut
  BY <1>4, DispatchAssumption DEF TimedOut
<1>5. CASE ExternalReturn
  BY <1>5 DEF ExternalReturn
<1>6. ASSUME NEW t \in Threads, SpuriousWakeup(t) PROVE TypeOK'
  BY <1>6 DEF SpuriousWakeup
<1>7. CASE UNCHANGED vars
  BY <1>7
<1>8. QED
  BY <1>1, <1>2, <1>3, <1>4, <1>5, <1>6, <1>7 DEF Next

-----------------------------------------------------------------------------
(* Counting the lock requests *)

(* Only mp_dispatch_lock() and mp_dispatch_unlock() change the count; every *)
(* other client step stays on its side of the count.                       *)
LEMMA CountStep ==
  ASSUME TypeOK, RequestsCounted, [Next]_vars
  PROVE  RequestsCounted'
<1> USE DEF vars, dvars, qvars, lvars, tvars, cvars
<1>1. ASSUME UNCHANGED <<pc, lock_requests>> PROVE RequestsCounted'
  BY <1>1 DEF RequestsCounted, Requesters
<1>2. ASSUME NEW c \in Clients, NEW l, Goto(c, l), UNCHANGED lock_requests,
             l \in RequestPC <=> pc[c] \in RequestPC
      PROVE  RequestsCounted'
  BY <1>2, GotoCounts DEF RequestsCounted
<1>3. ASSUME NEW c \in Clients, ClientStep(c) PROVE RequestsCounted'
  <2>1. CASE WakeupFn(c)
    <3>1. CASE pc[c] = "lock_wakeup"
      BY <2>1, <3>1, <1>2 DEF WakeupFn, RequestPC
    <3>2. CASE pc[c] # "lock_wakeup"
      BY <2>1, <3>2, <1>2 DEF WakeupFn, RequestPC
    <3>3. QED
      BY <3>1, <3>2
  <2>2. CASE RunWait(c)
    BY <2>2, <1>1, <1>2 DEF RunWait, RequestPC
  <2>3. CASE Destroy(c)
    BY <2>3, <1>2 DEF Destroy, RequestPC
  <2>4. CASE LockRetry(c)
    BY <2>4, <1>2 DEF LockRetry, TryGrant, Grantable, RequestPC
  <2>5. CASE LockWait1(c)
    BY <2>5, <1>2 DEF LockWait1, TryGrant, Grantable, RequestPC
  <2>6. CASE LockWait2(c)
    BY <2>6, <1>2 DEF LockWait2, TryGrant, Grantable, RequestPC
  <2>7. CASE Unlock(c)
    BY <2>7, GotoCounts DEF Unlock, RequestPC, RequestsCounted
  <2>8. QED
    BY <1>3, <2>1, <2>2, <2>3, <2>4, <2>5, <2>6, <2>7 DEF ClientStep
<1>4. ASSUME NEW c \in Clients, ClientCall(c) PROVE RequestsCounted'
  <2>1. ASSUME NEW f \in Fns, Enqueue(c, f) PROVE RequestsCounted'
    BY <2>1, <1>2 DEF Enqueue, StartCall, RequestPC
  <2>2. ASSUME NEW f \in Fns, EnqueueNotify(c, f) PROVE RequestsCounted'
    BY <2>2, <1>2 DEF EnqueueNotify, StartCall, RequestPC
  <2>3. ASSUME NEW f \in Fns, CancelFn(c, f) PROVE RequestsCounted'
    BY <2>3, <1>1 DEF CancelFn
  <2>4. CASE Interrupt(c)
    BY <2>4, <1>1 DEF Interrupt
  <2>5. ASSUME NEW until \in 0..MaxWait, AdjustTimeout(c, until)
        PROVE  RequestsCounted'
    BY <2>5, <1>1 DEF AdjustTimeout
  <2>6. CASE Run(c)
    BY <2>6, <1>2 DEF Run, Submit, StartCall, RequestPC
  <2>7. CASE RunExit(c)
    BY <2>7, <1>2 DEF RunExit, Submit, StartCall, RequestPC
  <2>8. CASE Lock(c)
    <3>1. PICK l \in RequestPC : Goto(c, l)
      BY <2>8 DEF Lock, AddRequest, TryGrant, Grantable, RequestPC
    <3>2. pc[c] \notin RequestPC
      BY <2>8 DEF Lock, AddRequest, StartCall, RequestPC
    <3>3. QED
      BY <2>8, <3>1, <3>2, GotoCounts DEF Lock, AddRequest, RequestsCounted
  <2>9. CASE Leave(c)
    BY <2>9, <1>2 DEF Leave, RequestPC
  <2>10. QED
    BY <1>4, <2>1, <2>2, <2>3, <2>4, <2>5, <2>6, <2>7, <2>8, <2>9 DEF ClientCall
<1>5. CASE TargetStep
  BY <1>5, <1>1
     DEF TargetStep, BeginProcess, Broadcast, LoopBlocked, LoopTake, FinishItem, DropLocked, LoopSleep,
         LoopExit, Idle, TargetWakes, TargetExits, ExternalWait, ExternalWakes,
         ExternalReturn
<1>6. CASE TimedOut
  BY <1>6, <1>1 DEF TimedOut
<1>7. CASE ExternalReturn
  BY <1>7, <1>1 DEF ExternalReturn
<1>8. ASSUME NEW t \in Threads, SpuriousWakeup(t) PROVE RequestsCounted'
  BY <1>8, <1>1 DEF SpuriousWakeup
<1>9. CASE UNCHANGED vars
  BY <1>9, <1>1
<1>10. QED
  BY <1>3, <1>4, <1>5, <1>6, <1>7, <1>8, <1>9 DEF Next

-----------------------------------------------------------------------------
(* Who holds the lock *)

(* What the three lock invariants say, as one formula.                     *)
LockInv == LockedAgrees /\ InProcessAgrees /\ HolderTraps

(* A step that neither grants nor releases, of a target that stays put.    *)
LEMMA LockFrame ==
  ASSUME LockInv, UNCHANGED <<locked, locked_explicit, running, tpc, in_process>>,
         Holders' = Holders
  PROVE  LockInv'
  BY DEF LockInv, LockedAgrees, InProcessAgrees, HolderTraps

(* Holders follows the move of one client.                                 *)
LEMMA GotoHolders ==
  ASSUME TypeOK, NEW c \in Clients, NEW l, Goto(c, l)
  PROVE  Holders' = IF l = "held" THEN Holders \cup {c} ELSE Holders \ {c}
  BY DEF TypeOK, Goto, Holders

(* mp_dispatch_lock() granting, or going to sleep.                         *)
LEMMA GrantStep ==
  ASSUME TypeOK, LockInv, NEW c \in Clients, pc[c] # "held", TryGrant(c),
         UNCHANGED <<running, tpc, in_process>>, LockFree
  PROVE  LockInv'
<1>1. CASE Grantable
  <2>1. Holders' = {c} /\ locked' /\ locked_explicit' = c
    BY <1>1, GotoHolders DEF TryGrant, Grantable, LockInv, LockedAgrees
  <2>2. running = NoItem
    BY <1>1 DEF Grantable, LockInv, LockedAgrees
  <2>3. c # NoThread
    BY DispatchAssumption
  <2>4. QED
    BY <1>1, <2>1, <2>2, <2>3
       DEF Grantable, LockInv, LockedAgrees, InProcessAgrees, HolderTraps
<1>2. CASE ~Grantable
  BY <1>2, GotoHolders, LockFrame DEF TryGrant, Grantable, Holders
<1>3. QED
  BY <1>1, <1>2

(* The lock is granted to a trapped target only, and the target neither    *)
(* takes an item nor leaves while a request is outstanding.                *)
LEMMA LockStep ==
  ASSUME TypeOK, RequestsCounted, LockInv, [Next]_vars
  PROVE  LockInv'
<1> USE DEF vars, dvars, qvars, lvars, tvars, cvars
<1>1. ASSUME UNCHANGED <<locked, locked_explicit, running, tpc, in_process, pc>>
      PROVE  LockInv'
  BY <1>1, LockFrame DEF Holders
<1>2. ASSUME NEW c \in Clients, NEW l, Goto(c, l), l # "held", pc[c] # "held",
             UNCHANGED <<locked, locked_explicit, running, tpc, in_process>>
      PROVE  LockInv'
  BY <1>2, GotoHolders, LockFrame DEF Holders
<1>3. ASSUME NEW c \in Clients, ClientStep(c) PROVE LockInv'
  <2>1. CASE WakeupFn(c)
    BY <2>1, <1>2 DEF WakeupFn
  <2>2. CASE RunWait(c)
    BY <2>2, <1>1, <1>2 DEF RunWait
  <2>3. CASE Destroy(c)
    BY <2>3, <1>2 DEF Destroy
  <2>4. CASE LockRetry(c)
    BY <2>4, <1>2, GrantStep DEF LockRetry
  <2>5. CASE LockWait1(c)
    BY <2>5, <1>2, GrantStep DEF LockWait1
  <2>6. CASE LockWait2(c)
    BY <2>6, GrantStep DEF LockWait2
  <2>7. CASE Unlock(c)
    <3>1. Holders' = {} /\ ~locked' /\ locked_explicit' = NoThread
      BY <2>7, GotoHolders DEF Unlock, LockInv, LockedAgrees, Holders
    <3>2. running' = NoItem
      BY <2>7 DEF Unlock, LockInv, HolderTraps, Holders
    <3>3. QED
      BY <2>7, <3>1, <3>2
         DEF Unlock, LockInv, LockedAgrees, InProcessAgrees, HolderTraps
  <2>8. QED
    BY <1>3, <2>1, <2>2, <2>3, <2>4, <2>5, <2>6, <2>7 DEF ClientStep
<1>4. ASSUME NEW c \in Clients, ClientCall(c) PROVE LockInv'
  <2>1. ASSUME NEW f \in Fns, Enqueue(c, f) PROVE LockInv'
    BY <2>1, <1>2 DEF Enqueue, StartCall
  <2>2. ASSUME NEW f \in Fns, EnqueueNotify(c, f) PROVE LockInv'
    BY <2>2, <1>2 DEF EnqueueNotify, StartCall
  <2>3. ASSUME NEW f \in Fns, CancelFn(c, f) PROVE LockInv'
    BY <2>3, <1>1 DEF CancelFn
  <2>4. CASE Interrupt(c)
    BY <2>4, <1>1 DEF Interrupt
  <2>5. ASSUME NEW until \in 0..MaxWait, AdjustTimeout(c, until) PROVE LockInv'
    BY <2>5, <1>1 DEF AdjustTimeout
  <2>6. CASE Run(c)
    BY <2>6, <1>2 DEF Run, Submit, StartCall
  <2>7. CASE RunExit(c)
    BY <2>7, <1>2 DEF RunExit, Submit, StartCall
  <2>8. CASE Lock(c)
    BY <2>8, <1>2, GrantStep DEF Lock, AddRequest, StartCall
  <2>9. CASE Leave(c)
    BY <2>9, <1>2 DEF Leave
  <2>10. QED
    BY <1>4, <2>1, <2>2, <2>3, <2>4, <2>5, <2>6, <2>7, <2>8, <2>9 DEF ClientCall
<1>5. ASSUME UNCHANGED <<locked, locked_explicit, running, in_process, pc>>,
             tpc # "running", tpc' # "running",
             InProcessAgrees'
      PROVE  LockInv'
  BY <1>5 DEF LockInv, LockedAgrees, HolderTraps, Holders
<1>6. CASE TargetStep
  <2>1. ASSUME NEW timeout \in 0..MaxWait, BeginProcess(timeout) PROVE LockInv'
    BY <2>1 DEF BeginProcess, Broadcast, LockInv, LockedAgrees, HolderTraps,
                InProcessAgrees, Holders
  <2>2. CASE LoopBlocked
    BY <2>2, <1>5 DEF LoopBlocked, LockInv, InProcessAgrees
  <2>3. CASE LoopTake
    <3>1. Holders = {} /\ Holders' = {}
      BY <2>3, NoRequests DEF LoopTake, Holders
    <3>2. Head(queue) # NoItem
      BY <2>3, HeadTailProperties, DispatchAssumption DEF LoopTake, TypeOK
    <3>3. QED
      BY <2>3, <3>1, <3>2 DEF LoopTake, LockInv, LockedAgrees, HolderTraps,
                              InProcessAgrees
  <2>4. CASE FinishItem
    <3>1. Holders = {} /\ Holders' = {}
      BY <2>4, DispatchAssumption
         DEF FinishItem, DropLocked, LockInv, HolderTraps, LockedAgrees, Holders
    <3>2. QED
      BY <2>4, <3>1 DEF FinishItem, DropLocked, LockInv, LockedAgrees, HolderTraps,
                        InProcessAgrees
  <2>5. CASE LoopSleep
    BY <2>5, <1>5 DEF LoopSleep, LockInv, InProcessAgrees
  <2>6. CASE LoopExit
    <3>1. Holders = {} /\ Holders' = {}
      BY <2>6, NoRequests DEF LoopExit, Idle, Holders
    <3>2. QED
      BY <2>6, <3>1 DEF LoopExit, Idle, LockInv, LockedAgrees, HolderTraps,
                        InProcessAgrees
  <2>7. CASE TargetWakes
    BY <2>7, <1>5 DEF TargetWakes, LockInv, InProcessAgrees
  <2>8. CASE TargetExits
    BY <2>8, <1>5 DEF TargetExits, LockInv, InProcessAgrees
  <2>9. CASE ExternalWait
    BY <2>9, <1>5 DEF ExternalWait, LockInv, InProcessAgrees
  <2>10. CASE ExternalWakes
    BY <2>10, <1>5 DEF ExternalWakes, ExternalReturn, LockInv, InProcessAgrees
  <2>11. QED
    BY <1>6, <2>1, <2>2, <2>3, <2>4, <2>5, <2>6, <2>7, <2>8, <2>9, <2>10
       DEF TargetStep
<1>7. CASE TimedOut
  BY <1>7, <1>5 DEF TimedOut, LockInv, InProcessAgrees
<1>8. CASE ExternalReturn
  BY <1>8, <1>5 DEF ExternalReturn, LockInv, InProcessAgrees
<1>9. ASSUME NEW t \in Threads, SpuriousWakeup(t) PROVE LockInv'
  BY <1>9, <1>1 DEF SpuriousWakeup
<1>10. CASE UNCHANGED vars
  BY <1>10, <1>1
<1>11. QED
  BY <1>3, <1>4, <1>6, <1>7, <1>8, <1>9, <1>10 DEF Next

-----------------------------------------------------------------------------
(* The invariant and what follows from it *)

(* A new queue satisfies the inductive invariant.                          *)
LEMMA InitInv == Init => IInv
<1> SUFFICES ASSUME Init PROVE IInv
  OBVIOUS
<1>1. TypeOK
  <2>1. queue \in Seq(Items)
    BY EmptySeq DEF Init
  <2>2. pc \in [Clients -> ClientPC] /\ tpc \in TargetPC
    BY DEF Init, TargetPC, ClientPC
  <2>3. completed \in [Clients -> BOOLEAN] /\ calls \in [Clients -> 0..MaxCalls]
    BY DispatchAssumption DEF Init
  <2>4. wait \in 0..MaxWait /\ lock_requests \in Nat
    BY DispatchAssumption DEF Init
  <2>5. /\ locked_explicit \in Clients \cup {NoThread}
        /\ waiters \subseteq Threads /\ owed \subseteq Fns
        /\ running \in Items \cup {NoItem}
    BY DEF Init
  <2>6. interrupted \in BOOLEAN /\ in_process \in BOOLEAN /\ locked \in BOOLEAN
        /\ wakeup_fn \in BOOLEAN /\ woken \in BOOLEAN /\ terminate \in BOOLEAN
    BY DEF Init
  <2>7. QED
    BY <2>1, <2>2, <2>3, <2>4, <2>5, <2>6 DEF TypeOK
<1>2. Requesters = {} /\ Holders = {}
  BY DEF Init, Requesters, RequestPC, Holders
<1>3. RequestsCounted
  BY <1>2, FS_EmptySet DEF Init, RequestsCounted
<1>4. QED
  BY <1>1, <1>2, <1>3 DEF Init, IInv, LockedAgrees, InProcessAgrees, HolderTraps

(* With the option caches: in a behaviour one of the two is used.          *)
LEMMA EachInit == AllInit => Init
BY DEF AllInit

LEMMA EachStep == [AllNext]_allvars => [Next]_vars
BY DEF AllNext, InDispatch, InConfig, allvars

(* The inductive invariant holds in every state of every queue: lock       *)
(* requests are counted exactly, and who holds the lock traps the target.  *)
THEOREM Invariance == AllSpec => []IInv
<1>1. ASSUME IInv, [Next]_vars PROVE IInv'
  <2>1. TypeOK' /\ RequestsCounted'
    BY <1>1, TypeStep, CountStep DEF IInv
  <2>2. LockInv'
    BY <1>1, LockStep DEF IInv, LockInv
  <2>3. QED
    BY <2>1, <2>2 DEF IInv, LockInv
<1>2. QED
  BY InitInv, EachInit, EachStep, <1>1, PTL DEF AllSpec

(* Every variable keeps its type.                                          *)
THEOREM TypeCorrect == AllSpec => []TypeOK
<1>1. IInv => TypeOK
  BY DEF IInv
<1>2. QED
  BY <1>1, Invariance, PTL

(* A client holding the lock is alone with the target's state.             *)
THEOREM MutualExclusion == AllSpec => []Exclusive
<1>1. IInv => Exclusive
  <2> SUFFICES ASSUME IInv PROVE Exclusive
    OBVIOUS
  <2>1. TargetActive => Holders = {}
    BY DEF IInv, TargetActive, HolderTraps, InProcessAgrees, LockedAgrees
  <2>2. \A c, d \in Holders : c = d
    BY DEF IInv, LockedAgrees
  <2>3. QED
    BY <2>1, <2>2 DEF Exclusive
<1>2. QED
  BY <1>1, Invariance, PTL

(* The assertions on queue->locked in mp_dispatch_lock(), _unlock() and    *)
(* _queue_process() never fail.                                            *)
THEOREM LockAssertions == AllSpec => []LockedAgrees
<1>1. IInv => LockedAgrees
  BY DEF IInv
<1>2. QED
  BY <1>1, Invariance, PTL

-----------------------------------------------------------------------------
(* Items on callers' stacks, and the end of the target.                    *)

(* An item on a caller's stack: in the queue, or run by the target.        *)
Stacked(i, c) == IsSync(queue[i]) /\ queue[i].key = c
RunsFor(c) == running # NoItem /\ IsSync(running) /\ running.key = c
InCall(c) == InRun(c) /\ ~completed[c]

(* NoDanglingItem, said without counting.                                  *)
Once ==
  \A c \in Clients :
    /\ \A i, j \in 1 .. Len(queue) : Stacked(i, c) /\ Stacked(j, c) => i = j
    /\ RunsFor(c) => \A i \in 1 .. Len(queue) : ~Stacked(i, c)
    /\ InCall(c) <=> RunsFor(c) \/ \E i \in 1 .. Len(queue) : Stacked(i, c)

(* The thread that ends the target is the last one left, its item is the   *)
(* last one of the queue, and nothing comes after it.                      *)
ExitPC == {"exit_wakeup", "exit_wait", "join", "destroyed"}
Ending(item) == item.kind = "exit" /\ pc[item.key] \in {"exit_wakeup", "exit_wait"}
ExitIsLast ==
  /\ \A c \in Clients : pc[c] \in ExitPC => \A d \in Clients \ {c} : pc[d] = "gone"
  /\ \A i \in 1 .. Len(queue) : queue[i].kind = "exit" => i = Len(queue) /\ Ending(queue[i])
  /\ running # NoItem /\ running.kind = "exit" => queue = <<>> /\ Ending(running)
  /\ terminate => queue = <<>> /\ running = NoItem /\ \E c \in Clients : pc[c] \in ExitPC
  /\ tpc = "exited" => terminate
  /\ \A c \in Clients : pc[c] = "destroyed" => tpc = "exited"
-----------------------------------------------------------------------------
(* How the queue changes *)

(* An item is appended, or merged with an equal notification.              *)
LEMMA Appended ==
  ASSUME TypeOK, NEW item \in Items, AppendItem(item)
  PROVE  \/ queue' = queue /\ item.kind = "notify"
         \/ /\ Len(queue') = Len(queue) + 1 /\ queue'[Len(queue) + 1] = item
            /\ \A i \in 1 .. Len(queue) : queue'[i] = queue[i]
<1>1. queue \in Seq(Items) BY DEF TypeOK
<1>2. CASE Mergeable(item)
  <2>1. queue' = queue BY <1>2, Zenon DEF AppendItem
  <2>2. item.kind = "notify" BY <1>2 DEF Mergeable
  <2> QED BY <2>1, <2>2
<1>3. CASE ~Mergeable(item)
  <2>1. queue' = Append(queue, item) BY <1>3, Zenon DEF AppendItem, Link
  <2> QED BY <1>1, <2>1, AppendProperties
<1> QED BY <1>2, <1>3

(* The first item is taken.                                               *)
LEMMA Taken ==
  ASSUME TypeOK, queue # <<>>, queue' = Tail(queue)
  PROVE  /\ Len(queue) \in Nat \ {0} /\ Len(queue') = Len(queue) - 1 /\ Head(queue) = queue[1]
         /\ \A i \in 1 .. Len(queue') : queue'[i] = queue[i + 1]
<1>1. queue \in Seq(Items) BY DEF TypeOK
<1>2. Len(queue) \in Nat \ {0} BY <1>1, EmptySeq, LenProperties
<1> QED BY <1>1, <1>2, HeadTailProperties

(* The items of callback f are dropped, the others keep their order.       *)
LEMMA Dropped ==
  ASSUME TypeOK, NEW f \in Fns, NEW p \in Enumerations(Kept(f)), queue' = Pick(queue, p)
  PROVE  /\ Len(queue') \in Nat
         /\ \A i \in 1 .. Len(queue') : p[i] \in 1 .. Len(queue) /\ queue'[i] = queue[p[i]]
         /\ \A i, j \in 1 .. Len(queue') : p[i] = p[j] => i = j
         /\ \A k \in 1 .. Len(queue) : queue[k].key # f => \E i \in 1 .. Len(queue') : p[i] = k
<1>1. queue \in Seq(Items) /\ DOMAIN queue = 1 .. Len(queue) BY LenProperties DEF TypeOK
<1>2. Cardinality(Kept(f)) \in Nat
  <2>1. IsFiniteSet(1 .. Len(queue)) BY <1>1, FS_Interval, LenProperties
  <2>2. Kept(f) \subseteq 1 .. Len(queue) BY <1>1 DEF Kept
  <2> QED BY <2>1, <2>2, FS_Subset, FS_CardinalityType
<1> DEFINE n == Cardinality(Kept(f))
<1>3. p \in [1 .. n -> Kept(f)] /\ Increasing(p) /\ \A k \in Kept(f) : \E i \in DOMAIN p : p[i] = k
  BY DEF Enumerations
<1> HIDE DEF n
<1>4. n \in Nat BY <1>2 DEF n
<1>5. queue' = [i \in 1 .. n |-> queue[p[i]]] BY <1>3 DEF Pick
<1>6. queue' \in Seq(Items) /\ Len(queue') = n
  <2>1. \A i \in 1 .. n : queue[p[i]] \in Items BY <1>1, <1>3, ElementOfSeq DEF Kept
  <2> QED BY <1>4, <1>5, <2>1
<1>7. \A i \in 1 .. n : p[i] \in 1 .. Len(queue) /\ queue'[i] = queue[p[i]]
  BY <1>1, <1>3, <1>5 DEF Kept
<1>8. \A i, j \in 1 .. n : p[i] = p[j] => i = j
  <2>1. \A i, j \in 1 .. n : p[i] \in Nat /\ p[j] \in Nat /\ (i < j => p[i] < p[j])
    BY <1>1, <1>3, <1>7 DEF Increasing
  <2>2. \A i, j \in 1 .. n : i < j \/ j < i \/ i = j BY <1>4
  <2> QED BY <2>1, <2>2
<1>9. \A k \in 1 .. Len(queue) : queue[k].key # f => \E i \in 1 .. n : p[i] = k
  BY <1>1, <1>3 DEF Kept
<1> QED BY <1>4, <1>6, <1>7, <1>8, <1>9

-----------------------------------------------------------------------------
(* Every step leaves at most one item on the stack of a caller: the one of *)
(* its unfinished call.                                                    *)
LEMMA OnceStep ==
  ASSUME TypeOK, LockedAgrees, Once, [Next]_vars PROVE Once'
<1> USE DEF vars, dvars, qvars, lvars, tvars, cvars
<1>1. ASSUME UNCHANGED <<queue, running>>, \A c \in Clients : InCall(c)' <=> InCall(c)
      PROVE  Once'
  BY <1>1 DEF Once, Stacked, RunsFor
<1>2. ASSUME UNCHANGED <<queue, running, completed, pc>> PROVE Once'
  BY <1>1, <1>2 DEF InCall, InRun
<1>3. ASSUME UNCHANGED <<queue, running, completed>>, NEW c \in Clients, NEW l, Goto(c, l),
             l \in {"run_wakeup", "run_wait", "exit_wakeup", "exit_wait"} <=> InRun(c)
      PROVE  Once'
  <2>1. \A d \in Clients : InRun(d)' <=> InRun(d) BY <1>3 DEF InRun, Goto, TypeOK
  <2> QED BY <1>1, <1>3, <2>1 DEF InCall
<1>4. ASSUME NEW c \in Clients, ClientStep(c) PROVE Once'
  <2>1. CASE WakeupFn(c) BY <2>1, <1>3 DEF WakeupFn, InRun
  <2>2. CASE RunWait(c)
    <3>1. CASE Completed(c)
      <4>1. \A d \in Clients : InCall(d)' <=> InCall(d)
        BY <2>2, <3>1 DEF RunWait, Completed, InCall, InRun, Goto, TypeOK
      <4> QED BY <2>2, <4>1, <1>1 DEF RunWait
    <3>2. CASE ~Completed(c) BY <2>2, <3>2, <1>2 DEF RunWait
    <3> QED BY <3>1, <3>2
  <2>3. CASE Destroy(c) BY <2>3, <1>3 DEF Destroy, InRun
  <2>4. CASE LockRetry(c) BY <2>4, <1>2, <1>3 DEF LockRetry, TryGrant, InRun
  <2>5. CASE LockWait1(c) BY <2>5, <1>2, <1>3 DEF LockWait1, TryGrant, InRun
  <2>6. CASE LockWait2(c) BY <2>6, <1>2, <1>3 DEF LockWait2, TryGrant, InRun
  <2>7. CASE Unlock(c) BY <2>7, <1>3 DEF Unlock, InRun
  <2> QED BY <1>4, <2>1, <2>2, <2>3, <2>4, <2>5, <2>6, <2>7 DEF ClientStep
<1>5. ASSUME NEW c \in Clients, NEW item \in Items, item.kind \in {"async", "notify"}, AppendItem(item),
             UNCHANGED <<running, completed>>, NEW l, Goto(c, l), pc[c] = "idle", l \in {"wakeup", "idle"}
      PROVE  Once'
  <2>1. \A d \in Clients : InCall(d)' <=> InCall(d) BY <1>5 DEF InCall, InRun, Goto, TypeOK
  <2>2. CASE queue' = queue BY <1>1, <1>5, <2>1, <2>2
  <2>3. CASE /\ Len(queue') = Len(queue) + 1 /\ queue'[Len(queue) + 1] = item
             /\ \A i \in 1 .. Len(queue) : queue'[i] = queue[i]
    <3>1. PICK n \in Nat : n = Len(queue) BY LenProperties DEF TypeOK
    <3>2. Len(queue') = n + 1 /\ queue'[n + 1] = item /\ \A i \in 1 .. n : queue'[i] = queue[i]
      BY <2>3, <3>1
    <3>3. \A d \in Clients : ~Stacked(n + 1, d)' BY <1>5, <3>2 DEF Stacked, IsSync
    <3>4. \A d \in Clients, i \in 1 .. n : Stacked(i, d)' <=> Stacked(i, d)
      BY <3>2 DEF Stacked
    <3>5. (\A i \in 1 .. n + 1 : i \in 1 .. n \/ i = n + 1) /\ \A i \in 1 .. n : i \in 1 .. n + 1
      OBVIOUS
    <3>6. \A d \in Clients : RunsFor(d)' <=> RunsFor(d) BY <1>5 DEF RunsFor
    <3> QED BY <2>1, <3>1, <3>2, <3>3, <3>4, <3>5, <3>6 DEF Once
  <2> QED BY <1>5, <2>2, <2>3, Appended
<1>6. ASSUME NEW c \in Clients, NEW kind \in {"sync", "exit"}, NEW l1, NEW l2, Submit(c, kind, l1, l2),
             {l1, l2} \subseteq {"run_wakeup", "run_wait", "exit_wakeup", "exit_wait"}
      PROVE  Once'
  <2> DEFINE item == [kind |-> kind, key |-> c]
  <2>1. item \in Items /\ item.kind = kind /\ item.key = c /\ IsSync(item) BY DEF Items, IsSync
  <2>2. AppendItem(item) /\ pc[c] = "idle" /\ UNCHANGED running
    BY <1>6 DEF Submit, StartCall
  <2>3. InCall(c)' /\ ~InCall(c) /\ \A d \in Clients \ {c} : InCall(d)' <=> InCall(d)
    BY <1>6, <2>2 DEF Submit, InCall, InRun, Goto, TypeOK
  <2> HIDE DEF item
  <2>4. /\ Len(queue') = Len(queue) + 1 /\ queue'[Len(queue) + 1] = item
        /\ \A i \in 1 .. Len(queue) : queue'[i] = queue[i]
    BY <2>1, <2>2, Appended
  <2>5. PICK n \in Nat : n = Len(queue) BY LenProperties DEF TypeOK
  <2>6. Len(queue') = n + 1 /\ queue'[n + 1] = item /\ \A i \in 1 .. n : queue'[i] = queue[i]
    BY <2>4, <2>5
  <2>7. \A d \in Clients : Stacked(n + 1, d)' <=> d = c BY <2>1, <2>6 DEF Stacked
  <2>8. \A d \in Clients, i \in 1 .. n : Stacked(i, d)' <=> Stacked(i, d) BY <2>6 DEF Stacked
  <2>9. /\ \A i \in 1 .. n + 1 : i \in 1 .. n \/ i = n + 1
        /\ \A i \in 1 .. n : i \in 1 .. n + 1
        /\ n + 1 \in 1 .. n + 1
    OBVIOUS
  <2>10. \A d \in Clients : RunsFor(d)' <=> RunsFor(d) BY <2>2 DEF RunsFor
  <2>11. ~RunsFor(c) /\ \A i \in 1 .. n : ~Stacked(i, c) BY <2>3, <2>5 DEF Once
  <2> QED BY <2>3, <2>5, <2>6, <2>7, <2>8, <2>9, <2>10, <2>11 DEF Once
<1>7. ASSUME NEW c \in Clients, ClientCall(c) PROVE Once'
  <2>1. ASSUME NEW f \in Fns, Enqueue(c, f) PROVE Once'
    <3>1. [kind |-> "async", key |-> f] \in Items BY ItemTypes
    <3> QED BY <2>1, <3>1, <1>5 DEF Enqueue, StartCall
  <2>2. ASSUME NEW f \in Fns, EnqueueNotify(c, f) PROVE Once'
    <3>1. [kind |-> "notify", key |-> f] \in Items BY ItemTypes
    <3> QED BY <2>2, <3>1, <1>5 DEF EnqueueNotify, StartCall
  <2>3. ASSUME NEW f \in Fns, CancelFn(c, f) PROVE Once'
    <3>1. PICK p \in Enumerations(Kept(f)) : queue' = Pick(queue, p) BY <2>3 DEF CancelFn
    <3>2. /\ \A i \in 1 .. Len(queue') : p[i] \in 1 .. Len(queue) /\ queue'[i] = queue[p[i]]
          /\ \A i, j \in 1 .. Len(queue') : p[i] = p[j] => i = j
          /\ \A k \in 1 .. Len(queue) : queue[k].key # f => \E i \in 1 .. Len(queue') : p[i] = k
      BY <3>1, Dropped
    <3>3. \A d \in Clients : d # f BY DispatchAssumption
    <3>4. \A d \in Clients, i \in 1 .. Len(queue') : Stacked(i, d)' <=> Stacked(p[i], d)
      BY <3>2 DEF Stacked
    <3>5. \A d \in Clients, k \in 1 .. Len(queue) :
            Stacked(k, d) => \E i \in 1 .. Len(queue') : p[i] = k
      BY <3>2, <3>3 DEF Stacked
    <3>6. \A d \in Clients : (RunsFor(d)' <=> RunsFor(d)) /\ (InCall(d)' <=> InCall(d))
      BY <2>3 DEF CancelFn, RunsFor, InCall, InRun
    <3> QED BY <3>2, <3>4, <3>5, <3>6, SMTT(60) DEF Once
  <2>4. CASE Interrupt(c) BY <2>4, <1>2 DEF Interrupt
  <2>5. ASSUME NEW until \in 0..MaxWait, AdjustTimeout(c, until) PROVE Once'
    BY <2>5, <1>2 DEF AdjustTimeout
  <2>6. CASE Run(c) BY <2>6, <1>6 DEF Run
  <2>7. CASE RunExit(c) BY <2>7, <1>6 DEF RunExit
  <2>8. CASE Lock(c) BY <2>8, <1>3 DEF Lock, AddRequest, TryGrant, StartCall, InRun
  <2>9. CASE Leave(c) BY <2>9, <1>3 DEF Leave, InRun
  <2> QED BY <1>7, <2>1, <2>2, <2>3, <2>4, <2>5, <2>6, <2>7, <2>8, <2>9 DEF ClientCall
<1>8. CASE LoopTake
  <2>1. running = NoItem /\ queue # <<>> /\ queue' = Tail(queue) /\ running' = Head(queue)
    BY <1>8 DEF LoopTake, LockedAgrees
  <2>2. /\ Len(queue) \in Nat \ {0} /\ Len(queue') = Len(queue) - 1 /\ running' = queue[1]
        /\ \A i \in 1 .. Len(queue') : queue'[i] = queue[i + 1]
    BY <2>1, Taken
  <2>3. queue[1] \in Items /\ queue[1] # NoItem
    <3>1. queue[1] \in Items BY <2>2, ElementOfSeq, SMTT(60) DEF TypeOK
    <3> QED BY <3>1, DispatchAssumption
  <2>4. \A c \in Clients : (RunsFor(c)' <=> Stacked(1, c)) /\ ~RunsFor(c)
    BY <2>1, <2>2, <2>3 DEF RunsFor, Stacked
  <2>5. \A c \in Clients, i \in 1 .. Len(queue') : Stacked(i, c)' <=> Stacked(i + 1, c)
    BY <2>2 DEF Stacked
  <2>6. /\ \A i \in 1 .. Len(queue') : i + 1 \in 1 .. Len(queue) /\ i + 1 # 1
        /\ \A i, j \in 1 .. Len(queue') : i + 1 = j + 1 => i = j
        /\ \A k \in 1 .. Len(queue) : k = 1 \/ \E i \in 1 .. Len(queue') : k = i + 1
        /\ 1 \in 1 .. Len(queue)
    <3>1. \A k \in 1 .. Len(queue) : k # 1 => k - 1 \in 1 .. Len(queue') /\ k = k - 1 + 1 BY <2>2
    <3> QED BY <2>2, <3>1
  <2>7. \A c \in Clients : InCall(c)' <=> InCall(c) BY <1>8 DEF LoopTake, InCall, InRun
  <2> QED BY <2>4, <2>5, <2>6, <2>7, SMTT(60) DEF Once
<1>9. CASE FinishItem
  <2>1. running # NoItem /\ running' = NoItem /\ queue' = queue /\ pc' = pc
    BY <1>9 DEF FinishItem, LockedAgrees
  <2>2. \A c \in Clients : completed'[c] <=> completed[c] \/ RunsFor(c)
    BY <1>9, <2>1 DEF FinishItem, RunsFor
  <2>3. \A c \in Clients : ~RunsFor(c)' BY <2>1 DEF RunsFor
  <2>4. \A c \in Clients : InCall(c)' <=> InCall(c) /\ ~RunsFor(c) BY <2>1, <2>2 DEF InCall, InRun
  <2>5. \A c \in Clients, i \in 1 .. Len(queue) : Stacked(i, c)' <=> Stacked(i, c) BY <2>1 DEF Stacked
  <2> QED BY <2>1, <2>3, <2>4, <2>5 DEF Once
<1>10. CASE TargetStep
  <2>1. ASSUME NEW timeout \in 0..MaxWait, BeginProcess(timeout) PROVE Once'
    BY <2>1, <1>2 DEF BeginProcess
  <2>2. CASE LoopBlocked \/ LoopSleep \/ LoopExit \/ TargetWakes \/ TargetExits \/ ExternalWait \/ ExternalWakes
    BY <2>2, <1>2 DEF LoopBlocked, LoopSleep, LoopExit, TargetWakes, TargetExits, ExternalWait,
                      ExternalWakes, ExternalReturn
  <2> QED BY <1>8, <1>9, <1>10, <2>1, <2>2 DEF TargetStep
<1>11. CASE TimedOut \/ ExternalReturn BY <1>11, <1>2 DEF TimedOut, ExternalReturn
<1>12. ASSUME NEW t \in Threads, SpuriousWakeup(t) PROVE Once'
  BY <1>12, <1>2 DEF SpuriousWakeup
<1>13. CASE UNCHANGED vars BY <1>13, <1>2
<1> QED BY <1>4, <1>7, <1>10, <1>11, <1>12, <1>13 DEF Next

(* While some client can still make a call, nobody is ending the target.   *)
LEMMA NobodyEnds ==
  ASSUME TypeOK, ExitIsLast, NEW c \in Clients, pc[c] \notin ExitPC \cup {"gone"}
  PROVE  /\ \A d \in Clients : pc[d] \notin ExitPC
         /\ \A i \in 1 .. Len(queue) : queue[i].kind # "exit"
         /\ running # NoItem => running.kind # "exit"
         /\ ~terminate /\ tpc # "exited"
<1>1. \A d \in Clients : pc[d] \notin ExitPC BY DEF ExitIsLast
<1>2. \A item \in Items : ~Ending(item) BY <1>1 DEF Ending, ExitPC, Items
<1>3. \A i \in 1 .. Len(queue) : queue[i] \in Items BY ElementOfSeq DEF TypeOK
<1>4. running # NoItem => running \in Items BY DEF TypeOK
<1> QED BY <1>1, <1>2, <1>3, <1>4 DEF ExitIsLast

(* Every step leaves the item that ends the target the last one.           *)
LEMMA ExitStep ==
  ASSUME TypeOK, LockedAgrees, Once, ExitIsLast, [Next]_vars PROVE ExitIsLast'
<1> USE DEF vars, dvars, qvars, lvars, tvars, cvars
<1>1. ASSUME UNCHANGED <<queue, running, terminate, pc>>, tpc' = "exited" => terminate,
             tpc = "exited" => tpc' = "exited"
      PROVE  ExitIsLast'
  BY <1>1 DEF ExitIsLast, Ending
<1>2. ASSUME NEW c \in Clients, pc[c] \notin ExitPC \cup {"gone"}, UNCHANGED <<running, terminate, tpc>>,
             pc' = pc \/ \E l : Goto(c, l) /\ l \notin ExitPC,
             \A i \in 1 .. Len(queue') : queue'[i].kind # "exit"
      PROVE  ExitIsLast'
  <2>1. /\ \A d \in Clients : pc[d] \notin ExitPC
        /\ running # NoItem => running.kind # "exit"
        /\ ~terminate /\ tpc # "exited"
    BY <1>2, NobodyEnds
  <2>2. \A d \in Clients : pc'[d] \notin ExitPC BY <1>2, <2>1 DEF Goto, TypeOK
  <2> QED BY <1>2, <2>1, <2>2 DEF ExitIsLast, ExitPC
<1>3. ASSUME NEW c \in Clients, pc[c] \notin ExitPC \cup {"gone"}, UNCHANGED <<queue, running, terminate, tpc>>,
             pc' = pc \/ \E l : Goto(c, l) /\ l \notin ExitPC
      PROVE  ExitIsLast'
  BY <1>2, <1>3, NobodyEnds
<1>4. ASSUME NEW c \in Clients, pc[c] \in ExitPC, NEW l \in ExitPC, Goto(c, l),
             UNCHANGED <<queue, running, terminate, tpc>>,
             l = "join" => ~RunsFor(c) /\ \A i \in 1 .. Len(queue) : ~Stacked(i, c),
             pc[c] \in {"join", "destroyed"} => l \in {"join", "destroyed"},
             l = "destroyed" => tpc = "exited" /\ pc[c] = "join"
      PROVE  ExitIsLast'
  <2>1. pc' = [pc EXCEPT ![c] = l] /\ pc \in [Clients -> ClientPC] BY <1>4 DEF Goto, TypeOK
  <2>2. \A d \in Clients : pc'[d] \in ExitPC => \A e \in Clients \ {d} : pc'[e] = "gone"
    <3>1. \A e \in Clients \ {c} : pc[e] = "gone" /\ pc'[e] = "gone" BY <1>4, <2>1 DEF ExitIsLast
    <3>2. "gone" \notin ExitPC BY DEF ExitPC
    <3> QED BY <3>1, <3>2
  <2>3. ASSUME NEW item \in Items, item.kind = "exit", Ending(item), item.key = c => l # "join"
        PROVE  Ending(item)'
    <3>1. item.key = c => pc[c] \notin {"join", "destroyed"} /\ l \notin {"join", "destroyed"}
      BY <1>4, <2>3 DEF Ending
    <3>2. item.key = c => l \in {"exit_wakeup", "exit_wait"} BY <1>4, <3>1 DEF ExitPC
    <3>3. item.key \in Clients BY <2>3 DEF Items
    <3> QED BY <2>1, <2>3, <3>2, <3>3 DEF Ending
  <2>4. (\A i \in 1 .. Len(queue) : queue[i].kind = "exit" => i = Len(queue) /\ Ending(queue[i]))'
    <3> SUFFICES ASSUME NEW i \in 1 .. Len(queue), queue[i].kind = "exit"
                 PROVE  i = Len(queue) /\ Ending(queue[i])'
      BY <1>4
    <3>1. PICK item \in Items : item = queue[i] BY ElementOfSeq DEF TypeOK
    <3>2. i = Len(queue) /\ Ending(item) BY <3>1 DEF ExitIsLast
    <3>3. item.key = c => l # "join" BY <1>4, <3>1 DEF Stacked, IsSync
    <3>4. Ending(item)' BY <2>3, <3>1, <3>2, <3>3
    <3> QED BY <1>4, <3>1, <3>2, <3>4 DEF Ending
  <2>5. (running # NoItem /\ running.kind = "exit" => queue = <<>> /\ Ending(running))'
    <3> SUFFICES ASSUME running # NoItem, running.kind = "exit" PROVE queue = <<>> /\ Ending(running)'
      BY <1>4
    <3>1. PICK item \in Items : item = running BY DEF TypeOK
    <3>2. queue = <<>> /\ Ending(item) BY <3>1 DEF ExitIsLast
    <3>3. item.key = c => l # "join" BY <1>4, <3>1 DEF RunsFor, IsSync
    <3>4. Ending(item)' BY <2>3, <3>1, <3>2, <3>3
    <3> QED BY <1>4, <3>1, <3>2, <3>4 DEF Ending
  <2>6. \E d \in Clients : pc'[d] \in ExitPC BY <1>4, <2>1
  <2>7. \A d \in Clients : pc'[d] = "destroyed" => tpc' = "exited"
    BY <1>4, <2>1 DEF ExitIsLast
  <2> QED BY <1>4, <2>2, <2>4, <2>5, <2>6, <2>7 DEF ExitIsLast
<1>5. ASSUME NEW c \in Clients, ClientStep(c) PROVE ExitIsLast'
  <2>1. CASE WakeupFn(c)
    <3>1. CASE pc[c] = "exit_wakeup"
      BY <2>1, <3>1, <1>4 DEF WakeupFn, ExitPC
    <3>2. CASE pc[c] # "exit_wakeup"
      BY <2>1, <3>2, <1>3 DEF WakeupFn, ExitPC
    <3> QED BY <3>1, <3>2
  <2>2. CASE RunWait(c)
    <3>1. CASE ~Completed(c) BY <2>2, <3>1, <1>1 DEF RunWait, ExitIsLast
    <3>2. CASE Completed(c) /\ pc[c] = "exit_wait"
      <4>1. ~InCall(c) BY <3>2 DEF Completed, InCall
      <4>2. ~RunsFor(c) /\ \A i \in 1 .. Len(queue) : ~Stacked(i, c) BY <4>1 DEF Once
      <4> QED BY <2>2, <3>2, <4>2, <1>4 DEF RunWait, ExitPC
    <3>3. CASE Completed(c) /\ pc[c] = "run_wait"
      BY <2>2, <3>3, <1>3 DEF RunWait, ExitPC
    <3> QED BY <2>2, <3>1, <3>2, <3>3 DEF RunWait
  <2>3. CASE Destroy(c) BY <2>3, <1>4 DEF Destroy, ExitPC
  <2>4. CASE LockRetry(c)
    BY <2>4, <1>3 DEF LockRetry, TryGrant, ExitPC
  <2>5. CASE LockWait1(c) BY <2>5, <1>3 DEF LockWait1, TryGrant, ExitPC
  <2>6. CASE LockWait2(c) BY <2>6, <1>3 DEF LockWait2, TryGrant, ExitPC
  <2>7. CASE Unlock(c) BY <2>7, <1>3 DEF Unlock, ExitPC
  <2> QED BY <1>5, <2>1, <2>2, <2>3, <2>4, <2>5, <2>6, <2>7 DEF ClientStep
<1>6. ASSUME NEW c \in Clients, NEW item \in Items, item.kind # "exit", AppendItem(item),
             UNCHANGED <<running, terminate, tpc>>, NEW l, Goto(c, l), l \notin ExitPC, pc[c] = "idle"
      PROVE  ExitIsLast'
  <2>1. pc[c] \notin ExitPC \cup {"gone"} BY <1>6 DEF ExitPC
  <2>2. PICK n \in Nat : n = Len(queue) BY LenProperties DEF TypeOK
  <2>3. \A i \in 1 .. n : queue[i].kind # "exit" BY <2>1, <2>2, NobodyEnds
  <2>4. \A i \in 1 .. n + 1 : i \in 1 .. n \/ i = n + 1 OBVIOUS
  <2>5. \A i \in 1 .. Len(queue') : queue'[i].kind # "exit"
    <3>1. CASE queue' = queue BY <2>2, <2>3, <3>1
    <3>2. CASE /\ Len(queue') = Len(queue) + 1 /\ queue'[Len(queue) + 1] = item
               /\ \A i \in 1 .. Len(queue) : queue'[i] = queue[i]
      BY <1>6, <2>2, <2>3, <2>4, <3>2
    <3> QED BY <1>6, <3>1, <3>2, Appended
  <2> QED BY <1>2, <1>6, <2>1, <2>5
<1>7. ASSUME NEW c \in Clients, RunExit(c) PROVE ExitIsLast'
  <2> DEFINE item == [kind |-> "exit", key |-> c]
  <2>1. item \in Items /\ item.kind = "exit" /\ item.key = c BY DEF Items
  <2>2. PICK l \in {"exit_wakeup", "exit_wait"} : Goto(c, l) BY <1>7 DEF RunExit, Submit
  <2>3. /\ AppendItem(item) /\ pc[c] = "idle" /\ UNCHANGED <<running, terminate, tpc>>
        /\ \A d \in Clients \ {c} : pc[d] = "gone"
    BY <1>7 DEF RunExit, Submit, StartCall
  <2>4. pc' = [pc EXCEPT ![c] = l] /\ pc \in [Clients -> ClientPC] BY <2>2 DEF Goto, TypeOK
  <2> HIDE DEF item
  <2>5. PICK n \in Nat : n = Len(queue) BY LenProperties DEF TypeOK
  <2>6. Len(queue') = n + 1 /\ queue'[n + 1] = item /\ \A i \in 1 .. n : queue'[i] = queue[i]
    BY <2>1, <2>3, <2>5, Appended
  <2>7. /\ \A i \in 1 .. n : queue[i].kind # "exit"
        /\ running # NoItem => running.kind # "exit"
        /\ ~terminate /\ tpc # "exited"
    BY <2>3, <2>5, NobodyEnds DEF ExitPC
  <2>8. pc'[c] \in {"exit_wakeup", "exit_wait"} /\ \A d \in Clients \ {c} : pc'[d] = "gone"
    BY <2>3, <2>4
  <2>9. (\A i \in 1 .. Len(queue) : queue[i].kind = "exit" => i = Len(queue) /\ Ending(queue[i]))'
    <3> SUFFICES ASSUME NEW i \in 1 .. n + 1, queue'[i].kind = "exit"
                 PROVE  i = n + 1 /\ Ending(queue[i])'
      BY <2>6
    <3>1. i = n + 1 BY <2>6, <2>7
    <3>2. queue'[i] = item BY <2>6, <3>1
    <3> QED BY <2>1, <2>8, <3>1, <3>2 DEF Ending
  <2>10. \A d, e \in Clients : pc'[d] \in ExitPC /\ e # d => pc'[e] = "gone"
    BY <2>8 DEF ExitPC
  <2>11. \A d \in Clients : pc'[d] # "destroyed" BY <2>8
  <2> QED BY <2>3, <2>7, <2>9, <2>10, <2>11 DEF ExitIsLast
<1>8. ASSUME NEW c \in Clients, ClientCall(c) PROVE ExitIsLast'
  <2>1. ASSUME NEW f \in Fns, Enqueue(c, f) PROVE ExitIsLast'
    <3> DEFINE item == [kind |-> "async", key |-> f]
    <3>1. item \in Items /\ item.kind # "exit" BY ItemTypes
    <3>2. AppendItem(item) /\ pc[c] = "idle" /\ UNCHANGED <<running, terminate, tpc>>
          /\ \E l : Goto(c, l) /\ l \notin ExitPC
      BY <2>1 DEF Enqueue, StartCall, ExitPC
    <3> HIDE DEF item
    <3> QED BY <3>1, <3>2, <1>6
  <2>2. ASSUME NEW f \in Fns, EnqueueNotify(c, f) PROVE ExitIsLast'
    <3> DEFINE item == [kind |-> "notify", key |-> f]
    <3>1. item \in Items /\ item.kind # "exit" BY ItemTypes
    <3>2. AppendItem(item) /\ pc[c] = "idle" /\ UNCHANGED <<running, terminate, tpc>>
          /\ \E l : Goto(c, l) /\ l \notin ExitPC
      BY <2>2 DEF EnqueueNotify, StartCall, ExitPC
    <3> HIDE DEF item
    <3> QED BY <3>1, <3>2, <1>6
  <2>3. ASSUME NEW f \in Fns, CancelFn(c, f) PROVE ExitIsLast'
    <3>1. PICK p \in Enumerations(Kept(f)) : queue' = Pick(queue, p) BY <2>3 DEF CancelFn
    <3>2. \A i \in 1 .. Len(queue') : p[i] \in 1 .. Len(queue) /\ queue'[i] = queue[p[i]]
      BY <3>1, Dropped
    <3>3. pc[c] \notin ExitPC \cup {"gone"} /\ UNCHANGED <<running, terminate, tpc, pc>>
      BY <2>3 DEF CancelFn, StartCall, ExitPC
    <3>4. \A i \in 1 .. Len(queue) : queue[i].kind # "exit" BY <3>3, NobodyEnds
    <3> QED BY <1>2, <3>2, <3>3, <3>4
  <2>4. CASE Interrupt(c) BY <2>4, <1>1 DEF Interrupt, ExitIsLast
  <2>5. ASSUME NEW until \in 0..MaxWait, AdjustTimeout(c, until) PROVE ExitIsLast'
    BY <2>5, <1>1 DEF AdjustTimeout, ExitIsLast
  <2>6. CASE Run(c)
    <3> DEFINE item == [kind |-> "sync", key |-> c]
    <3>1. item \in Items /\ item.kind # "exit" BY ItemTypes
    <3>2. AppendItem(item) /\ pc[c] = "idle" /\ UNCHANGED <<running, terminate, tpc>>
          /\ \E l : Goto(c, l) /\ l \notin ExitPC
      BY <2>6 DEF Run, Submit, StartCall, ExitPC
    <3> HIDE DEF item
    <3> QED BY <3>1, <3>2, <1>6
  <2>7. CASE RunExit(c) BY <2>7, <1>7
  <2>8. CASE Lock(c) BY <2>8, <1>3 DEF Lock, AddRequest, TryGrant, StartCall, ExitPC
  <2>9. CASE Leave(c) BY <2>9, <1>3 DEF Leave, ExitPC
  <2> QED BY <1>8, <2>1, <2>2, <2>3, <2>4, <2>5, <2>6, <2>7, <2>8, <2>9 DEF ClientCall
<1>9. CASE LoopTake
  <2>1. queue # <<>> /\ queue' = Tail(queue) /\ running' = Head(queue) /\ tpc' = "running" /\ tpc = "loop"
        /\ UNCHANGED <<terminate, pc>>
    BY <1>9, SMTT(60) DEF LoopTake
  <2>2. PICK n \in Nat \ {0} : n = Len(queue) BY <2>1, Taken
  <2>3. Len(queue') = n - 1 /\ running' = queue[1] /\ \A i \in 1 .. n - 1 : queue'[i] = queue[i + 1]
    BY <2>1, <2>2, Taken
  <2>4. queue' \in Seq(Items) BY <2>1, HeadTailProperties DEF TypeOK
  <2>5. ~terminate BY <2>1 DEF ExitIsLast
  <2>6. (\A i \in 1 .. Len(queue) : queue[i].kind = "exit" => i = Len(queue) /\ Ending(queue[i]))'
    <3> SUFFICES ASSUME NEW i \in 1 .. n - 1, queue'[i].kind = "exit"
                 PROVE  i = n - 1 /\ Ending(queue[i])'
      BY <2>3
    <3>1. i + 1 \in 1 .. n /\ queue'[i] = queue[i + 1] BY <2>2, <2>3
    <3>2. i + 1 = n /\ Ending(queue[i + 1]) BY <2>2, <3>1 DEF ExitIsLast
    <3>3. i = n - 1 BY <2>2, <3>2
    <3>4. (queue[i].kind = "exit" /\ pc[queue[i].key] \in {"exit_wakeup", "exit_wait"})'
      BY <2>1, <3>1, <3>2 DEF Ending
    <3> QED BY <3>3, <3>4 DEF Ending
  <2>7. (running # NoItem /\ running.kind = "exit" => queue = <<>> /\ Ending(running))'
    <3> SUFFICES ASSUME queue[1].kind = "exit" PROVE queue' = <<>> /\ Ending(running)'
      BY <2>3
    <3>1. 1 = n /\ Ending(queue[1]) BY <2>2 DEF ExitIsLast
    <3>2. queue' = <<>> BY <2>3, <2>4, <3>1, EmptySeq
    <3> QED BY <2>1, <2>3, <3>1, <3>2 DEF Ending
  <2>8. \A c \in Clients : pc[c] # "destroyed" BY <2>1 DEF ExitIsLast
  <2> QED BY <2>1, <2>5, <2>6, <2>7, <2>8 DEF ExitIsLast
<1>10. CASE FinishItem
  <2>1. /\ running # NoItem /\ running' = NoItem /\ UNCHANGED <<queue, pc>>
        /\ tpc = "running" /\ tpc' = "loop" /\ (terminate' => terminate \/ running.kind = "exit")
    BY <1>10 DEF FinishItem, LockedAgrees
  <2>2. ~terminate BY <2>1 DEF ExitIsLast
  <2>3. terminate' => queue = <<>> /\ \E c \in Clients : pc[c] \in ExitPC
    <3> SUFFICES ASSUME running.kind = "exit" PROVE queue = <<>> /\ \E c \in Clients : pc[c] \in ExitPC
      BY <2>1, <2>2
    <3>1. queue = <<>> /\ Ending(running) BY <2>1 DEF ExitIsLast
    <3>2. running.key \in Clients
      <4>1. running \in Items BY <2>1 DEF TypeOK
      <4> QED BY <4>1 DEF Items
    <3> QED BY <3>1, <3>2 DEF Ending, ExitPC
  <2>4. \A c \in Clients : pc[c] # "destroyed" BY <2>1 DEF ExitIsLast
  <2> QED BY <2>1, <2>3, <2>4 DEF ExitIsLast, Ending
<1>11. CASE TargetStep
  <2>1. ASSUME NEW timeout \in 0..MaxWait, BeginProcess(timeout) PROVE ExitIsLast'
    BY <2>1, <1>1 DEF BeginProcess
  <2>2. CASE LoopBlocked \/ LoopSleep \/ LoopExit \/ TargetWakes \/ TargetExits \/ ExternalWait \/ ExternalWakes
    BY <2>2, <1>1 DEF LoopBlocked, LoopSleep, LoopExit, TargetWakes, TargetExits, ExternalWait,
                      ExternalWakes, ExternalReturn
  <2> QED BY <1>9, <1>10, <1>11, <2>1, <2>2 DEF TargetStep
<1>12. CASE TimedOut \/ ExternalReturn BY <1>12, <1>1 DEF TimedOut, ExternalReturn
<1>13. ASSUME NEW t \in Threads, SpuriousWakeup(t) PROVE ExitIsLast'
  BY <1>13, <1>1 DEF SpuriousWakeup, ExitIsLast
<1>14. CASE UNCHANGED vars BY <1>14, <1>1 DEF ExitIsLast
<1> QED BY <1>5, <1>8, <1>11, <1>12, <1>13, <1>14 DEF Next

-----------------------------------------------------------------------------
(* Once says the same as NoDanglingItem.                                   *)
LEMMA OnceCounts ==
  ASSUME TypeOK, Once PROVE NoDanglingItem
<1> SUFFICES ASSUME NEW c \in Clients PROVE Places(c) = IF InRun(c) /\ ~completed[c] THEN 1 ELSE 0
  BY DEF NoDanglingItem
<1> DEFINE mine == {i \in DOMAIN queue : IsSync(queue[i]) /\ queue[i].key = c}
<1>1. Places(c) = Cardinality(mine) + (IF RunsFor(c) THEN 1 ELSE 0) BY DEF Places, RunsFor
<1>2. mine = {i \in 1 .. Len(queue) : Stacked(i, c)}
  <2>1. DOMAIN queue = 1 .. Len(queue) BY LenProperties DEF TypeOK
  <2> QED BY <2>1 DEF Stacked
<1> HIDE DEF mine
<1>3. CASE mine = {}
  <2>1. Cardinality(mine) = 0 BY <1>3, FS_EmptySet
  <2>2. InCall(c) <=> RunsFor(c) BY <1>2, <1>3 DEF Once
  <2> QED BY <1>1, <2>1, <2>2 DEF InCall
<1>4. CASE mine # {}
  <2>1. PICK i \in mine : TRUE BY <1>4
  <2>2. mine = {i} BY <1>2, <2>1 DEF Once
  <2>3. Cardinality(mine) = 1 BY <2>2, FS_Singleton
  <2>4. InCall(c) /\ ~RunsFor(c) BY <1>2, <2>1 DEF Once
  <2> QED BY <1>1, <2>3, <2>4 DEF InCall
<1> QED BY <1>3, <1>4

(* Once a client has destroyed the queue, nobody uses it any more.         *)
LEMMA ExitIsSafe ==
  ASSUME IInv, ExitIsLast PROVE DestroySafe
<1> SUFFICES ASSUME NEW c \in Clients, pc[c] = "destroyed"
             PROVE  queue = <<>> /\ ~in_process /\ lock_requests = 0 /\ ~locked
  BY DEF DestroySafe
<1>1. tpc = "exited" /\ queue = <<>> /\ running = NoItem BY DEF ExitIsLast
<1>2. \A d \in Clients : pc[d] \in {"destroyed", "gone"} BY DEF ExitIsLast, ExitPC
<1>3. Requesters = {} /\ Holders = {} BY <1>2 DEF Requesters, RequestPC, Holders
<1>4. lock_requests = 0 BY <1>3, FS_EmptySet DEF IInv, RequestsCounted
<1>5. ~in_process BY <1>1 DEF IInv, InProcessAgrees
<1>6. ~locked BY <1>1, <1>3 DEF IInv, LockedAgrees
<1> QED BY <1>1, <1>4, <1>5, <1>6

(* The stack item of mp_dispatch_run() is never reachable after the call   *)
(* has returned, and a queue destroyed in the way its comment recommends   *)
(* passes the assertions of queue_dtor().                                  *)
THEOREM NoDangling == AllSpec => []NothingDangles
<1>1. Init => Once /\ ExitIsLast
  <2> SUFFICES ASSUME Init PROVE Once /\ ExitIsLast OBVIOUS
  <2>1. queue = <<>> /\ running = NoItem /\ ~terminate /\ tpc = "outside"
        /\ \A c \in Clients : pc[c] = "idle"
    BY DEF Init
  <2>2. Len(queue) = 0 BY <2>1, EmptySeq
  <2>3. \A i \in 1 .. Len(queue) : FALSE BY <2>2
  <2>4. Once BY <2>1, <2>3 DEF Once, RunsFor, InCall, InRun
  <2>5. ExitIsLast BY <2>1, <2>3 DEF ExitIsLast, ExitPC
  <2> QED BY <2>4, <2>5
<1>2. IInv /\ Once /\ ExitIsLast /\ [Next]_vars => (Once /\ ExitIsLast)'
  BY OnceStep, ExitStep DEF IInv
<1>3. IInv /\ Once /\ ExitIsLast => NothingDangles
  BY OnceCounts, ExitIsSafe DEF IInv, NothingDangles
<1> QED BY <1>1, <1>2, <1>3, EachInit, EachStep, Invariance, PTL DEF AllSpec

-----------------------------------------------------------------------------
(* Refinement *)

ActiveParties == Holders \cup (IF TargetActive THEN {Target} ELSE {})

(* Steps the callers of the queue cannot see.                              *)
LEMMA Stutter ==
  ASSUME UNCHANGED <<queue, running>>, Holders' = Holders,
         TargetActive' <=> TargetActive
  PROVE  UNCHANGED Abstract!vars
  BY DEF Abstract!vars

(* Submitting an item, or merging it with one that is queued.              *)
LEMMA AppendRefines ==
  ASSUME NEW item \in Items, AppendItem(item), UNCHANGED <<running, tpc>>,
         Holders' = Holders
  PROVE  [Abstract!Next]_(Abstract!vars)
<1>1. CASE Mergeable(item)
  <2>1. UNCHANGED queue
    BY <1>1 DEF AppendItem, Link
  <2>2. QED
    BY <2>1, Stutter DEF TargetActive
<1>2. CASE ~Mergeable(item)
  <2>1. queue' = Append(queue, item)
    BY <1>2, Zenon DEF AppendItem, Link
  <2>2. Abstract!Submit(item)
    BY <2>1 DEF Abstract!Submit, TargetActive
  <2>3. QED
    BY <2>2 DEF Abstract!Next
<1>3. QED
  BY <1>1, <1>2

(* Taking the lock is Acquire of ExclusiveAccess, or waits unseen.         *)
LEMMA GrantRefines ==
  ASSUME IInv, NEW c \in Clients, pc[c] # "held", TryGrant(c), LockFree,
         UNCHANGED <<queue, running, tpc>>
  PROVE  [Abstract!Next]_(Abstract!vars)
<1>1. CASE Grantable
  <2>1. Holders = {} /\ Holders' = {c}
    BY <1>1, GotoHolders DEF TryGrant, Grantable, IInv, LockedAgrees
  <2>2. ~TargetActive /\ ~TargetActive'
    BY <1>1 DEF Grantable, IInv, LockedAgrees, InProcessAgrees, TargetActive
  <2>3. Abstract!Acquire(c)
    BY <2>1, <2>2 DEF Abstract!Acquire
  <2>4. QED
    BY <2>3 DEF Abstract!Next
<1>2. CASE ~Grantable
  <2>1. Holders' = Holders
    BY <1>2, GotoHolders DEF TryGrant, Grantable, IInv, Holders
  <2>2. QED
    BY <2>1, Stutter DEF TargetActive
<1>3. QED
  BY <1>1, <1>2

(* Every step of the queue is a step of ExclusiveAccess, or none.          *)
LEMMA RefinementStep ==
  ASSUME IInv, [Next]_vars
  PROVE  [Abstract!Next]_(Abstract!vars)
<1> USE DEF vars, dvars, qvars, lvars, tvars, cvars
<1> DEFINE Refined == [Abstract!Next]_(Abstract!vars)
<1>1. ASSUME UNCHANGED <<queue, running, pc>>, TargetActive' <=> TargetActive
      PROVE  Refined
  BY <1>1, Stutter DEF Holders
<1>2. ASSUME NEW c \in Clients, NEW l, Goto(c, l), l # "held", pc[c] # "held"
      PROVE  Holders' = Holders
  BY <1>2, GotoHolders DEF Holders, IInv
<1>3. ASSUME NEW c \in Clients, NEW l, Goto(c, l), l # "held", pc[c] # "held",
             UNCHANGED <<queue, running, tpc>>
      PROVE  Refined
  BY <1>2, <1>3, Stutter DEF TargetActive
<1> HIDE DEF Refined
<1>4. ASSUME NEW c \in Clients, ClientStep(c) PROVE Refined
  <2>1. CASE WakeupFn(c)
    BY <2>1, <1>3 DEF WakeupFn
  <2>2. CASE RunWait(c)
    <3>1. CASE Completed(c)
      BY <2>2, <3>1, <1>3 DEF RunWait
    <3>2. CASE ~Completed(c)
      BY <2>2, <3>2, <1>1 DEF RunWait, TargetActive
    <3>3. QED
      BY <3>1, <3>2
  <2>3. CASE Destroy(c)
    BY <2>3, <1>3 DEF Destroy
  <2>4. CASE LockRetry(c)
    BY <2>4, <1>3, GrantRefines DEF LockRetry, Refined
  <2>5. CASE LockWait1(c)
    BY <2>5, <1>3, GrantRefines DEF LockWait1, Refined
  <2>6. CASE LockWait2(c)
    BY <2>6, GrantRefines DEF LockWait2, Refined
  <2>7. CASE Unlock(c)
    <3>1. Holders = {c} /\ Holders' = {}
      BY <2>7, GotoHolders DEF Unlock, IInv, LockedAgrees, Holders
    <3>2. ~TargetActive /\ ~TargetActive'
      BY <2>7, <3>1
         DEF Unlock, IInv, HolderTraps, LockedAgrees, InProcessAgrees, TargetActive
    <3>3. Abstract!Release(c)
      BY <2>7, <3>1, <3>2 DEF Unlock, Abstract!Release
    <3>4. QED
      BY <3>3 DEF Abstract!Next, Refined
  <2>8. QED
    BY <1>4, <2>1, <2>2, <2>3, <2>4, <2>5, <2>6, <2>7 DEF ClientStep
<1>5. ASSUME NEW c \in Clients, ClientCall(c) PROVE Refined
  <2>1. ASSUME NEW f \in Fns, Enqueue(c, f) PROVE Refined
    <3>1. Holders' = Holders
      BY <2>1, <1>2 DEF Enqueue, StartCall
    <3>2. QED
      BY <2>1, <3>1, ItemTypes, AppendRefines DEF Enqueue, Refined
  <2>2. ASSUME NEW f \in Fns, EnqueueNotify(c, f) PROVE Refined
    <3>1. Holders' = Holders
      BY <2>2, <1>2 DEF EnqueueNotify, StartCall
    <3>2. QED
      BY <2>2, <3>1, ItemTypes, AppendRefines DEF EnqueueNotify, Refined
  <2>3. ASSUME NEW f \in Fns, CancelFn(c, f) PROVE Refined
    <3>1. PICK p \in Enumerations(Kept(f)) : queue' = Pick(queue, p)
      BY <2>3 DEF CancelFn
    <3>2. queue \in Seq(Items) /\ Kept(f) \subseteq 1..Len(queue)
      BY LenProperties DEF IInv, TypeOK, Kept
    <3>3. Cardinality(Kept(f)) \in 0..Len(queue)
      <4>1. Len(queue) \in Nat
        BY <3>2, LenProperties
      <4>2. IsFiniteSet(1..Len(queue)) /\ Cardinality(1..Len(queue)) = Len(queue)
        <5>1. /\ IsFiniteSet(1..Len(queue))
              /\ Cardinality(1..Len(queue)) =
                   IF 1 > Len(queue) THEN 0 ELSE Len(queue) - 1 + 1
          BY <4>1, FS_Interval, SMTT(60)
        <5>2. QED
          BY <4>1, <5>1
      <4>3. /\ IsFiniteSet(Kept(f))
            /\ Cardinality(Kept(f)) <= Cardinality(1..Len(queue))
        BY <3>2, <4>2, FS_Subset
      <4>4. QED
        BY <4>1, <4>2, <4>3, FS_CardinalityType
    <3>4. /\ p \in [1..Cardinality(Kept(f)) -> DOMAIN queue]
          /\ Abstract!Increasing(p)
          /\ queue' = Abstract!Pick(queue, p)
      BY <3>1 DEF Enumerations, Kept, Increasing, Abstract!Increasing, Pick,
                  Abstract!Pick
    <3>5. UNCHANGED <<running, ActiveParties>>
      BY <2>3 DEF CancelFn, ActiveParties, Holders, TargetActive
    <3>6. Abstract!Cancel(Cardinality(Kept(f)))
      BY <3>4, <3>5 DEF Abstract!Cancel, ActiveParties
    <3>7. QED
      BY <3>3, <3>6 DEF Abstract!Next, Refined
  <2>4. CASE Interrupt(c)
    BY <2>4, <1>1 DEF Interrupt, TargetActive
  <2>5. ASSUME NEW until \in 0..MaxWait, AdjustTimeout(c, until) PROVE Refined
    BY <2>5, <1>1 DEF AdjustTimeout, TargetActive
  <2>6. ASSUME NEW kind \in {"sync", "exit"}, NEW l1, NEW l2, l1 # "held",
               l2 # "held", Submit(c, kind, l1, l2)
        PROVE  Refined
    <3>1. Holders' = Holders
      BY <2>6, <1>2 DEF Submit, StartCall
    <3>2. QED
      BY <2>6, <3>1, ItemTypes, AppendRefines DEF Submit, Refined
  <2>7. CASE Lock(c)
    BY <2>7, <1>3, GrantRefines DEF Lock, AddRequest, StartCall, Refined
  <2>8. CASE Leave(c)
    BY <2>8, <1>3 DEF Leave
  <2>9. QED
    BY <1>5, <2>1, <2>2, <2>3, <2>4, <2>5, <2>6, <2>7, <2>8
       DEF ClientCall, Run, RunExit
<1>6. CASE TargetStep
  <2>1. ASSUME NEW timeout \in 0..MaxWait, BeginProcess(timeout) PROVE Refined
    <3>1. Holders = {} /\ Holders' = {}
      BY <2>1 DEF BeginProcess, Broadcast, IInv, HolderTraps, InProcessAgrees, Holders
    <3>2. running = NoItem
      BY <2>1 DEF BeginProcess, Broadcast, IInv, LockedAgrees
    <3>3. Abstract!Trap
      BY <2>1, <3>1, <3>2 DEF BeginProcess, Broadcast, Abstract!Trap, TargetActive
    <3>4. QED
      BY <3>3 DEF Abstract!Next, Refined
  <2>2. CASE LoopBlocked
    BY <2>2, <1>1 DEF LoopBlocked, TargetActive, Refined
  <2>3. CASE LoopTake
    <3>1. Holders = {} /\ Holders' = {}
      BY <2>3, NoRequests DEF LoopTake, Holders, IInv
    <3>2. Abstract!StartCallback
      BY <2>3, <3>1 DEF LoopTake, Abstract!StartCallback, TargetActive
    <3>3. QED
      BY <3>2 DEF Abstract!Next, Refined
  <2>4. CASE FinishItem
    <3>1. Holders = {} /\ Holders' = {} /\ running # NoItem
      BY <2>4 DEF FinishItem, DropLocked, IInv, HolderTraps, LockedAgrees, Holders
    <3>2. Abstract!EndCallback
      BY <2>4, <3>1 DEF FinishItem, DropLocked, Abstract!EndCallback, TargetActive
    <3>3. QED
      BY <3>2 DEF Abstract!Next, Refined
  <2>5. CASE LoopSleep
    BY <2>5, <1>1 DEF LoopSleep, TargetActive, Refined
  <2>6. CASE LoopExit
    <3>1. Holders = {} /\ Holders' = {}
      BY <2>6, NoRequests DEF LoopExit, Idle, Holders, IInv
    <3>2. Abstract!Resume
      BY <2>6, <3>1 DEF LoopExit, Idle, Abstract!Resume, TargetActive
    <3>3. QED
      BY <3>2 DEF Abstract!Next, Refined
  <2>7. CASE TargetWakes
    BY <2>7, <1>1 DEF TargetWakes, TargetActive, Refined
  <2>8. CASE TargetExits
    BY <2>8, <1>1 DEF TargetExits, TargetActive, Refined
  <2>9. CASE ExternalWait
    BY <2>9, <1>1 DEF ExternalWait, TargetActive, Refined
  <2>10. CASE ExternalWakes
    BY <2>10, <1>1 DEF ExternalWakes, ExternalReturn, TargetActive, Refined
  <2>11. QED
    BY <1>6, <2>1, <2>2, <2>3, <2>4, <2>5, <2>6, <2>7, <2>8, <2>9, <2>10
       DEF TargetStep, Refined
<1>7. CASE TimedOut
  BY <1>7, <1>1 DEF TimedOut, TargetActive, Refined
<1>8. CASE ExternalReturn
  BY <1>8, <1>1 DEF ExternalReturn, TargetActive, Refined
<1>9. ASSUME NEW t \in Threads, SpuriousWakeup(t) PROVE Refined
  BY <1>9, <1>1 DEF SpuriousWakeup, TargetActive
<1>10. CASE UNCHANGED vars
  BY <1>10, <1>1 DEF TargetActive, Refined
<1>11. QED
  BY <1>4, <1>5, <1>6, <1>7, <1>8, <1>9, <1>10 DEF Next, Refined

(* misc/dispatch.c keeps the promise of its header: it implements          *)
(* ExclusiveAccess, whatever the number of clients and of calls.           *)
THEOREM Refinement == AllSpec => ImplementsExclusiveAccess
<1>1. Init => Abstract!Init
  BY DEF Init, Abstract!Init, Holders, TargetActive
<1>2. QED
  BY <1>1, RefinementStep, EachInit, EachStep, Invariance, PTL
     DEF AllSpec, ImplementsExclusiveAccess, Abstract!Spec

=============================================================================
