----------------------------- MODULE ThreadPool -----------------------------
(***************************************************************************)
(* misc/thread_pool.c: worker threads that take work from a list, are      *)
(* created on demand and retire after idling while there are more than     *)
(* min_threads of them.                                                    *)
(*                                                                         *)
(* An action is one critical section of pool->lock.  For a worker that is  *)
(* everything from getting the mutex to waiting, unlocking or exiting.     *)
(***************************************************************************)
EXTENDS Naturals, FiniteSets, SequencesExt

CONSTANTS
  Workers,      (* identities of worker threads                            *)
  Works,        (* (fn, fn_ctx) pairs                                      *)
  InitThreads,
  MinThreads,
  MaxThreads

ThreadPoolAssumption ==
  /\ IsFiniteSet(Workers)
  /\ InitThreads \in Nat /\ MinThreads \in Nat /\ MaxThreads \in Nat \ {0}
  /\ InitThreads <= MinThreads /\ MinThreads <= MaxThreads

VARIABLES
  threads,        (* pool->threads; num_threads is its size                *)
  busy_threads,
  terminate,
  work,           (* pool->work: new work first, taken from the end        *)
  state,          (* where each worker is                                  *)
  waiters,        (* workers blocked on pool->wakeup                       *)
  joining,        (* the threads mp_thread_join() is to be called on       *)
  owner,          (* the thread that created the pool                      *)
  submitted,      (* history: accepted work in the order of the calls ...  *)
  started,        (* ... and work taken up, in that order                  *)
  starved         (* history: mp_thread_create() failed                    *)

pool == <<threads, busy_threads, terminate, work>>
history == <<submitted, started, starved>>
vars == <<pool, state, waiters, joining, owner, history>>

num_threads == Cardinality(threads)
num_work == Len(work)

States == {"none", "ready", "waiting", "timed", "timedout", "busy", "exited"}
In(s) == {t \in Workers : state[t] = s}

(* mp_thread_pool_create(); a thread that cannot be created makes it free  *)
(* the pool at once.                                                       *)
Init ==
  /\ threads \in SUBSET Workers /\ num_threads <= InitThreads
  /\ owner = IF num_threads = InitThreads THEN "open" ELSE "failed"
  /\ state = [t \in Workers |-> IF t \in threads THEN "ready" ELSE "none"]
  /\ busy_threads = 0 /\ terminate = FALSE /\ work = <<>>
  /\ waiters = {} /\ joining = {}
  /\ submitted = <<>> /\ started = <<>> /\ starved = FALSE

-----------------------------------------------------------------------------
(* Submitting work *)

WantsThread ==
  busy_threads + num_work + 1 > num_threads /\ num_threads < MaxThreads

NoSignal == UNCHANGED waiters                          (* mutant of Signal *)
Signal ==
  IF waiters = {} THEN UNCHANGED waiters
                  ELSE \E t \in waiters : waiters' = waiters \ {t}

Insert(w) == work' = <<w>> \o work

(* thread_pool_add(), from its "if (ok)"                                   *)
Accept(w) ==
  /\ Insert(w)
  /\ Signal
  /\ submitted' = Append(submitted, w)

Refuse == UNCHANGED <<work, waiters, submitted>>

(* add_thread()                                                            *)
AddThread(t) ==
  /\ state[t] = "none"
  /\ threads' = threads \cup {t}
  /\ state' = [state EXCEPT ![t] = "ready"]
  /\ UNCHANGED starved

AddThreadFails ==
  /\ starved' = TRUE
  /\ UNCHANGED <<threads, state>>

MayQueue(allow_queue) == allow_queue /\ num_threads > 0

Add(w, allow_queue) ==
  /\ owner = "open"
  /\ w \notin Range(submitted)
  /\ IF WantsThread
     THEN \/ /\ \E t \in Workers : AddThread(t)
             /\ Accept(w)
          \/ /\ AddThreadFails
             /\ IF MayQueue(allow_queue) THEN Accept(w)
                                         ELSE Refuse
     ELSE /\ UNCHANGED <<threads, state, starved>>
          /\ Accept(w)
  /\ UNCHANGED <<busy_threads, terminate, joining, owner, started>>

(* mp_thread_pool_queue() and mp_thread_pool_run()                         *)
Queue(w) == Add(w, TRUE)
Run(w) == Add(w, FALSE)

-----------------------------------------------------------------------------
(* worker_thread() *)

Goto(t, s) == state' = [state EXCEPT ![t] = s]

Busier(busy) == busy + 1

(* Takes the oldest work.  busy is busy_threads as the worker finds it.    *)
TakeWork(t, busy) ==
  /\ work # <<>>
  /\ work' = Front(work)
  /\ started' = Append(started, Last(work))
  /\ busy_threads' = Busier(busy)
  /\ Goto(t, "busy")
  /\ UNCHANGED <<threads, waiters>>

Surplus == num_threads > MinThreads

(* Waits, with a deadline only if there are surplus threads.               *)
Idle(t, busy) ==
  /\ work = <<>> /\ ~terminate
  /\ waiters' = waiters \cup {t}
  /\ busy_threads' = busy
  /\ Goto(t, IF Surplus THEN "timed" ELSE "waiting")
  /\ UNCHANGED <<threads, work, started>>

Exit(t, busy) ==
  /\ work = <<>> /\ terminate
  /\ busy_threads' = busy
  /\ Goto(t, "exited")
  /\ UNCHANGED <<threads, waiters, work, started>>

Loop(t, busy) == TakeWork(t, busy) \/ Idle(t, busy) \/ Exit(t, busy)

Unrelated == UNCHANGED <<terminate, joining, owner, submitted, starved>>

(* A new thread gets the mutex for the first time.                         *)
Begin(t) ==
  /\ state[t] = "ready"
  /\ Loop(t, busy_threads)
  /\ Unrelated

(* Either wait returned because of a wakeup.                               *)
Wake(t) ==
  /\ state[t] \in {"waiting", "timed"} /\ t \notin waiters
  /\ Loop(t, busy_threads)
  /\ Unrelated

(* work.fn() returned.                                                     *)
Finish(t) ==
  /\ state[t] = "busy"
  /\ Loop(t, busy_threads - 1)
  /\ Unrelated

(* mp_cond_timedwait_until() timed out; the mutex is not acquired yet.     *)
TimesOut(t) ==
  /\ state[t] = "timed" /\ t \in waiters
  /\ waiters' = waiters \ {t}
  /\ Goto(t, "timedout")
  /\ UNCHANGED <<pool, joining, owner, history>>

(* The worker detaches itself and is gone.                                 *)
Retire(t) ==
  /\ work = <<>>
  /\ threads' = threads \ {t}
  /\ Goto(t, "none")
  /\ UNCHANGED <<busy_threads, waiters, work, started>>

(* With the mutex, it retires if there still are too many threads and no   *)
(* work has come meanwhile.                                                *)
RetireAnyway(t) == Retire(t) \/ TakeWork(t, busy_threads)      (* mutant of *)
RetireOrLoop(t) ==                                        (* RetireOrLoop *)
  IF Surplus THEN Retire(t) \/ TakeWork(t, busy_threads)
             ELSE Loop(t, busy_threads)

Expire(t) ==
  /\ state[t] = "timedout"
  /\ RetireOrLoop(t)
  /\ Unrelated

-----------------------------------------------------------------------------
(* thread_pool_dtor() *)

WakeAll == waiters' = {}

Destroy ==
  /\ owner \in {"open", "failed"}
  /\ terminate' = TRUE
  /\ WakeAll
  /\ joining' = threads
  /\ threads' = {}
  /\ owner' = "joining"
  /\ UNCHANGED <<busy_threads, work, state, history>>

Joined ==
  /\ owner = "joining"
  /\ \A t \in joining : state[t] = "exited"
  /\ owner' = "destroyed"
  /\ UNCHANGED <<pool, state, waiters, joining, history>>

-----------------------------------------------------------------------------
SpuriousWakeup(t) ==
  /\ t \in waiters
  /\ waiters' = waiters \ {t}
  /\ UNCHANGED <<pool, state, joining, owner, history>>

WorkerStep(t) == Begin(t) \/ Wake(t) \/ Finish(t) \/ Expire(t)

Next ==
  \/ \E w \in Works : Queue(w) \/ Run(w)
  \/ \E t \in Workers : WorkerStep(t) \/ TimesOut(t) \/ SpuriousWakeup(t)
  \/ Destroy \/ Joined

(* Threads that can run do run, and work functions return.  Neither a      *)
(* timeout, nor a spurious wakeup, nor a call of the owner is relied upon. *)
Fairness == WF_vars(Joined) /\ \A t \in Workers : WF_vars(WorkerStep(t))

Spec == Init /\ [][Next]_vars /\ Fairness

-----------------------------------------------------------------------------
(* Properties *)

(* The type of the pool, of its workers and of the history.                *)
TypeOK ==
  /\ threads \subseteq Workers /\ waiters \subseteq Workers
  /\ joining \subseteq Workers
  /\ busy_threads \in 0..Cardinality(Workers) /\ terminate \in BOOLEAN
  /\ work \in Seq(Works) /\ submitted \in Seq(Works) /\ started \in Seq(Works)
  /\ state \in [Workers -> States]
  /\ owner \in {"open", "failed", "joining", "destroyed"}
  /\ starved \in BOOLEAN

(* Accepted work is taken up exactly once and in the order of the calls:   *)
(* what was taken, followed by what waits, is what was accepted.           *)
InOrder == submitted = started \o Reverse(work)

(* Accepted work has a thread that gets to it.  No wakeup is lost: while a *)
(* worker sleeps, there are at least as many workers on their way to the   *)
(* list as there is work on it.  Workers retire and may fail to be created,*)
(* but work is never left without any.  Below max_threads every piece of   *)
(* work finds an idle thread ("create a new thread [if] there are not      *)
(* enough threads to process all at once").  And the destructor leaves     *)
(* nothing behind: "it will block until all work items are done, and the   *)
(* threads terminate".                                                     *)
Awake ==
  In("ready") \cup In("timedout")
    \cup {t \in In("waiting") \cup In("timed") : t \notin waiters}
Living == {t \in Workers : state[t] \notin {"none", "exited"}}
WorkAttended ==
  /\ waiters # {} => num_work <= Cardinality(Awake)
  /\ work # <<>> => Living # {}
  /\ owner = "open" /\ num_threads < MaxThreads /\ ~starved =>
       busy_threads + num_work <= num_threads
  /\ owner = "destroyed" => work = <<>> /\ busy_threads = 0 /\ Living = {}

(* "remaining threads will be created on demand, but never destroyed":     *)
(* timeouts, even simultaneous ones, leave min_threads threads.            *)
MinKept ==
  [][num_threads >= MinThreads /\ ~terminate' => num_threads' >= MinThreads]_vars

(* Accepted work is taken up, all of it (which is bounded), and the        *)
(* destructor returns.                                                     *)
WorkDone ==
  /\ work # <<>> ~> work = <<>>
  /\ owner = "joining" ~> owner = "destroyed"

=============================================================================
