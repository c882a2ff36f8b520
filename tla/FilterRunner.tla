---------------------------- MODULE FilterRunner ----------------------------
(***************************************************************************)
(* filters/filter.c: the runner of a filter graph.  Filters whose pins     *)
(* changed are "pending" and get their process() called by                 *)
(* mp_filter_graph_run(), on the user's thread; other threads wake up      *)
(* filters asynchronously and interrupt a run.                             *)
(*                                                                         *)
(* The user is the player core: it sleeps until woken up, then polls the   *)
(* external pins (manually connected to the root filter) and runs the      *)
(* graph.  Access to an external pin filters recursively.                  *)
(*                                                                         *)
(* What a filter does is left open: its process() may change pins of other *)
(* filters and external pins.  An external pin is at any time either for   *)
(* the user to act on (a frame to read, a request to answer) or for the    *)
(* graph (a request, a frame).                                             *)
(*                                                                         *)
(* A run is split into the steps that other threads can tell apart: the    *)
(* flush at the start, the check of the interrupt flag, and the rest of an *)
(* iteration, which touches the shared state in one critical section only. *)
(***************************************************************************)
EXTENDS Naturals, SequencesExt

CONSTANTS
  Filters,      (* the filters other than the root                         *)
  Root,         (* r->root_filter                                          *)
  HighPriority, (* filters with mp_filter_set_high_priority()              *)
  Pins,         (* external pins                                           *)
  Peer,         (* Peer[p]: the filter at the other end of external pin p  *)
  NoPin,
  MaxChanges,   (* bound: pin changes by filters and by the user           *)
  MaxWakeups,   (* bound: wakeups by other threads                         *)
  MaxInterrupts (* bound: mp_filter_graph_interrupt() by other threads     *)

FilterRunnerAssumption ==
  /\ Root \notin Filters /\ HighPriority \subseteq Filters
  /\ Peer \in [Pins -> Filters] /\ NoPin \notin Pins
  /\ {MaxChanges, MaxWakeups, MaxInterrupts} \subseteq Nat

VARIABLES
  pending, async_pending, async_wakeup_sent, interrupt_flag, external_pending,
  recursive,     (* the pin through which filtering is recursive, or NoPin *)
  exit_req,      (* local to mp_filter_graph_run()                         *)
  pc,            (* the user: "sleep", "poll", or in a run "start", "check"*)
                 (* and "step"                                             *)
  polled,        (* pins the user has looked at in this iteration          *)
  woken,         (* the user's wakeup flag                                 *)
  turn,          (* who acts next on an external pin: "user" or "graph"    *)
  alive,         (* filters that have not been destroyed                   *)
  due,           (* history: filters that were promised a process() call   *)
  unseen,        (* history: external pins changed since they were polled  *)
  hidden,        (* history: of these, the ones that changed while Root was*)
                 (* pending already and the user was not to be told of it  *)
  changes, wakeups, interrupts    (* bound counters                        *)

async == <<async_pending, async_wakeup_sent>>
run == <<pending, external_pending, recursive, exit_req>>
seen == <<unseen, hidden>>
user == <<pc, polled, turn, seen>>
counters == <<changes, wakeups, interrupts>>
vars == <<async, interrupt_flag, run, user, woken, alive, due, counters>>

All == Filters \cup {Root}

Init ==
  /\ pending = <<>> /\ async_pending = <<>> /\ async_wakeup_sent = FALSE
  /\ interrupt_flag = FALSE /\ external_pending = FALSE /\ recursive = NoPin
  /\ exit_req = FALSE /\ pc = "sleep" /\ polled = {} /\ woken = TRUE
  /\ turn \in [Pins -> {"user", "graph"}] /\ alive = All
  /\ due = {} /\ unseen = {} /\ hidden = {}
  /\ changes = 0 /\ wakeups = 0 /\ interrupts = 0

-----------------------------------------------------------------------------
(* The pending list *)

Enqueue(p, f) == IF f \in HighPriority THEN <<f>> \o p ELSE Append(p, f)

(* add_pending()                                                           *)
AddPending(p, f) == IF f \in Range(p) THEN p ELSE Enqueue(p, f)

(* add_pending() of the filters in a list, one after the other             *)
AddAll(p, list) ==
  LET added[i \in 0 .. Len(list)] ==
        IF i = 0 THEN p ELSE AddPending(added[i - 1], list[i])
  IN  added[Len(list)]

(* the loop of flush_async_notifications()                                 *)
Flushed(p) == AddAll(p, async_pending)

(* f->in->async_pending and the other half of flush_async_notifications()  *)
SentOff == FALSE

Flush == async_pending' = <<>> /\ async_wakeup_sent' = SentOff

(* add_pending_pin() for external pin x, where filter Root is responsible: *)
(* unless Root was pending before, the user must be told.                  *)
Tells(p, x) == Root \notin Range(p) /\ x # recursive
Responsible(x) == IF x \in Pins THEN Root ELSE x

-----------------------------------------------------------------------------
(* Other threads *)

AddAsync(f) == async_pending' = IF f \in Range(async_pending) THEN async_pending
                                ELSE Append(async_pending, f)

(* filter_wakeup(f, false)                                                 *)
Wakeup(f) ==
  /\ wakeups < MaxWakeups /\ f \in alive
  /\ wakeups' = wakeups + 1
  /\ AddAsync(f)
  /\ async_wakeup_sent' = TRUE
  /\ woken' = (woken \/ ~async_wakeup_sent)
  /\ due' = due \cup {f}
  /\ UNCHANGED <<interrupt_flag, run, user, alive, changes, interrupts>>

(* filter_wakeup(f, true)                                                  *)
MarkAsyncProgress(f) ==
  /\ wakeups < MaxWakeups /\ f \in alive
  /\ wakeups' = wakeups + 1
  /\ AddAsync(f)
  /\ UNCHANGED <<async_wakeup_sent, interrupt_flag, run, user, woken, alive, due,
                 changes, interrupts>>

(* mp_filter_graph_interrupt(), or the time limit of a run expires         *)
Interrupt ==
  /\ interrupts < MaxInterrupts
  /\ interrupts' = interrupts + 1
  /\ interrupt_flag' = TRUE
  /\ UNCHANGED <<async, run, user, woken, alive, due, changes, wakeups>>

-----------------------------------------------------------------------------
(* mp_filter_graph_run() *)

Start ==
  /\ pc = "start"
  /\ pending' = Flushed(pending) /\ Flush
  /\ exit_req' = FALSE /\ pc' = "check"
  /\ UNCHANGED <<interrupt_flag, external_pending, recursive, polled, turn, seen,
                 woken, alive, due, counters>>

(* The start of an iteration: the interrupt flag is taken, and the wakeup  *)
(* callback makes the user call again.                                     *)
SilentInterrupt == FALSE                          (* mutant of CallsBack   *)
CallsBack == interrupt_flag /\ ~async_wakeup_sent

Check ==
  /\ pc = "check"
  /\ interrupt_flag' = FALSE
  /\ woken' = (woken \/ CallsBack)
  /\ async_wakeup_sent' = (async_wakeup_sent \/ interrupt_flag)
  /\ exit_req' = (exit_req \/ interrupt_flag)
  /\ pc' = "step"
  /\ UNCHANGED <<async_pending, pending, external_pending, recursive, polled, turn,
                 seen, alive, due, counters>>

Flushes == pending = <<>>
Ready == IF Flushes THEN Flushed(pending) ELSE pending

(* The filter whose process() is called: high priority filters are at the  *)
(* front, and from the others the last one is taken, if any at all.        *)
TakesNormal(p) == p[1] \notin HighPriority /\ ~exit_req
Next1(p) == IF TakesNormal(p) THEN Last(p) ELSE p[1]
Others(p) == IF TakesNormal(p) THEN Front(p) ELSE Tail(p)
Continues(p) == p # <<>> /\ (p[1] \in HighPriority \/ TakesNormal(p))

(* What process() does one after the other: wake up filter t through a pin,*)
(* itself with mp_filter_internal_mark_progress(), or change external pin  *)
(* t.  Of several pins only the first finds Root not pending.              *)
Effect(p, does) == AddAll(p, [i \in DOMAIN does |-> Responsible(does[i])])
Told(p, does) ==
  \E i \in DOMAIN does :
    /\ does[i] \in Pins /\ Tells(p, does[i])
    /\ \A j \in 1 .. i - 1 : does[j] \notin Pins

(* add_pending_pin() returns early for a pin if Root is pending already:   *)
(* for another pin, or since an interrupted run has left it so.            *)
Hidden(p, does) ==
  {x \in (Pins \cap Range(does)) \ {recursive} :
     \/ Root \in Range(p)
     \/ \E i, j \in DOMAIN does : i < j /\ does[i] \in Pins /\ does[j] = x}

Changeable(f) ==
  IF f = Root THEN {}
  ELSE (alive \ {Root}) \cup {x \in Pins : Peer[x] = f /\ turn[x] = "graph"}

Process ==
  /\ pc = "step" /\ Continues(Ready)
  /\ IF Flushes THEN Flush ELSE UNCHANGED async
  /\ LET f == Next1(Ready) IN
     \E does \in SeqOf(Changeable(f), 2) :
       LET changed == Range(does) \cap Pins IN
       /\ IsInjective(does) /\ changes + Len(does) <= MaxChanges
       /\ changes' = changes + Len(does)
       /\ pending' = Effect(Others(Ready), does)
       /\ external_pending' = (external_pending \/ Told(Others(Ready), does))
       /\ turn' = [x \in Pins |-> IF x \in changed THEN "user" ELSE turn[x]]
       /\ unseen' = unseen \cup (changed \ {recursive})
       /\ hidden' = IF external_pending' THEN hidden
                    ELSE hidden \cup Hidden(Others(Ready), does)
       /\ due' = (due \ {f}) \cup (Range(does) \ Pins)
  /\ pc' = "check"
  /\ UNCHANGED <<interrupt_flag, recursive, exit_req, polled, woken, alive, wakeups,
                 interrupts>>

(* The loop ends.  The user takes a TRUE result for a wakeup; a recursive  *)
(* run passes it on to the next run.                                       *)
NotPassedOn == FALSE                              (* mutant of PassedOn    *)
PassedOn == recursive # NoPin /\ external_pending

Return ==
  /\ pc = "step" /\ ~Continues(Ready)
  /\ IF Flushes THEN Flush ELSE UNCHANGED async
  /\ pending' = Ready
  /\ external_pending' = PassedOn
  /\ IF recursive = NoPin
     THEN pc' = "sleep" /\ woken' = (woken \/ external_pending)
     ELSE pc' = "poll" /\ UNCHANGED woken
  /\ recursive' = NoPin
  /\ UNCHANGED <<interrupt_flag, exit_req, polled, turn, seen, alive, due,
                 counters>>

-----------------------------------------------------------------------------
(* The user *)

Awake ==
  /\ pc = "sleep" /\ woken
  /\ woken' = FALSE /\ pc' = "poll" /\ polled' = {}
  /\ UNCHANGED <<async, interrupt_flag, run, turn, seen, alive, due, counters>>

Poll(x) ==
  /\ pc = "poll" /\ x \notin polled
  /\ polled' = polled \cup {x}
  /\ unseen' = unseen \ {x} /\ hidden' = hidden \ {x}
  /\ UNCHANGED <<async, interrupt_flag, run, pc, woken, turn, alive, due, counters>>

(* The user reads, requests or writes: mp_pin_in_write() or                *)
(* mp_pin_out_request_data() with filter_recursive().                      *)
Access(x) ==
  /\ pc = "poll" /\ x \in polled /\ turn[x] = "user" /\ Peer[x] \in alive
  /\ changes < MaxChanges /\ changes' = changes + 1
  /\ turn' = [turn EXCEPT ![x] = "graph"]
  /\ pending' = AddPending(pending, Peer[x])
  /\ due' = due \cup {Peer[x]}
  /\ recursive' = x /\ pc' = "start"
  /\ UNCHANGED <<async, interrupt_flag, external_pending, exit_req, polled, seen,
                 woken, alive, wakeups, interrupts>>

GraphRun ==
  /\ pc = "poll" /\ polled = Pins
  /\ pc' = "start"
  /\ UNCHANGED <<async, interrupt_flag, run, polled, turn, seen, woken, alive,
                 due, counters>>

(* filter_destructor(): the notifications of all filters are flushed.      *)
KeepPending(p, f) == p                               (* mutant of Removed  *)
Removed(p, f) == RemoveFirst(p, f)

Destroy(f) ==
  /\ pc = "poll" /\ f \in alive \ {Root}
  /\ alive' = alive \ {f}
  /\ pending' = Removed(Flushed(pending), f) /\ Flush
  /\ due' = due \ {f}
  /\ unseen' = {x \in unseen : Peer[x] # f}
  /\ hidden' = {x \in hidden : Peer[x] # f}
  /\ UNCHANGED <<interrupt_flag, external_pending, recursive, exit_req, pc, polled,
                 woken, turn, counters>>

-----------------------------------------------------------------------------
Runner == Start \/ Check \/ Process \/ Return
User == Awake \/ GraphRun \/ \E x \in Pins : Poll(x)

Next ==
  \/ Runner \/ User \/ Interrupt
  \/ \E f \in Filters : Wakeup(f) \/ MarkAsyncProgress(f) \/ Destroy(f)
  \/ \E x \in Pins : Access(x)

(* The user's thread runs, and polls and runs the graph when woken up.     *)
Spec == Init /\ [][Next]_vars /\ WF_vars(Runner \/ User)
-----------------------------------------------------------------------------
(* In particular each list holds a filter once, and none that has been     *)
(* destroyed, whose process() a run would still call.                      *)
TypeOK ==
  /\ \A list \in {pending, async_pending} : list \in Seq(alive) /\ IsInjective(list)
  /\ {async_wakeup_sent, interrupt_flag, external_pending, exit_req, woken} \subseteq BOOLEAN
  /\ recursive \in Pins \cup {NoPin} /\ pc \in {"sleep", "poll", "start", "check", "step"}
  /\ {polled, unseen, hidden} \subseteq SUBSET Pins /\ turn \in [Pins -> {"user", "graph"}]
  /\ {alive, due} \subseteq SUBSET All
  /\ changes \in 0 .. MaxChanges /\ wakeups \in 0 .. MaxWakeups
  /\ interrupts \in 0 .. MaxInterrupts

(* filter.h:420: mp_filter_graph_run() "returns whether any outside pins   *)
(* have changed state": a user does not go to sleep over such a change,    *)
(* however runs, recursive runs and interrupts follow each other.  The     *)
(* exception is a change that the code hides, at filter.c:152, as Root is  *)
(* pending although the user is not to be told: but unless a run has been  *)
(* interrupted, only that of another pin than the one through which the    *)
(* user filters recursively, behind a change of that one.                  *)
UserTold ==
  /\ pc = "sleep" => woken \/ unseen \subseteq hidden
  /\ Root \in Range(pending) /\ ~external_pending => interrupts # 0 \/ recursive # NoPin

(* Every filter that was promised a process() call gets it: it stays on a  *)
(* list, and the user who sleeps is woken up, also if the callback was     *)
(* called for an earlier wakeup or a run was interrupted.  (Promises are   *)
(* bounded: in the end none is left.)                                      *)
DueProcessed == due # {} ~> due = {}

=============================================================================
