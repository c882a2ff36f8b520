------------------------------ MODULE MCTools ------------------------------
(***************************************************************************)
(* Model checking instance of three small components that do not interact: *)
(* in a behaviour one of them is used, and the others are idle.            *)
(*   Rendezvous: the init barriers of three threads, one of which takes    *)
(* part in two.                                                            *)
(*   ThreadPool: the pool of the player, started without threads, with     *)
(* room for three workers and four pieces of work.                         *)
(*   FilterRunner: a filter with a normal and one with a high priority;    *)
(* both external pins belong to the former.                                *)
(***************************************************************************)
EXTENDS Rendezvous

CONSTANTS core, vo, ipc, init_vo, init_ipc

MCMembers == [tag \in {init_vo, init_ipc} |->
                IF tag = init_vo THEN {core, vo} ELSE {core, ipc}]

CONSTANTS Workers, Works, InitThreads, MinThreads, MaxThreads

VARIABLES threads, busy_threads, terminate, work, state, sleepers, joining,
          owner, submitted, started, starved
pool == <<threads, busy_threads, terminate, work, state, sleepers, joining,
          owner, submitted, started, starved>>
Pool == INSTANCE ThreadPool WITH waiters <- sleepers

CONSTANTS normal, urgent, Filters, Root, HighPriority, Pins, Peer, NoPin,
          MaxChanges, MaxWakeups, MaxInterrupts

MCPeer == [x \in Pins |-> normal]

VARIABLES pending, async_pending, async_wakeup_sent, interrupt_flag,
          external_pending, recursive, exit_req, pc, polled, woken, turn, alive,
          due, unseen, hidden, changes, wakeups, interrupts
runner == <<pending, async_pending, async_wakeup_sent, interrupt_flag,
            external_pending, recursive, exit_req, pc, polled, woken, turn, alive,
            due, unseen, hidden, changes, wakeups, interrupts>>
Runner == INSTANCE FilterRunner

ASSUME ToolsAssumption == Pool!ThreadPoolAssumption /\ Runner!FilterRunnerAssumption

VARIABLE part       (* the component that is used                          *)
allvars == <<vars, pool, runner, part>>

(* Idle is how a component is before it is used first.  The runner wakes   *)
(* up its user when it has been created.                                   *)
ToolsInit ==
  /\ part \in {"rendezvous", "pool", "runner"}
  /\ Init /\ Pool!Init
  /\ pending = <<>> /\ async_pending = <<>> /\ async_wakeup_sent = FALSE
  /\ interrupt_flag = FALSE /\ external_pending = FALSE /\ recursive = NoPin
  /\ exit_req = FALSE /\ pc = "sleep" /\ polled = {} /\ woken = (part = "runner")
  /\ turn \in [Pins -> IF part = "runner" THEN {"user", "graph"} ELSE {"user"}]
  /\ alive = Filters \cup {Root} /\ due = {} /\ unseen = {} /\ hidden = {}
  /\ changes = 0 /\ wakeups = 0 /\ interrupts = 0

ToolsNext ==
  \/ part = "rendezvous" /\ Next /\ UNCHANGED <<pool, runner, part>>
  \/ part = "pool" /\ Pool!Next /\ UNCHANGED <<vars, runner, part>>
  \/ part = "runner" /\ Runner!Next /\ UNCHANGED <<vars, pool, part>>

(* The fairness of the three specifications, each for its own component.   *)
ToolsSpec ==
  /\ ToolsInit /\ [][ToolsNext]_allvars
  /\ \A t \in Threads : WF_allvars(part = "rendezvous" /\ Return(t) /\ UNCHANGED <<pool, runner, part>>)
  /\ WF_allvars(part = "pool" /\ Pool!Joined /\ UNCHANGED <<vars, runner, part>>)
  /\ \A t \in Workers :
       WF_allvars(part = "pool" /\ Pool!WorkerStep(t) /\ UNCHANGED <<vars, runner, part>>)
  /\ WF_allvars(part = "runner" /\ (Runner!Runner \/ Runner!User) /\ UNCHANGED <<vars, pool, part>>)
-----------------------------------------------------------------------------
(* The types of the three modules.                                         *)
TypesOK == TypeOK /\ Pool!TypeOK /\ Runner!TypeOK

(* Nothing is left lying: queued work has a thread that will take it, and  *)
(* runs in order, once (thread_pool.c); the user of a filter graph is told *)
(* of every external pin that changed (add_pending_pin()).                 *)
Attended == Pool!InOrder /\ Pool!WorkAttended /\ Runner!UserTold

(* Idle workers never retire below min_threads (worker_thread()).          *)
MinKept == Pool!MinKept

(* Two threads that have called mp_rendezvous() return, accepted work is   *)
(* done, even if the pool is destroyed, and a filter that is due is        *)
(* processed (mp_thread_pool_queue(), mp_filter_graph_run()).              *)
AllDone == Met /\ Pool!WorkDone /\ Runner!DueProcessed
=============================================================================
