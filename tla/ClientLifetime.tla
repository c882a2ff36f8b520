--------------------------- MODULE ClientLifetime ---------------------------
(***************************************************************************)
(* player/client.c: who destroys the player.  Each user of libmpv has a    *)
(* handle on a thread of its own; the core thread runs until the last      *)
(* strong handle is gone or somebody quits, and then until all handles and *)
(* all asynchronous commands are gone; exactly one of the threads that     *)
(* destroy a handle then destroys the core.  In the command line player    *)
(* (is_cli) the core thread does that, and the handles are those of        *)
(* scripts.                                                                *)
(*                                                                         *)
(* An action is a critical section of clients->lock, or a step between two *)
(* of them, or a blocking call.                                            *)
(***************************************************************************)
EXTENDS FiniteSets

CONSTANTS
  Handles,
  Main,           (* the handle that mpv_create() made, or the first script*)
  Input,          (* owner of the asynchronous commands of key bindings    *)
  Owners          (* those that run asynchronous commands                  *)

Assumption == Main \in Handles /\ Input \notin Handles /\ Owners \subseteq Handles \cup {Input}

VARIABLES
  clients, weak,  (* clients->clients, and those with is_weak              *)
  shutting_down, have_terminator, terminate_core_thread, is_cli,
  stop_play, abort_all,
  interrupted,    (* mp_wakeup_core() was called, see Dispatch             *)
  late, timed,    (* abort_time is over; the core sleeps until abort_time  *)
  work, aborted,  (* owners of outstanding_async, and those that abort it  *)
  told,           (* MPV_EVENT_SHUTDOWN was sent to all handles            *)
  core,           (* what the core thread does                             *)
  pc,             (* what the thread of each handle does                   *)
  terminating     (* handles in mpv_terminate_destroy()                    *)

flags == <<shutting_down, terminate_core_thread, late, timed, abort_all, told>>
vars == <<clients, weak, flags, have_terminator, is_cli, stop_play, interrupted,
          work, aborted, core, pc, terminating>>

Init ==
  /\ is_cli \in BOOLEAN
  /\ clients = {Main} /\ weak = IF is_cli THEN {Main} ELSE {}
  /\ shutting_down = FALSE /\ have_terminator = FALSE /\ terminate_core_thread = FALSE
  /\ stop_play = FALSE /\ abort_all = FALSE /\ interrupted = FALSE
  /\ late = FALSE /\ timed = FALSE /\ work = {} /\ aborted = {} /\ told = FALSE
  /\ core = "play" /\ terminating = {}
  /\ pc = [h \in Handles |-> IF h = Main THEN "live" ELSE "unused"]

Existing == {"created", "creates", "live", "quit", "abort", "wait"}
Goes(h, to) == pc' = [pc EXCEPT ![h] = to]

(* mp_dispatch_lock() returns when the core processes its queue.           *)
Lockable == core \in {"play", "sleep"}
-----------------------------------------------------------------------------
(* Threads of handles.                                                     *)

(* mpv_create_client(), or with makes_weak mpv_create_weak_client(): the   *)
(* handle is strong at first.                                              *)
NewClient(h, n, makes_weak) ==
  /\ pc[h] = "live" /\ pc[n] = "unused" /\ ~shutting_down
  /\ clients' = clients \cup {n}
  /\ pc' = IF makes_weak THEN [pc EXCEPT ![h] = "creates", ![n] = "created"]
           ELSE [pc EXCEPT ![n] = "live"]
  /\ UNCHANGED <<weak, flags, have_terminator, is_cli, stop_play, interrupted, work,
                 aborted, core, terminating>>

SetWeak(h, n) ==
  /\ pc[h] = "creates" /\ pc[n] = "created"
  /\ weak' = weak \cup {n}
  /\ pc' = [pc EXCEPT ![h] = "live", ![n] = "live"]
  /\ UNCHANGED <<clients, flags, have_terminator, is_cli, stop_play, interrupted, work,
                 aborted, core, terminating>>

(* mpv_destroy(), mpv_terminate_destroy()                                  *)
Destroy(h, terminate) ==
  /\ pc[h] = "live"
  /\ Goes(h, IF terminate THEN "quit" ELSE "abort")
  /\ terminating' = IF terminate THEN terminating \cup {h} ELSE terminating
  /\ UNCHANGED <<clients, weak, flags, have_terminator, is_cli, stop_play, interrupted,
                 work, aborted, core>>

QuitCommand(h) ==
  /\ pc[h] = "quit" /\ Lockable
  /\ stop_play' = TRUE /\ interrupted' = TRUE
  /\ Goes(h, "abort")
  /\ UNCHANGED <<clients, weak, flags, have_terminator, is_cli, work, aborted, core,
                 terminating>>

AbortAsync(h) ==
  /\ pc[h] = "abort"
  /\ aborted' = aborted \cup ({h} \cap work)
  /\ Goes(h, "wait")
  /\ UNCHANGED <<clients, weak, flags, have_terminator, is_cli, stop_play, interrupted,
                 work, core, terminating>>

(* Whether the thread that destroys h is to destroy the core.              *)
Unreserved(h) == h \in terminating \/ (clients \ {h}) \subseteq weak   (* mutant *)
Terminates(h) ==
  /\ h \in terminating \/ (clients \ {h}) \subseteq weak
  /\ ~have_terminator

(* After mpv_wait_async_requests(), to the unlock of clients->lock: the    *)
(* handle is gone.                                                         *)
Remove(h) ==
  /\ pc[h] = "wait" /\ h \notin work
  /\ clients' = clients \ {h} /\ weak' = weak \ {h} /\ terminating' = terminating \ {h}
  /\ have_terminator' = (have_terminator \/ (~is_cli /\ Terminates(h)))
  /\ interrupted' = TRUE
  /\ Goes(h, IF ~is_cli /\ Terminates(h) THEN "stop" ELSE "gone")
  /\ UNCHANGED <<flags, is_cli, stop_play, work, aborted, core>>

StopPlay(h) ==
  /\ pc[h] = "stop" /\ Lockable
  /\ stop_play' = TRUE
  /\ Goes(h, "ask")
  /\ UNCHANGED <<clients, weak, flags, have_terminator, is_cli, interrupted, work,
                 aborted, core, terminating>>

AskToStop(h) ==
  /\ pc[h] = "ask"
  /\ terminate_core_thread' = TRUE
  /\ Goes(h, "wakeup")
  /\ UNCHANGED <<clients, weak, shutting_down, late, timed, abort_all, told, have_terminator,
                 is_cli, stop_play, interrupted, work, aborted, core, terminating>>

WakeupCore(h) ==
  /\ pc[h] = "wakeup"
  /\ interrupted' = TRUE
  /\ Goes(h, "join")
  /\ UNCHANGED <<clients, weak, flags, have_terminator, is_cli, stop_play, work, aborted,
                 core, terminating>>

(* mp_thread_join(), mp_destroy()                                          *)
DestroyCore(h) ==
  /\ pc[h] = "join" /\ core = "exited"
  /\ core' = "destroyed"
  /\ Goes(h, "gone")
  /\ UNCHANGED <<clients, weak, flags, have_terminator, is_cli, stop_play, interrupted,
                 work, aborted, terminating>>
-----------------------------------------------------------------------------
(* Asynchronous commands, of handles and of key bindings.                  *)

Async(o) ==
  /\ o \notin work
  /\ IF o = Input THEN core = "play" ELSE pc[o] = "live" /\ Lockable
  /\ work' = work \cup {o}
  /\ UNCHANGED <<clients, weak, flags, have_terminator, is_cli, stop_play, interrupted,
                 aborted, core, pc, terminating>>

(* The end of run_command_on_worker_thread(), after the reply.             *)
NotLast == FALSE                                      (* mutant of LastWork *)
LastWork == Cardinality(work) = 1 /\ shutting_down
AsyncDone(o) ==
  /\ o \in work /\ Lockable
  /\ work' = work \ {o} /\ aborted' = aborted \ {o}
  /\ interrupted' = (interrupted \/ LastWork)
  /\ UNCHANGED <<clients, weak, flags, have_terminator, is_cli, stop_play, core, pc,
                 terminating>>
-----------------------------------------------------------------------------
(* The core thread.                                                        *)

Quit ==                         (* by a key, or the end of the playlist    *)
  /\ core = "play" /\ ~stop_play /\ stop_play' = TRUE
  /\ UNCHANGED <<clients, weak, flags, have_terminator, is_cli, interrupted, work,
                 aborted, core, pc, terminating>>

EndPlay ==                                (* mp_play_files() returns       *)
  /\ core = "play" /\ stop_play
  /\ core' = "test" /\ shutting_down' = TRUE
  /\ interrupted' \in {interrupted, FALSE}     (* mp_wait_events() took it *)
  /\ UNCHANGED <<clients, weak, terminate_core_thread, late, timed, abort_all, told,
                 have_terminator, is_cli, stop_play, work, aborted, pc, terminating>>

(* mp_shutdown_clients()                                                   *)
MayExit == clients = {} /\ work = {} /\ (is_cli \/ terminate_core_thread)
Test ==
  /\ core = "test"
  /\ core' = IF ~MayExit THEN "tell" ELSE IF is_cli THEN "destroyed" ELSE "exited"
  /\ UNCHANGED <<clients, weak, flags, have_terminator, is_cli, stop_play, interrupted,
                 work, aborted, pc, terminating>>

Tell ==
  /\ core = "tell"
  /\ core' = "sleep" /\ told' = TRUE
  /\ timed' = ~late /\ abort_all' = (abort_all \/ late)
  /\ UNCHANGED <<clients, weak, shutting_down, terminate_core_thread, late, have_terminator,
                 is_cli, stop_play, interrupted, work, aborted, pc, terminating>>

WakeUp ==
  /\ core = "sleep" /\ (interrupted \/ (timed /\ late))
  /\ core' = "test" /\ interrupted' = FALSE
  /\ UNCHANGED <<clients, weak, flags, have_terminator, is_cli, stop_play, work, aborted,
                 pc, terminating>>

Late ==                                            (* two seconds are over *)
  /\ shutting_down /\ ~late /\ late' = TRUE
  /\ UNCHANGED <<clients, weak, shutting_down, terminate_core_thread, timed, abort_all, told,
                 have_terminator, is_cli, stop_play, interrupted, work, aborted, core, pc,
                 terminating>>
-----------------------------------------------------------------------------
Core == EndPlay \/ Test \/ Tell \/ WakeUp
Thread(h) ==
  \/ QuitCommand(h) \/ AbortAsync(h) \/ Remove(h) \/ StopPlay(h) \/ AskToStop(h)
  \/ WakeupCore(h) \/ DestroyCore(h) \/ \E n \in Handles : SetWeak(h, n)
User(h) == \E terminate \in BOOLEAN : Destroy(h, terminate)

Next ==
  \/ Core \/ Quit \/ Late
  \/ \E h \in Handles : Thread(h) \/ User(h)
  \/ \E h, n \in Handles, makes_weak \in BOOLEAN : NewClient(h, n, makes_weak)
  \/ \E o \in Owners : Async(o) \/ AsyncDone(o)

Spec == Init /\ [][Next]_vars

(* What goes on by itself: threads and time; a command that is aborted     *)
(* ends; and the user of a handle destroys it after MPV_EVENT_SHUTDOWN.    *)
Aborted(o) == abort_all \/ o \in aborted
Onward ==
  \/ Core \/ Late
  \/ \E h \in Handles : Thread(h) \/ (told /\ User(h))
  \/ \E o \in Owners : Aborted(o) /\ AsyncDone(o)
-----------------------------------------------------------------------------
(* The variables have the types of the code; clients are the handles that  *)
(* exist, and no asynchronous command belongs to one that is gone ("In     *)
(* order to avoid that trying to reply to a removed client causes a crash")*)
TypeOK ==
  /\ clients = {h \in Handles : pc[h] \in Existing} /\ weak \subseteq clients
  /\ work \subseteq clients \cup {Input} /\ aborted \subseteq work
  /\ terminating \subseteq clients
  /\ shutting_down \in BOOLEAN /\ have_terminator \in BOOLEAN
  /\ terminate_core_thread \in BOOLEAN /\ is_cli \in BOOLEAN /\ stop_play \in BOOLEAN
  /\ abort_all \in BOOLEAN /\ interrupted \in BOOLEAN /\ late \in BOOLEAN
  /\ timed \in BOOLEAN /\ told \in BOOLEAN
  /\ core \in {"play", "test", "tell", "sleep", "exited", "destroyed"}
  /\ pc \in [Handles -> Existing \cup {"unused", "stop", "ask", "wakeup", "join", "gone"}]

Destroying(h) == pc[h] \in {"stop", "ask", "wakeup", "join"}

(* The core outlives everybody who uses it: it is destroyed by one thread, *)
(* when no other handle is left and no command is running; and the thread  *)
(* that is to destroy it can lock it before that ("Being able to lock the  *)
(* dispatch queue requires that the core thread is still active").         *)
CoreKept ==
  /\ core = "destroyed" => work = {} /\ \A h \in Handles : pc[h] \in {"unused", "gone"}
  /\ \A h \in Handles :
       Destroying(h) => /\ \A g \in Handles \ {h} : ~Destroying(g)
                        /\ pc[h] = "stop" => core \notin {"exited", "destroyed"}

(* The guards of Onward: what goes on by itself does.                      *)
CoreGoesOn ==
  \/ core = "play" /\ stop_play
  \/ core \in {"test", "tell"}
  \/ core = "sleep" /\ (interrupted \/ (timed /\ late))
HandleGoesOn(h) ==
  \/ pc[h] \in {"abort", "ask", "wakeup"} \/ (pc[h] \in {"quit", "stop"} /\ Lockable)
  \/ pc[h] = "wait" /\ h \notin work
  \/ pc[h] = "join" /\ core = "exited"
  \/ pc[h] = "creates" /\ \E n \in Handles : pc[n] = "created"
  \/ pc[h] = "live" /\ told
GoesOn ==
  \/ CoreGoesOn \/ (shutting_down /\ ~late)
  \/ \E h \in Handles : HandleGoesOn(h)
  \/ \E o \in work : Aborted(o) /\ Lockable

(* Once somebody quits, or the last strong handle is destroyed, the end of *)
(* the player never gets stuck: until the core is destroyed, some thread   *)
(* can go on, however the destruction of other handles, new handles,       *)
(* commands that run until they are aborted and the two seconds interleave.*)
(* In particular the core does not sleep when it could exit.               *)
Unblocked == stop_play \/ have_terminator => core = "destroyed" \/ GoesOn
Ends == Unblocked /\ (GoesOn => ENABLED Onward)
=============================================================================
