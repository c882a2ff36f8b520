---------------------------- MODULE ClientEvents ----------------------------
(***************************************************************************)
(* player/client.c: the events of one libmpv client.  Events and replies   *)
(* wait in a ring buffer; the changes of observed properties are merged,   *)
(* and generated when the ring buffer has nothing to return.               *)
(*                                                                         *)
(* Actors: the core thread, the client's thread that calls                 *)
(* mpv_wait_event(), the other threads of the application, and the VO      *)
(* thread, which resizes the OSD.  A step is what happens under the lock   *)
(* of the handle; the core keeps that lock while core.pc = "pass".         *)
(* A value is "none" while the property is unavailable.                    *)
(***************************************************************************)
EXTENDS Integers, SequencesExt

CONSTANTS
  Names,      (* the properties                                            *)
  Plain,      (* those observed with MPV_FORMAT_NONE                       *)
  External,   (* those that the VO thread changes                          *)
  Values,
  NoId,
  Uses,       (* sets of what the environment does: it keeps to one        *)
  MaxEvents,  (* max_events, 1000 in the code                              *)
  MaxObs,     (* bound: calls of mpv_observe_property()                    *)
  MaxOps      (* bound: steps of the environment                           *)

Ids == 1..MaxObs
Kinds == {"event", "hook", "shutdown"}

ASSUME ClientEventsAssumption ==
  /\ Plain \subseteq Names /\ External \subseteq Names /\ NoId \notin Ids /\ "none" \notin Names
  /\ MaxEvents \in Nat \ {0} /\ MaxObs \in Nat /\ MaxOps \in Nat

VARIABLES
  ctx,        (* struct mpv_handle                                         *)
  obs,        (* struct observe_property of each identifier                *)
  val,        (* the properties themselves                                 *)
  core,       (* the core thread, and what it was asked to do              *)
  cl,         (* the client's thread                                       *)
  ops,        (* what the environment does, and how often: a bound         *)
  due         (* history: change_ts of a property when the hook was sent   *)

vars == <<ctx, obs, val, core, cl, ops, due>>

Init ==
  /\ ctx = [events |-> <<>>, reserved |-> 0, async |-> 0, choked |-> FALSE,
            mask |-> Kinds, hook_pending |-> FALSE, destroying |-> FALSE, alive |-> TRUE,
            queued_wakeup |-> FALSE, need_wakeup |-> FALSE,
            props |-> <<>>, props_ts |-> 0, has_pending |-> FALSE,
            new_events |-> FALSE, cur_index |-> 0, cur_property |-> NoId]
  /\ obs = [i \in Ids |-> [name |-> "none", ts |-> 0, value_ts |-> 0, value |-> "none",
                           ret_ts |-> 0, ret |-> "none", hook |-> FALSE, refs |-> 0]]
  /\ val \in [Names -> Values] /\ \A p \in Plain : val[p] = "none"
  /\ core = [pc |-> "work", awake |-> FALSE, n |-> 1, id |-> NoId, list_ts |-> 0, val |-> "none",
             requests |-> 0, hook |-> FALSE, down |-> FALSE, timer |-> FALSE]
  /\ cl = [pc |-> "idle", back |-> "scan", timed |-> FALSE]
  /\ ops \in {[does |-> u, n |-> 0] : u \in Uses} /\ due = [i \in Ids |-> 0]

Unlocked == core.pc # "pass"
Usable == ctx.alive /\ ~ctx.destroying
Listed == {ctx.props[k] : k \in 1..Len(ctx.props)}
Op(o) == o \in ops.does /\ ops.n < MaxOps /\ ops' = [ops EXCEPT !.n = @ + 1]

One(b) == IF b THEN 1 ELSE 0
unref(o, i) == IF i = NoId THEN o ELSE [o EXCEPT ![i].refs = @ - 1]

-----------------------------------------------------------------------------
(* The ring buffer.                                                        *)

WakesNobody(c) == c                               (* mutant of wakeup_client *)
wakeup_client(c) == [c EXCEPT !.need_wakeup = TRUE]

RoomUnreserved(c) == Len(c.events) < MaxEvents            (* mutant of Room *)
Room(c) == Len(c.events) + c.reserved < MaxEvents

append_event(c, e) ==
  wakeup_client([c EXCEPT !.events = Append(@, e), !.mask = IF e = "shutdown" THEN @ \ {e} ELSE @])

Refuses(c, e) == e \in c.mask /\ (c.choked \/ ~Room(c))

send_event(c, e) ==
  IF e \notin c.mask \/ c.choked THEN c
  ELSE IF Room(c) THEN append_event(c, e) ELSE [c EXCEPT !.choked = TRUE]

(* reserve_reply(), then the request is queued for the core.               *)
Request ==
  /\ Op("request") /\ Usable /\ Unlocked
  /\ Room(ctx) /\ ~ctx.choked
  /\ ctx' = [ctx EXCEPT !.reserved = @ + 1]
  /\ core' = [core EXCEPT !.requests = @ + 1]
  /\ UNCHANGED <<obs, val, cl, due>>

(* send_reply(): by the core, or by the thread that completed the command. *)
Reply ==
  /\ core.requests > 0 /\ Unlocked
  /\ ctx' = append_event([ctx EXCEPT !.reserved = @ - 1], "reply")
  /\ core' = [core EXCEPT !.requests = @ - 1]
  /\ UNCHANGED <<obs, val, cl, ops, due>>

(* The core sends an event while it runs.  A hook is sent once the last    *)
(* one was continued, and is removed if it cannot be sent.                 *)
Send ==
  /\ core.pc = "work" /\ ~core.down /\ ctx.alive
  /\ \E e \in {"event", "hook"} :
       /\ Op(e) /\ (e = "hook" => ~core.hook)
       /\ ctx' = send_event(ctx, e)
       /\ IF e = "hook" /\ ~Refuses(ctx, e)
          THEN /\ core' = [core EXCEPT !.hook = TRUE]
               /\ due' = [i \in Ids |-> IF i \in Listed THEN obs[i].ts ELSE 0]
          ELSE UNCHANGED <<core, due>>
  /\ UNCHANGED <<obs, val, cl>>

(* mpv_hook_continue(): runs when the core waits for events.               *)
HookContinue ==
  /\ core.hook /\ Usable /\ core.pc = "sleep" /\ \A k \in DOMAIN ctx.events : ctx.events[k] # "hook"
  /\ core' = [core EXCEPT !.hook = FALSE, !.awake = TRUE]
  /\ UNCHANGED <<ctx, obs, val, cl, ops, due>>

-----------------------------------------------------------------------------
(* Properties change.                                                      *)

SetPending(c, names) ==
  [c EXCEPT !.has_pending = @ \/ \E i \in Listed : obs[i].name \in names]

Bump(names) ==
  [i \in Ids |-> IF i \in Listed /\ obs[i].name \in names THEN [obs[i] EXCEPT !.ts = @ + 1] ELSE obs[i]]

(* The core changes a property, in the playloop or in a request of some    *)
(* client, and calls mp_client_property_change().                          *)
Change(p, v) ==
  /\ Op("change") /\ core.pc \in {"work", "sleep"} /\ p \notin External
  /\ val[p] # v /\ val' = [val EXCEPT ![p] = v]
  /\ obs' = Bump({p}) /\ ctx' = SetPending(ctx, {p})
  /\ core' = [core EXCEPT !.awake = @ \/ (core.pc = "sleep" /\ \E i \in Listed : obs[i].name = p)]
  /\ UNCHANGED <<cl, due>>

(* check_obj_resize() on the VO thread: the size of the OSD is behind a    *)
(* lock that is held until the event has been broadcast.                   *)
Resize(p, v) ==
  /\ Op("resize") /\ Unlocked /\ p \in External
  /\ val[p] # v /\ val' = [val EXCEPT ![p] = v]
  /\ obs' = Bump({p}) /\ ctx' = SetPending(ctx, {p})
  /\ core' = [core EXCEPT !.awake = TRUE]
  /\ UNCHANGED <<cl, due>>

mpv_observe_property(p) ==
  /\ Op("observe") /\ Usable /\ Unlocked
  /\ \E i \in Ids :
       /\ obs[i].name = "none" /\ \A j \in Ids : j < i => obs[j].name # "none"
       /\ obs' = [obs EXCEPT ![i] = [@ EXCEPT !.name = p, !.ts = 1, !.refs = 1]]
       /\ ctx' = [ctx EXCEPT !.props = Append(@, i), !.props_ts = @ + 1, !.new_events = TRUE,
                             !.cur_index = 0, !.has_pending = TRUE]
  /\ core' = [core EXCEPT !.awake = TRUE]
  /\ UNCHANGED <<val, cl, due>>

mpv_unobserve_property(i) ==
  /\ Op("unobserve") \/ (Op("unobserve own") /\ cl.pc = "idle")
  /\ Usable /\ Unlocked /\ obs' = unref(obs, i)
  /\ \E k \in 1..Len(ctx.props) :
       /\ ctx.props[k] = i
       /\ ctx' = [ctx EXCEPT !.props = RemoveAt(@, k), !.props_ts = @ + 1, !.cur_index = 0]
  /\ UNCHANGED <<val, core, cl, due>>

-----------------------------------------------------------------------------
(* The core thread: mp_client_send_property_changes() before it waits.     *)

Pass ==
  /\ core.pc = IF core.down THEN "told" ELSE "work"
  /\ IF Usable /\ ctx.has_pending
     THEN /\ ctx' = [ctx EXCEPT !.has_pending = FALSE]
          /\ core' = [core EXCEPT !.pc = "pass", !.n = 1, !.list_ts = ctx.props_ts]
     ELSE /\ core' = [core EXCEPT !.pc = "sleep"] /\ UNCHANGED ctx
  /\ UNCHANGED <<obs, val, cl, ops, due>>

PassSilent(c) == IF c.new_events THEN wakeup_client(c) ELSE c   (* mutant of PassDone *)
PassDone(c) == IF c.destroying \/ c.new_events THEN wakeup_client(c) ELSE c

(* What becomes of an observed property, now that its value is known.      *)
Store(o, v) == [o EXCEPT !.value = v, !.value_ts = o.ts]

Changed(o, v) == o.name \in Plain \/ o.value # v \/ o.value_ts = 0
NoEvent(o, v) == ~Changed(o, v) /\ o.ret_ts = o.value_ts

Skip(o, v) == Store([o EXCEPT !.ret_ts = o.ts, !.hook = FALSE], v)

Known(c, i, v) ==
  /\ LET o == IF NoEvent(obs[i], v) THEN Skip(obs[i], v) ELSE Store(obs[i], v)
     IN obs' = [obs EXCEPT ![i] = [o EXCEPT !.refs = @ - One(core.pc = "got")]]
  /\ ctx' = [c EXCEPT !.new_events = @ \/ obs[i].hook \/ ~NoEvent(obs[i], v)]
  /\ core' = [core EXCEPT !.pc = "pass", !.n = @ + 1]

Prop == ctx.props[core.n]

(* One property of the list; the lock is dropped while a value is read.    *)
PassProp ==
  /\ core.pc = "pass"
  /\ \/ /\ core.n > Len(ctx.props)
        /\ ctx' = PassDone(ctx) /\ core' = [core EXCEPT !.pc = "sleep"] /\ UNCHANGED obs
     \/ /\ core.n <= Len(ctx.props) /\ obs[Prop].value_ts = obs[Prop].ts
        /\ core' = [core EXCEPT !.n = @ + 1] /\ UNCHANGED <<ctx, obs>>
     \/ /\ core.n <= Len(ctx.props) /\ obs[Prop].value_ts # obs[Prop].ts
        /\ IF obs[Prop].name \in Plain THEN Known(ctx, Prop, "none")
           ELSE /\ obs' = [obs EXCEPT ![Prop].refs = @ + 1]
                /\ ctx' = [ctx EXCEPT !.async = @ + 1]
                /\ core' = [core EXCEPT !.pc = "read", !.id = Prop]
  /\ UNCHANGED <<val, cl, ops, due>>

Read ==
  /\ core.pc = "read" /\ core' = [core EXCEPT !.pc = "got", !.val = val[obs[core.id].name]]
  /\ UNCHANGED <<ctx, obs, val, cl, ops, due>>

SameList == ctx.props_ts = core.list_ts /\ ~ctx.destroying

(* The lock is taken again; if the list has changed, the core starts over. *)
Relock ==
  /\ core.pc = "got"
  /\ LET c == [ctx EXCEPT !.async = @ - 1] IN
     IF SameList THEN Known(c, core.id, core.val)
     ELSE /\ obs' = unref(obs, core.id)
          /\ ctx' = PassDone([c EXCEPT !.has_pending = TRUE])
          /\ core' = [core EXCEPT !.pc = "sleep", !.awake = TRUE]
  /\ UNCHANGED <<val, cl, ops, due>>

NextRound ==
  /\ core.pc = "sleep" /\ core.awake /\ core' = [core EXCEPT !.pc = "work", !.awake = FALSE]
  /\ UNCHANGED <<ctx, obs, val, cl, ops, due>>

(* The player quits: mp_shutdown_clients(), until the client is gone.  For *)
(* two seconds it does not sleep without a timeout.                        *)
Quit ==
  /\ Op("quit") /\ core.pc = "work" /\ ~core.down
  /\ core' = [core EXCEPT !.down = TRUE, !.timer = TRUE]
  /\ UNCHANGED <<ctx, obs, val, cl, due>>

ShutdownClients ==
  /\ core.pc = "work" /\ core.down
  /\ IF ctx.alive
     THEN ctx' = send_event(ctx, "shutdown") /\ core' = [core EXCEPT !.pc = "told"]
     ELSE core' = [core EXCEPT !.pc = "done"] /\ UNCHANGED ctx
  /\ UNCHANGED <<obs, val, cl, ops, due>>

TimerFires ==
  /\ core.pc = "sleep" /\ core.timer /\ core' = [core EXCEPT !.timer = FALSE, !.awake = TRUE]
  /\ UNCHANGED <<ctx, obs, val, cl, ops, due>>

-----------------------------------------------------------------------------
(* mpv_wait_event(), one round of its loop: what it returns, or that it    *)
(* will wait.  A hook at the head of the ring buffer is held back until    *)
(* the properties that had changed when it was first seen are drained.     *)

WaitEvent ==
  /\ cl.pc = "idle" /\ Usable
  /\ \E timed \in {b \in BOOLEAN : b => "timeout" \in ops.does} :
       cl' = [cl EXCEPT !.pc = "scan", !.timed = timed]
  /\ UNCHANGED <<ctx, obs, val, core, ops, due>>

AtHook == ctx.events # <<>> /\ Head(ctx.events) = "hook"

NoFlags == obs                                          (* mutant of Flagged *)
Flagged ==
  [i \in Ids |-> IF AtHook /\ ~ctx.hook_pending /\ i \in Listed /\ obs[i].ret_ts # obs[i].ts
                  THEN [obs[i] EXCEPT !.hook = TRUE] ELSE obs[i]]

HeldBack == AtHook /\ \E i \in Listed : Flagged[i].hook

Scanning == cl.pc = "scan" /\ Unlocked
Overflow == ctx.choked /\ ctx.events = <<>>
Deliverable == ~Overflow /\ ctx.events # <<>> /\ ~HeldBack

Returned(c) == [c EXCEPT !.queued_wakeup = FALSE]

ReturnOverflow ==
  /\ Scanning /\ Overflow
  /\ ctx' = Returned([ctx EXCEPT !.choked = FALSE]) /\ cl' = [cl EXCEPT !.pc = "idle"]
  /\ UNCHANGED <<obs, val, core, ops, due>>

ReturnEvent ==
  /\ Scanning /\ Deliverable
  /\ ctx' = Returned([ctx EXCEPT !.events = Tail(@), !.hook_pending = @ /\ ~AtHook])
  /\ cl' = [cl EXCEPT !.pc = "idle"]
  /\ UNCHANGED <<obs, val, core, ops, due>>

(* gen_property_change_event(): round-robin, and once more from the start  *)
(* if there may be new changes.                                            *)
HasEvent(i) == obs[i].value_ts = obs[i].ts /\ obs[i].ret_ts # obs[i].value_ts

After(n) == {k \in n + 1..Len(ctx.props) : HasEvent(ctx.props[k])}
Rewinds == After(ctx.cur_index) = {} /\ ctx.new_events /\ ctx.props # <<>>
Found == IF Rewinds THEN After(0) ELSE After(ctx.cur_index)
First(S) == CHOOSE k \in S : \A j \in S : k <= j

Seen == [ctx EXCEPT !.hook_pending = @ \/ AtHook, !.new_events = @ /\ ~Rewinds /\ (Found = {} => ctx.props # <<>>)]

ReturnProperty ==
  /\ Scanning /\ ~Overflow /\ ~Deliverable /\ Found # {}
  /\ LET i == ctx.props[First(Found)] IN
     /\ ctx' = Returned([Seen EXCEPT !.cur_index = First(Found), !.cur_property = i])
     /\ obs' = [unref(Flagged, ctx.cur_property)
                EXCEPT ![i].ret_ts = obs[i].value_ts, ![i].hook = FALSE,
                       ![i].ret = obs[i].value, ![i].refs = @ + 1]
  /\ cl' = [cl EXCEPT !.pc = "idle"]
  /\ UNCHANGED <<val, core, ops, due>>

(* Nothing to return: the lock is dropped, to wait.                        *)
Block ==
  /\ Scanning /\ ~Overflow /\ ~Deliverable /\ Found = {}
  /\ ctx' = [Seen EXCEPT !.cur_index = Len(ctx.props)] /\ obs' = Flagged
  /\ cl' = [cl EXCEPT !.pc = "unlocked", !.back = "scan", !.timed = @ \/ ctx.queued_wakeup]
  /\ UNCHANGED <<val, core, ops, due>>

-----------------------------------------------------------------------------
(* wait_wakeup(), and who else wakes up the client.                        *)

Woken == cl.pc \in {"unlocked", "sleeping"} /\ ctx.need_wakeup

StopWaiting ==
  /\ Woken
  /\ ctx' = [ctx EXCEPT !.need_wakeup = FALSE] /\ cl' = [cl EXCEPT !.pc = cl.back]
  /\ UNCHANGED <<obs, val, core, ops, due>>

Sleep ==
  /\ cl.pc = "unlocked" /\ ~Woken /\ cl' = [cl EXCEPT !.pc = "sleeping"]
  /\ UNCHANGED <<ctx, obs, val, core, ops, due>>

TimedOut ==
  /\ cl.pc = "sleeping" /\ cl.timed /\ cl' = [cl EXCEPT !.pc = "late"]
  /\ UNCHANGED <<ctx, obs, val, core, ops, due>>

ReturnNone ==
  /\ cl.pc = "late" /\ Unlocked
  /\ ctx' = Returned(ctx) /\ cl' = [cl EXCEPT !.pc = "idle"]
  /\ UNCHANGED <<obs, val, core, ops, due>>

mpv_wakeup ==
  /\ Op("wakeup") /\ Usable /\ Unlocked
  /\ ctx' = wakeup_client([ctx EXCEPT !.queued_wakeup = TRUE])
  /\ UNCHANGED <<obs, val, core, cl, due>>

-----------------------------------------------------------------------------
(* mp_destroy_client(): the properties go first; when nothing asynchronous *)
(* is left, the handle is freed.                                           *)

mpv_destroy ==
  /\ Op("destroy") /\ cl.pc = "idle" /\ Usable /\ Unlocked
  /\ ctx' = [ctx EXCEPT !.destroying = TRUE, !.props = <<>>, !.props_ts = @ + 1, !.cur_property = NoId]
  /\ obs' = unref([i \in Ids |-> IF i \in Listed THEN [obs[i] EXCEPT !.refs = @ - 1] ELSE obs[i]],
                  ctx.cur_property)
  /\ cl' = [cl EXCEPT !.pc = "drain", !.back = "drain", !.timed = FALSE]
  /\ UNCHANGED <<val, core, due>>

OnlyReads(c) == c.async > 0                               (* mutant of Busy *)
Busy(c) == c.reserved > 0 \/ c.async > 0

mpv_wait_async_requests ==
  /\ cl.pc = "drain" /\ Unlocked
  /\ cl' = [cl EXCEPT !.pc = IF Busy(ctx) THEN "unlocked" ELSE "remove"]
  /\ UNCHANGED <<ctx, obs, val, core, ops, due>>

FreeHandle ==
  /\ cl.pc = "remove"
  /\ ctx' = [ctx EXCEPT !.alive = FALSE, !.events = <<>>]
  /\ core' = [core EXCEPT !.awake = TRUE] /\ cl' = [cl EXCEPT !.pc = "gone"]
  /\ UNCHANGED <<obs, val, ops, due>>

Core == Pass \/ PassProp \/ Read \/ Relock \/ NextRound \/ ShutdownClients \/ TimerFires \/ Reply
Return == ReturnOverflow \/ ReturnEvent \/ ReturnProperty \/ ReturnNone
Client == Return \/ Block \/ StopWaiting \/ Sleep \/ TimedOut \/ mpv_wait_async_requests \/ FreeHandle

Environment ==
  \/ Request \/ Send \/ HookContinue \/ Quit \/ WaitEvent \/ mpv_wakeup \/ mpv_destroy
  \/ \E p \in Names : mpv_observe_property(p) \/ \E v \in Values : Change(p, v) \/ Resize(p, v)
  \/ \E i \in Ids : mpv_unobserve_property(i)

Next == Core \/ Client \/ Environment

(* The threads that are not blocked run, and timeouts expire.              *)
Spec == Init /\ [][Next]_vars /\ WF_vars(Core) /\ WF_vars(Client)

-----------------------------------------------------------------------------
(* The shape of the state.  With it, that the reply to an accepted request *)
(* always fits in the ring buffer, the reserved entries being exactly the  *)
(* requests not yet answered (the two assertions in send_reply()), and     *)
(* that no timestamp of an observed property is ahead of its change_ts.    *)
TypeOK ==
  /\ ctx.events \in UNION {[1..n -> Kinds \cup {"reply"}] : n \in 0..MaxEvents}
  /\ Len(ctx.events) + ctx.reserved <= MaxEvents /\ ctx.reserved = core.requests
  /\ ctx.async \in 0..1 /\ ctx.mask \subseteq Kinds
  /\ Listed \subseteq Ids /\ (ctx.destroying \/ ctx.cur_index <= Len(ctx.props)) /\ ctx.cur_property \in Ids \cup {NoId}
  /\ \A i \in Ids : obs[i].value_ts <= obs[i].ts /\ obs[i].ret_ts <= obs[i].ts
  /\ val \in [Names -> Values] /\ core.n \in 1..MaxObs + 1
  /\ core.pc \in {"work", "told", "pass", "read", "got", "sleep", "done"}
  /\ cl.pc \in {"idle", "scan", "unlocked", "sleeping", "late", "drain", "remove", "gone"}

(* prop_unref(), mp_destroy_client(): an observed property has exactly the *)
(* references it needs (the list, the event last returned to the client,   *)
(* the core that reads its value), so that none is freed while used and    *)
(* none is leaked, whoever removes it when.  When mpv_destroy() frees the  *)
(* handle, nobody works with it any more: no property is read for it, and  *)
(* no reply to one of its requests is to come.                             *)
MemorySafe ==
  /\ \A i \in Ids : obs[i].refs = One(i \in Listed) + One(ctx.cur_property = i)
                                   + One(core.pc \in {"read", "got"} /\ core.id = i)
  /\ ~ctx.alive => core.pc \notin {"pass", "read", "got"} /\ core.requests = 0

(* Both threads sleep and nothing is to wake them up.                      *)
Quiet ==
  /\ core.pc = "sleep" /\ ~core.awake /\ ~core.timer /\ core.requests = 0
  /\ cl.pc = "sleeping" /\ ~cl.timed /\ ~ctx.need_wakeup

Told(i) == IF obs[i].name \in Plain THEN obs[i].ret_ts = obs[i].ts
           ELSE obs[i].ret_ts # 0 /\ obs[i].ret = val[obs[i].name]

(* No wakeup is lost between the core and mpv_wait_event(): if all sleep,  *)
(* the client has received every event and has been told the present value *)
(* of all the properties it observes, and no mpv_destroy() sleeps.         *)
NothingMissed ==
  Quiet => cl.back = "scan" /\ ctx.events = <<>> /\ ~ctx.choked /\ \A i \in Listed : Told(i)

(* "Give old property notifications priority over hooks"                   *)
(* (mpv_wait_event()): when a hook is returned, the client has been told   *)
(* all changes that precede the hook.                                      *)
HookAfterChanges ==
  [][AtHook /\ ReturnEvent => \A i \in Listed : obs[i].ret_ts >= due[i]]_vars

(* mpv_wakeup() makes a waiting mpv_wait_event() return, and mpv_destroy() *)
(* returns, whatever the core is doing with the handle.                    *)
Served ==
  /\ ctx.queued_wakeup /\ cl.pc = "sleeping" /\ cl.back = "scan" ~> cl.pc = "idle"
  /\ cl.pc = "drain" ~> cl.pc = "gone"

(* A property value that is "not a stale value" (the comment on the        *)
(* timestamps in gen_property_change_event()) is the present one.          *)
NotStale ==
  \A i \in Listed : HasEvent(i) /\ obs[i].name \notin Plain => obs[i].value = val[obs[i].name]
=============================================================================
