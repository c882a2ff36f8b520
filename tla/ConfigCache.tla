---------------------------- MODULE ConfigCache ----------------------------
(***************************************************************************)
(* options/m_config_core.c: the options of the program are kept in one     *)
(* place (m_config_shadow), and each part that uses some of them has a     *)
(* copy of its own (m_config_cache), which its thread writes to and brings *)
(* up to date.  Changes are found by timestamps: of the whole, of each     *)
(* group of options, and of each cache.                                    *)
(*                                                                         *)
(* Options are numbered in the order in which an update passes them, group *)
(* by group.  Listeners are woken through mp_dispatch_enqueue_notify(): a  *)
(* notification is pending or not.                                         *)
(***************************************************************************)
EXTENDS Naturals

CONSTANTS
  Caches,
  NumOptions,     (* the options are 1..NumOptions                          *)
  Group,          (* Group[o] is the group of option o                     *)
  View,           (* View[c] is the set of groups that c has a copy of     *)
  Stepwise,       (* caches read by m_config_cache_get_next_changed(), the *)
                  (* others by m_config_cache_update()                     *)
  Forced,         (* options with force_update                             *)
  Values,
  MaxWrites       (* bound on shadow.ts                                    *)

Options == 1..NumOptions
Done == NumOptions + 1
Groups == {Group[o] : o \in Options}

(* The order of the options agrees with that of the groups.                *)
Assumption ==
  /\ NumOptions \in Nat /\ MaxWrites \in Nat /\ Values # {}
  /\ Forced \subseteq Options /\ Stepwise \subseteq Caches
  /\ Group \in [Options -> Nat]
  /\ \A o, p \in Options : o < p => Group[o] <= Group[p]
  /\ View \in [Caches -> SUBSET Groups]

VARIABLES
  shadow,         (* shadow->data and shadow->ts, force_update             *)
  cache,          (* the caches; upd: the option that was returned last, 0 *)
                  (* at the start of an update, Done (upd_group < 0)       *)
  pc,             (* what the thread of each cache does                    *)
  notified,       (* caches with a pending notification                    *)
  due, raced      (* of each cache: forced writes it has not reported; and *)
                  (* options written too late (see Race); only recorded    *)
vars == <<shadow, cache, pc, notified, due, raced>>

Viewed(c) == {o \in Options : Group[o] \in View[c]}

TypeOK ==
  /\ shadow \in [value : [Options -> Values], ts : 0..MaxWrites,
                 gts : [Groups -> 0..MaxWrites], force : [Forced -> 0..MaxWrites]]
  /\ cache \in [Caches -> [value : [Options -> Values], ts : 0..MaxWrites,
                           gts : [Groups -> 0..MaxWrites],
                           upd : {0, Done} \cup Options]]
  /\ pc \in [Caches -> {"idle", "check", "lock"}]
  /\ notified \subseteq Caches
  /\ due \in [Caches -> SUBSET Forced] /\ raced \in [Caches -> SUBSET Options]

Default == CHOOSE v \in Values : TRUE
Init ==
  /\ shadow = [value |-> [o \in Options |-> Default], ts |-> 0, gts |-> [g \in Groups |-> 0],
               force |-> [o \in Forced |-> 0]]
  /\ cache = [c \in Caches |-> [value |-> shadow.value, ts |-> 0, gts |-> shadow.gts,
                                upd |-> Done]]
  /\ pc = [c \in Caches |-> "idle"] /\ notified = {}
  /\ due = [c \in Caches |-> {}] /\ raced = [c \in Caches |-> {}]
-----------------------------------------------------------------------------
(* m_config_cache_write_opt()                                              *)

FirstOnly(o) ==                                                  (* mutant *)
  {d \in Caches : Group[o] \in View[d] /\ \A g \in View[d] : Group[o] <= g}
Listeners(o) == {d \in Caches : Group[o] \in View[d]}

(* Cache d has looked at the timestamp of the whole but not locked yet. A  *)
(* write to an option that it has passed in the group it is in will be     *)
(* taken for one that it has seen, and a forced write for an old one.      *)
Race(d, o) ==
  /\ pc[d] = "lock"
  /\ o \in Forced \/ (cache[d].upd \in o..(Done - 1) /\ Group[cache[d].upd] = Group[o])

Write(c, o, v) ==
  LET ts == shadow.ts + 1
      changed == v # shadow.value[o] \/ o \in Forced IN
  /\ pc[c] # "lock" /\ o \in Viewed(c)
  /\ shadow.ts < MaxWrites
  /\ cache' = [cache EXCEPT ![c].value[o] = v]
  /\ IF changed
     THEN /\ shadow' = [value |-> [shadow.value EXCEPT ![o] = v], ts |-> ts,
                        gts |-> [shadow.gts EXCEPT ![Group[o]] = ts],
                        force |-> [p \in Forced |-> IF p = o THEN ts ELSE shadow.force[p]]]
          /\ notified' = notified \cup Listeners(o)
          /\ due' = [d \in Caches |-> {o} \cap Forced \cap (IF d = c THEN {} ELSE Viewed(d))]
          /\ raced' = [d \in Caches |-> IF Race(d, o) THEN raced[d] \cup {o}
                                         ELSE raced[d] \ {o}]
     ELSE UNCHANGED <<shadow, notified, due, raced>>
  /\ UNCHANGED pc
-----------------------------------------------------------------------------
(* The thread of a cache brings it up to date, when it is notified and at  *)
(* other times, up to the end ("while (m_config_cache_get_next_changed())")*)
Call(c) == pc[c] = "idle" /\ pc' = [pc EXCEPT ![c] = "check"]

Notified(c) ==
  /\ c \in notified /\ Call(c) /\ notified' = notified \ {c}
  /\ UNCHANGED <<shadow, cache, due, raced>>

Poll(c) == Call(c) /\ UNCHANGED <<shadow, cache, notified, due, raced>>

(* cache_check_update(), without the lock                                  *)
Check(c) ==
  LET newer == cache[c].ts < shadow.ts IN
  /\ pc[c] = "check"
  /\ cache' = IF newer THEN [cache EXCEPT ![c].ts = shadow.ts, ![c].upd = 0] ELSE cache
  /\ pc' = [pc EXCEPT ![c] = IF newer \/ (c \in Stepwise /\ cache[c].upd # Done)
                             THEN "lock" ELSE "idle"]
  /\ UNCHANGED <<shadow, notified, due, raced>>

(* update_next_option(): the options that are found from the position of   *)
(* the update on, and the groups that it has passed when it returns next.  *)
ForcedNow(c, o) == o \in Forced /\ shadow.force[o] = cache[c].ts
Found(c) ==
  {o \in Viewed(c) :
     /\ o > cache[c].upd /\ cache[c].gts[Group[o]] < shadow.gts[Group[o]]
     /\ cache[c].value[o] # shadow.value[o] \/ ForcedNow(c, o)}
Passed(c, next) ==
  {g \in View[c] : /\ cache[c].upd \in Options => g >= Group[cache[c].upd]
                   /\ next \in Options => g < Group[next]}

Copy(c, options, next) ==
  [cache[c] EXCEPT
     !.value = [o \in Options |-> IF o \in options THEN shadow.value[o] ELSE @[o]],
     !.gts = [g \in Groups |-> IF g \in Passed(c, next) THEN shadow.gts[g] ELSE @[g]],
     !.upd = next]
Reports(c, options, next) ==
  /\ cache' = [cache EXCEPT ![c] = Copy(c, options, next)]
  /\ due' = [due EXCEPT ![c] = @ \ options]
  /\ raced' = [raced EXCEPT ![c] = @ \ options]
  /\ UNCHANGED <<shadow, notified>>

Update(c) ==                                  (* m_config_cache_update()   *)
  /\ pc[c] = "lock" /\ c \notin Stepwise
  /\ Reports(c, Found(c), Done)
  /\ pc' = [pc EXCEPT ![c] = "idle"]

NextChanged(c) ==                     (* m_config_cache_get_next_changed() *)
  \E next \in Found(c) \cup {Done} :
    /\ pc[c] = "lock" /\ c \in Stepwise
    /\ \A o \in Found(c) : next <= o
    /\ Reports(c, {next} \cap Options, next)
    /\ pc' = [pc EXCEPT ![c] = IF next = Done THEN "idle" ELSE "check"]
-----------------------------------------------------------------------------
Thread(c) == Notified(c) \/ Check(c) \/ Update(c) \/ NextChanged(c)
Next ==
  \E c \in Caches : \/ Thread(c) \/ Poll(c)
                    \/ \E o \in Options, v \in Values : Write(c, o, v)

Spec == Init /\ [][Next]_vars
-----------------------------------------------------------------------------
Differs(c, o) == o \in Viewed(c) /\ cache[c].value[o] # shadow.value[o]

(* Every cache gets every change of an option it has a copy of, forced     *)
(* writes of the same value included, unless a later write comes before it *)
(* or the race above hides it: while it has a change to report, its thread *)
(* is at it, or is notified and will be.  (m_config_core.h:103: "This      *)
(* returns true as long as there is a changed option".)                    *)
Told ==
  \A c \in Caches, o \in Options :
    (Differs(c, o) \/ o \in due[c]) /\ o \notin raced[c] => c \in notified \/ pc[c] # "idle"
=============================================================================
