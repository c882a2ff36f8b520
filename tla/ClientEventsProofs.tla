-------------------------- MODULE ClientEventsProofs --------------------------
(* Proofs about ClientEvents, for any ring buffer, any properties and any  *)
(* number of calls: the shape of the state, what the operators and the     *)
(* steps do field by field, the parts of the inductive invariant with a    *)
(* lemma for each, and the theorems.  Each part rests on earlier ones.     *)
EXTENDS ClientEvents, SequenceTheorems, NaturalsInduction, WellFoundedInduction, TLAPS

CorePC == {"work", "told", "pass", "read", "got", "sleep", "done"}
ClientPC == {"idle", "scan", "unlocked", "sleeping", "late", "drain", "remove", "gone"}

Handle ==
  [events : Seq(Kinds \cup {"reply"}), reserved : Int, async : Int, choked : BOOLEAN,
   mask : SUBSET Kinds, hook_pending : BOOLEAN, destroying : BOOLEAN, alive : BOOLEAN,
   queued_wakeup : BOOLEAN, need_wakeup : BOOLEAN,
   props : Seq(Ids), props_ts : Nat, has_pending : BOOLEAN,
   new_events : BOOLEAN, cur_index : Nat, cur_property : Ids \cup {NoId}]
Observed ==
  [name : Names \cup {"none"}, ts : Nat, value_ts : Nat, value : Values \cup {"none"},
   ret_ts : Nat, ret : Values \cup {"none"}, hook : BOOLEAN, refs : Int]
CoreThread ==
  [pc : CorePC, awake : BOOLEAN, n : Nat \ {0}, id : Ids \cup {NoId}, list_ts : Nat,
   val : Values \cup {"none"}, requests : Nat, hook : BOOLEAN, down : BOOLEAN, timer : BOOLEAN]
ClientThread == [pc : ClientPC, back : {"scan", "drain"}, timed : BOOLEAN]

SameRing(c, d) == d.events = c.events /\ d.reserved = c.reserved /\ d.choked = c.choked
SameLife(c, d) == d.destroying = c.destroying /\ d.alive = c.alive
SameProps(c, d) == d.props = c.props /\ d.props_ts = c.props_ts

Reading == core.pc \in {"read", "got"}
Named(i) == i \in Ids /\ obs[i].name \in Names

Typed ==
  /\ ctx \in Handle /\ obs \in [Ids -> Observed] /\ val \in [Names -> Values]
  /\ core \in CoreThread /\ cl \in ClientThread
  /\ ops \in [does : Uses, n : Nat] /\ due \in [Ids -> Nat]
  /\ Reading => Named(core.id)
  /\ \A k \in 1..Len(ctx.props) : Named(ctx.props[k])
-----------------------------------------------------------------------------
(* The operators of the model.                                             *)

(* A set of numbers has a least one.                                       *)
LEMMA Least ==
  ASSUME NEW T, T \subseteq Nat, T # {} PROVE \E x \in T : \A y \in T : x <= y
<1>1. \E x \in T : \A y \in T : ~(<<y, x>> \in OpToRel(<, Nat))
  BY NatLessThanWellFounded, WFMin
<1>2. \A x, y \in Nat : x < y => <<x, y>> \in OpToRel(<, Nat)
  BY DEF OpToRel
<1>3. PICK x \in T : \A y \in T : ~(<<y, x>> \in OpToRel(<, Nat)) BY <1>1
<1>4. \A y \in T : ~(y < x) BY <1>2, <1>3
<1>5. \A y \in T : x <= y BY <1>4
<1> QED BY <1>5

(* What an event does to the handle: it is appended and wakes up the       *)
(* client, or there is no room and the client gets to know.                *)
SameBut(c, d) ==
  /\ SameLife(c, d) /\ SameProps(c, d)
  /\ d.reserved = c.reserved /\ d.async = c.async /\ d.hook_pending = c.hook_pending
  /\ d.has_pending = c.has_pending /\ d.new_events = c.new_events
  /\ d.cur_index = c.cur_index /\ d.cur_property = c.cur_property

LEMMA Appends ==
  ASSUME NEW c \in Handle, NEW e \in Kinds \cup {"reply"}, NEW d, d = append_event(c, e)
  PROVE  /\ d \in Handle /\ SameBut(c, d) /\ d.choked = c.choked
         /\ d.events = Append(c.events, e) /\ d.need_wakeup
<1>1. Append(c.events, e) \in Seq(Kinds \cup {"reply"}) BY AppendProperties DEF Handle
<1> QED BY <1>1 DEF append_event, wakeup_client, Handle, SameBut, SameLife, SameProps

LEMMA Sends ==
  ASSUME NEW c \in Handle, NEW e \in Kinds, NEW d, d = send_event(c, e)
  PROVE  /\ d \in Handle /\ SameBut(c, d)
         /\ \/ d = c /\ Refuses(c, e) = (c.choked /\ e \in c.mask)
            \/ Room(c) /\ ~Refuses(c, e) /\ d.choked = c.choked /\ d.events = Append(c.events, e) /\ d.need_wakeup
            \/ Refuses(c, e) /\ ~Room(c) /\ d.choked /\ d.events = c.events /\ d.need_wakeup = c.need_wakeup
<1>1. CASE e \notin c.mask \/ c.choked BY <1>1 DEF send_event, Refuses, SameBut, SameLife, SameProps, Handle
<1>2. CASE e \in c.mask /\ ~c.choked /\ Room(c)
  BY <1>2, Appends DEF send_event, Refuses
<1>3. CASE e \in c.mask /\ ~c.choked /\ ~Room(c)
  BY <1>3 DEF send_event, Refuses, SameBut, SameLife, SameProps, Handle
<1> QED BY <1>1, <1>2, <1>3 DEF Handle

(* One entry leaves the list.                                              *)
LEMMA Removes ==
  ASSUME NEW s \in Seq(Ids), NEW k \in 1..Len(s), NEW t, t = RemoveAt(s, k)
  PROVE  /\ t \in Seq(Ids) /\ Len(t) = Len(s) - 1
         /\ \A j \in 1..Len(s) - 1 : t[j] = s[IF j < k THEN j ELSE j + 1]
<1>1. Len(s) \in Nat BY LenProperties
<1> DEFINE a == SubSeq(s, 1, k - 1)  b == SubSeq(s, k + 1, Len(s))
<1>2. /\ a \in Seq(Ids) /\ Len(a) = k - 1 /\ \A j \in 1..k - 1 : a[j] = s[j]
  BY <1>1, SubSeqProperties
<1>3. /\ b \in Seq(Ids) /\ Len(b) = Len(s) - k /\ \A j \in 1..Len(s) - k : b[j] = s[k + j]
  BY <1>1, SubSeqProperties
<1>4. t = a \o b BY DEF RemoveAt
<1> HIDE DEF a, b
<1>5. /\ t \in Seq(Ids) /\ Len(t) = Len(a) + Len(b)
      /\ \A j \in 1..Len(a) + Len(b) : /\ j <= Len(a) => t[j] = a[j]
                                       /\ ~(j <= Len(a)) => t[j] = b[j - Len(a)]
  <2>1. a \in Seq(Ids) /\ b \in Seq(Ids) BY <1>2, <1>3
  <2> QED BY <2>1, <1>4, ConcatProperties
<1>6. Len(t) = Len(s) - 1 BY <1>1, <1>2, <1>3, <1>5
<1>7. ASSUME NEW j \in 1..Len(s) - 1 PROVE t[j] = s[IF j < k THEN j ELSE j + 1]
  <2>1. CASE j < k BY <1>1, <1>2, <1>3, <1>5, <2>1
  <2>2. CASE ~(j < k)
    <3>1. j - (k - 1) \in 1..Len(s) - k /\ k + (j - (k - 1)) = j + 1 BY <1>1, <2>2
    <3>2. t[j] = b[j - (k - 1)] BY <1>1, <1>2, <1>3, <1>5, <2>2
    <3> QED BY <1>3, <3>1, <3>2, <2>2
  <2> QED BY <2>1, <2>2
<1> QED BY <1>5, <1>6, <1>7

(* gen_property_change_event() finds the first property with a change.     *)
LEMMA Finds ==
  ASSUME Typed, Found # {}
  PROVE  /\ First(Found) \in Found /\ \A k \in Found : First(Found) <= k
         /\ Found \subseteq 1..Len(ctx.props)
<1>1. Len(ctx.props) \in Nat BY LenProperties DEF Typed, Handle
<1>2. Found \subseteq 1..Len(ctx.props)
  <2>1. ctx.cur_index \in Nat BY DEF Typed, Handle
  <2> QED BY <1>1, <2>1 DEF Found, After
<1> DEFINE T == Found
<1>3. T \subseteq Nat /\ T # {} BY <1>1, <1>2
<1> HIDE DEF T
<1>4. \E x \in T : \A y \in T : x <= y BY <1>3, Least
<1> QED BY <1>2, <1>4 DEF First, T

(* The flags that hold back a hook change nothing else.                    *)
LEMMA Flags ==
  ASSUME Typed
  PROVE  /\ Flagged \in [Ids -> Observed]
         /\ \A i \in Ids : /\ Flagged[i].name = obs[i].name /\ Flagged[i].ts = obs[i].ts
                           /\ Flagged[i].value_ts = obs[i].value_ts /\ Flagged[i].value = obs[i].value
                           /\ Flagged[i].ret_ts = obs[i].ret_ts /\ Flagged[i].ret = obs[i].ret
                           /\ Flagged[i].refs = obs[i].refs
                           /\ Flagged[i].hook = (obs[i].hook \/ (AtHook /\ ~ctx.hook_pending /\ i \in Listed
                                                                 /\ obs[i].ret_ts # obs[i].ts))
<1> SUFFICES ASSUME NEW i \in Ids
             PROVE  /\ Flagged[i] \in Observed
                    /\ Flagged[i].name = obs[i].name /\ Flagged[i].ts = obs[i].ts
                    /\ Flagged[i].value_ts = obs[i].value_ts /\ Flagged[i].value = obs[i].value
                    /\ Flagged[i].ret_ts = obs[i].ret_ts /\ Flagged[i].ret = obs[i].ret
                    /\ Flagged[i].refs = obs[i].refs
                    /\ Flagged[i].hook = (obs[i].hook \/ (AtHook /\ ~ctx.hook_pending /\ i \in Listed
                                                          /\ obs[i].ret_ts # obs[i].ts))
  BY DEF Flagged
<1> DEFINE flag == AtHook /\ ~ctx.hook_pending /\ i \in Listed /\ obs[i].ret_ts # obs[i].ts
<1>1. Flagged[i] = IF flag THEN [obs[i] EXCEPT !.hook = TRUE] ELSE obs[i] BY DEF Flagged
<1>2. obs[i] \in Observed BY DEF Typed
<1> HIDE DEF flag
<1>3. flag \in BOOLEAN BY DEF flag
<1>4. CASE flag
  <2>1. Flagged[i] = [obs[i] EXCEPT !.hook = TRUE] BY <1>1, <1>4
  <2> QED BY <1>2, <1>4, <2>1 DEF Observed, flag
<1>5. CASE ~flag
  <2>1. Flagged[i] = obs[i] BY <1>1, <1>5
  <2>2. obs[i].hook \in BOOLEAN BY <1>2 DEF Observed
  <2> QED BY <1>2, <1>5, <2>1, <2>2 DEF flag
<1> QED BY <1>4, <1>5

(* A property changes: those who observe it have a newer change_ts.        *)
LEMMA Bumps ==
  ASSUME Typed, NEW names
  PROVE  /\ Bump(names) \in [Ids -> Observed]
         /\ \A i \in Ids : /\ Bump(names)[i] = [obs[i] EXCEPT !.ts = Bump(names)[i].ts]
                           /\ Bump(names)[i].ts = IF i \in Listed /\ obs[i].name \in names
                                                  THEN obs[i].ts + 1 ELSE obs[i].ts
<1> SUFFICES ASSUME NEW i \in Ids
             PROVE  /\ Bump(names)[i] \in Observed
                    /\ Bump(names)[i] = [obs[i] EXCEPT !.ts = Bump(names)[i].ts]
                    /\ Bump(names)[i].ts = IF i \in Listed /\ obs[i].name \in names
                                           THEN obs[i].ts + 1 ELSE obs[i].ts
  BY DEF Bump
<1> DEFINE b == i \in Listed /\ obs[i].name \in names
<1>1. Bump(names)[i] = IF b THEN [obs[i] EXCEPT !.ts = @ + 1] ELSE obs[i] BY DEF Bump
<1>2. obs[i] \in Observed BY DEF Typed
<1> HIDE DEF b
<1>3. CASE b
  <2>1. Bump(names)[i] = [obs[i] EXCEPT !.ts = @ + 1] BY <1>1, <1>3
  <2> QED BY <1>2, <1>3, <2>1 DEF Observed, b
<1>4. CASE ~b
  <2>1. Bump(names)[i] = obs[i] BY <1>1, <1>4
  <2> QED BY <1>2, <1>4, <2>1 DEF Observed, b
<1> QED BY <1>3, <1>4

(* The core knows the value of property i.                                 *)
LEMMA Knows ==
  ASSUME Typed, NEW c \in Handle, NEW i \in Ids, NEW v \in Values \cup {"none"}, Known(c, i, v)
  PROVE  /\ obs' \in [Ids -> Observed] /\ \A j \in Ids \ {i} : obs'[j] = obs[j]
         /\ obs'[i].name = obs[i].name /\ obs'[i].ts = obs[i].ts
         /\ obs'[i].value_ts = obs[i].ts /\ obs'[i].value = v /\ obs'[i].ret = obs[i].ret
         /\ NoEvent(obs[i], v) => obs'[i].ret_ts = obs[i].ts /\ ~obs'[i].hook
         /\ ~NoEvent(obs[i], v) => obs'[i].ret_ts = obs[i].ret_ts /\ obs'[i].hook = obs[i].hook
         /\ obs'[i].refs = obs[i].refs - One(core.pc = "got")
         /\ ctx' \in Handle /\ SameRing(c, ctx') /\ SameLife(c, ctx') /\ SameProps(c, ctx')
         /\ ctx'.async = c.async /\ ctx'.need_wakeup = c.need_wakeup /\ ctx'.has_pending = c.has_pending
         /\ ctx'.cur_index = c.cur_index /\ ctx'.cur_property = c.cur_property
         /\ ctx'.hook_pending = c.hook_pending
         /\ ctx'.new_events = (c.new_events \/ obs[i].hook \/ ~NoEvent(obs[i], v))
         /\ core' = [core EXCEPT !.pc = "pass", !.n = @ + 1]
<1>1. obs[i] \in Observed BY DEF Typed
<1> DEFINE skip == NoEvent(obs[i], v)
           x == IF skip THEN Skip(obs[i], v) ELSE Store(obs[i], v)
           y == [x EXCEPT !.refs = @ - One(core.pc = "got")]
           new == c.new_events \/ obs[i].hook \/ ~NoEvent(obs[i], v)
<1>2. obs' = [obs EXCEPT ![i] = y] /\ core' = [core EXCEPT !.pc = "pass", !.n = @ + 1]
      /\ ctx' = [c EXCEPT !.new_events = new]
  <2>1. core' = [core EXCEPT !.pc = "pass", !.n = @ + 1] BY DEF Known
  <2>2. ctx' = [c EXCEPT !.new_events = new] BY DEF Known
  <2>3. obs' = [obs EXCEPT ![i] = y] BY DEF Known
  <2> QED BY <2>1, <2>2, <2>3
<1>3. /\ x \in Observed /\ x.name = obs[i].name /\ x.ts = obs[i].ts /\ x.refs = obs[i].refs
      /\ x.value_ts = obs[i].ts /\ x.value = v /\ x.ret = obs[i].ret
      /\ NoEvent(obs[i], v) => x.ret_ts = obs[i].ts /\ ~x.hook
      /\ ~NoEvent(obs[i], v) => x.ret_ts = obs[i].ret_ts /\ x.hook = obs[i].hook
  <2>1. CASE skip
    <3>1. x = Skip(obs[i], v) BY <2>1
    <3> QED BY <1>1, <2>1, <3>1 DEF Skip, Store, Observed
  <2>2. CASE ~skip
    <3>1. x = Store(obs[i], v) BY <2>2
    <3> QED BY <1>1, <2>2, <3>1 DEF Store, Observed
  <2> QED BY <2>1, <2>2
<1>4. y \in Observed /\ y = [x EXCEPT !.refs = y.refs] /\ y.refs = x.refs - One(core.pc = "got")
  <2> HIDE DEF x
  <2>1. x \in Observed BY <1>3
  <2> QED BY <2>1 DEF Observed, One
<1>5. new \in BOOLEAN BY DEF NoEvent, Handle
<1> HIDE DEF x, y, new
<1>6. obs' \in [Ids -> Observed] /\ obs'[i] = y /\ \A j \in Ids \ {i} : obs'[j] = obs[j]
  BY <1>2, <1>4 DEF Typed
<1>7. /\ ctx' \in Handle /\ SameRing(c, ctx') /\ SameLife(c, ctx') /\ SameProps(c, ctx')
      /\ ctx'.async = c.async /\ ctx'.need_wakeup = c.need_wakeup /\ ctx'.has_pending = c.has_pending
      /\ ctx'.cur_index = c.cur_index /\ ctx'.cur_property = c.cur_property
      /\ ctx'.hook_pending = c.hook_pending /\ ctx'.new_events = new
  BY <1>2, <1>5 DEF Handle, SameRing, SameLife, SameProps
<1>8. /\ y.name = x.name /\ y.ts = x.ts /\ y.value_ts = x.value_ts /\ y.value = x.value
      /\ y.ret = x.ret /\ y.ret_ts = x.ret_ts /\ y.hook = x.hook
  BY <1>3, <1>4 DEF Observed
<1> QED BY <1>2, <1>3, <1>4, <1>6, <1>7, <1>8 DEF new

(* The core has looked at all properties.                                  *)
LEMMA Passes ==
  ASSUME NEW c \in Handle, NEW d, d = PassDone(c)
  PROVE  /\ d \in Handle /\ SameRing(c, d) /\ SameBut(c, d)
         /\ d.need_wakeup = (c.need_wakeup \/ c.destroying \/ c.new_events)
<1>1. CASE c.destroying \/ c.new_events
  BY <1>1 DEF PassDone, wakeup_client, Handle, SameRing, SameBut, SameLife, SameProps
<1>2. CASE ~(c.destroying \/ c.new_events)
  BY <1>2 DEF PassDone, Handle, SameRing, SameBut, SameLife, SameProps
<1> QED BY <1>1, <1>2

(* What the client notes of the ring buffer and of the list.               *)
LEMMA Sees ==
  ASSUME NEW d, d = Seen, ctx \in Handle
  PROVE  /\ d \in Handle /\ SameRing(ctx, d) /\ SameLife(ctx, d) /\ SameProps(ctx, d)
         /\ d.async = ctx.async /\ d.need_wakeup = ctx.need_wakeup /\ d.has_pending = ctx.has_pending
         /\ d.cur_index = ctx.cur_index /\ d.cur_property = ctx.cur_property
         /\ d.hook_pending = (ctx.hook_pending \/ AtHook)
         /\ d.new_events = (ctx.new_events /\ ~Rewinds /\ (Found = {} => ctx.props # <<>>))
<1> DEFINE h == ctx.hook_pending \/ AtHook
           n == ctx.new_events /\ ~Rewinds /\ (Found = {} => ctx.props # <<>>)
<1>1. d = [ctx EXCEPT !.hook_pending = h, !.new_events = n] BY DEF Seen
<1>2. h \in BOOLEAN /\ n \in BOOLEAN BY DEF Handle
<1> HIDE DEF h, n
<1>3. /\ d \in Handle /\ SameRing(ctx, d) /\ SameLife(ctx, d) /\ SameProps(ctx, d)
      /\ d.async = ctx.async /\ d.need_wakeup = ctx.need_wakeup /\ d.has_pending = ctx.has_pending
      /\ d.cur_index = ctx.cur_index /\ d.cur_property = ctx.cur_property
      /\ d.hook_pending = h /\ d.new_events = n
  BY <1>1, <1>2, ZenonT(60) DEF Handle, SameRing, SameLife, SameProps
<1> QED BY <1>3 DEF h, n

(* The core goes on with the next property of the list.                    *)
Stale(i) == obs[i].value_ts # obs[i].ts

LEMMA PassesOne ==
  ASSUME Typed, PassProp
  PROVE  /\ core.pc = "pass" /\ UNCHANGED <<val, cl, ops, due>>
         /\ \/ /\ core.n > Len(ctx.props) /\ ctx' = PassDone(ctx) /\ UNCHANGED obs
               /\ core' = [core EXCEPT !.pc = "sleep"]
            \/ /\ core.n \in 1..Len(ctx.props) /\ ~Stale(Prop) /\ UNCHANGED <<ctx, obs>>
               /\ core' = [core EXCEPT !.n = @ + 1]
            \/ /\ core.n \in 1..Len(ctx.props) /\ Stale(Prop) /\ Prop \in Ids
               /\ obs[Prop].name \in Plain /\ Known(ctx, Prop, "none")
            \/ /\ core.n \in 1..Len(ctx.props) /\ Stale(Prop) /\ Prop \in Ids
               /\ obs[Prop].name \notin Plain
               /\ obs' = [obs EXCEPT ![Prop].refs = @ + 1]
               /\ ctx' = [ctx EXCEPT !.async = @ + 1]
               /\ core' = [core EXCEPT !.pc = "read", !.id = Prop]
<1>1. core.n \in Nat \ {0} /\ Len(ctx.props) \in Nat
  BY LenProperties DEF Typed, CoreThread, Handle
<1>2. core.n \in 1..Len(ctx.props) => Prop \in Ids BY DEF Prop, Typed, Named
<1>3. core.pc = "pass" /\ UNCHANGED <<val, cl, ops, due>> BY DEF PassProp
<1>4. CASE core.n > Len(ctx.props) BY <1>1, <1>3, <1>4 DEF PassProp
<1>5. CASE core.n \in 1..Len(ctx.props) /\ ~Stale(Prop) BY <1>1, <1>3, <1>5 DEF PassProp, Stale
<1>6. CASE core.n \in 1..Len(ctx.props) /\ Stale(Prop) BY <1>1, <1>2, <1>3, <1>6, SMTT(60) DEF PassProp, Stale
<1> QED BY <1>1, <1>4, <1>5, <1>6

(* The client gets the value of property i.                                *)
LEMMA Returns ==
  ASSUME Typed, ReturnProperty, NEW k, k = First(Found), NEW i, i = ctx.props[k]
  PROVE  /\ k \in 1..Len(ctx.props) /\ i \in Ids /\ HasEvent(i)
         /\ \A j \in 1..Len(ctx.props) :
              j < k /\ (j > ctx.cur_index \/ Rewinds) => ~HasEvent(ctx.props[j])
         /\ cl.pc = "scan" /\ cl' = [cl EXCEPT !.pc = "idle"] /\ UNCHANGED <<val, core, ops, due>>
         /\ obs' \in [Ids -> Observed]
         /\ \A j \in Ids : /\ obs'[j].name = obs[j].name /\ obs'[j].ts = obs[j].ts
                           /\ obs'[j].value_ts = obs[j].value_ts /\ obs'[j].value = obs[j].value
                           /\ obs'[j].refs = obs[j].refs - One(j = ctx.cur_property) + One(j = i)
         /\ \A j \in Ids \ {i} : /\ obs'[j].ret_ts = obs[j].ret_ts /\ obs'[j].ret = obs[j].ret
                                 /\ obs'[j].hook = Flagged[j].hook
         /\ obs'[i].ret_ts = obs[i].value_ts /\ ~obs'[i].hook /\ obs'[i].ret = obs[i].value
         /\ ctx' \in Handle /\ SameRing(ctx, ctx') /\ SameLife(ctx, ctx') /\ SameProps(ctx, ctx')
         /\ ctx'.async = ctx.async /\ ctx'.need_wakeup = ctx.need_wakeup
         /\ ctx'.has_pending = ctx.has_pending
         /\ ctx'.cur_index = k /\ ctx'.cur_property = i
         /\ ctx'.hook_pending = (ctx.hook_pending \/ AtHook)
         /\ ctx'.new_events = (ctx.new_events /\ ~Rewinds)
<1>a. ctx \in Handle /\ obs \in [Ids -> Observed] BY DEF Typed
<1>b. ctx.props \in Seq(Ids) /\ Len(ctx.props) \in Nat /\ ctx.cur_index \in Nat BY <1>a, LenProperties DEF Handle
<1> DEFINE o == unref(Flagged, ctx.cur_property)
<1>1. /\ ctx' = Returned([Seen EXCEPT !.cur_index = k, !.cur_property = i])
      /\ obs' = [o EXCEPT ![i].ret_ts = obs[i].value_ts, ![i].hook = FALSE,
                          ![i].ret = obs[i].value, ![i].refs = @ + 1]
      /\ cl.pc = "scan" /\ cl' = [cl EXCEPT !.pc = "idle"] /\ UNCHANGED <<val, core, ops, due>>
      /\ Found # {}
  BY DEF ReturnProperty, Scanning
<1>2. k \in Found /\ k \in 1..Len(ctx.props) /\ \A j \in Found : k <= j BY <1>1, Finds
<1>3. i \in Ids /\ HasEvent(i)
  <2>1. HasEvent(ctx.props[k]) BY <1>2 DEF Found, After
  <2> QED BY <1>2, <2>1 DEF Typed, Named
<1>4. \A j \in 1..Len(ctx.props) : j < k /\ (j > ctx.cur_index \/ Rewinds) => ~HasEvent(ctx.props[j])
  <2> TAKE j \in 1..Len(ctx.props)
  <2> SUFFICES ASSUME j < k, j > ctx.cur_index \/ Rewinds, HasEvent(ctx.props[j]) PROVE FALSE
    OBVIOUS
  <2>1. j \in Found
    <3>1. CASE Rewinds BY <1>b, <3>1 DEF Found, After
    <3>2. CASE ~Rewinds BY <1>b, <3>2 DEF Found, After
    <3> QED BY <3>1, <3>2
  <2> QED BY <1>b, <1>2, <2>1
<1>5. PICK f \in [Ids -> Observed] :
        /\ f = Flagged
        /\ \A j \in Ids : /\ f[j].name = obs[j].name /\ f[j].ts = obs[j].ts
                          /\ f[j].value_ts = obs[j].value_ts /\ f[j].value = obs[j].value
                          /\ f[j].ret_ts = obs[j].ret_ts /\ f[j].ret = obs[j].ret
                          /\ f[j].refs = obs[j].refs
  BY Flags
<1>6. /\ o \in [Ids -> Observed]
      /\ \A j \in Ids : o[j] = [f[j] EXCEPT !.refs = obs[j].refs - One(j = ctx.cur_property)]
  <2>1. CASE ctx.cur_property = NoId
    <3>1. o = f BY <1>5, <2>1 DEF unref
    <3>2. \A j \in Ids : j # ctx.cur_property BY <2>1, ClientEventsAssumption
    <3>3. \A j \in Ids : f[j] = [f[j] EXCEPT !.refs = obs[j].refs - One(j = ctx.cur_property)]
      BY <1>5, <3>2 DEF One, Observed
    <3> QED BY <1>5, <3>1, <3>3
  <2>2. CASE ctx.cur_property # NoId
    <3>1. ctx.cur_property \in Ids BY <1>a, <2>2 DEF Handle
    <3>2. PICK x : x = [f[ctx.cur_property] EXCEPT !.refs = @ - 1] OBVIOUS
    <3>3. x \in Observed /\ x = [f[ctx.cur_property] EXCEPT !.refs = obs[ctx.cur_property].refs - 1]
      BY <1>5, <3>1, <3>2 DEF Observed
    <3>4. o = [f EXCEPT ![ctx.cur_property] = x] BY <1>5, <2>2, <3>2 DEF unref
    <3>5. \A j \in Ids \ {ctx.cur_property} : f[j] = [f[j] EXCEPT !.refs = obs[j].refs - One(j = ctx.cur_property)]
      BY <1>5, SMTT(60) DEF One, Observed
    <3> HIDE DEF o
    <3> QED BY <1>5, <3>1, <3>3, <3>4, <3>5 DEF One
  <2> QED BY <2>1, <2>2
<1> HIDE DEF o
<1>7. /\ obs'[i] = [o[i] EXCEPT !.ret_ts = obs[i].value_ts, !.hook = FALSE,
                                !.ret = obs[i].value, !.refs = o[i].refs + 1]
      /\ \A j \in Ids \ {i} : obs'[j] = o[j]
  BY <1>1, <1>3, <1>6, ZenonT(60)
<1>8. ASSUME NEW j \in Ids
      PROVE  /\ o[j].name = obs[j].name /\ o[j].ts = obs[j].ts
             /\ o[j].value_ts = obs[j].value_ts /\ o[j].value = obs[j].value
             /\ o[j].ret_ts = obs[j].ret_ts /\ o[j].ret = obs[j].ret
             /\ o[j].hook = Flagged[j].hook /\ o[j].refs \in Int
             /\ o[j].refs = obs[j].refs - One(j = ctx.cur_property)
  <2>1. o[j] \in Observed /\ f[j] \in Observed BY <1>5, <1>6
  <2>2. obs[j].refs - One(j = ctx.cur_property) \in Int BY <1>a DEF Observed, One
  <2> QED BY <1>5, <1>6, <2>1, <2>2 DEF Observed
<1>9. /\ obs'[i].name = obs[i].name /\ obs'[i].ts = obs[i].ts
      /\ obs'[i].value_ts = obs[i].value_ts /\ obs'[i].value = obs[i].value
      /\ obs'[i].refs = o[i].refs + 1
      /\ obs'[i].ret_ts = obs[i].value_ts /\ ~obs'[i].hook /\ obs'[i].ret = obs[i].value
  <2>1. o[i] \in Observed BY <1>3, <1>6
  <2> QED BY <1>3, <1>7, <1>8, <2>1 DEF Observed
<1>16. obs' \in [Ids -> Observed]
  <2>1. obs[i].value_ts \in Nat /\ obs[i].value \in Values \cup {"none"} BY <1>a, <1>3 DEF Observed
  <2>2. PICK x : x = [o[i] EXCEPT !.ret_ts = obs[i].value_ts, !.hook = FALSE,
                                  !.ret = obs[i].value, !.refs = o[i].refs + 1]
    OBVIOUS
  <2>3. x \in Observed
    <3>1. o[i] \in Observed /\ o[i].refs + 1 \in Int BY <1>3, <1>6, <1>8
    <3> QED BY <2>1, <2>2, <3>1, ZenonT(60) DEF Observed
  <2>4. obs' = [o EXCEPT ![i] = x] BY <1>1, <2>2
  <2> QED BY <1>6, <2>3, <2>4
<1>10. \A j \in Ids : obs'[j].refs = obs[j].refs - One(j = ctx.cur_property) + One(j = i)
  <2> TAKE j \in Ids
  <2>1. PICK a \in Int, b \in Int : a = obs[j].refs /\ b = One(j = ctx.cur_property)
    BY <1>a DEF Observed, One
  <2>2. o[j].refs = a - b BY <1>8, <2>1
  <2>3. CASE j = i
    <3>1. obs'[j].refs = o[j].refs + 1 BY <1>9, <2>3
    <3>2. One(j = i) = 1 BY <2>3 DEF One
    <3> QED BY <2>1, <2>2, <3>1, <3>2
  <2>4. CASE j # i
    <3>1. obs'[j].refs = o[j].refs BY <1>7, <2>4
    <3>2. One(j = i) = 0 BY <2>4 DEF One
    <3> QED BY <2>1, <2>2, <3>1, <3>2
  <2> QED BY <2>3, <2>4
<1>11. PICK c \in Handle :
         /\ c = Seen /\ SameRing(ctx, c) /\ SameLife(ctx, c) /\ SameProps(ctx, c)
         /\ c.async = ctx.async /\ c.need_wakeup = ctx.need_wakeup /\ c.has_pending = ctx.has_pending
         /\ c.hook_pending = (ctx.hook_pending \/ AtHook)
         /\ c.new_events = (ctx.new_events /\ ~Rewinds)
  BY <1>a, <1>1, Sees
<1>12. ctx' = [c EXCEPT !.cur_index = k, !.cur_property = i, !.queued_wakeup = FALSE]
  <2>1. ctx' = [[c EXCEPT !.cur_index = k, !.cur_property = i] EXCEPT !.queued_wakeup = FALSE]
    BY <1>1, <1>11 DEF Returned
  <2> QED BY <2>1
<1>13. k \in Nat BY <1>b, <1>2
<1>14. /\ ctx' \in Handle /\ SameRing(c, ctx') /\ SameLife(c, ctx') /\ SameProps(c, ctx')
       /\ ctx'.async = c.async /\ ctx'.need_wakeup = c.need_wakeup /\ ctx'.has_pending = c.has_pending
       /\ ctx'.cur_index = k /\ ctx'.cur_property = i
       /\ ctx'.hook_pending = c.hook_pending /\ ctx'.new_events = c.new_events
  BY <1>3, <1>12, <1>13, ZenonT(60) DEF Handle, SameRing, SameLife, SameProps
<1>15. SameRing(ctx, ctx') /\ SameLife(ctx, ctx') /\ SameProps(ctx, ctx')
  BY <1>11, <1>14 DEF SameRing, SameLife, SameProps
<1>17. \A j \in Ids \ {i} : /\ obs'[j].name = obs[j].name /\ obs'[j].ts = obs[j].ts
                            /\ obs'[j].value_ts = obs[j].value_ts /\ obs'[j].value = obs[j].value
                            /\ obs'[j].ret_ts = obs[j].ret_ts /\ obs'[j].ret = obs[j].ret
                            /\ obs'[j].hook = Flagged[j].hook
  BY <1>7, <1>8
<1>18. \A j \in Ids : /\ obs'[j].name = obs[j].name /\ obs'[j].ts = obs[j].ts
                      /\ obs'[j].value_ts = obs[j].value_ts /\ obs'[j].value = obs[j].value
  BY <1>9, <1>17
<1>19. /\ ctx'.async = ctx.async /\ ctx'.need_wakeup = ctx.need_wakeup
       /\ ctx'.has_pending = ctx.has_pending
       /\ ctx'.hook_pending = (ctx.hook_pending \/ AtHook)
       /\ ctx'.new_events = (ctx.new_events /\ ~Rewinds)
  BY <1>11, <1>14
<1> QED BY <1>1, <1>2, <1>3, <1>4, <1>9, <1>10, <1>14, <1>15, <1>16, <1>17, <1>18, <1>19, ZenonT(60)
-----------------------------------------------------------------------------
(* Every variable keeps its type.                                          *)
LEMMA TypedStep == ASSUME Typed, [Next]_vars PROVE Typed'
<1>a. ctx \in Handle BY DEF Typed
<1>b. obs \in [Ids -> Observed] BY DEF Typed
<1>c. core \in CoreThread BY DEF Typed
<1>d. cl \in ClientThread BY DEF Typed
<1>e. val \in [Names -> Values] /\ ops \in [does : Uses, n : Nat] /\ due \in [Ids -> Nat] BY DEF Typed
<1>f. ctx.props \in Seq(Ids) /\ Len(ctx.props) \in Nat BY <1>a, LenProperties DEF Handle
<1>g. ASSUME obs' \in [Ids -> Observed], \A i \in Ids : obs'[i].name = obs[i].name,
             ctx' \in Handle, ctx'.props = ctx.props,
             core' \in CoreThread, Reading' => Named(core'.id),
             cl' \in ClientThread, val' \in [Names -> Values],
             ops' \in [does : Uses, n : Nat], due' \in [Ids -> Nat]
      PROVE  Typed'
  <2>1. \A j \in Ids : Named(j) => Named(j)' BY <1>g DEF Named
  <2>2. (Reading => Named(core.id))'
    <3>1. Reading' => Named(core'.id) /\ core'.id \in Ids BY <1>g DEF Named
    <3> QED BY <1>g, <3>1 DEF Named
  <2>3. (\A k \in 1..Len(ctx.props) : Named(ctx.props[k]))'
    <3>1. \A k \in 1..Len(ctx.props) : ctx.props[k] \in Ids /\ obs[ctx.props[k]].name \in Names
      BY DEF Typed, Named
    <3> QED BY <1>g, <3>1 DEF Named
  <2> QED BY <1>g, <2>2, <2>3 DEF Typed
<1>h. Reading => Named(core.id) BY DEF Typed
<1>i. ASSUME NEW u, Op(u) PROVE ops' \in [does : Uses, n : Nat] BY <1>e, <1>i DEF Op
<1>1. CASE Request
  <2>a. PICK r \in Int : r = ctx.reserved + 1 BY <1>a DEF Handle
  <2>b. ctx' = [ctx EXCEPT !.reserved = r] BY <1>1, <2>a DEF Request
  <2>1. ctx' \in Handle /\ ctx'.props = ctx.props BY <1>a, <2>b DEF Handle
  <2>2. core' \in CoreThread /\ core'.pc = core.pc /\ core'.id = core.id
    BY <1>1, <1>c DEF Request, CoreThread
  <2>3. Op("request") /\ UNCHANGED <<obs, val, cl, due>> BY <1>1 DEF Request
  <2> QED BY <1>b, <1>d, <1>e, <1>g, <1>h, <1>i, <2>1, <2>2, <2>3 DEF Reading
<1>2. CASE Reply
  <2> DEFINE c == [ctx EXCEPT !.reserved = @ - 1]
  <2>1. c \in Handle /\ c.props = ctx.props BY <1>a, SMTT(60) DEF Handle
  <2>2. ctx' = append_event(c, "reply") BY <1>2 DEF Reply
  <2> HIDE DEF c
  <2>3. ctx' \in Handle /\ ctx'.props = ctx.props BY <2>1, <2>2, Appends DEF SameBut, SameProps
  <2>4. core.requests > 0 /\ core' = [core EXCEPT !.requests = @ - 1]
        /\ UNCHANGED <<obs, val, cl, ops, due>>
    BY <1>2 DEF Reply
  <2>5. core' \in CoreThread /\ core'.pc = core.pc /\ core'.id = core.id
    BY <1>c, <2>4 DEF CoreThread
  <2> QED BY <1>b, <1>d, <1>e, <1>g, <1>h, <2>3, <2>4, <2>5 DEF Reading
<1>3. CASE Send
  <2>1. PICK e \in {"event", "hook"} :
          /\ ctx' = send_event(ctx, e) /\ Op(e)
          /\ \/ core' = [core EXCEPT !.hook = TRUE]
                /\ due' = [i \in Ids |-> IF i \in Listed THEN obs[i].ts ELSE 0]
             \/ UNCHANGED <<core, due>>
    BY <1>3 DEF Send
  <2>2. ctx' \in Handle /\ ctx'.props = ctx.props
    <3>1. e \in Kinds BY DEF Kinds
    <3> QED BY <1>a, <2>1, <3>1, Sends DEF SameBut, SameProps
  <2>3. due' \in [Ids -> Nat]
    <3>1. \A i \in Ids : obs[i].ts \in Nat BY <1>b DEF Observed
    <3> QED BY <1>e, <2>1, <3>1
  <2>4. core' \in CoreThread /\ core'.pc = core.pc /\ core'.id = core.id
    BY <1>c, <2>1, ZenonT(60) DEF CoreThread
  <2>5. UNCHANGED <<obs, val, cl>> BY <1>3 DEF Send
  <2> QED BY <1>b, <1>d, <1>e, <1>g, <1>h, <1>i, <2>1, <2>2, <2>3, <2>4, <2>5 DEF Reading
<1>4. CASE HookContinue
  <2>1. core' = [core EXCEPT !.hook = FALSE, !.awake = TRUE] /\ UNCHANGED <<ctx, obs, val, cl, ops, due>>
    BY <1>4 DEF HookContinue
  <2>2. core' \in CoreThread /\ core'.pc = core.pc /\ core'.id = core.id BY <1>c, <2>1 DEF CoreThread
  <2> QED BY <1>a, <1>b, <1>d, <1>e, <1>g, <1>h, <2>1, <2>2 DEF Reading
<1>5. ASSUME NEW p \in Names, NEW v \in Values, Change(p, v) \/ Resize(p, v) PROVE Typed'
  <2>1. obs' \in [Ids -> Observed] /\ \A i \in Ids : obs'[i].name = obs[i].name
    <3>1. obs' = Bump({p}) BY <1>5 DEF Change, Resize
    <3>2. PICK b \in [Ids -> Observed] :
            b = Bump({p}) /\ \A i \in Ids : b[i] = [obs[i] EXCEPT !.ts = b[i].ts]
      BY Bumps
    <3>3. \A i \in Ids : b[i].name = obs[i].name
      <4> TAKE i \in Ids
      <4>1. obs[i] \in Observed /\ b[i] = [obs[i] EXCEPT !.ts = b[i].ts] BY <1>b, <3>2
      <4> QED BY <4>1 DEF Observed
    <3> QED BY <3>1, <3>2, <3>3
  <2> DEFINE more == ctx.has_pending \/ \E i \in Listed : obs[i].name \in {p}
  <2>2. ctx' = [ctx EXCEPT !.has_pending = more] BY <1>5 DEF Change, Resize, SetPending
  <2>3. more \in BOOLEAN BY <1>a DEF Handle
  <2> HIDE DEF more
  <2>4. ctx' \in Handle /\ ctx'.props = ctx.props BY <1>a, <2>2, <2>3 DEF Handle
  <2>5. core' \in CoreThread /\ core'.pc = core.pc /\ core'.id = core.id
    <3> DEFINE wake == core.awake \/ (core.pc = "sleep" /\ \E i \in Listed : obs[i].name = p)
    <3>1. core' = [core EXCEPT !.awake = wake] \/ core' = [core EXCEPT !.awake = TRUE]
      BY <1>5 DEF Change, Resize
    <3>2. wake \in BOOLEAN BY <1>c DEF CoreThread
    <3> HIDE DEF wake
    <3> QED BY <1>c, <3>1, <3>2 DEF CoreThread
  <2>6. ops' \in [does : Uses, n : Nat] BY <1>5, <1>i DEF Change, Resize
  <2>7. val' \in [Names -> Values] /\ UNCHANGED <<cl, due>> BY <1>5, <1>e DEF Change, Resize
  <2> QED BY <1>d, <1>e, <1>g, <1>h, <2>1, <2>4, <2>5, <2>6, <2>7 DEF Reading
<1>6. ASSUME NEW p \in Names, mpv_observe_property(p) PROVE Typed'
  <2>1. PICK i \in Ids :
          /\ obs' = [obs EXCEPT ![i] = [@ EXCEPT !.name = p, !.ts = 1, !.refs = 1]]
          /\ ctx' = [ctx EXCEPT !.props = Append(@, i), !.props_ts = @ + 1, !.new_events = TRUE,
                                !.cur_index = 0, !.has_pending = TRUE]
    BY <1>6 DEF mpv_observe_property
  <2> DEFINE o == [obs[i] EXCEPT !.name = p, !.ts = 1, !.refs = 1]
  <2>2. o \in Observed /\ o.name = p
    <3>1. PICK x \in Observed : x = obs[i] BY <1>b
    <3>a. p \in Names \cup {"none"} /\ 1 \in Nat /\ 1 \in Int OBVIOUS
    <3>2. [x EXCEPT !.name = p, !.ts = 1, !.refs = 1] \in Observed
          /\ [x EXCEPT !.name = p, !.ts = 1, !.refs = 1].name = p
      BY <3>a DEF Observed
    <3> QED BY <3>1, <3>2
  <2>3. obs' = [obs EXCEPT ![i] = o] BY <2>1
  <2> HIDE DEF o
  <2>4. obs' \in [Ids -> Observed] /\ obs'[i].name = p /\ \A j \in Ids \ {i} : obs'[j] = obs[j]
    BY <1>b, <2>2, <2>3
  <2>5. PICK t : t = Append(ctx.props, i) OBVIOUS
  <2>6. PICK n \in Nat : n = Len(ctx.props) BY <1>f
  <2>7. t \in Seq(Ids) /\ Len(t) = n + 1 /\ t[n + 1] = i /\ \A k \in 1..n : t[k] = ctx.props[k]
    BY <1>f, <2>5, <2>6, AppendProperties
  <2>a. PICK m \in Nat : m = ctx.props_ts + 1 BY <1>a DEF Handle
  <2>b. ctx' = [ctx EXCEPT !.props = t, !.props_ts = m, !.new_events = TRUE, !.cur_index = 0,
                           !.has_pending = TRUE]
    BY <2>1, <2>5, <2>a
  <2>8. ctx' \in Handle /\ ctx'.props = t BY <1>a, <2>7, <2>b DEF Handle
  <2>9. \A k \in 1..n + 1 : t[k] \in Ids /\ obs'[t[k]].name \in Names
    <3>1. \A k \in 1..n : ctx.props[k] \in Ids /\ obs[ctx.props[k]].name \in Names
      BY <2>6 DEF Typed, Named
    <3>2. \A k \in 1..n + 1 : k \in 1..n \/ k = n + 1 OBVIOUS
    <3> QED BY <2>4, <2>7, <3>1, <3>2
  <2>10. Reading => core.id \in Ids /\ obs'[core.id].name \in Names BY <1>h, <2>4 DEF Named
  <2>11. core' \in CoreThread /\ core'.pc = core.pc /\ core'.id = core.id
    BY <1>6, <1>c DEF mpv_observe_property, CoreThread
  <2>12. ops' \in [does : Uses, n : Nat] /\ UNCHANGED <<val, cl, due>>
    BY <1>6, <1>i DEF mpv_observe_property
  <2> QED BY <1>d, <1>e, <2>4, <2>7, <2>8, <2>9, <2>10, <2>11, <2>12 DEF Typed, Named, Reading
<1>7. ASSUME NEW i \in Ids, mpv_unobserve_property(i) PROVE Typed'
  <2>1. PICK k \in 1..Len(ctx.props) :
          ctx' = [ctx EXCEPT !.props = RemoveAt(@, k), !.props_ts = @ + 1, !.cur_index = 0]
    BY <1>7 DEF mpv_unobserve_property
  <2>2. PICK t : t = RemoveAt(ctx.props, k) OBVIOUS
  <2>3. PICK n \in Nat : n = Len(ctx.props) BY <1>f
  <2>4. /\ t \in Seq(Ids) /\ Len(t) = n - 1
        /\ \A j \in 1..n - 1 : t[j] = ctx.props[IF j < k THEN j ELSE j + 1]
    <3>1. t \in Seq(Ids) /\ Len(t) = Len(ctx.props) - 1
          /\ \A j \in 1..Len(ctx.props) - 1 : t[j] = ctx.props[IF j < k THEN j ELSE j + 1]
      BY <1>f, <2>2, Removes
    <3> QED BY <2>3, <3>1
  <2>a. PICK m \in Nat : m = ctx.props_ts + 1 BY <1>a DEF Handle
  <2>b. ctx' = [ctx EXCEPT !.props = t, !.props_ts = m, !.cur_index = 0] BY <2>1, <2>2, <2>a
  <2>5. ctx' \in Handle /\ ctx'.props = t BY <1>a, <2>4, <2>b DEF Handle
  <2>6. obs' = [obs EXCEPT ![i].refs = @ - 1]
    BY <1>7, ClientEventsAssumption DEF mpv_unobserve_property, unref
  <2>7. obs' \in [Ids -> Observed] /\ \A j \in Ids : obs'[j].name = obs[j].name
    <3>1. PICK o \in Observed : o = obs[i] BY <1>b
    <3>2. PICK x : x = [o EXCEPT !.refs = @ - 1] OBVIOUS
    <3>4. x \in Observed /\ x.name = o.name BY <3>2 DEF Observed
    <3>3. obs' = [obs EXCEPT ![i] = x] BY <2>6, <3>1, <3>2
    <3> QED BY <1>b, <3>1, <3>3, <3>4
  <2>8. \A j \in 1..n - 1 : t[j] \in Ids /\ obs'[t[j]].name \in Names
    <3>1. \A j \in 1..n : ctx.props[j] \in Ids /\ obs[ctx.props[j]].name \in Names
      BY <2>3 DEF Typed, Named
    <3> TAKE j \in 1..n - 1
    <3>2. PICK q \in 1..n : q = IF j < k THEN j ELSE j + 1 BY <2>3
    <3>3. t[j] = ctx.props[q] BY <2>4, <3>2
    <3> QED BY <2>7, <3>1, <3>3
  <2>9. Reading => core.id \in Ids /\ obs'[core.id].name \in Names BY <1>h, <2>7 DEF Named
  <2>10. ops' \in [does : Uses, n : Nat] /\ UNCHANGED <<val, core, cl, due>>
    BY <1>7, <1>i DEF mpv_unobserve_property
  <2> QED BY <1>c, <1>d, <1>e, <2>4, <2>5, <2>7, <2>8, <2>9, <2>10 DEF Typed, Named, Reading
<1>8. ASSUME UNCHANGED <<obs, val, ops, due>>, ctx' \in Handle, ctx'.props = ctx.props,
             core' \in CoreThread, Reading' => core'.id = core.id /\ Reading, cl' \in ClientThread
      PROVE  Typed'
  BY <1>8, <1>b, <1>e, <1>g, <1>h
<1>9. ASSUME UNCHANGED <<ctx, obs, val, ops, due>>, core' \in CoreThread,
             Reading' => core'.id = core.id /\ Reading, cl' \in ClientThread
      PROVE  Typed'
  BY <1>8, <1>9, <1>a
<1>k. ASSUME core' = [core EXCEPT !.pc = "pass", !.n = @ + 1] PROVE core' \in CoreThread /\ ~Reading'
  <2>1. PICK n \in Nat \ {0} : n = core.n + 1 BY <1>c DEF CoreThread
  <2>2. core' = [core EXCEPT !.pc = "pass", !.n = n] BY <1>k, <2>1
  <2> QED BY <1>c, <2>2 DEF CoreThread, CorePC, Reading
<1>10. CASE Pass
  <2>1. ctx' = ctx \/ ctx' = [ctx EXCEPT !.has_pending = FALSE] BY <1>10 DEF Pass
  <2>2. ctx' \in Handle /\ ctx'.props = ctx.props BY <1>a, <2>1 DEF Handle
  <2>3. core' \in CoreThread /\ ~Reading'
    <3>1. PICK t \in Nat : t = ctx.props_ts BY <1>a DEF Handle
    <3>2. core' = [core EXCEPT !.pc = "pass", !.n = 1, !.list_ts = t] \/ core' = [core EXCEPT !.pc = "sleep"]
      BY <1>10, <3>1 DEF Pass
    <3>3. 1 \in Nat \ {0} OBVIOUS
    <3>4. CASE core' = [core EXCEPT !.pc = "pass", !.n = 1, !.list_ts = t]
      BY <1>c, <3>3, <3>4 DEF CoreThread, CorePC, Reading
    <3>5. CASE core' = [core EXCEPT !.pc = "sleep"] BY <1>c, <3>5 DEF CoreThread, CorePC, Reading
    <3> QED BY <3>2, <3>4, <3>5
  <2> QED BY <1>8, <1>10, <1>d, <2>2, <2>3 DEF Pass
<1>11. CASE PassProp
  <2>a. UNCHANGED <<val, cl, ops, due>> BY <1>11, PassesOne
  <2>1. CASE /\ ctx' = PassDone(ctx) /\ UNCHANGED obs
             /\ core' = [core EXCEPT !.pc = "sleep"]
    <3>1. ctx' \in Handle /\ ctx'.props = ctx.props BY <1>a, <2>1, Passes DEF SameBut, SameProps
    <3>2. core' \in CoreThread /\ ~Reading' BY <1>c, <2>1 DEF CoreThread, CorePC, Reading
    <3> QED BY <1>8, <1>d, <2>a, <2>1, <3>1, <3>2
  <2>2. CASE UNCHANGED <<ctx, obs>> /\ core' = [core EXCEPT !.n = @ + 1]
    <3>1. core' = [core EXCEPT !.pc = "pass", !.n = @ + 1] BY <1>11, <1>c, <2>2, PassesOne DEF CoreThread
    <3> QED BY <1>9, <1>d, <1>k, <2>a, <2>2, <3>1
  <2>3. CASE Prop \in Ids /\ Known(ctx, Prop, "none")
    <3>1. "none" \in Values \cup {"none"} OBVIOUS
    <3>2. /\ obs' \in [Ids -> Observed] /\ \A j \in Ids : obs'[j].name = obs[j].name
          /\ ctx' \in Handle /\ SameProps(ctx, ctx')
          /\ core' = [core EXCEPT !.pc = "pass", !.n = @ + 1]
      BY <1>a, <2>3, <3>1, Knows
    <3>3. ctx'.props = ctx.props BY <3>2 DEF SameProps
    <3>4. core' \in CoreThread /\ ~Reading' BY <1>k, <3>2
    <3> QED BY <1>d, <1>e, <1>g, <2>a, <3>2, <3>3, <3>4
  <2>4. CASE /\ Prop \in Ids /\ core.n \in 1..Len(ctx.props)
             /\ obs' = [obs EXCEPT ![Prop].refs = @ + 1] /\ ctx' = [ctx EXCEPT !.async = @ + 1]
             /\ core' = [core EXCEPT !.pc = "read", !.id = Prop]
    <3>1. obs' \in [Ids -> Observed] /\ \A j \in Ids : obs'[j].name = obs[j].name
      <4>1. PICK o \in Observed : o = obs[Prop] BY <1>b, <2>4
      <4>2. PICK x : x = [o EXCEPT !.refs = @ + 1] OBVIOUS
      <4>3. x \in Observed /\ x.name = o.name BY <4>2 DEF Observed
      <4>4. obs' = [obs EXCEPT ![Prop] = x] BY <2>4, <4>1, <4>2
      <4> QED BY <1>b, <2>4, <4>1, <4>3, <4>4
    <3>2. PICK r \in Int : r = ctx.async + 1 BY <1>a DEF Handle
    <3>3. ctx' = [ctx EXCEPT !.async = r] BY <2>4, <3>2
    <3>4. ctx' \in Handle /\ ctx'.props = ctx.props BY <1>a, <3>3 DEF Handle
    <3>5. core' \in CoreThread /\ core'.id = Prop BY <1>c, <2>4 DEF CoreThread, CorePC
    <3>6. Named(Prop) BY <2>4 DEF Prop, Typed
    <3> QED BY <1>d, <1>e, <1>g, <2>a, <3>1, <3>4, <3>5, <3>6
  <2> QED BY <1>11, <2>1, <2>2, <2>3, <2>4, PassesOne
<1>12. CASE Read
  <2>1. core' = [core EXCEPT !.pc = "got", !.val = val[obs[core.id].name]]
        /\ UNCHANGED <<ctx, obs, val, cl, ops, due>> /\ Reading
    BY <1>12 DEF Read, Reading
  <2>2. val[obs[core.id].name] \in Values BY <1>e, <1>h, <2>1 DEF Named
  <2>3. core' \in CoreThread /\ core'.id = core.id BY <1>c, <2>1, <2>2 DEF CoreThread, CorePC
  <2> QED BY <1>9, <1>d, <2>1, <2>3
<1>13. CASE Relock
  <2> DEFINE c == [ctx EXCEPT !.async = @ - 1]
  <2>1. c \in Handle /\ c.props = ctx.props
    <3>1. PICK r \in Int : r = ctx.async - 1 BY <1>a DEF Handle
    <3>2. c = [ctx EXCEPT !.async = r] BY <3>1
    <3> QED BY <1>a, <3>2 DEF Handle
  <2>2. core.id \in Ids /\ UNCHANGED <<val, cl, ops, due>>
    BY <1>13, <1>h DEF Relock, Reading, Named
  <2>3. CASE SameList
    <3>1. Known(c, core.id, core.val) BY <1>13, <2>3 DEF Relock
    <3> HIDE DEF c
    <3>2. core.val \in Values \cup {"none"} BY <1>c DEF CoreThread
    <3>3. /\ obs' \in [Ids -> Observed] /\ \A j \in Ids : obs'[j].name = obs[j].name
          /\ ctx' \in Handle /\ SameProps(c, ctx')
          /\ core' = [core EXCEPT !.pc = "pass", !.n = @ + 1]
      BY <2>1, <2>2, <3>1, <3>2, Knows
    <3>4. ctx'.props = ctx.props BY <2>1, <3>3 DEF SameProps
    <3>5. core' \in CoreThread /\ ~Reading' BY <1>k, <3>3
    <3> QED BY <1>d, <1>e, <1>g, <2>2, <3>3, <3>4, <3>5
  <2>4. CASE ~SameList
    <3>1. /\ obs' = unref(obs, core.id) /\ ctx' = PassDone([c EXCEPT !.has_pending = TRUE])
          /\ core' = [core EXCEPT !.pc = "sleep", !.awake = TRUE]
      BY <1>13, <2>4 DEF Relock
    <3> HIDE DEF c
    <3>2. obs' \in [Ids -> Observed] /\ \A j \in Ids : obs'[j].name = obs[j].name
      BY <1>b, <2>2, <3>1 DEF unref, Observed
    <3>3. ctx' \in Handle /\ ctx'.props = ctx.props
      BY <2>1, <3>1 DEF PassDone, wakeup_client, Handle
    <3>4. core' \in CoreThread /\ ~Reading' BY <1>c, <3>1 DEF CoreThread, CorePC, Reading
    <3> QED BY <1>d, <1>e, <1>g, <2>2, <3>2, <3>3, <3>4
  <2> QED BY <2>3, <2>4
<1>14. CASE NextRound BY <1>9, <1>14, <1>c, <1>d DEF NextRound, CoreThread, CorePC, Reading
<1>15. CASE Quit
  <2>1. core' \in CoreThread /\ ~Reading' BY <1>15, <1>c DEF Quit, CoreThread, Reading
  <2>2. ops' \in [does : Uses, n : Nat] /\ UNCHANGED <<ctx, obs, val, cl, due>>
    BY <1>15, <1>i DEF Quit
  <2> QED BY <1>a, <1>b, <1>d, <1>e, <1>g, <2>1, <2>2
<1>16. CASE ShutdownClients
  <2>1. ctx' \in Handle /\ ctx'.props = ctx.props
    <3>1. CASE ctx.alive
      <4>1. ctx' = send_event(ctx, "shutdown") /\ "shutdown" \in Kinds
        BY <1>16, <3>1 DEF ShutdownClients, Kinds
      <4> QED BY <1>a, <4>1, Sends DEF SameBut, SameProps
    <3>2. CASE ~ctx.alive BY <1>16, <1>a, <3>2 DEF ShutdownClients
    <3> QED BY <3>1, <3>2
  <2>2. core' \in CoreThread /\ ~Reading' BY <1>16, <1>c DEF ShutdownClients, CoreThread, CorePC, Reading
  <2> QED BY <1>8, <1>16, <1>d, <2>1, <2>2 DEF ShutdownClients
<1>17. CASE TimerFires BY <1>9, <1>17, <1>c, <1>d DEF TimerFires, CoreThread, Reading
<1>18. CASE WaitEvent
  <2>1. cl' \in ClientThread BY <1>18, <1>d DEF WaitEvent, ClientThread, ClientPC
  <2> QED BY <1>9, <1>18, <1>c, <2>1 DEF WaitEvent, Reading
<1>j. ASSUME NEW l \in ClientPC, cl' = [cl EXCEPT !.pc = l] PROVE cl' \in ClientThread
  BY <1>d, <1>j DEF ClientThread
<1>19. CASE ReturnOverflow
  <2>1. ctx' \in Handle /\ ctx'.props = ctx.props BY <1>19, <1>a DEF ReturnOverflow, Returned, Handle
  <2>2. cl' \in ClientThread BY <1>19, <1>j DEF ReturnOverflow, ClientPC
  <2> QED BY <1>8, <1>19, <1>c, <2>1, <2>2 DEF ReturnOverflow, Reading
<1>20. CASE ReturnEvent
  <2>1. Tail(ctx.events) \in Seq(Kinds \cup {"reply"})
    BY <1>20, <1>a, HeadTailProperties DEF ReturnEvent, Deliverable, Handle
  <2> DEFINE h == ctx.hook_pending /\ ~AtHook
  <2>2. ctx' = Returned([ctx EXCEPT !.events = Tail(@), !.hook_pending = h]) BY <1>20 DEF ReturnEvent
  <2>3. h \in BOOLEAN BY <1>a DEF Handle
  <2> HIDE DEF h
  <2>4. ctx' \in Handle /\ ctx'.props = ctx.props BY <1>a, <2>1, <2>2, <2>3 DEF Returned, Handle
  <2>5. cl' \in ClientThread BY <1>20, <1>j DEF ReturnEvent, ClientPC
  <2> QED BY <1>8, <1>20, <1>c, <2>4, <2>5 DEF ReturnEvent, Reading
<1>22. CASE ReturnProperty
  <2>1. PICK k, i : k = First(Found) /\ i = ctx.props[k] OBVIOUS
  <2>2. /\ i \in Ids /\ ctx' \in Handle /\ SameProps(ctx, ctx') /\ UNCHANGED <<val, core, ops, due>>
        /\ cl' = [cl EXCEPT !.pc = "idle"]
        /\ obs' \in [Ids -> Observed] /\ \A j \in Ids : obs'[j].name = obs[j].name
    BY <1>22, <2>1, Returns
  <2>4. cl' \in ClientThread BY <2>2, <1>j DEF ClientPC
  <2> QED BY <1>c, <1>e, <1>g, <1>h, <2>2, <2>4 DEF Reading, SameProps
<1>23. CASE Block
  <2>1. /\ ctx' = [Seen EXCEPT !.cur_index = Len(ctx.props)] /\ obs' = Flagged
        /\ cl' = [cl EXCEPT !.pc = "unlocked", !.back = "scan", !.timed = @ \/ ctx.queued_wakeup]
        /\ UNCHANGED <<val, core, ops, due>>
    BY <1>23 DEF Block
  <2>2. PICK c \in Handle : c = Seen /\ c.props = ctx.props BY <1>a, Sees DEF SameProps
  <2>3. ctx' \in Handle /\ ctx'.props = ctx.props BY <1>f, <2>1, <2>2 DEF Handle
  <2>4. cl.timed \in BOOLEAN /\ ctx.queued_wakeup \in BOOLEAN BY <1>a, <1>d DEF Handle, ClientThread
  <2>5. cl' \in ClientThread BY <1>d, <2>1, <2>4 DEF ClientThread, ClientPC
  <2>6. obs' \in [Ids -> Observed] /\ \A j \in Ids : obs'[j].name = obs[j].name BY <2>1, Flags
  <2> QED BY <1>c, <1>e, <1>g, <1>h, <2>1, <2>3, <2>5, <2>6 DEF Reading
<1>24. CASE StopWaiting
  <2>1. ctx' \in Handle /\ ctx'.props = ctx.props BY <1>24, <1>a DEF StopWaiting, Handle
  <2>2. cl' \in ClientThread BY <1>24, <1>d DEF StopWaiting, ClientThread, ClientPC
  <2> QED BY <1>8, <1>24, <1>c, <2>1, <2>2 DEF StopWaiting, Reading
<1>25. CASE Sleep BY <1>9, <1>25, <1>c, <1>j DEF Sleep, ClientPC, Reading
<1>26. CASE TimedOut BY <1>9, <1>26, <1>c, <1>j DEF TimedOut, ClientPC, Reading
<1>27. CASE ReturnNone
  <2>1. ctx' \in Handle /\ ctx'.props = ctx.props BY <1>27, <1>a DEF ReturnNone, Returned, Handle
  <2>2. cl' \in ClientThread BY <1>27, <1>j DEF ReturnNone, ClientPC
  <2> QED BY <1>8, <1>27, <1>c, <2>1, <2>2 DEF ReturnNone, Reading
<1>28. CASE mpv_wakeup
  <2>1. ctx' \in Handle /\ ctx'.props = ctx.props BY <1>28, <1>a DEF mpv_wakeup, wakeup_client, Handle
  <2>2. ops' \in [does : Uses, n : Nat] /\ UNCHANGED <<obs, val, core, cl, due>>
    BY <1>28, <1>i DEF mpv_wakeup
  <2> QED BY <1>b, <1>c, <1>d, <1>e, <1>g, <1>h, <2>1, <2>2 DEF Reading
<1>29. CASE mpv_destroy
  <2>1. <<>> \in Seq(Ids) /\ Len(<<>>) = 0 BY EmptySeq
  <2>a. PICK m \in Nat : m = ctx.props_ts + 1 BY <1>a DEF Handle
  <2>b. ctx' = [ctx EXCEPT !.destroying = TRUE, !.props = <<>>, !.props_ts = m, !.cur_property = NoId]
    BY <1>29, <2>a DEF mpv_destroy
  <2>2. ctx' \in Handle /\ ctx'.props = <<>> BY <1>a, <2>1, <2>b DEF Handle
  <2>3. obs' \in [Ids -> Observed] /\ \A j \in Ids : obs'[j].name = obs[j].name
    <3> DEFINE o == [i \in Ids |-> IF i \in Listed THEN [obs[i] EXCEPT !.refs = @ - 1] ELSE obs[i]]
    <3>1. o \in [Ids -> Observed] /\ \A j \in Ids : o[j].name = obs[j].name
      <4>1. \A j \in Ids : o[j] \in Observed /\ o[j].name = obs[j].name
        <5> TAKE j \in Ids
        <5>1. obs[j] \in Observed BY <1>b
        <5>2. o[j] = obs[j] \/ o[j] = [obs[j] EXCEPT !.refs = @ - 1] OBVIOUS
        <5> HIDE DEF o
        <5> QED BY <5>1, <5>2 DEF Observed
      <4> QED BY <4>1
    <3>2. obs' = unref(o, ctx.cur_property) BY <1>29 DEF mpv_destroy
    <3> HIDE DEF o
    <3>3. obs' = o \/ (ctx.cur_property \in Ids /\ obs' = [o EXCEPT ![ctx.cur_property].refs = @ - 1])
      BY <1>a, <3>2 DEF unref, Handle
    <3> QED BY <3>1, <3>3 DEF Observed
  <2>4. cl' \in ClientThread BY <1>29, <1>d DEF mpv_destroy, ClientThread, ClientPC
  <2>5. ops' \in [does : Uses, n : Nat] /\ UNCHANGED <<val, core, due>>
    BY <1>29, <1>i DEF mpv_destroy
  <2>6. Reading => core.id \in Ids /\ obs'[core.id].name \in Names BY <1>h, <2>3 DEF Named
  <2>7. \A k \in 1..Len(ctx'.props) : FALSE BY <2>1, <2>2
  <2> QED BY <1>c, <1>e, <2>2, <2>3, <2>4, <2>5, <2>6, <2>7 DEF Typed, Named, Reading
<1>30. CASE mpv_wait_async_requests
  BY <1>9, <1>30, <1>c, <1>j DEF mpv_wait_async_requests, ClientPC, Reading
<1>31. CASE FreeHandle
  <2>1. <<>> \in Seq(Kinds \cup {"reply"}) BY EmptySeq
  <2>2. ctx' \in Handle /\ ctx'.props = ctx.props BY <1>31, <1>a, <2>1 DEF FreeHandle, Handle
  <2>3. cl' \in ClientThread BY <1>31, <1>j DEF FreeHandle, ClientPC
  <2>4. core' \in CoreThread /\ core'.pc = core.pc /\ core'.id = core.id
    BY <1>31, <1>c DEF FreeHandle, CoreThread
  <2> QED BY <1>8, <1>31, <2>2, <2>3, <2>4 DEF FreeHandle, Reading
<1>32. CASE UNCHANGED vars BY <1>9, <1>32, <1>c, <1>d DEF vars, Reading
<1> QED
  BY <1>1, <1>2, <1>3, <1>4, <1>5, <1>6, <1>7, <1>10, <1>11, <1>12, <1>13, <1>14, <1>15, <1>16, <1>17,
     <1>18, <1>19, <1>20, <1>22, <1>23, <1>24, <1>25, <1>26, <1>27, <1>28, <1>29, <1>30, <1>31, <1>32
  DEF Next, Core, Return, Client, Environment

SameCur(c, d) == d.cur_index = c.cur_index /\ d.cur_property = c.cur_property
SameFlags(c, d) == d.has_pending = c.has_pending /\ d.new_events = c.new_events
SamePass(c, d) == d.n = c.n /\ d.id = c.id /\ d.list_ts = c.list_ts /\ d.val = c.val
InPass == core.pc \in {"pass", "read", "got"}

(* Neither the properties nor the core's pass through them.                *)
Calm ==
  /\ UNCHANGED <<obs, val>> /\ SameProps(ctx, ctx') /\ SameCur(ctx, ctx') /\ SameFlags(ctx, ctx')
  /\ ctx'.destroying = ctx.destroying /\ ctx'.async = ctx.async
  /\ SamePass(core, core') /\ (core'.pc = core.pc \/ (~InPass /\ ~InPass'))

Still ==
  \/ Request \/ Reply \/ Send \/ HookContinue \/ NextRound \/ Quit \/ ShutdownClients \/ TimerFires
  \/ WaitEvent \/ ReturnOverflow \/ ReturnEvent \/ ReturnNone \/ StopWaiting \/ Sleep \/ TimedOut
  \/ mpv_wakeup \/ mpv_wait_async_requests \/ FreeHandle \/ UNCHANGED vars

LEMMA Calms == ASSUME Typed, Still PROVE Calm
<1>a. ctx \in Handle BY DEF Typed
<1>c. core \in CoreThread BY DEF Typed
<1>1. ASSUME UNCHANGED <<obs, val>>, SameProps(ctx, ctx'), SameCur(ctx, ctx'), SameFlags(ctx, ctx'),
             ctx'.destroying = ctx.destroying, ctx'.async = ctx.async,
             core'.pc = core.pc, SamePass(core, core')
      PROVE  Calm
  BY <1>1 DEF Calm
<1>2. ASSUME UNCHANGED <<obs, val>>, ctx' = ctx \/ SameBut(ctx, ctx'),
             core'.pc = core.pc \/ (~InPass /\ ~InPass'), SamePass(core, core')
      PROVE  Calm
  BY <1>2 DEF Calm, SameBut, SameProps, SameLife, SameCur, SameFlags
<1>3. CASE Request \/ Reply
  <2>1. SameProps(ctx, ctx') /\ SameCur(ctx, ctx') /\ SameFlags(ctx, ctx')
        /\ ctx'.destroying = ctx.destroying /\ ctx'.async = ctx.async
    <3>1. PICK r, q \in Int : r = ctx.reserved + 1 /\ q = ctx.reserved - 1 BY <1>a DEF Handle
    <3>2. CASE ctx' = [ctx EXCEPT !.reserved = r]
      BY <1>a, <3>2 DEF Handle, SameProps, SameCur, SameFlags
    <3>3. CASE ctx' = append_event([ctx EXCEPT !.reserved = q], "reply")
      <4>1. PICK c : c = [ctx EXCEPT !.reserved = q] OBVIOUS
      <4>2. c \in Handle /\ SameProps(ctx, c) /\ SameCur(ctx, c) /\ SameFlags(ctx, c)
            /\ c.destroying = ctx.destroying /\ c.async = ctx.async
        BY <1>a, <4>1, <3>1 DEF Handle, SameProps, SameCur, SameFlags
      <4>3. SameBut(c, ctx') BY <3>3, <4>1, <4>2, Appends
      <4> QED BY <4>2, <4>3 DEF SameBut, SameProps, SameLife, SameCur, SameFlags
    <3> QED BY <1>3, <3>1, <3>2, <3>3 DEF Request, Reply
  <2>2. core'.pc = core.pc /\ SamePass(core, core')
    BY <1>3, <1>c DEF Request, Reply, CoreThread, SamePass
  <2> QED BY <1>1, <1>3, <2>1, <2>2 DEF Request, Reply
<1>4. CASE Send
  <2>1. PICK e \in {"event", "hook"} : ctx' = send_event(ctx, e) BY <1>4 DEF Send
  <2>2. SameBut(ctx, ctx') BY <1>a, <2>1, Sends DEF Kinds
  <2>3. core'.pc = core.pc /\ SamePass(core, core') BY <1>4, <1>c DEF Send, CoreThread, SamePass
  <2> QED BY <1>2, <1>4, <2>2, <2>3 DEF Send
<1>5. CASE HookContinue \/ NextRound \/ Quit \/ TimerFires
  BY <1>2, <1>5, <1>c, ZenonT(60) DEF HookContinue, NextRound, Quit, TimerFires, CoreThread, SamePass, InPass
<1>6. CASE ShutdownClients
  <2>1. ctx' = ctx \/ SameBut(ctx, ctx')
    <3>1. CASE ctx' = send_event(ctx, "shutdown")
      <4>1. "shutdown" \in Kinds BY DEF Kinds
      <4> QED BY <1>a, <3>1, <4>1, Sends
    <3> QED BY <1>6, <3>1 DEF ShutdownClients
  <2>2. ~InPass /\ ~InPass' /\ SamePass(core, core')
    BY <1>6, <1>c DEF ShutdownClients, CoreThread, SamePass, InPass
  <2> QED BY <1>2, <1>6, <2>1, <2>2 DEF ShutdownClients
<1>7. CASE WaitEvent \/ Sleep \/ TimedOut \/ mpv_wait_async_requests \/ UNCHANGED vars
  BY <1>2, <1>7 DEF WaitEvent, Sleep, TimedOut, mpv_wait_async_requests, vars, SamePass
<1>8. CASE ReturnOverflow \/ ReturnNone \/ StopWaiting \/ mpv_wakeup
  <2>1. SameProps(ctx, ctx') /\ SameCur(ctx, ctx') /\ SameFlags(ctx, ctx')
        /\ ctx'.destroying = ctx.destroying /\ ctx'.async = ctx.async
    BY <1>8, <1>a DEF ReturnOverflow, ReturnNone, StopWaiting, mpv_wakeup, wakeup_client, Returned, Handle,
                      SameProps, SameCur, SameFlags
  <2> QED BY <1>1, <1>8, <2>1 DEF ReturnOverflow, ReturnNone, StopWaiting, mpv_wakeup, SamePass
<1>9. CASE ReturnEvent
  <2>1. PICK t, h : ctx' = Returned([ctx EXCEPT !.events = t, !.hook_pending = h])
    BY <1>9 DEF ReturnEvent
  <2>2. SameProps(ctx, ctx') /\ SameCur(ctx, ctx') /\ SameFlags(ctx, ctx')
        /\ ctx'.destroying = ctx.destroying /\ ctx'.async = ctx.async
    BY <1>a, <2>1 DEF Returned, Handle, SameProps, SameCur, SameFlags
  <2> QED BY <1>1, <1>9, <2>2 DEF ReturnEvent, SamePass
<1>10. CASE FreeHandle
  <2>1. SameProps(ctx, ctx') /\ SameCur(ctx, ctx') /\ SameFlags(ctx, ctx')
        /\ ctx'.destroying = ctx.destroying /\ ctx'.async = ctx.async
    BY <1>10, <1>a DEF FreeHandle, Handle, SameProps, SameCur, SameFlags
  <2>2. core'.pc = core.pc /\ SamePass(core, core') BY <1>10, <1>c DEF FreeHandle, CoreThread, SamePass
  <2> QED BY <1>1, <1>10, <2>1, <2>2 DEF FreeHandle
<1> QED BY <1>3, <1>4, <1>5, <1>6, <1>7, <1>8, <1>9, <1>10 DEF Still
(* What the other steps do, field by field.                                *)
LEMMA Changes ==
  ASSUME Typed, NEW p \in Names, NEW v \in Values, Change(p, v) \/ Resize(p, v)
  PROVE  /\ val' = [val EXCEPT ![p] = v] /\ obs' \in [Ids -> Observed] /\ UNCHANGED <<cl, due>>
         /\ \A i \in Ids : /\ obs'[i].name = obs[i].name /\ obs'[i].value_ts = obs[i].value_ts
                           /\ obs'[i].value = obs[i].value /\ obs'[i].ret_ts = obs[i].ret_ts
                           /\ obs'[i].ret = obs[i].ret /\ obs'[i].hook = obs[i].hook
                           /\ obs'[i].refs = obs[i].refs
                           /\ obs'[i].ts = IF i \in Listed /\ obs[i].name = p THEN obs[i].ts + 1 ELSE obs[i].ts
         /\ SameRing(ctx, ctx') /\ SameLife(ctx, ctx') /\ SameProps(ctx, ctx') /\ SameCur(ctx, ctx')
         /\ ctx'.async = ctx.async /\ ctx'.new_events = ctx.new_events
         /\ ctx'.need_wakeup = ctx.need_wakeup /\ ctx'.hook_pending = ctx.hook_pending
         /\ ctx'.has_pending = (ctx.has_pending \/ \E i \in Listed : obs[i].name = p)
         /\ SamePass(core, core') /\ core'.pc = core.pc
         /\ core'.requests = core.requests /\ core'.hook = core.hook
         /\ core.awake => core'.awake
         /\ core.pc # "work" /\ (\E i \in Listed : obs[i].name = p) => core'.awake
<1>a. ctx \in Handle /\ core \in CoreThread /\ obs \in [Ids -> Observed] BY DEF Typed
<1>1. /\ val' = [val EXCEPT ![p] = v] /\ UNCHANGED <<cl, due>>
      /\ obs' = Bump({p}) /\ ctx' = SetPending(ctx, {p})
  BY DEF Change, Resize
<1>2. obs' \in [Ids -> Observed] BY <1>1, Bumps
<1>3. ASSUME NEW i \in Ids
      PROVE  /\ obs'[i].name = obs[i].name /\ obs'[i].value_ts = obs[i].value_ts
             /\ obs'[i].value = obs[i].value /\ obs'[i].ret_ts = obs[i].ret_ts
             /\ obs'[i].ret = obs[i].ret /\ obs'[i].hook = obs[i].hook
             /\ obs'[i].refs = obs[i].refs
             /\ obs'[i].ts = IF i \in Listed /\ obs[i].name = p THEN obs[i].ts + 1 ELSE obs[i].ts
  <2>1. PICK b \in [Ids -> Observed] :
          /\ b = Bump({p})
          /\ \A j \in Ids : /\ b[j] = [obs[j] EXCEPT !.ts = b[j].ts]
                            /\ b[j].ts = IF j \in Listed /\ obs[j].name \in {p}
                                         THEN obs[j].ts + 1 ELSE obs[j].ts
    BY Bumps
  <2>2. obs'[i] = b[i] /\ obs[i] \in Observed BY <1>1, <1>a, <2>1
  <2>3. b[i].name = obs[i].name /\ b[i].value_ts = obs[i].value_ts
        /\ b[i].value = obs[i].value /\ b[i].ret_ts = obs[i].ret_ts
        /\ b[i].ret = obs[i].ret /\ b[i].hook = obs[i].hook /\ b[i].refs = obs[i].refs
    BY <2>1, <2>2, ZenonT(60) DEF Observed
  <2> QED BY <2>1, <2>2, <2>3
<1> DEFINE hit == \E i \in Listed : obs[i].name = p
           more == ctx.has_pending \/ hit
           wake == core.awake \/ (core.pc = "sleep" /\ hit)
<1>4. ctx' = [ctx EXCEPT !.has_pending = more] /\ more \in BOOLEAN
  <2>1. ctx' = [ctx EXCEPT !.has_pending = @ \/ \E i \in Listed : obs[i].name \in {p}]
    BY <1>1 DEF SetPending
  <2> QED BY <1>a, <2>1 DEF Handle
<1>5. \/ core' = [core EXCEPT !.awake = wake] /\ core.pc \in {"work", "sleep"}
      \/ core' = [core EXCEPT !.awake = TRUE]
  BY DEF Change, Resize
<1>6. wake \in BOOLEAN BY <1>a DEF CoreThread
<1> HIDE DEF more
<1>7. /\ SameRing(ctx, ctx') /\ SameLife(ctx, ctx') /\ SameProps(ctx, ctx') /\ SameCur(ctx, ctx')
      /\ ctx'.async = ctx.async /\ ctx'.new_events = ctx.new_events
      /\ ctx'.need_wakeup = ctx.need_wakeup /\ ctx'.hook_pending = ctx.hook_pending
      /\ ctx'.has_pending = more
  BY <1>a, <1>4 DEF Handle, SameRing, SameLife, SameProps, SameCur
<1>8. /\ SamePass(core, core') /\ core'.pc = core.pc
      /\ core'.requests = core.requests /\ core'.hook = core.hook
      /\ (core'.awake = wake /\ core.pc \in {"work", "sleep"}) \/ core'.awake
  <2> HIDE DEF wake
  <2> QED BY <1>a, <1>5, <1>6 DEF CoreThread, SamePass
<1>9. (core.awake => core'.awake) /\ (core.pc # "work" /\ hit => core'.awake)
  <2>1. core.awake \in BOOLEAN /\ core'.awake \in BOOLEAN
    <3> HIDE DEF wake
    <3> QED BY <1>a, <1>5, <1>6 DEF CoreThread
  <2> QED BY <1>8, <2>1
<1> QED BY <1>1, <1>2, <1>3, <1>7, <1>8, <1>9 DEF more

LEMMA Observes ==
  ASSUME Typed, NEW p \in Names, mpv_observe_property(p)
  PROVE  \E i \in Ids :
           /\ obs[i].name = "none" /\ \A j \in Ids : j < i => obs[j].name # "none"
           /\ obs' \in [Ids -> Observed] /\ \A j \in Ids \ {i} : obs'[j] = obs[j]
           /\ obs'[i].name = p /\ obs'[i].ts = 1 /\ obs'[i].refs = 1
           /\ obs'[i].value_ts = obs[i].value_ts /\ obs'[i].value = obs[i].value
           /\ obs'[i].ret_ts = obs[i].ret_ts /\ obs'[i].ret = obs[i].ret /\ obs'[i].hook = obs[i].hook
           /\ ctx'.props \in Seq(Ids) /\ Len(ctx'.props) = Len(ctx.props) + 1
           /\ ctx'.props[Len(ctx.props) + 1] = i
           /\ \A k \in 1..Len(ctx.props) : ctx'.props[k] = ctx.props[k]
           /\ SameRing(ctx, ctx') /\ SameLife(ctx, ctx') /\ Usable
           /\ ctx'.async = ctx.async /\ ctx'.need_wakeup = ctx.need_wakeup
           /\ ctx'.hook_pending = ctx.hook_pending
           /\ ctx'.props_ts = ctx.props_ts + 1 /\ ctx'.new_events /\ ctx'.has_pending
           /\ ctx'.cur_index = 0 /\ ctx'.cur_property = ctx.cur_property
           /\ SamePass(core, core') /\ core'.pc = core.pc /\ core.pc # "pass"
           /\ core'.requests = core.requests /\ core'.hook = core.hook /\ core'.awake
           /\ UNCHANGED <<val, cl, due>>
<1>a. ctx \in Handle BY DEF Typed
<1>b. obs \in [Ids -> Observed] /\ core \in CoreThread BY DEF Typed
<1>f. ctx.props \in Seq(Ids) /\ Len(ctx.props) \in Nat BY <1>a, LenProperties DEF Handle
<1>1. PICK i \in Ids :
        /\ obs[i].name = "none" /\ \A j \in Ids : j < i => obs[j].name # "none"
        /\ obs' = [obs EXCEPT ![i] = [@ EXCEPT !.name = p, !.ts = 1, !.refs = 1]]
        /\ ctx' = [ctx EXCEPT !.props = Append(@, i), !.props_ts = @ + 1, !.new_events = TRUE,
                              !.cur_index = 0, !.has_pending = TRUE]
  BY DEF mpv_observe_property
<1>2. PICK x \in Observed : x = obs[i] BY <1>b
<1>3. PICK o : o = [x EXCEPT !.name = p, !.ts = 1, !.refs = 1] OBVIOUS
<1>4. /\ o \in Observed /\ o.name = p /\ o.ts = 1 /\ o.refs = 1
      /\ o.value_ts = x.value_ts /\ o.value = x.value
      /\ o.ret_ts = x.ret_ts /\ o.ret = x.ret /\ o.hook = x.hook
  <2>1. p \in Names \cup {"none"} /\ 1 \in Nat /\ 1 \in Int OBVIOUS
  <2> QED BY <1>3, <2>1 DEF Observed
<1>5. obs' = [obs EXCEPT ![i] = o] BY <1>1, <1>2, <1>3
<1>6. obs' \in [Ids -> Observed] /\ obs'[i] = o /\ \A j \in Ids \ {i} : obs'[j] = obs[j]
  BY <1>b, <1>4, <1>5
<1>7. PICK t : t = Append(ctx.props, i) OBVIOUS
<1>8. PICK n \in Nat : n = Len(ctx.props) BY <1>f
<1>9. t \in Seq(Ids) /\ Len(t) = n + 1 /\ t[n + 1] = i /\ \A k \in 1..n : t[k] = ctx.props[k]
  BY <1>f, <1>7, <1>8, AppendProperties
<1>10. PICK m \in Nat : m = ctx.props_ts + 1 BY <1>a DEF Handle
<1>11. ctx' = [ctx EXCEPT !.props = t, !.props_ts = m, !.new_events = TRUE, !.cur_index = 0,
                          !.has_pending = TRUE]
  BY <1>1, <1>7, <1>10
<1>12. /\ ctx'.props = t /\ SameRing(ctx, ctx') /\ SameLife(ctx, ctx')
       /\ ctx'.async = ctx.async /\ ctx'.need_wakeup = ctx.need_wakeup
       /\ ctx'.hook_pending = ctx.hook_pending
       /\ ctx'.props_ts = m /\ ctx'.new_events /\ ctx'.has_pending
       /\ ctx'.cur_index = 0 /\ ctx'.cur_property = ctx.cur_property
  BY <1>a, <1>11 DEF Handle, SameRing, SameLife
<1>13. /\ SamePass(core, core') /\ core'.pc = core.pc /\ core.pc # "pass"
       /\ core'.requests = core.requests /\ core'.hook = core.hook /\ core'.awake
  BY <1>b DEF mpv_observe_property, Unlocked, CoreThread, SamePass
<1>14. Usable /\ UNCHANGED <<val, cl, due>> BY DEF mpv_observe_property
<1>15. /\ obs'[i].name = p /\ obs'[i].ts = 1 /\ obs'[i].refs = 1
       /\ obs'[i].value_ts = obs[i].value_ts /\ obs'[i].value = obs[i].value
       /\ obs'[i].ret_ts = obs[i].ret_ts /\ obs'[i].ret = obs[i].ret /\ obs'[i].hook = obs[i].hook
  BY <1>2, <1>4, <1>6
<1>16. /\ ctx'.props \in Seq(Ids) /\ Len(ctx'.props) = Len(ctx.props) + 1
       /\ ctx'.props[Len(ctx.props) + 1] = i /\ ctx'.props_ts = ctx.props_ts + 1
       /\ \A k \in 1..Len(ctx.props) : ctx'.props[k] = ctx.props[k]
  BY <1>8, <1>9, <1>10, <1>12
<1> QED BY <1>1, <1>6, <1>12, <1>13, <1>14, <1>15, <1>16

LEMMA Unobserves ==
  ASSUME Typed, NEW i \in Ids, mpv_unobserve_property(i)
  PROVE  \E k \in 1..Len(ctx.props) :
           /\ ctx.props[k] = i
           /\ ctx'.props \in Seq(Ids) /\ Len(ctx'.props) = Len(ctx.props) - 1
           /\ \A j \in 1..Len(ctx.props) - 1 : ctx'.props[j] = ctx.props[IF j < k THEN j ELSE j + 1]
           /\ obs' \in [Ids -> Observed] /\ \A j \in Ids \ {i} : obs'[j] = obs[j]
           /\ obs'[i].name = obs[i].name /\ obs'[i].ts = obs[i].ts /\ obs'[i].refs = obs[i].refs - 1
           /\ obs'[i].value_ts = obs[i].value_ts /\ obs'[i].value = obs[i].value
           /\ obs'[i].ret_ts = obs[i].ret_ts /\ obs'[i].ret = obs[i].ret /\ obs'[i].hook = obs[i].hook
           /\ SameRing(ctx, ctx') /\ SameLife(ctx, ctx') /\ Usable
           /\ ctx'.async = ctx.async /\ ctx'.need_wakeup = ctx.need_wakeup
           /\ ctx'.hook_pending = ctx.hook_pending
           /\ ctx'.props_ts = ctx.props_ts + 1 /\ SameFlags(ctx, ctx')
           /\ ctx'.cur_index = 0 /\ ctx'.cur_property = ctx.cur_property
           /\ core.pc # "pass" /\ UNCHANGED <<val, core, cl, due>>
           /\ \/ Op("unobserve")
              \/ Op("unobserve own") /\ cl.pc = "idle"
<1>a. ctx \in Handle BY DEF Typed
<1>b. obs \in [Ids -> Observed] BY DEF Typed
<1>f. ctx.props \in Seq(Ids) /\ Len(ctx.props) \in Nat BY <1>a, LenProperties DEF Handle
<1>1. /\ Usable /\ core.pc # "pass" /\ obs' = [obs EXCEPT ![i].refs = @ - 1]
      /\ UNCHANGED <<val, core, cl, due>>
      /\ \/ Op("unobserve")
         \/ Op("unobserve own") /\ cl.pc = "idle"
  BY ClientEventsAssumption DEF mpv_unobserve_property, Unlocked, unref
<1>2. PICK k \in 1..Len(ctx.props) :
        /\ ctx.props[k] = i
        /\ ctx' = [ctx EXCEPT !.props = RemoveAt(@, k), !.props_ts = @ + 1, !.cur_index = 0]
  BY DEF mpv_unobserve_property
<1>3. PICK t : t = RemoveAt(ctx.props, k) OBVIOUS
<1>4. t \in Seq(Ids) /\ Len(t) = Len(ctx.props) - 1
      /\ \A j \in 1..Len(ctx.props) - 1 : t[j] = ctx.props[IF j < k THEN j ELSE j + 1]
  BY <1>f, <1>3, Removes
<1>5. PICK m \in Nat : m = ctx.props_ts + 1 BY <1>a DEF Handle
<1>6. ctx' = [ctx EXCEPT !.props = t, !.props_ts = m, !.cur_index = 0] BY <1>2, <1>3, <1>5
<1>7. /\ ctx'.props = t /\ SameRing(ctx, ctx') /\ SameLife(ctx, ctx')
      /\ ctx'.async = ctx.async /\ ctx'.need_wakeup = ctx.need_wakeup
      /\ ctx'.hook_pending = ctx.hook_pending
      /\ ctx'.props_ts = m /\ SameFlags(ctx, ctx')
      /\ ctx'.cur_index = 0 /\ ctx'.cur_property = ctx.cur_property
  BY <1>a, <1>6 DEF Handle, SameRing, SameLife, SameFlags
<1>8. PICK o \in Observed : o = obs[i] BY <1>b
<1>9. PICK r \in Int : r = o.refs - 1 BY DEF Observed
<1>10. PICK x : x = [o EXCEPT !.refs = r] OBVIOUS
<1>11. /\ x \in Observed /\ x.name = o.name /\ x.ts = o.ts /\ x.refs = r
       /\ x.value_ts = o.value_ts /\ x.value = o.value
       /\ x.ret_ts = o.ret_ts /\ x.ret = o.ret /\ x.hook = o.hook
  BY <1>10 DEF Observed
<1>12. obs' = [obs EXCEPT ![i] = x] BY <1>1, <1>8, <1>9, <1>10
<1>13. obs' \in [Ids -> Observed] /\ obs'[i] = x /\ \A j \in Ids \ {i} : obs'[j] = obs[j]
  BY <1>b, <1>11, <1>12
<1>14. /\ obs'[i].name = obs[i].name /\ obs'[i].ts = obs[i].ts /\ obs'[i].refs = obs[i].refs - 1
       /\ obs'[i].value_ts = obs[i].value_ts /\ obs'[i].value = obs[i].value
       /\ obs'[i].ret_ts = obs[i].ret_ts /\ obs'[i].ret = obs[i].ret /\ obs'[i].hook = obs[i].hook
  BY <1>8, <1>9, <1>11, <1>13
<1>15. /\ ctx'.props \in Seq(Ids) /\ Len(ctx'.props) = Len(ctx.props) - 1
       /\ \A j \in 1..Len(ctx.props) - 1 : ctx'.props[j] = ctx.props[IF j < k THEN j ELSE j + 1]
       /\ ctx'.props_ts = ctx.props_ts + 1
  BY <1>4, <1>5, <1>7, SMTT(60)
<1> QED BY <1>1, <1>2, <1>7, <1>13, <1>14, <1>15

LEMMA Destroys ==
  ASSUME Typed, mpv_destroy
  PROVE  /\ SameRing(ctx, ctx') /\ SameFlags(ctx, ctx') /\ ctx'.alive = ctx.alive
         /\ ctx'.async = ctx.async /\ ctx'.need_wakeup = ctx.need_wakeup
         /\ ctx'.hook_pending = ctx.hook_pending
         /\ ctx'.destroying /\ ctx'.props = <<>> /\ Len(ctx'.props) = 0
         /\ ctx'.props_ts = ctx.props_ts + 1 /\ ctx'.cur_property = NoId
         /\ obs' \in [Ids -> Observed]
         /\ \A i \in Ids : /\ obs'[i].name = obs[i].name /\ obs'[i].ts = obs[i].ts
                           /\ obs'[i].value_ts = obs[i].value_ts /\ obs'[i].value = obs[i].value
                           /\ obs'[i].ret_ts = obs[i].ret_ts /\ obs'[i].ret = obs[i].ret
                           /\ obs'[i].hook = obs[i].hook
                           /\ obs'[i].refs = obs[i].refs - One(i \in Listed) - One(ctx.cur_property = i)
         /\ cl.pc = "idle" /\ cl'.pc = "drain" /\ cl'.back = "drain" /\ ~cl'.timed
         /\ core.pc # "pass" /\ Usable /\ UNCHANGED <<val, core, due>>
<1>a. ctx \in Handle BY DEF Typed
<1>b. obs \in [Ids -> Observed] BY DEF Typed
<1>d. cl \in ClientThread BY DEF Typed
<1> DEFINE f == [i \in Ids |-> IF i \in Listed THEN [obs[i] EXCEPT !.refs = @ - 1] ELSE obs[i]]
<1>1. /\ cl.pc = "idle" /\ core.pc # "pass" /\ Usable /\ UNCHANGED <<val, core, due>>
      /\ ctx' = [ctx EXCEPT !.destroying = TRUE, !.props = <<>>, !.props_ts = @ + 1, !.cur_property = NoId]
      /\ obs' = unref(f, ctx.cur_property)
      /\ cl' = [cl EXCEPT !.pc = "drain", !.back = "drain", !.timed = FALSE]
  BY DEF mpv_destroy, Unlocked
<1>2. PICK m \in Nat : m = ctx.props_ts + 1 BY <1>a DEF Handle
<1>3. ctx' = [ctx EXCEPT !.destroying = TRUE, !.props = <<>>, !.props_ts = m, !.cur_property = NoId]
  BY <1>1, <1>2
<1>4. /\ SameRing(ctx, ctx') /\ SameFlags(ctx, ctx') /\ ctx'.alive = ctx.alive
      /\ ctx'.async = ctx.async /\ ctx'.need_wakeup = ctx.need_wakeup
      /\ ctx'.hook_pending = ctx.hook_pending
      /\ ctx'.destroying /\ ctx'.props = <<>>
      /\ ctx'.props_ts = m /\ ctx'.cur_property = NoId
  BY <1>a, <1>3 DEF Handle, SameRing, SameFlags
<1>5. Len(ctx'.props) = 0 BY <1>4, EmptySeq
<1>6. cl'.pc = "drain" /\ cl'.back = "drain" /\ ~cl'.timed BY <1>1, <1>d DEF ClientThread
<1>7. ASSUME NEW i \in Ids
      PROVE  /\ f[i] \in Observed /\ f[i].name = obs[i].name /\ f[i].ts = obs[i].ts
             /\ f[i].value_ts = obs[i].value_ts /\ f[i].value = obs[i].value
             /\ f[i].ret_ts = obs[i].ret_ts /\ f[i].ret = obs[i].ret
             /\ f[i].hook = obs[i].hook /\ f[i].refs = obs[i].refs - One(i \in Listed)
  <2>1. PICK o \in Observed : o = obs[i] BY <1>b
  <2>2. PICK r \in Int : r = o.refs - 1 BY DEF Observed
  <2>3. f[i] = IF i \in Listed THEN [o EXCEPT !.refs = r] ELSE o BY <2>1, <2>2
  <2> HIDE DEF f
  <2>4. CASE i \in Listed
    <3>1. f[i] = [o EXCEPT !.refs = r] BY <2>3, <2>4
    <3>2. /\ f[i] \in Observed /\ f[i].name = o.name /\ f[i].ts = o.ts
          /\ f[i].value_ts = o.value_ts /\ f[i].value = o.value
          /\ f[i].ret_ts = o.ret_ts /\ f[i].ret = o.ret
          /\ f[i].hook = o.hook /\ f[i].refs = r
      BY <3>1 DEF Observed
    <3> QED BY <2>1, <2>2, <2>4, <3>2 DEF One
  <2>5. CASE i \notin Listed
    <3>1. f[i] = o BY <2>3, <2>5
    <3>2. o.refs \in Int BY DEF Observed
    <3> QED BY <2>1, <2>5, <3>1, <3>2 DEF One
  <2> QED BY <2>4, <2>5
<1>8. PICK g \in [Ids -> Observed] : g = f
  <2>1. f = [i \in Ids |-> f[i]] OBVIOUS
  <2> HIDE DEF f
  <2> QED BY <1>7, <2>1
<1>9. obs' = unref(g, ctx.cur_property) BY <1>1, <1>8
<1>10. /\ obs' \in [Ids -> Observed]
       /\ \A i \in Ids : /\ obs'[i].name = g[i].name /\ obs'[i].ts = g[i].ts
                         /\ obs'[i].value_ts = g[i].value_ts /\ obs'[i].value = g[i].value
                         /\ obs'[i].ret_ts = g[i].ret_ts /\ obs'[i].ret = g[i].ret
                         /\ obs'[i].hook = g[i].hook
                         /\ obs'[i].refs = g[i].refs - One(ctx.cur_property = i)
  <2>1. CASE ctx.cur_property = NoId
    <3>1. obs' = g BY <1>9, <2>1 DEF unref
    <3>2. \A i \in Ids : g[i].refs \in Int /\ ctx.cur_property # i
      BY <2>1, ClientEventsAssumption DEF Observed
    <3> QED BY <3>1, <3>2 DEF One
  <2>2. CASE ctx.cur_property # NoId
    <3>1. PICK c \in Ids : c = ctx.cur_property BY <1>a, <2>2 DEF Handle
    <3>2. PICK r \in Int : r = g[c].refs - 1 BY DEF Observed
    <3>3. PICK x : x = [g[c] EXCEPT !.refs = r] OBVIOUS
    <3>4. /\ x \in Observed /\ x.name = g[c].name /\ x.ts = g[c].ts
          /\ x.value_ts = g[c].value_ts /\ x.value = g[c].value
          /\ x.ret_ts = g[c].ret_ts /\ x.ret = g[c].ret /\ x.hook = g[c].hook /\ x.refs = r
      <4>1. PICK o \in Observed : o = g[c] OBVIOUS
      <4>2. x = [o EXCEPT !.refs = r] BY <3>3, <4>1
      <4>3. /\ x \in Observed /\ x.name = o.name /\ x.ts = o.ts
            /\ x.value_ts = o.value_ts /\ x.value = o.value
            /\ x.ret_ts = o.ret_ts /\ x.ret = o.ret /\ x.hook = o.hook /\ x.refs = r
        BY <4>2 DEF Observed
      <4> QED BY <4>1, <4>3
    <3>5. obs' = [g EXCEPT ![c] = x] BY <1>9, <2>2, <3>1, <3>2, <3>3 DEF unref
    <3>6. obs' \in [Ids -> Observed] /\ obs'[c] = x /\ \A i \in Ids \ {c} : obs'[i] = g[i]
      BY <3>4, <3>5
    <3>7. \A i \in Ids : g[i].refs \in Int BY DEF Observed
    <3> QED BY <3>1, <3>2, <3>4, <3>6, <3>7 DEF One
  <2> QED BY <2>1, <2>2
<1>11. \A i \in Ids : /\ obs'[i].name = obs[i].name /\ obs'[i].ts = obs[i].ts
                      /\ obs'[i].value_ts = obs[i].value_ts /\ obs'[i].value = obs[i].value
                      /\ obs'[i].ret_ts = obs[i].ret_ts /\ obs'[i].ret = obs[i].ret
                      /\ obs'[i].hook = obs[i].hook
                      /\ obs'[i].refs = obs[i].refs - One(i \in Listed) - One(ctx.cur_property = i)
  <2> HIDE DEF f
  <2> QED BY <1>7, <1>8, <1>10
<1> QED BY <1>1, <1>2, <1>4, <1>5, <1>6, <1>10, <1>11

LEMMA Starts ==
  ASSUME Typed, Pass
  PROVE  /\ UNCHANGED <<obs, val, cl, ops, due>> /\ SameRing(ctx, ctx') /\ SameLife(ctx, ctx')
         /\ SameProps(ctx, ctx') /\ SameCur(ctx, ctx')
         /\ ctx'.async = ctx.async /\ ctx'.need_wakeup = ctx.need_wakeup
         /\ ctx'.hook_pending = ctx.hook_pending /\ ctx'.new_events = ctx.new_events
         /\ core'.requests = core.requests /\ core'.hook = core.hook /\ core'.awake = core.awake
         /\ core.pc \in {"work", "told"}
         /\ \/ /\ Usable /\ ctx.has_pending /\ ~ctx'.has_pending
               /\ core'.pc = "pass" /\ core'.n = 1 /\ core'.list_ts = ctx.props_ts
            \/ /\ ~(Usable /\ ctx.has_pending) /\ ctx' = ctx
               /\ core'.pc = "sleep" /\ core'.n = core.n
<1>a. ctx \in Handle BY DEF Typed
<1>c. core \in CoreThread BY DEF Typed
<1>1. UNCHANGED <<obs, val, cl, ops, due>> /\ core.pc \in {"work", "told"} BY DEF Pass
<1>2. CASE Usable /\ ctx.has_pending
  <2>1. ctx' = [ctx EXCEPT !.has_pending = FALSE] BY <1>2 DEF Pass
  <2>2. PICK t \in Nat : t = ctx.props_ts BY <1>a DEF Handle
  <2>3. core' = [core EXCEPT !.pc = "pass", !.n = 1, !.list_ts = t] BY <1>2, <2>2 DEF Pass
  <2>4. /\ SameRing(ctx, ctx') /\ SameLife(ctx, ctx') /\ SameProps(ctx, ctx') /\ SameCur(ctx, ctx')
        /\ ctx'.async = ctx.async /\ ctx'.need_wakeup = ctx.need_wakeup
        /\ ctx'.hook_pending = ctx.hook_pending /\ ctx'.new_events = ctx.new_events /\ ~ctx'.has_pending
    BY <1>a, <2>1 DEF Handle, SameRing, SameLife, SameProps, SameCur
  <2>5. /\ core'.requests = core.requests /\ core'.hook = core.hook /\ core'.awake = core.awake
        /\ core'.pc = "pass" /\ core'.n = 1 /\ core'.list_ts = t
    BY <1>c, <2>3 DEF CoreThread
  <2> QED BY <1>1, <1>2, <2>2, <2>4, <2>5
<1>3. CASE ~(Usable /\ ctx.has_pending)
  <2>1. ctx' = ctx /\ core' = [core EXCEPT !.pc = "sleep"] BY <1>3 DEF Pass
  <2>2. /\ core'.requests = core.requests /\ core'.hook = core.hook /\ core'.awake = core.awake
        /\ core'.pc = "sleep" /\ core'.n = core.n
    BY <1>c, <2>1 DEF CoreThread
  <2> QED BY <1>1, <1>3, <2>1, <2>2 DEF SameRing, SameLife, SameProps, SameCur
<1> QED BY <1>2, <1>3

(* The core begins to read the value of property i.                        *)
Opens(i) ==
  /\ core.pc = "pass" /\ core.n \in 1..Len(ctx.props) /\ i = Prop /\ Stale(i) /\ i \in Ids
  /\ obs[i].name \notin Plain
  /\ obs' \in [Ids -> Observed] /\ \A j \in Ids \ {i} : obs'[j] = obs[j]
  /\ obs'[i].name = obs[i].name /\ obs'[i].ts = obs[i].ts /\ obs'[i].refs = obs[i].refs + 1
  /\ obs'[i].value_ts = obs[i].value_ts /\ obs'[i].value = obs[i].value
  /\ obs'[i].ret_ts = obs[i].ret_ts /\ obs'[i].ret = obs[i].ret /\ obs'[i].hook = obs[i].hook
  /\ SameRing(ctx, ctx') /\ SameLife(ctx, ctx') /\ SameProps(ctx, ctx') /\ SameCur(ctx, ctx')
  /\ SameFlags(ctx, ctx')
  /\ ctx'.async = ctx.async + 1 /\ ctx'.need_wakeup = ctx.need_wakeup
  /\ ctx'.hook_pending = ctx.hook_pending
  /\ core'.pc = "read" /\ core'.id = i /\ core'.n = core.n /\ core'.list_ts = core.list_ts
  /\ core'.requests = core.requests /\ core'.hook = core.hook /\ core'.awake = core.awake

(* The core, which holds the lock, now knows that v is the value of        *)
(* property i.                                                             *)
Notes(i, v) ==
  /\ obs' \in [Ids -> Observed] /\ \A j \in Ids \ {i} : obs'[j] = obs[j]
  /\ obs'[i].name = obs[i].name /\ obs'[i].ts = obs[i].ts
  /\ obs'[i].value_ts = obs[i].ts /\ obs'[i].value = v /\ obs'[i].ret = obs[i].ret
  /\ NoEvent(obs[i], v) => obs'[i].ret_ts = obs[i].ts /\ ~obs'[i].hook
  /\ ~NoEvent(obs[i], v) => obs'[i].ret_ts = obs[i].ret_ts /\ obs'[i].hook = obs[i].hook
  /\ SameRing(ctx, ctx') /\ SameLife(ctx, ctx') /\ SameProps(ctx, ctx') /\ SameCur(ctx, ctx')
  /\ ctx'.need_wakeup = ctx.need_wakeup
  /\ ctx'.has_pending = ctx.has_pending /\ ctx'.hook_pending = ctx.hook_pending
  /\ ctx'.new_events = (ctx.new_events \/ obs[i].hook \/ ~NoEvent(obs[i], v))
  /\ core'.pc = "pass" /\ core'.n = core.n + 1 /\ core'.id = core.id /\ core'.list_ts = core.list_ts
  /\ core'.requests = core.requests /\ core'.hook = core.hook /\ core'.awake = core.awake

(* The core is through with the list.                                      *)
Ends ==
  /\ SameRing(ctx, ctx') /\ SameLife(ctx, ctx') /\ SameProps(ctx, ctx') /\ SameCur(ctx, ctx')
  /\ ctx'.hook_pending = ctx.hook_pending /\ ctx'.new_events = ctx.new_events
  /\ ctx'.need_wakeup = (ctx.need_wakeup \/ ctx.destroying \/ ctx.new_events)
  /\ core'.pc = "sleep" /\ core'.n = core.n /\ core'.id = core.id
  /\ core'.requests = core.requests /\ core'.hook = core.hook

LEMMA PassSteps ==
  ASSUME Typed, PassProp
  PROVE  /\ core.pc = "pass" /\ UNCHANGED <<val, cl, ops, due>>
         /\ \/ /\ core.n > Len(ctx.props) /\ UNCHANGED obs /\ Ends
               /\ ctx'.async = ctx.async /\ ctx'.has_pending = ctx.has_pending /\ core'.awake = core.awake
            \/ /\ core.n \in 1..Len(ctx.props) /\ ~Stale(Prop) /\ UNCHANGED <<ctx, obs>>
               /\ core'.pc = "pass" /\ core'.n = core.n + 1 /\ core'.id = core.id
               /\ core'.list_ts = core.list_ts /\ core'.requests = core.requests
               /\ core'.hook = core.hook /\ core'.awake = core.awake
            \/ /\ core.n \in 1..Len(ctx.props) /\ Stale(Prop) /\ Prop \in Ids
               /\ obs[Prop].name \in Plain /\ Notes(Prop, "none") /\ obs'[Prop].refs = obs[Prop].refs
               /\ ctx'.async = ctx.async
            \/ Opens(Prop)
<1>a. ctx \in Handle BY DEF Typed
<1>b. obs \in [Ids -> Observed] BY DEF Typed
<1>c. core \in CoreThread BY DEF Typed
<1>0. core.pc = "pass" /\ UNCHANGED <<val, cl, ops, due>> BY PassesOne
<1>1. CASE core.n > Len(ctx.props) /\ ctx' = PassDone(ctx) /\ UNCHANGED obs /\ core' = [core EXCEPT !.pc = "sleep"]
  <2>1. SameRing(ctx, ctx') /\ SameBut(ctx, ctx') /\ ctx'.need_wakeup = (ctx.need_wakeup \/ ctx.destroying \/ ctx.new_events)
    BY <1>1, <1>a, Passes
  <2>2. /\ core'.pc = "sleep" /\ core'.n = core.n /\ core'.id = core.id
        /\ core'.requests = core.requests /\ core'.hook = core.hook /\ core'.awake = core.awake
    BY <1>1, <1>c DEF CoreThread
  <2> QED BY <1>0, <1>1, <2>1, <2>2 DEF Ends, SameBut, SameCur
<1>2. CASE /\ core.n \in 1..Len(ctx.props) /\ ~Stale(Prop) /\ UNCHANGED <<ctx, obs>>
           /\ core' = [core EXCEPT !.n = @ + 1]
  <2>1. PICK n \in Nat \ {0} : n = core.n + 1 BY <1>c DEF CoreThread
  <2>2. core' = [core EXCEPT !.n = n] BY <1>2, <2>1
  <2>3. /\ core'.pc = core.pc /\ core'.n = n /\ core'.id = core.id
        /\ core'.list_ts = core.list_ts /\ core'.requests = core.requests
        /\ core'.hook = core.hook /\ core'.awake = core.awake
    BY <1>c, <2>2 DEF CoreThread
  <2> QED BY <1>0, <1>2, <2>1, <2>3
<1>4. ASSUME core' = [core EXCEPT !.pc = "pass", !.n = @ + 1]
      PROVE  /\ core'.pc = "pass" /\ core'.n = core.n + 1 /\ core'.id = core.id
             /\ core'.list_ts = core.list_ts /\ core'.requests = core.requests
             /\ core'.hook = core.hook /\ core'.awake = core.awake
  <2>1. PICK n \in Nat \ {0} : n = core.n + 1 BY <1>c DEF CoreThread
  <2>2. core' = [core EXCEPT !.pc = "pass", !.n = n] BY <1>4, <2>1
  <2> QED BY <1>c, <2>1, <2>2 DEF CoreThread
<1>5. CASE /\ core.n \in 1..Len(ctx.props) /\ Stale(Prop) /\ Prop \in Ids
           /\ obs[Prop].name \in Plain /\ Known(ctx, Prop, "none")
  <2>1. PICK i \in Ids : i = Prop BY <1>5
  <2>2. PICK v \in Values \cup {"none"} : v = "none" OBVIOUS
  <2>3. Known(ctx, i, v) BY <1>5, <2>1, <2>2
  <2>4. /\ obs' \in [Ids -> Observed] /\ \A j \in Ids \ {i} : obs'[j] = obs[j]
        /\ obs'[i].name = obs[i].name /\ obs'[i].ts = obs[i].ts
        /\ obs'[i].value_ts = obs[i].ts /\ obs'[i].value = v /\ obs'[i].ret = obs[i].ret
        /\ NoEvent(obs[i], v) => obs'[i].ret_ts = obs[i].ts /\ ~obs'[i].hook
        /\ ~NoEvent(obs[i], v) => obs'[i].ret_ts = obs[i].ret_ts /\ obs'[i].hook = obs[i].hook
        /\ obs'[i].refs = obs[i].refs - One(core.pc = "got")
        /\ SameRing(ctx, ctx') /\ SameLife(ctx, ctx') /\ SameProps(ctx, ctx')
        /\ ctx'.async = ctx.async /\ ctx'.need_wakeup = ctx.need_wakeup /\ ctx'.has_pending = ctx.has_pending
        /\ ctx'.cur_index = ctx.cur_index /\ ctx'.cur_property = ctx.cur_property
        /\ ctx'.hook_pending = ctx.hook_pending
        /\ ctx'.new_events = (ctx.new_events \/ obs[i].hook \/ ~NoEvent(obs[i], v))
        /\ core' = [core EXCEPT !.pc = "pass", !.n = @ + 1]
    BY <1>a, <2>3, Knows
  <2>5. Notes(i, v) BY <1>4, <2>4 DEF Notes, SameCur
  <2>6. obs'[i].refs = obs[i].refs
    <3>1. obs[i].refs \in Int BY <1>b DEF Observed
    <3> QED BY <1>0, <2>4, <3>1 DEF One
  <2> QED BY <1>0, <1>5, <2>1, <2>2, <2>4, <2>5, <2>6
<1>6. CASE /\ core.n \in 1..Len(ctx.props) /\ Stale(Prop) /\ Prop \in Ids
           /\ obs[Prop].name \notin Plain
           /\ obs' = [obs EXCEPT ![Prop].refs = @ + 1]
           /\ ctx' = [ctx EXCEPT !.async = @ + 1]
           /\ core' = [core EXCEPT !.pc = "read", !.id = Prop]
  <2>1. PICK i \in Ids : i = Prop BY <1>6
  <2>2. /\ core'.pc = "read" /\ core'.id = i /\ core'.n = core.n /\ core'.list_ts = core.list_ts
        /\ core'.requests = core.requests /\ core'.hook = core.hook /\ core'.awake = core.awake
    <3>1. core' = [core EXCEPT !.pc = "read", !.id = i] BY <1>6, <2>1
    <3> QED BY <1>c, <3>1 DEF CoreThread
  <2>3. /\ SameRing(ctx, ctx') /\ SameLife(ctx, ctx') /\ SameProps(ctx, ctx') /\ SameCur(ctx, ctx')
        /\ SameFlags(ctx, ctx')
        /\ ctx'.async = ctx.async + 1 /\ ctx'.need_wakeup = ctx.need_wakeup
        /\ ctx'.hook_pending = ctx.hook_pending
    <3>1. PICK r \in Int : r = ctx.async + 1 BY <1>a DEF Handle
    <3>2. ctx' = [ctx EXCEPT !.async = r] BY <1>6, <3>1
    <3>3. /\ SameRing(ctx, ctx') /\ SameLife(ctx, ctx') /\ SameProps(ctx, ctx') /\ SameCur(ctx, ctx')
          /\ SameFlags(ctx, ctx')
          /\ ctx'.async = r /\ ctx'.need_wakeup = ctx.need_wakeup
          /\ ctx'.hook_pending = ctx.hook_pending
      BY <1>a, <3>2 DEF Handle, SameRing, SameLife, SameProps, SameCur, SameFlags
    <3> QED BY <3>1, <3>3
  <2>4. /\ obs' \in [Ids -> Observed] /\ \A j \in Ids \ {i} : obs'[j] = obs[j]
        /\ obs'[i].name = obs[i].name /\ obs'[i].ts = obs[i].ts /\ obs'[i].refs = obs[i].refs + 1
        /\ obs'[i].value_ts = obs[i].value_ts /\ obs'[i].value = obs[i].value
        /\ obs'[i].ret_ts = obs[i].ret_ts /\ obs'[i].ret = obs[i].ret /\ obs'[i].hook = obs[i].hook
    <3>1. PICK o \in Observed : o = obs[i] BY <1>b
    <3>2. PICK r \in Int : r = o.refs + 1 BY DEF Observed
    <3>3. PICK x : x = [o EXCEPT !.refs = r] OBVIOUS
    <3>4. /\ x \in Observed /\ x.name = o.name /\ x.ts = o.ts /\ x.refs = r
          /\ x.value_ts = o.value_ts /\ x.value = o.value
          /\ x.ret_ts = o.ret_ts /\ x.ret = o.ret /\ x.hook = o.hook
      BY <3>3 DEF Observed
    <3>5. obs' = [obs EXCEPT ![i] = x] BY <1>6, <2>1, <3>1, <3>2, <3>3
    <3>6. obs' \in [Ids -> Observed] /\ obs'[i] = x /\ \A j \in Ids \ {i} : obs'[j] = obs[j]
      BY <1>b, <3>4, <3>5
    <3> QED BY <3>1, <3>2, <3>4, <3>6
  <2>5. Opens(i) BY <1>0, <1>6, <2>1, <2>2, <2>3, <2>4 DEF Opens
  <2> QED BY <1>0, <2>1, <2>5
<1> QED BY <1>1, <1>2, <1>5, <1>6, PassesOne

LEMMA Relocks ==
  ASSUME Typed, Relock
  PROVE  /\ core.pc = "got" /\ core.id \in Ids /\ UNCHANGED <<val, cl, ops, due>>
         /\ obs' \in [Ids -> Observed] /\ ctx'.async = ctx.async - 1
         /\ obs'[core.id].refs = obs[core.id].refs - 1
         /\ \/ SameList /\ Notes(core.id, core.val)
            \/ /\ ~SameList
               /\ \A j \in Ids \ {core.id} : obs'[j] = obs[j]
               /\ obs'[core.id].name = obs[core.id].name /\ obs'[core.id].ts = obs[core.id].ts
               /\ obs'[core.id].value_ts = obs[core.id].value_ts /\ obs'[core.id].value = obs[core.id].value
               /\ obs'[core.id].ret_ts = obs[core.id].ret_ts /\ obs'[core.id].ret = obs[core.id].ret
               /\ obs'[core.id].hook = obs[core.id].hook
               /\ Ends /\ ctx'.has_pending /\ core'.awake
<1>a. ctx \in Handle BY DEF Typed
<1>b. obs \in [Ids -> Observed] BY DEF Typed
<1>c. core \in CoreThread BY DEF Typed
<1>1. core.pc = "got" /\ UNCHANGED <<val, cl, ops, due>> BY DEF Relock
<1>2. PICK i \in Ids : i = core.id BY <1>1 DEF Typed, Reading, Named
<1>3. PICK r \in Int : r = ctx.async - 1 BY <1>a DEF Handle
<1>4. PICK c : c = [ctx EXCEPT !.async = r] OBVIOUS
<1>5. /\ c \in Handle /\ SameRing(ctx, c) /\ SameLife(ctx, c) /\ SameProps(ctx, c) /\ SameCur(ctx, c)
      /\ SameFlags(ctx, c) /\ c.async = r /\ c.need_wakeup = ctx.need_wakeup
      /\ c.hook_pending = ctx.hook_pending
  BY <1>a, <1>4 DEF Handle, SameRing, SameLife, SameProps, SameCur, SameFlags
<1>6. CASE SameList
  <2>1. PICK v \in Values \cup {"none"} : v = core.val BY <1>c DEF CoreThread
  <2>2. Known(c, i, v) BY <1>2, <1>3, <1>4, <1>6, <2>1 DEF Relock
  <2>3. /\ obs' \in [Ids -> Observed] /\ \A j \in Ids \ {i} : obs'[j] = obs[j]
        /\ obs'[i].name = obs[i].name /\ obs'[i].ts = obs[i].ts
        /\ obs'[i].value_ts = obs[i].ts /\ obs'[i].value = v /\ obs'[i].ret = obs[i].ret
        /\ NoEvent(obs[i], v) => obs'[i].ret_ts = obs[i].ts /\ ~obs'[i].hook
        /\ ~NoEvent(obs[i], v) => obs'[i].ret_ts = obs[i].ret_ts /\ obs'[i].hook = obs[i].hook
        /\ obs'[i].refs = obs[i].refs - One(core.pc = "got")
        /\ SameRing(c, ctx') /\ SameLife(c, ctx') /\ SameProps(c, ctx')
        /\ ctx'.async = c.async /\ ctx'.need_wakeup = c.need_wakeup /\ ctx'.has_pending = c.has_pending
        /\ ctx'.cur_index = c.cur_index /\ ctx'.cur_property = c.cur_property
        /\ ctx'.hook_pending = c.hook_pending
        /\ ctx'.new_events = (c.new_events \/ obs[i].hook \/ ~NoEvent(obs[i], v))
        /\ core' = [core EXCEPT !.pc = "pass", !.n = @ + 1]
    BY <1>5, <2>2, Knows
  <2>4. /\ core'.pc = "pass" /\ core'.n = core.n + 1 /\ core'.id = core.id
        /\ core'.list_ts = core.list_ts /\ core'.requests = core.requests
        /\ core'.hook = core.hook /\ core'.awake = core.awake
    <3>1. PICK n \in Nat \ {0} : n = core.n + 1 BY <1>c DEF CoreThread
    <3>2. core' = [core EXCEPT !.pc = "pass", !.n = n] BY <2>3, <3>1
    <3> QED BY <1>c, <3>1, <3>2 DEF CoreThread
  <2>5. Notes(i, v)
    BY <1>5, <2>3, <2>4 DEF Notes, SameRing, SameLife, SameProps, SameCur, SameFlags
  <2>6. obs'[i].refs = obs[i].refs - 1 BY <1>1, <2>3 DEF One
  <2> QED BY <1>1, <1>2, <1>3, <1>5, <1>6, <2>1, <2>3, <2>5, <2>6
<1>7. CASE ~SameList
  <2>1. /\ obs' = unref(obs, i) /\ ctx' = PassDone([c EXCEPT !.has_pending = TRUE])
        /\ core' = [core EXCEPT !.pc = "sleep", !.awake = TRUE]
    BY <1>2, <1>3, <1>4, <1>7 DEF Relock
  <2>2. PICK d : d = [c EXCEPT !.has_pending = TRUE] OBVIOUS
  <2>3. /\ d \in Handle /\ SameRing(c, d) /\ SameLife(c, d) /\ SameProps(c, d) /\ SameCur(c, d)
        /\ d.new_events = c.new_events /\ d.async = c.async /\ d.need_wakeup = c.need_wakeup
        /\ d.hook_pending = c.hook_pending /\ d.has_pending
    BY <1>5, <2>2 DEF Handle, SameRing, SameLife, SameProps, SameCur
  <2>4. /\ SameRing(d, ctx') /\ SameBut(d, ctx')
        /\ ctx'.need_wakeup = (d.need_wakeup \/ d.destroying \/ d.new_events)
    BY <2>1, <2>2, <2>3, Passes
  <2>5. /\ core'.pc = "sleep" /\ core'.n = core.n /\ core'.id = core.id /\ core'.awake
        /\ core'.requests = core.requests /\ core'.hook = core.hook
    BY <1>c, <2>1 DEF CoreThread
  <2>6. Ends /\ ctx'.has_pending /\ ctx'.async = r
    BY <1>5, <2>3, <2>4, <2>5 DEF Ends, SameRing, SameLife, SameProps, SameCur, SameFlags, SameBut
  <2>7. PICK o \in Observed : o = obs[i] BY <1>b
  <2>8. PICK q \in Int : q = o.refs - 1 BY DEF Observed
  <2>9. PICK x : x = [o EXCEPT !.refs = q] OBVIOUS
  <2>10. /\ x \in Observed /\ x.name = o.name /\ x.ts = o.ts /\ x.refs = q
         /\ x.value_ts = o.value_ts /\ x.value = o.value
         /\ x.ret_ts = o.ret_ts /\ x.ret = o.ret /\ x.hook = o.hook
    BY <2>9 DEF Observed
  <2>11. obs' = [obs EXCEPT ![i] = x] BY <2>1, <2>7, <2>8, <2>9, ClientEventsAssumption DEF unref
  <2>12. obs' \in [Ids -> Observed] /\ obs'[i] = x /\ \A j \in Ids \ {i} : obs'[j] = obs[j]
    BY <1>b, <2>10, <2>11
  <2> QED BY <1>1, <1>2, <1>3, <1>7, <2>5, <2>6, <2>7, <2>8, <2>10, <2>12
<1> QED BY <1>6, <1>7

LEMMA Reads ==
  ASSUME Typed, Read
  PROVE  /\ UNCHANGED <<ctx, obs, val, cl, ops, due>>
         /\ core.pc = "read" /\ core'.pc = "got" /\ core'.val = val[obs[core.id].name]
         /\ core'.n = core.n /\ core'.id = core.id /\ core'.list_ts = core.list_ts
         /\ core'.requests = core.requests /\ core'.hook = core.hook /\ core'.awake = core.awake
<1>1. core \in CoreThread BY DEF Typed
<1>2. /\ core.pc = "read" /\ core' = [core EXCEPT !.pc = "got", !.val = val[obs[core.id].name]]
      /\ UNCHANGED <<ctx, obs, val, cl, ops, due>>
  BY DEF Read
<1> QED BY <1>1, <1>2 DEF CoreThread

LEMMA Blocks ==
  ASSUME Typed, Block
  PROVE  /\ obs' = Flagged /\ UNCHANGED <<val, core, ops, due>>
         /\ cl.pc = "scan" /\ Unlocked /\ ~Overflow /\ ~Deliverable /\ Found = {}
         /\ cl'.pc = "unlocked" /\ cl'.back = "scan"
         /\ SameRing(ctx, ctx') /\ SameLife(ctx, ctx') /\ SameProps(ctx, ctx')
         /\ ctx'.async = ctx.async /\ ctx'.need_wakeup = ctx.need_wakeup /\ ctx'.has_pending = ctx.has_pending
         /\ ctx'.cur_index = Len(ctx.props) /\ ctx'.cur_property = ctx.cur_property
         /\ ctx'.hook_pending = (ctx.hook_pending \/ AtHook)
         /\ ctx'.new_events = (ctx.new_events /\ ~Rewinds /\ ctx.props # <<>>)
<1>a. ctx \in Handle BY DEF Typed
<1>d. cl \in ClientThread BY DEF Typed
<1>1. /\ ctx' = [Seen EXCEPT !.cur_index = Len(ctx.props)] /\ obs' = Flagged
      /\ cl' = [cl EXCEPT !.pc = "unlocked", !.back = "scan", !.timed = @ \/ ctx.queued_wakeup]
      /\ UNCHANGED <<val, core, ops, due>>
      /\ cl.pc = "scan" /\ Unlocked /\ ~Overflow /\ ~Deliverable /\ Found = {}
  BY DEF Block, Scanning
<1>2. PICK c \in Handle :
        /\ c = Seen /\ SameRing(ctx, c) /\ SameLife(ctx, c) /\ SameProps(ctx, c)
        /\ c.async = ctx.async /\ c.need_wakeup = ctx.need_wakeup /\ c.has_pending = ctx.has_pending
        /\ c.cur_property = ctx.cur_property
        /\ c.hook_pending = (ctx.hook_pending \/ AtHook)
        /\ c.new_events = (ctx.new_events /\ ~Rewinds /\ (Found = {} => ctx.props # <<>>))
  BY <1>a, Sees
<1>3. PICK n \in Nat : n = Len(ctx.props) BY <1>a, LenProperties DEF Handle
<1>4. ctx' = [c EXCEPT !.cur_index = n] BY <1>1, <1>2, <1>3
<1>5. /\ SameRing(c, ctx') /\ SameLife(c, ctx') /\ SameProps(c, ctx')
      /\ ctx'.async = c.async /\ ctx'.need_wakeup = c.need_wakeup /\ ctx'.has_pending = c.has_pending
      /\ ctx'.cur_index = n /\ ctx'.cur_property = c.cur_property
      /\ ctx'.hook_pending = c.hook_pending /\ ctx'.new_events = c.new_events
  BY <1>4 DEF Handle, SameRing, SameLife, SameProps
<1>6. SameRing(ctx, ctx') /\ SameLife(ctx, ctx') /\ SameProps(ctx, ctx')
  BY <1>2, <1>5 DEF SameRing, SameLife, SameProps
<1>7. cl'.pc = "unlocked" /\ cl'.back = "scan" BY <1>1, <1>d DEF ClientThread
<1>8. ctx'.new_events = (ctx.new_events /\ ~Rewinds /\ ctx.props # <<>>) BY <1>1, <1>2, <1>5
<1> QED BY <1>1, <1>2, <1>3, <1>5, <1>6, <1>7, <1>8

(* The steps, sorted by what they change.                                  *)
LEMMA Steps ==
  ASSUME [Next]_vars
  PROVE  \/ Still \/ Pass \/ PassProp \/ Read \/ Relock \/ ReturnProperty \/ Block \/ mpv_destroy
         \/ \E p \in Names, v \in Values : Change(p, v) \/ Resize(p, v)
         \/ \E p \in Names : mpv_observe_property(p)
         \/ \E i \in Ids : mpv_unobserve_property(i)
BY DEF Next, Core, Return, Client, Environment, Still

(* Those that leave the ring buffer and the requests alone.                *)
Aside ==
  \/ HookContinue \/ NextRound \/ Quit \/ TimerFires \/ WaitEvent \/ ReturnNone \/ StopWaiting
  \/ Sleep \/ TimedOut \/ mpv_wakeup \/ mpv_wait_async_requests \/ UNCHANGED vars

LEMMA Asides ==
  ASSUME Typed, Aside
  PROVE  SameRing(ctx, ctx') /\ ctx'.alive = ctx.alive /\ core'.requests = core.requests
         /\ ctx'.hook_pending = ctx.hook_pending /\ due' = due
         /\ (core'.hook = core.hook \/ HookContinue)
<1>a. ctx \in Handle BY DEF Typed
<1>c. core \in CoreThread BY DEF Typed
<1>1. CASE HookContinue BY <1>1, <1>c DEF HookContinue, CoreThread, SameRing
<1>2. CASE NextRound \/ Quit \/ TimerFires
  BY <1>2, <1>c DEF NextRound, Quit, TimerFires, CoreThread, SameRing
<1>3. CASE WaitEvent \/ Sleep \/ TimedOut \/ mpv_wait_async_requests \/ UNCHANGED vars
  BY <1>3 DEF WaitEvent, Sleep, TimedOut, mpv_wait_async_requests, vars, SameRing
<1>4. CASE ReturnNone \/ StopWaiting \/ mpv_wakeup
  BY <1>4, <1>a DEF ReturnNone, StopWaiting, mpv_wakeup, Returned, wakeup_client, Handle, SameRing
<1> QED BY <1>1, <1>2, <1>3, <1>4 DEF Aside

LEMMA Overflows ==
  ASSUME Typed, ReturnOverflow
  PROVE  /\ ctx'.events = ctx.events /\ ctx'.reserved = ctx.reserved /\ ctx'.alive = ctx.alive
         /\ ctx'.hook_pending = ctx.hook_pending /\ ctx'.need_wakeup = ctx.need_wakeup
         /\ ctx.events = <<>> /\ cl.pc = "scan" /\ cl'.pc = "idle" /\ UNCHANGED <<obs, val, core, ops, due>>
<1>1. ctx \in Handle /\ cl \in ClientThread BY DEF Typed
<1> QED BY <1>1 DEF ReturnOverflow, Scanning, Overflow, Returned, Handle, ClientThread

LEMMA Requests ==
  ASSUME Typed, Request
  PROVE  /\ ctx'.events = ctx.events /\ ctx'.reserved = ctx.reserved + 1 /\ ctx'.choked = ctx.choked
         /\ SameLife(ctx, ctx') /\ ctx'.hook_pending = ctx.hook_pending /\ ctx'.need_wakeup = ctx.need_wakeup
         /\ Room(ctx) /\ Usable /\ core'.requests = core.requests + 1 /\ core'.hook = core.hook
         /\ core'.pc = core.pc /\ UNCHANGED <<obs, val, cl, due>>
<1>a. ctx \in Handle BY DEF Typed
<1>c. core \in CoreThread BY DEF Typed
<1>1. PICK r \in Int, q \in Nat : r = ctx.reserved + 1 /\ q = core.requests + 1
  BY <1>a, <1>c DEF Handle, CoreThread
<1>2. /\ ctx' = [ctx EXCEPT !.reserved = r] /\ core' = [core EXCEPT !.requests = q]
      /\ Room(ctx) /\ Usable /\ UNCHANGED <<obs, val, cl, due>>
  BY <1>1 DEF Request
<1>3. /\ ctx'.events = ctx.events /\ ctx'.reserved = r /\ ctx'.choked = ctx.choked
      /\ SameLife(ctx, ctx') /\ ctx'.hook_pending = ctx.hook_pending /\ ctx'.need_wakeup = ctx.need_wakeup
  BY <1>a, <1>2 DEF Handle, SameLife
<1>4. core'.requests = q /\ core'.hook = core.hook /\ core'.pc = core.pc BY <1>c, <1>2 DEF CoreThread
<1> QED BY <1>1, <1>2, <1>3, <1>4

LEMMA Replies ==
  ASSUME Typed, Reply
  PROVE  /\ ctx'.events = Append(ctx.events, "reply") /\ ctx'.reserved = ctx.reserved - 1
         /\ ctx'.choked = ctx.choked /\ SameLife(ctx, ctx') /\ ctx'.hook_pending = ctx.hook_pending
         /\ ctx'.need_wakeup /\ core.requests > 0 /\ core'.requests = core.requests - 1
         /\ core'.hook = core.hook /\ core'.pc = core.pc /\ UNCHANGED <<obs, val, cl, ops, due>>
<1>a. ctx \in Handle BY DEF Typed
<1>c. core \in CoreThread BY DEF Typed
<1>1. /\ core.requests > 0 /\ core' = [core EXCEPT !.requests = @ - 1] /\ UNCHANGED <<obs, val, cl, ops, due>>
      /\ ctx' = append_event([ctx EXCEPT !.reserved = @ - 1], "reply")
  BY DEF Reply
<1>2. PICK r \in Int, q \in Nat : r = ctx.reserved - 1 /\ q = core.requests - 1
  BY <1>a, <1>c, <1>1 DEF Handle, CoreThread
<1>3. PICK c : c = [ctx EXCEPT !.reserved = r] OBVIOUS
<1>4. /\ c \in Handle /\ c.events = ctx.events /\ c.reserved = r /\ c.choked = ctx.choked
      /\ SameLife(ctx, c) /\ c.hook_pending = ctx.hook_pending
  BY <1>a, <1>3 DEF Handle, SameLife
<1>5. ctx' = append_event(c, "reply") BY <1>1, <1>2, <1>3
<1>6. /\ SameBut(c, ctx') /\ ctx'.choked = c.choked
      /\ ctx'.events = Append(c.events, "reply") /\ ctx'.need_wakeup
  BY <1>4, <1>5, Appends
<1>7. core'.requests = q /\ core'.hook = core.hook /\ core'.pc = core.pc
  <2>1. core' = [core EXCEPT !.requests = q] BY <1>1, <1>2
  <2> QED BY <1>c, <2>1 DEF CoreThread
<1> QED BY <1>1, <1>2, <1>4, <1>6, <1>7 DEF SameBut, SameLife

LEMMA EventsTaken ==
  ASSUME Typed, ReturnEvent
  PROVE  /\ ctx'.events = Tail(ctx.events) /\ ctx.events # <<>> /\ Len(ctx'.events) = Len(ctx.events) - 1
         /\ \A k \in 1..Len(ctx.events) - 1 : ctx'.events[k] = ctx.events[k + 1]
         /\ ctx'.reserved = ctx.reserved /\ ctx'.choked = ctx.choked
         /\ SameLife(ctx, ctx') /\ ctx'.hook_pending = (ctx.hook_pending /\ ~AtHook)
         /\ ctx'.need_wakeup = ctx.need_wakeup /\ ~HeldBack
         /\ cl.pc = "scan" /\ cl'.pc = "idle" /\ UNCHANGED <<obs, val, core, ops, due>>
<1>a. ctx \in Handle BY DEF Typed
<1>b. cl \in ClientThread BY DEF Typed
<1>1. /\ ctx.events # <<>> /\ ~HeldBack /\ cl.pc = "scan" /\ UNCHANGED <<obs, val, core, ops, due>>
      /\ ctx' = Returned([ctx EXCEPT !.events = Tail(@), !.hook_pending = @ /\ ~AtHook])
      /\ cl' = [cl EXCEPT !.pc = "idle"]
  BY DEF ReturnEvent, Scanning, Deliverable
<1>2. PICK s \in Seq(Kinds \cup {"reply"}) : s = ctx.events BY <1>a DEF Handle
<1>3. PICK t : t = Tail(s) OBVIOUS
<1>4. /\ t \in Seq(Kinds \cup {"reply"}) /\ Len(t) = Len(s) - 1
      /\ \A k \in 1..Len(s) - 1 : t[k] = s[k + 1]
  BY <1>1, <1>2, <1>3, HeadTailProperties
<1> DEFINE h == ctx.hook_pending /\ ~AtHook
<1>5. ctx' = Returned([ctx EXCEPT !.events = t, !.hook_pending = h]) BY <1>1, <1>2, <1>3
<1>6. h \in BOOLEAN BY <1>a DEF Handle
<1> HIDE DEF h
<1>7. /\ ctx'.events = t /\ ctx'.reserved = ctx.reserved /\ ctx'.choked = ctx.choked
      /\ SameLife(ctx, ctx') /\ ctx'.hook_pending = h /\ ctx'.need_wakeup = ctx.need_wakeup
  BY <1>a, <1>4, <1>5, <1>6 DEF Returned, Handle, SameLife
<1>8. cl'.pc = "idle" BY <1>b, <1>1 DEF ClientThread
<1> QED BY <1>1, <1>2, <1>3, <1>4, <1>7, <1>8 DEF h

LEMMA Frees ==
  ASSUME Typed, FreeHandle
  PROVE  /\ ctx'.events = <<>> /\ Len(ctx'.events) = 0 /\ ctx'.reserved = ctx.reserved /\ ctx'.choked = ctx.choked
         /\ ctx'.destroying = ctx.destroying /\ ~ctx'.alive /\ cl.pc = "remove" /\ cl'.pc = "gone"
         /\ cl'.back = cl.back /\ cl'.timed = cl.timed
         /\ core'.requests = core.requests /\ core'.hook = core.hook /\ core'.pc = core.pc /\ core'.awake
         /\ UNCHANGED <<obs, val, ops, due>>
<1>a. ctx \in Handle BY DEF Typed
<1>b. cl \in ClientThread BY DEF Typed
<1>c. core \in CoreThread BY DEF Typed
<1>1. /\ cl.pc = "remove" /\ ctx' = [ctx EXCEPT !.alive = FALSE, !.events = <<>>]
      /\ core' = [core EXCEPT !.awake = TRUE] /\ cl' = [cl EXCEPT !.pc = "gone"]
      /\ UNCHANGED <<obs, val, ops, due>>
  BY DEF FreeHandle
<1>2. ctx'.events = <<>> /\ ctx'.reserved = ctx.reserved /\ ctx'.choked = ctx.choked
      /\ ctx'.destroying = ctx.destroying /\ ~ctx'.alive
  BY <1>a, <1>1 DEF Handle
<1>3. cl'.pc = "gone" /\ cl'.back = cl.back /\ cl'.timed = cl.timed BY <1>b, <1>1 DEF ClientThread
<1>4. core'.requests = core.requests /\ core'.hook = core.hook /\ core'.pc = core.pc /\ core'.awake
  BY <1>c, <1>1 DEF CoreThread
<1>5. Len(ctx'.events) = 0 BY <1>2, EmptySeq
<1> QED BY <1>1, <1>2, <1>3, <1>4, <1>5

(* The core sends an event or the hook, or the last event of all.          *)
Adds(e) ==
  /\ SameLife(ctx, ctx') /\ ctx'.reserved = ctx.reserved /\ ctx'.hook_pending = ctx.hook_pending
  /\ \/ ctx' = ctx
     \/ /\ Room(ctx) /\ ctx'.choked = ctx.choked /\ ctx'.events = Append(ctx.events, e) /\ ctx'.need_wakeup
     \/ /\ ~Room(ctx) /\ ctx'.choked /\ ctx'.events = ctx.events /\ ctx'.need_wakeup = ctx.need_wakeup

LEMMA CoreSends ==
  ASSUME Typed, Send
  PROVE  /\ UNCHANGED <<obs, val, cl>> /\ ctx.alive /\ core'.requests = core.requests /\ core'.pc = core.pc
         /\ \E e \in {"event", "hook"} :
              /\ Op(e) /\ Adds(e) /\ (e = "hook" => ~core.hook)
              /\ \/ core'.hook = core.hook /\ due' = due /\ (e = "hook" => ctx'.events = ctx.events)
                 \/ e = "hook" /\ core'.hook /\ due' = [i \in Ids |-> IF i \in Listed THEN obs[i].ts ELSE 0]
<1>a. ctx \in Handle BY DEF Typed
<1>c. core \in CoreThread BY DEF Typed
<1>1. PICK e \in {"event", "hook"} :
        /\ Op(e) /\ (e = "hook" => ~core.hook) /\ ctx' = send_event(ctx, e)
        /\ IF e = "hook" /\ ~Refuses(ctx, e)
           THEN /\ core' = [core EXCEPT !.hook = TRUE]
                /\ due' = [i \in Ids |-> IF i \in Listed THEN obs[i].ts ELSE 0]
           ELSE UNCHANGED <<core, due>>
  BY DEF Send
<1>2. UNCHANGED <<obs, val, cl>> /\ ctx.alive BY DEF Send
<1>3. e \in Kinds BY DEF Kinds
<1>4. /\ SameBut(ctx, ctx')
      /\ \/ ctx' = ctx
         \/ Room(ctx) /\ ~Refuses(ctx, e) /\ ctx'.choked = ctx.choked /\ ctx'.events = Append(ctx.events, e) /\ ctx'.need_wakeup
         \/ Refuses(ctx, e) /\ ~Room(ctx) /\ ctx'.choked /\ ctx'.events = ctx.events /\ ctx'.need_wakeup = ctx.need_wakeup
  BY <1>a, <1>1, <1>3, Sends
<1>5. Adds(e) BY <1>4 DEF Adds, SameBut
<1>6. core'.requests = core.requests /\ core'.pc = core.pc BY <1>1, <1>c DEF CoreThread
<1>7. CASE e = "hook" /\ ~Refuses(ctx, e)
  <2>1. core'.hook BY <1>1, <1>7, <1>c DEF CoreThread
  <2> QED BY <1>1, <1>2, <1>5, <1>6, <1>7, <2>1
<1>8. CASE ~(e = "hook" /\ ~Refuses(ctx, e))
  <2>1. core' = core /\ due' = due BY <1>1, <1>8
  <2>2. e = "hook" => ctx'.events = ctx.events BY <1>4, <1>8
  <2> QED BY <1>1, <1>2, <1>5, <1>6, <2>1, <2>2
<1> QED BY <1>7, <1>8

LEMMA CoreEnds ==
  ASSUME Typed, ShutdownClients
  PROVE  /\ UNCHANGED <<obs, val, cl, due>> /\ core'.requests = core.requests /\ core'.hook = core.hook
         /\ core.pc = "work" /\ core'.pc \in {"told", "done"}
         /\ ctx' = ctx \/ (ctx.alive /\ Adds("shutdown"))
<1>a. ctx \in Handle BY DEF Typed
<1>c. core \in CoreThread BY DEF Typed
<1>1. UNCHANGED <<obs, val, cl, due>> BY DEF ShutdownClients
<1>2. core'.requests = core.requests /\ core'.hook = core.hook /\ core.pc = "work" /\ core'.pc \in {"told", "done"}
  BY <1>c DEF ShutdownClients, CoreThread
<1>3. CASE ~ctx.alive BY <1>1, <1>2, <1>3 DEF ShutdownClients
<1>4. CASE ctx.alive
  <2>1. ctx' = send_event(ctx, "shutdown") BY <1>4 DEF ShutdownClients
  <2>2. PICK e \in Kinds : e = "shutdown" BY DEF Kinds
  <2>3. ctx' = send_event(ctx, e) BY <2>1, <2>2
  <2>4. /\ SameBut(ctx, ctx')
        /\ \/ ctx' = ctx
           \/ Room(ctx) /\ ctx'.choked = ctx.choked /\ ctx'.events = Append(ctx.events, e) /\ ctx'.need_wakeup
           \/ ~Room(ctx) /\ ctx'.choked /\ ctx'.events = ctx.events /\ ctx'.need_wakeup = ctx.need_wakeup
    BY <1>a, <2>3, Sends
  <2>5. Adds("shutdown") BY <2>2, <2>4 DEF Adds, SameBut
  <2> QED BY <1>1, <1>2, <1>4, <2>5
<1> QED BY <1>3, <1>4
-----------------------------------------------------------------------------
(* Every accepted request has an entry of the ring buffer.                 *)
RingOK == Len(ctx.events) + ctx.reserved <= MaxEvents /\ ctx.reserved = core.requests

LEMMA RingStep == ASSUME Typed, RingOK, [Next]_vars PROVE RingOK'
<1>a. ctx.events \in Seq(Kinds \cup {"reply"}) /\ ctx.reserved \in Int /\ core.requests \in Nat
  BY DEF Typed, Handle, CoreThread
<1>b. PICK n \in Nat : n = Len(ctx.events) BY <1>a, LenProperties
<1>c. n + ctx.reserved <= MaxEvents /\ ctx.reserved = core.requests /\ MaxEvents \in Nat
  BY <1>b, ClientEventsAssumption DEF RingOK
<1>1. ASSUME Len(ctx'.events) + ctx'.reserved <= n + ctx.reserved, ctx'.reserved = core'.requests,
             Len(ctx'.events) \in Nat, ctx'.reserved \in Int
      PROVE  RingOK'
  BY <1>1, <1>a, <1>c DEF RingOK
<1>2. ASSUME SameRing(ctx, ctx'), core'.requests = core.requests PROVE RingOK'
  BY <1>2, <1>1, <1>a, <1>b, <1>c DEF SameRing
<1>3. ASSUME NEW e \in Kinds \cup {"reply"}, ctx'.events = Append(ctx.events, e) PROVE Len(ctx'.events) = n + 1
  BY <1>3, <1>a, <1>b, AppendProperties
<1>4. ASSUME NEW e \in Kinds, Adds(e), core'.requests = core.requests PROVE RingOK'
  <2>1. CASE ctx' = ctx BY <1>2, <1>4, <2>1 DEF SameRing
  <2>2. CASE Room(ctx) /\ ctx'.events = Append(ctx.events, e)
    <3>1. Len(ctx'.events) = n + 1 BY <1>3, <2>2
    <3>2. n + ctx.reserved < MaxEvents BY <1>b, <2>2 DEF Room
    <3>3. ctx'.reserved = ctx.reserved BY <1>4 DEF Adds
    <3> QED BY <1>a, <1>4, <1>c, <3>1, <3>2, <3>3 DEF RingOK
  <2>3. CASE ctx'.events = ctx.events BY <1>1, <1>4, <1>a, <1>b, <1>c, <2>3 DEF Adds
  <2> QED BY <1>4, <2>1, <2>2, <2>3 DEF Adds
<1>5. CASE Aside BY <1>2, <1>5, Asides
<1>6. CASE ReturnOverflow BY <1>1, <1>6, <1>a, <1>b, <1>c, Overflows
<1>7. CASE Request
  <2>1. n + ctx.reserved < MaxEvents /\ ctx'.events = ctx.events /\ ctx'.reserved = ctx.reserved + 1
        /\ core'.requests = core.requests + 1
    BY <1>7, <1>b, Requests DEF Room
  <2> QED BY <1>a, <1>b, <1>c, <2>1 DEF RingOK
<1>8. CASE Reply
  <2>1. ctx'.events = Append(ctx.events, "reply") /\ ctx'.reserved = ctx.reserved - 1
        /\ core'.requests = core.requests - 1
    BY <1>8, Replies
  <2>2. Len(ctx'.events) = n + 1 BY <1>3, <2>1
  <2> QED BY <1>1, <1>a, <1>c, <2>1, <2>2
<1>9. CASE ReturnEvent
  <2>1. Len(ctx'.events) = n - 1 /\ ctx'.reserved = ctx.reserved /\ ctx.events # <<>> /\ core' = core
    BY <1>9, <1>b, EventsTaken
  <2>2. n # 0 BY <1>a, <1>b, <2>1, EmptySeq
  <2> QED BY <1>1, <1>a, <1>c, <2>1, <2>2
<1>10. CASE FreeHandle
  <2>1. Len(ctx'.events) = 0 /\ ctx'.reserved = ctx.reserved /\ core'.requests = core.requests BY <1>10, Frees
  <2> QED BY <1>1, <1>a, <1>c, <2>1
<1>11. CASE Send BY <1>4, <1>11, CoreSends DEF Kinds
<1>12. CASE ShutdownClients
  <2>1. "shutdown" \in Kinds BY DEF Kinds
  <2>2. core'.requests = core.requests /\ (ctx' = ctx \/ Adds("shutdown")) BY <1>12, CoreEnds
  <2> QED BY <1>2, <1>4, <2>1, <2>2 DEF SameRing
<1>13. CASE Pass BY <1>2, <1>13, Starts
<1>14. CASE PassProp
  <2>1. SameRing(ctx, ctx') /\ core'.requests = core.requests
    BY <1>14, PassSteps DEF Ends, Notes, Opens, SameRing
  <2> QED BY <1>2, <2>1
<1>15. CASE Read BY <1>2, <1>15, Reads DEF SameRing
<1>16. CASE Relock BY <1>2, <1>16, Relocks DEF Ends, Notes
<1>17. CASE ReturnProperty
  <2>1. PICK k, i : k = First(Found) /\ i = ctx.props[k] OBVIOUS
  <2> QED BY <1>2, <1>17, <2>1, Returns
<1>18. CASE Block BY <1>2, <1>18, Blocks
<1>19. CASE mpv_destroy BY <1>2, <1>19, Destroys
<1>20. ASSUME NEW p \in Names, NEW v \in Values, Change(p, v) \/ Resize(p, v) PROVE RingOK'
  BY <1>2, <1>20, Changes
<1>21. ASSUME NEW p \in Names, mpv_observe_property(p) PROVE RingOK'
  BY <1>2, <1>21, Observes
<1>22. ASSUME NEW i \in Ids, mpv_unobserve_property(i) PROVE RingOK'
  BY <1>2, <1>22, Unobserves
<1> QED
  BY <1>5, <1>6, <1>7, <1>8, <1>9, <1>10, <1>11, <1>12, <1>13, <1>14, <1>15, <1>16, <1>17, <1>18, <1>19,
     <1>20, <1>21, <1>22, Steps DEF Still, Aside

(* One asynchronous operation at a time: the core reads a value.           *)
AsyncOK == ctx.async = One(Reading)

LEMMA AsyncStep == ASSUME Typed, AsyncOK, [Next]_vars PROVE AsyncOK'
<1>1. ASSUME ctx'.async = ctx.async, core'.pc = core.pc PROVE AsyncOK'
  BY <1>1 DEF AsyncOK, Reading
<1>2. ASSUME ctx'.async = ctx.async, ~Reading, core'.pc \notin {"read", "got"} PROVE AsyncOK'
  BY <1>2 DEF AsyncOK, Reading, One
<1>3. CASE Still BY <1>1, <1>2, <1>3, Calms DEF Calm, InPass, Reading
<1>4. CASE Pass BY <1>2, <1>4, Starts DEF Reading
<1>5. CASE PassProp
  <2>0. ctx.async = 0 BY <1>5, PassSteps DEF AsyncOK, Reading, One
  <2>1. \/ ctx'.async = ctx.async /\ core'.pc \notin {"read", "got"}
        \/ ctx'.async = ctx.async + 1 /\ core'.pc = "read"
    BY <1>5, PassSteps DEF Ends, Notes, Opens
  <2> QED BY <2>0, <2>1 DEF AsyncOK, Reading, One
<1>6. CASE Read BY <1>6, Reads DEF AsyncOK, Reading
<1>7. CASE Relock
  <2>1. ctx'.async = ctx.async - 1 /\ core.pc = "got" /\ core'.pc \in {"sleep", "pass"}
    BY <1>7, Relocks DEF Ends, Notes
  <2> QED BY <2>1 DEF AsyncOK, Reading, One
<1>8. CASE ReturnProperty
  <2>1. PICK k, i : k = First(Found) /\ i = ctx.props[k] OBVIOUS
  <2> QED BY <1>1, <1>8, <2>1, Returns
<1>9. CASE Block BY <1>1, <1>9, Blocks
<1>10. CASE mpv_destroy BY <1>1, <1>10, Destroys
<1>11. ASSUME NEW p \in Names, NEW v \in Values, Change(p, v) \/ Resize(p, v) PROVE AsyncOK'
  BY <1>1, <1>11, Changes
<1>12. ASSUME NEW p \in Names, mpv_observe_property(p) PROVE AsyncOK'
  BY <1>1, <1>12, Observes
<1>13. ASSUME NEW i \in Ids, mpv_unobserve_property(i) PROVE AsyncOK'
  BY <1>1, <1>13, Unobserves
<1> QED
  BY <1>3, <1>4, <1>5, <1>6, <1>7, <1>8, <1>9, <1>10, <1>11, <1>12, <1>13, Steps

(* A handle that mpv_destroy() takes down: nobody uses it any more, and it *)
(* is freed when nothing asynchronous is left.                             *)
Serving == {"idle", "scan", "unlocked", "sleeping", "late"}
LifeOK ==
  /\ ctx.destroying <=> cl.back = "drain"
  /\ ctx.destroying => /\ ctx.props = <<>> /\ ctx.cur_property = NoId /\ ~cl.timed
                       /\ cl.pc \in {"unlocked", "sleeping", "drain", "remove", "gone"}
                       /\ core.pc # "pass"
  /\ ~ctx.destroying => cl.pc \in Serving
  /\ ctx.alive <=> cl.pc # "gone"
  /\ cl.pc \in {"remove", "gone"} => ctx.reserved = 0 /\ ctx.async = 0

LEMMA LifeStep == ASSUME Typed, RingOK, AsyncOK, LifeOK, [Next]_vars PROVE LifeOK'
<1>a. ctx \in Handle BY DEF Typed
<1>b. cl \in ClientThread BY DEF Typed
<1>c. core \in CoreThread BY DEF Typed
<1>1. ASSUME cl' = cl, SameLife(ctx, ctx'),
             ctx.destroying => /\ ctx'.props = ctx.props /\ ctx'.cur_property = ctx.cur_property
                               /\ core'.pc # "pass"
                               /\ ctx.reserved = 0 => ctx'.reserved = 0
                               /\ ctx.async = 0 => ctx'.async = 0
      PROVE  LifeOK'
  BY <1>1 DEF LifeOK, SameLife, Serving
<1>2. ASSUME ~ctx.destroying, SameLife(ctx, ctx'), cl'.back = cl.back, cl'.pc \in Serving PROVE LifeOK'
  BY <1>2 DEF LifeOK, SameLife, Serving
<1>3. ASSUME Still
      PROVE  /\ ctx'.props = ctx.props /\ ctx'.cur_property = ctx.cur_property
             /\ ctx'.destroying = ctx.destroying /\ ctx'.async = ctx.async
             /\ ctx.destroying => core'.pc # "pass"
  BY <1>3, Calms DEF Calm, SameProps, SameCur, InPass, LifeOK
<1>4. ASSUME Aside PROVE SameLife(ctx, ctx') /\ ctx'.reserved = ctx.reserved
  <2>1. Still BY <1>4 DEF Aside, Still
  <2> QED BY <1>3, <1>4, <2>1, Asides DEF SameLife, SameRing
<1>5. CASE HookContinue \/ NextRound \/ Quit \/ TimerFires \/ mpv_wakeup \/ UNCHANGED vars
  <2>1. cl' = cl BY <1>5 DEF HookContinue, NextRound, Quit, TimerFires, mpv_wakeup, vars
  <2> QED BY <1>1, <1>3, <1>4, <1>5, <2>1 DEF Aside, Still
<1>6. CASE Request BY <1>1, <1>3, <1>6, Requests DEF Still, Usable
<1>7. CASE Reply
  <2>1. ctx.reserved # 0 BY <1>7, Replies DEF RingOK
  <2> QED BY <1>1, <1>3, <1>7, <2>1, Replies DEF Still
<1>8. CASE Send
  <2>1. cl' = cl /\ SameLife(ctx, ctx') /\ ctx'.reserved = ctx.reserved BY <1>8, CoreSends DEF Adds
  <2> QED BY <1>1, <1>3, <1>8, <2>1 DEF Still
<1>9. CASE ShutdownClients
  <2>1. cl' = cl /\ SameLife(ctx, ctx') /\ ctx'.reserved = ctx.reserved
    BY <1>9, CoreEnds DEF Adds, SameLife
  <2> QED BY <1>1, <1>3, <1>9, <2>1 DEF Still
<1>10. CASE WaitEvent
  <2>1. ~ctx.destroying /\ cl'.back = cl.back /\ cl'.pc = "scan"
    BY <1>10, <1>b DEF WaitEvent, Usable, ClientThread
  <2> QED BY <1>2, <1>4, <1>10, <2>1 DEF Aside, Serving
<1>11. CASE ReturnNone
  <2>1. cl.pc = "late" /\ cl'.back = cl.back /\ cl'.pc = "idle" BY <1>11, <1>b DEF ReturnNone, ClientThread
  <2>2. ~ctx.destroying BY <2>1 DEF LifeOK
  <2> QED BY <1>2, <1>4, <1>11, <2>1, <2>2 DEF Aside, Serving
<1>12. CASE ReturnOverflow
  <2>1. cl.pc = "scan" /\ cl'.back = cl.back /\ cl'.pc = "idle"
    BY <1>12, <1>b DEF ReturnOverflow, Scanning, ClientThread
  <2>2. ~ctx.destroying BY <2>1 DEF LifeOK
  <2>3. SameLife(ctx, ctx') BY <1>3, <1>12, Overflows DEF Still, SameLife
  <2> QED BY <1>2, <2>1, <2>2, <2>3 DEF Serving
<1>13. CASE ReturnEvent
  <2>1. cl.pc = "scan" /\ cl'.back = cl.back /\ cl'.pc = "idle"
    BY <1>13, <1>b DEF ReturnEvent, Scanning, ClientThread
  <2>2. ~ctx.destroying BY <2>1 DEF LifeOK
  <2> QED BY <1>2, <1>13, <2>1, <2>2, EventsTaken DEF Serving
<1>14. CASE StopWaiting
  <2>1. cl.pc \in {"unlocked", "sleeping"} /\ cl' = [cl EXCEPT !.pc = cl.back] BY <1>14 DEF StopWaiting, Woken
  <2>2. cl'.pc = cl.back /\ cl'.back = cl.back /\ cl'.timed = cl.timed BY <1>b, <2>1 DEF ClientThread
  <2>3. cl.back \in {"scan", "drain"} BY <1>b DEF ClientThread
  <2>4. SameLife(ctx, ctx') /\ ctx'.reserved = ctx.reserved BY <1>4, <1>14 DEF Aside
  <2>5. /\ ctx'.props = ctx.props /\ ctx'.cur_property = ctx.cur_property
        /\ ctx.destroying => core'.pc # "pass"
    BY <1>3, <1>14 DEF Still
  <2>6. CASE ctx.destroying BY <2>1, <2>2, <2>3, <2>4, <2>5, <2>6 DEF LifeOK, SameLife
  <2>7. CASE ~ctx.destroying
    <3>1. cl'.pc = "scan" BY <2>2, <2>3, <2>7 DEF LifeOK
    <3> QED BY <1>2, <2>2, <2>4, <2>7, <3>1 DEF Serving
  <2> QED BY <2>6, <2>7
<1>15. CASE Sleep \/ TimedOut
  <2>1. /\ cl'.back = cl.back /\ cl'.timed = cl.timed /\ cl.pc \in {"unlocked", "sleeping"}
        /\ cl'.pc = "sleeping" \/ (cl'.pc = "late" /\ cl.timed)
    BY <1>15, <1>b DEF Sleep, TimedOut, ClientThread
  <2>4. SameLife(ctx, ctx') /\ ctx'.reserved = ctx.reserved BY <1>4, <1>15 DEF Aside
  <2>5. /\ ctx'.props = ctx.props /\ ctx'.cur_property = ctx.cur_property
        /\ ctx.destroying => core'.pc # "pass"
    BY <1>3, <1>15 DEF Still
  <2>6. CASE ctx.destroying BY <2>1, <2>4, <2>5, <2>6 DEF LifeOK, SameLife
  <2>7. CASE ~ctx.destroying BY <1>2, <2>1, <2>4, <2>7 DEF Serving
  <2> QED BY <2>6, <2>7
<1>16. CASE mpv_wait_async_requests
  <2>1. /\ cl'.back = cl.back /\ cl'.timed = cl.timed /\ cl.pc = "drain"
        /\ (Busy(ctx) /\ cl'.pc = "unlocked") \/ (~Busy(ctx) /\ cl'.pc = "remove")
    BY <1>16, <1>b DEF mpv_wait_async_requests, ClientThread
  <2>2. SameLife(ctx, ctx') /\ ctx'.reserved = ctx.reserved BY <1>4, <1>16 DEF Aside
  <2>3. /\ ctx'.props = ctx.props /\ ctx'.cur_property = ctx.cur_property /\ ctx'.async = ctx.async
        /\ ctx.destroying => core'.pc # "pass"
    BY <1>3, <1>16 DEF Still
  <2>4. ~Busy(ctx) => ctx.reserved = 0 /\ ctx.async = 0
    <3>1. ctx.reserved = core.requests /\ core.requests \in Nat BY <1>c DEF RingOK, CoreThread
    <3>2. ctx.async \in {0, 1} BY DEF AsyncOK, One
    <3> QED BY <3>1, <3>2 DEF Busy
  <2>5. ctx.destroying BY <2>1 DEF LifeOK, Serving
  <2> QED BY <2>1, <2>2, <2>3, <2>4, <2>5 DEF LifeOK, SameLife
<1>17. CASE FreeHandle
  <2>1. ctx.destroying BY <1>17, Frees DEF LifeOK, Serving
  <2>2. /\ ctx'.props = ctx.props /\ ctx'.cur_property = ctx.cur_property /\ ctx'.async = ctx.async
        /\ ctx.destroying => core'.pc # "pass"
    BY <1>3, <1>17 DEF Still
  <2> QED BY <1>17, <2>1, <2>2, Frees DEF LifeOK
<1>18. CASE Pass
  <2>1. ctx.destroying => core'.pc # "pass" BY <1>18, Starts DEF Usable
  <2> QED BY <1>1, <1>18, <2>1, Starts DEF SameProps, SameCur, SameRing
<1>19. CASE PassProp
  <2>1. ~ctx.destroying BY <1>19, PassSteps DEF LifeOK
  <2>2. cl' = cl /\ SameLife(ctx, ctx') BY <1>19, PassSteps DEF Ends, Notes, Opens, SameLife
  <2> QED BY <1>1, <2>1, <2>2
<1>20. CASE Read BY <1>1, <1>20, Reads DEF SameLife
<1>21. CASE Relock
  <2>1. /\ cl' = cl /\ SameLife(ctx, ctx') /\ ctx'.props = ctx.props
        /\ ctx'.cur_property = ctx.cur_property /\ ctx'.reserved = ctx.reserved
        /\ ctx'.async = ctx.async - 1
    BY <1>21, Relocks DEF Ends, Notes, SameProps, SameCur, SameRing
  <2>2. ctx.async = 1 BY <1>21, Relocks DEF AsyncOK, Reading, One
  <2>3. ctx.destroying => core'.pc # "pass" BY <1>21, Relocks DEF SameList, Ends
  <2> QED BY <1>1, <2>1, <2>2, <2>3
<1>22. CASE ReturnProperty
  <2>1. PICK k, i : k = First(Found) /\ i = ctx.props[k] OBVIOUS
  <2>2. cl.pc = "scan" /\ cl' = [cl EXCEPT !.pc = "idle"] /\ SameLife(ctx, ctx') BY <1>22, <2>1, Returns
  <2>3. ~ctx.destroying BY <2>2 DEF LifeOK
  <2>4. cl'.back = cl.back /\ cl'.pc = "idle" BY <2>2, <1>b DEF ClientThread
  <2> QED BY <1>2, <2>2, <2>3, <2>4 DEF Serving
<1>23. CASE Block
  <2>1. ~ctx.destroying BY <1>23, Blocks DEF LifeOK
  <2>2. cl.back \in {"scan", "drain"} BY <1>b DEF ClientThread
  <2>3. cl'.back = cl.back BY <1>23, <2>1, <2>2, Blocks DEF LifeOK
  <2> QED BY <1>2, <1>23, <2>1, <2>3, Blocks DEF Serving
<1>24. CASE mpv_destroy BY <1>24, Destroys DEF LifeOK, Usable, SameRing
<1>25. ASSUME NEW p \in Names, NEW v \in Values, Change(p, v) \/ Resize(p, v) PROVE LifeOK'
  <2>1. /\ cl' = cl /\ SameLife(ctx, ctx') /\ SameProps(ctx, ctx') /\ SameCur(ctx, ctx')
        /\ SameRing(ctx, ctx') /\ ctx'.async = ctx.async /\ core'.pc = core.pc
    BY <1>25, Changes
  <2> QED BY <1>1, <2>1 DEF LifeOK, SameProps, SameCur, SameRing
<1>26. ASSUME NEW p \in Names, mpv_observe_property(p) PROVE LifeOK'
  <2>1. cl' = cl /\ SameLife(ctx, ctx') /\ ~ctx.destroying BY <1>26, Observes DEF Usable
  <2> QED BY <1>1, <2>1
<1>27. ASSUME NEW i \in Ids, mpv_unobserve_property(i) PROVE LifeOK'
  <2>1. cl' = cl /\ SameLife(ctx, ctx') /\ ~ctx.destroying BY <1>27, Unobserves DEF Usable
  <2> QED BY <1>1, <2>1
<1> QED
  BY <1>5, <1>6, <1>7, <1>8, <1>9, <1>10, <1>11, <1>12, <1>13, <1>14, <1>15, <1>16, <1>17, <1>18, <1>19,
     <1>20, <1>21, <1>22, <1>23, <1>24, <1>25, <1>26, <1>27, Steps DEF Still

(* Identifiers are given in order, and the list keeps that order; the last *)
(* event returned to the client is of a property that was observed.        *)
ListOK ==
  /\ \A k \in 1..Len(ctx.props) : ctx.props[k] >= k /\ \A j \in 1..k - 1 : ctx.props[j] < ctx.props[k]
  /\ \A i, j \in Ids : i < j /\ Named(j) => Named(i)
  /\ ctx.cur_property # NoId => Named(ctx.cur_property)
  /\ ctx.destroying \/ ctx.cur_index <= Len(ctx.props)

LEMMA ListStep == ASSUME Typed, ListOK, [Next]_vars PROVE ListOK'
<1>a. ctx.props \in Seq(Ids) /\ Len(ctx.props) \in Nat /\ ctx.cur_index \in Nat
  BY LenProperties DEF Typed, Handle
<1>b. PICK n \in Nat : n = Len(ctx.props) BY <1>a
<1>c. /\ \A k \in 1..n : ctx.props[k] \in Ids /\ ctx.props[k] >= k /\ \A j \in 1..k - 1 : ctx.props[j] < ctx.props[k]
      /\ \A k \in 1..n : obs[ctx.props[k]].name \in Names
      /\ \A i, j \in Ids : i < j /\ obs[j].name \in Names => obs[i].name \in Names
      /\ ctx.cur_property # NoId => ctx.cur_property \in Ids /\ obs[ctx.cur_property].name \in Names
      /\ ctx.destroying \/ ctx.cur_index <= n
  BY <1>b DEF ListOK, Typed, Named
<1>d. ASSUME NEW i \in Ids PROVE obs[i].name \in Names \cup {"none"}
  BY <1>d DEF Typed, Observed
<1>1. ASSUME ctx'.props = ctx.props, \A i \in Ids : obs'[i].name = obs[i].name,
             ctx'.cur_property = ctx.cur_property \/ (ctx'.cur_property \in Ids /\ obs[ctx'.cur_property].name \in Names),
             ctx'.destroying = ctx.destroying,
             ctx'.cur_index = ctx.cur_index \/ ctx'.cur_index <= n
      PROVE  ListOK'
  <2>1. ctx'.cur_property # NoId => ctx'.cur_property \in Ids /\ obs'[ctx'.cur_property].name \in Names
    BY <1>1, <1>c
  <2>2. \A i, j \in Ids : i < j /\ obs'[j].name \in Names => obs'[i].name \in Names BY <1>1, <1>c
  <2>3. \A k \in 1..Len(ctx'.props) : ctx'.props[k] >= k /\ \A j \in 1..k - 1 : ctx'.props[j] < ctx'.props[k]
    BY <1>1, <1>b, <1>c
  <2>4. ctx'.destroying \/ ctx'.cur_index <= Len(ctx'.props) BY <1>1, <1>b, <1>c
  <2> QED BY <2>1, <2>2, <2>3, <2>4 DEF ListOK, Named
<1>2. CASE Still BY <1>1, <1>2, Calms DEF Calm, SameProps, SameCur
<1>3. CASE Pass BY <1>1, <1>3, Starts DEF SameProps, SameCur, SameLife
<1>4. CASE PassProp
  <2>1. /\ SameProps(ctx, ctx') /\ SameCur(ctx, ctx') /\ SameLife(ctx, ctx')
    BY <1>4, PassSteps DEF Ends, Notes, Opens, SameProps, SameCur, SameLife
  <2>2. \A i \in Ids : obs'[i].name = obs[i].name BY <1>4, PassSteps DEF Notes, Opens
  <2> QED BY <1>1, <2>1, <2>2 DEF SameProps, SameCur, SameLife
<1>5. CASE Read BY <1>1, <1>5, Reads
<1>6. CASE Relock
  <2>1. /\ SameProps(ctx, ctx') /\ SameCur(ctx, ctx') /\ SameLife(ctx, ctx')
    BY <1>6, Relocks DEF Ends, Notes
  <2>2. \A i \in Ids : obs'[i].name = obs[i].name BY <1>6, Relocks DEF Notes
  <2> QED BY <1>1, <2>1, <2>2 DEF SameProps, SameCur, SameLife
<1>7. CASE ReturnProperty
  <2>1. PICK k, i : k = First(Found) /\ i = ctx.props[k] OBVIOUS
  <2>2. /\ k \in 1..Len(ctx.props) /\ ctx'.cur_property = i /\ ctx'.cur_index = k
        /\ SameProps(ctx, ctx') /\ SameLife(ctx, ctx') /\ \A j \in Ids : obs'[j].name = obs[j].name
    BY <1>7, <2>1, Returns
  <2>3. i \in Ids /\ obs[i].name \in Names /\ k <= n BY <1>b, <1>c, <2>1, <2>2
  <2> QED BY <1>1, <2>2, <2>3 DEF SameProps, SameLife
<1>8. CASE Block
  <2>1. /\ SameProps(ctx, ctx') /\ SameLife(ctx, ctx') /\ ctx'.cur_property = ctx.cur_property
        /\ ctx'.cur_index = n /\ obs' = Flagged
    BY <1>8, <1>b, Blocks
  <2> QED BY <1>1, <2>1, Flags DEF SameProps, SameLife
<1>9. CASE mpv_destroy
  <2>1. /\ ctx'.destroying /\ Len(ctx'.props) = 0 /\ ctx'.cur_property = NoId
        /\ \A i \in Ids : obs'[i].name = obs[i].name
    BY <1>9, Destroys
  <2>2. \A i, j \in Ids : i < j /\ obs'[j].name \in Names => obs'[i].name \in Names BY <1>c, <2>1
  <2> QED BY <2>1, <2>2 DEF ListOK, Named
<1>10. ASSUME NEW p \in Names, NEW v \in Values, Change(p, v) \/ Resize(p, v) PROVE ListOK'
  BY <1>1, <1>10, Changes DEF SameProps, SameCur, SameLife
<1>11. ASSUME NEW p \in Names, mpv_observe_property(p) PROVE ListOK'
  <2>1. PICK i \in Ids :
          /\ obs[i].name = "none" /\ \A j \in Ids : j < i => obs[j].name # "none"
          /\ \A j \in Ids \ {i} : obs'[j] = obs[j]
          /\ obs'[i].name = p /\ Len(ctx'.props) = n + 1 /\ ctx'.props[n + 1] = i
          /\ \A k \in 1..n : ctx'.props[k] = ctx.props[k]
          /\ ctx'.cur_index = 0 /\ ctx'.cur_property = ctx.cur_property
    BY <1>11, <1>b, Observes
  <2>2. \A j \in Ids : obs[j].name \in Names => j < i
    <3> TAKE j \in Ids
    <3>1. j = i => obs[j].name \notin Names BY <2>1, ClientEventsAssumption
    <3>2. i < j /\ obs[j].name \in Names => obs[i].name \in Names BY <1>c
    <3>3. obs[i].name \notin Names BY <2>1, ClientEventsAssumption
    <3> QED BY <3>1, <3>2, <3>3 DEF Ids
  <2>3. \A k \in 1..n : ctx.props[k] < i BY <1>c, <2>2
  <2>4. i >= n + 1
    <3>1. CASE n = 0 BY <3>1 DEF Ids
    <3>2. CASE n # 0
      <4>1. ctx.props[n] >= n /\ ctx.props[n] < i /\ ctx.props[n] \in Ids BY <1>c, <2>3, <3>2
      <4> QED BY <4>1 DEF Ids
    <3> QED BY <3>1, <3>2
  <2>5. ASSUME NEW k \in 1..n + 1
        PROVE  ctx'.props[k] >= k /\ \A j \in 1..k - 1 : ctx'.props[j] < ctx'.props[k]
    <3>1. CASE k \in 1..n
      <4>1. \A j \in 1..k - 1 : j \in 1..n BY <3>1
      <4> QED BY <1>c, <2>1, <3>1, <4>1
    <3>2. CASE k = n + 1
      <4>1. \A j \in 1..k - 1 : j \in 1..n BY <3>2
      <4> QED BY <2>1, <2>3, <2>4, <3>2, <4>1
    <3> QED BY <3>1, <3>2
  <2>6. \A g, j \in Ids : g < j /\ obs'[j].name \in Names => obs'[g].name \in Names
    <3> TAKE g, j \in Ids
    <3> HAVE g < j /\ obs'[j].name \in Names
    <3>1. CASE g = i BY <2>1, <3>1
    <3>2. CASE g # i /\ j = i
      <4>1. obs[g].name # "none" BY <2>1, <3>2
      <4> QED BY <1>d, <2>1, <3>2, <4>1
    <3>3. CASE g # i /\ j # i BY <1>c, <2>1, <3>3
    <3> QED BY <3>1, <3>2, <3>3
  <2>7. ctx'.cur_property # NoId => ctx'.cur_property \in Ids /\ obs'[ctx'.cur_property].name \in Names
    BY <1>c, <2>1
  <2> QED BY <2>1, <2>5, <2>6, <2>7 DEF ListOK, Named
<1>12. ASSUME NEW i \in Ids, mpv_unobserve_property(i) PROVE ListOK'
  <2>1. PICK k \in 1..n :
          /\ Len(ctx'.props) = n - 1
          /\ \A j \in 1..n - 1 : ctx'.props[j] = ctx.props[IF j < k THEN j ELSE j + 1]
          /\ \A j \in Ids \ {i} : obs'[j] = obs[j]
          /\ obs'[i].name = obs[i].name
          /\ ctx'.cur_index = 0 /\ ctx'.cur_property = ctx.cur_property
    BY <1>12, <1>b, Unobserves
  <2>2. ASSUME NEW m \in 1..n - 1
        PROVE  ctx'.props[m] >= m /\ \A j \in 1..m - 1 : ctx'.props[j] < ctx'.props[m]
    <3>1. PICK q \in 1..n : q = (IF m < k THEN m ELSE m + 1) /\ q >= m OBVIOUS
    <3>2. ctx'.props[m] = ctx.props[q] BY <2>1, <3>1
    <3>3. ctx.props[q] >= q /\ ctx.props[q] \in Ids BY <1>c
    <3>4. ASSUME NEW j \in 1..m - 1 PROVE ctx'.props[j] < ctx'.props[m]
      <4>1. PICK r \in 1..n : r = IF j < k THEN j ELSE j + 1 OBVIOUS
      <4>2. r \in 1..q - 1 BY <3>1, <4>1
      <4>3. ctx'.props[j] = ctx.props[r] BY <2>1, <4>1
      <4> QED BY <1>c, <3>2, <4>2, <4>3
    <3> QED BY <3>1, <3>2, <3>3, <3>4 DEF Ids
  <2>3. \A j \in Ids : obs'[j].name = obs[j].name BY <2>1
  <2>4. \A g, j \in Ids : g < j /\ obs'[j].name \in Names => obs'[g].name \in Names BY <1>c, <2>3
  <2>5. ctx'.cur_property # NoId => ctx'.cur_property \in Ids /\ obs'[ctx'.cur_property].name \in Names
    BY <1>c, <2>1, <2>3
  <2> QED BY <2>1, <2>2, <2>4, <2>5, SMTT(60) DEF ListOK, Named
<1> QED
  BY <1>2, <1>3, <1>4, <1>5, <1>6, <1>7, <1>8, <1>9, <1>10, <1>11, <1>12, Steps

(* An identifier for each entry of the list.                               *)
LEMMA ListBound == ASSUME Typed, ListOK PROVE Len(ctx.props) \in 0..MaxObs
<1>1. Len(ctx.props) \in Nat BY LenProperties DEF Typed, Handle
<1>2. CASE Len(ctx.props) = 0 BY <1>2, ClientEventsAssumption
<1>3. CASE Len(ctx.props) # 0
  <2>1. Len(ctx.props) \in 1..Len(ctx.props) BY <1>1, <1>3
  <2>2. ctx.props[Len(ctx.props)] \in Ids /\ ctx.props[Len(ctx.props)] >= Len(ctx.props)
    BY <2>1 DEF ListOK, Typed, Named
  <2> QED BY <1>1, <2>2, ClientEventsAssumption DEF Ids
<1> QED BY <1>2, <1>3

(* The core's place in the list: it stays valid while the core reads a     *)
(* value without the lock, as long as the list is the same.                *)
PassOK ==
  /\ core.n \in 1..MaxObs + 1
  /\ Reading => core.list_ts <= ctx.props_ts
  /\ core.pc = "pass" => core.n <= Len(ctx.props) + 1 /\ core.list_ts <= ctx.props_ts
  /\ Reading /\ SameList => core.n <= Len(ctx.props) /\ Prop = core.id

LEMMA PassStep == ASSUME Typed, ListOK, PassOK, [Next]_vars PROVE PassOK'
<1>a. ctx \in Handle BY DEF Typed
<1>b. core.n \in Nat \ {0} /\ core.list_ts \in Nat /\ ctx.props_ts \in Nat BY DEF Typed, Handle, CoreThread
<1>c. PICK n \in 0..MaxObs : n = Len(ctx.props) BY ListBound
<1>d. MaxObs \in Nat BY ClientEventsAssumption
<1>e. /\ core.n \in 1..MaxObs + 1
      /\ core.pc \in {"read", "got", "pass"} => core.list_ts <= ctx.props_ts
      /\ core.pc = "pass" => core.n <= n + 1
      /\ core.pc \in {"read", "got"} /\ ctx.props_ts = core.list_ts /\ ~ctx.destroying =>
           core.n <= n /\ ctx.props[core.n] = core.id
  BY <1>c DEF PassOK, Reading, SameList, Prop
<1>1. ASSUME SameProps(ctx, ctx'), ctx'.destroying = ctx.destroying,
             core'.n = core.n, core'.id = core.id, core'.list_ts = core.list_ts,
             Reading' => Reading, core'.pc = "pass" => core.pc = "pass"
      PROVE  PassOK'
  BY <1>1, <1>c, <1>e DEF PassOK, Reading, SameList, Prop, SameProps
<1>2. ASSUME core'.n \in 1..MaxObs + 1, core'.pc \notin {"pass", "read", "got"} PROVE PassOK'
  BY <1>2 DEF PassOK, Reading
<1>3. ASSUME core'.pc = "pass", core'.n \in 1..n + 1, core'.list_ts <= ctx'.props_ts, ctx'.props = ctx.props
      PROVE  PassOK'
  BY <1>3, <1>c, <1>d DEF PassOK, Reading
<1>4. CASE Still BY <1>1, <1>4, Calms DEF Calm, SamePass, InPass, Reading
<1>5. CASE Pass
  <2>1. \/ core'.pc = "pass" /\ core'.n = 1 /\ core'.list_ts = ctx.props_ts
        \/ core'.pc = "sleep" /\ core'.n = core.n
    BY <1>5, Starts
  <2>2. ctx'.props_ts = ctx.props_ts /\ ctx'.props = ctx.props BY <1>5, Starts DEF SameProps
  <2> QED BY <1>2, <1>3, <1>b, <1>c, <1>e, <2>1, <2>2
<1>6. CASE PassProp
  <2>1. core.pc = "pass" BY <1>6, PassSteps
  <2>2. SameProps(ctx, ctx') /\ ctx'.destroying = ctx.destroying
    BY <1>6, PassSteps DEF Ends, Notes, Opens, SameProps, SameLife
  <2>3. \/ core'.pc = "sleep" /\ core'.n = core.n
        \/ core.n \in 1..n /\ core'.pc = "pass" /\ core'.n = core.n + 1 /\ core'.list_ts = core.list_ts
        \/ /\ core.n \in 1..n /\ core'.pc = "read" /\ core'.id = Prop /\ core'.n = core.n
           /\ core'.list_ts = core.list_ts
    BY <1>6, <1>c, PassSteps DEF Ends, Notes, Opens
  <2>4. CASE core'.pc = "sleep" /\ core'.n = core.n BY <1>2, <1>e, <2>4
  <2>5. CASE core.n \in 1..n /\ core'.pc = "pass" /\ core'.n = core.n + 1 /\ core'.list_ts = core.list_ts
    BY <1>3, <1>e, <2>1, <2>2, <2>5 DEF SameProps
  <2>6. CASE /\ core.n \in 1..n /\ core'.pc = "read" /\ core'.id = Prop /\ core'.n = core.n
             /\ core'.list_ts = core.list_ts
    BY <1>c, <1>e, <2>1, <2>2, <2>6 DEF PassOK, Reading, SameList, Prop, SameProps
  <2> QED BY <2>3, <2>4, <2>5, <2>6
<1>7. CASE Read BY <1>1, <1>7, Reads DEF SameProps, Reading
<1>8. CASE Relock
  <2>1. core.pc = "got" /\ SameProps(ctx, ctx') BY <1>8, Relocks DEF Ends, Notes
  <2>2. \/ SameList /\ core'.pc = "pass" /\ core'.n = core.n + 1 /\ core'.list_ts = core.list_ts
        \/ core'.pc = "sleep" /\ core'.n = core.n
    BY <1>8, Relocks DEF Ends, Notes
  <2>3. SameList => core.n <= n BY <1>e, <2>1 DEF SameList
  <2> QED BY <1>2, <1>3, <1>b, <1>c, <1>e, <2>1, <2>2, <2>3 DEF SameProps
<1>9. CASE ReturnProperty
  <2>1. PICK k, i : k = First(Found) /\ i = ctx.props[k] OBVIOUS
  <2>2. SameProps(ctx, ctx') /\ SameLife(ctx, ctx') /\ core' = core BY <1>9, <2>1, Returns
  <2> QED BY <1>1, <2>2 DEF SameLife, Reading
<1>10. CASE Block BY <1>1, <1>10, Blocks DEF SameLife, Reading
<1>11. CASE mpv_destroy
  <2>1. /\ core.pc # "pass" /\ core' = core /\ ctx'.destroying /\ ctx'.props_ts = ctx.props_ts + 1
    BY <1>11, Destroys
  <2> QED BY <1>b, <1>e, <2>1 DEF PassOK, Reading, SameList
<1>12. ASSUME NEW p \in Names, NEW v \in Values, Change(p, v) \/ Resize(p, v) PROVE PassOK'
  BY <1>1, <1>12, Changes DEF SamePass, SameLife, Reading
<1>13. ASSUME core.pc # "pass", ctx'.props_ts = ctx.props_ts + 1, SamePass(core, core'), core'.pc = core.pc
       PROVE  PassOK'
  BY <1>13, <1>b, <1>e DEF PassOK, Reading, SameList, SamePass
<1>14. ASSUME NEW p \in Names, mpv_observe_property(p) PROVE PassOK'
  BY <1>13, <1>14, Observes
<1>15. ASSUME NEW i \in Ids, mpv_unobserve_property(i) PROVE PassOK'
  BY <1>13, <1>15, Unobserves DEF SamePass
<1> QED
  BY <1>4, <1>5, <1>6, <1>7, <1>8, <1>9, <1>10, <1>11, <1>12, <1>14, <1>15, Steps

(* The timestamps of an observed property: what was returned is not newer  *)
(* than what was read, and that not newer than the last change.            *)
TimesOK ==
  \A i \in Ids : /\ obs[i].ret_ts <= obs[i].value_ts /\ obs[i].value_ts <= obs[i].ts /\ due[i] <= obs[i].ts
                 /\ ~Named(i) => obs[i].ts = 0

LEMMA TimesStep == ASSUME Typed, TimesOK, [Next]_vars PROVE TimesOK'
<1>a. \A i \in Ids : /\ obs[i].ts \in Nat /\ obs[i].value_ts \in Nat /\ obs[i].ret_ts \in Nat
                     /\ due[i] \in Nat /\ obs[i].name \in Names \cup {"none"}
  BY DEF Typed, Observed
<1>b. \A i \in Ids : /\ obs[i].ret_ts <= obs[i].value_ts /\ obs[i].value_ts <= obs[i].ts /\ due[i] <= obs[i].ts
                     /\ obs[i].name \notin Names => obs[i].ts = 0
  BY DEF TimesOK, Named
<1>1. ASSUME \A i \in Ids : /\ obs'[i].name = obs[i].name /\ obs'[i].ts = obs[i].ts
                            /\ \/ obs'[i].value_ts = obs[i].value_ts /\ obs'[i].ret_ts = obs[i].ret_ts
                               \/ obs'[i].value_ts = obs[i].ts /\ obs'[i].ret_ts = obs[i].ret_ts
                               \/ obs'[i].value_ts = obs[i].ts /\ obs'[i].ret_ts = obs[i].ts
                               \/ obs'[i].value_ts = obs[i].value_ts /\ obs'[i].ret_ts = obs[i].value_ts,
             \A i \in Ids : due'[i] \in {due[i], obs[i].ts, 0}
      PROVE  TimesOK'
  <2> SUFFICES ASSUME NEW i \in Ids
               PROVE  /\ obs'[i].ret_ts <= obs'[i].value_ts /\ obs'[i].value_ts <= obs'[i].ts /\ due'[i] <= obs'[i].ts
                      /\ obs'[i].name \notin Names => obs'[i].ts = 0
    BY DEF TimesOK, Named
  <2> QED BY <1>1, <1>a, <1>b
<1>2. CASE Still
  <2>1. obs' = obs BY <1>2, Calms DEF Calm
  <2>2. \A i \in Ids : due'[i] \in {due[i], obs[i].ts, 0}
    <3>1. CASE Send BY <3>1, CoreSends
    <3>2. CASE Aside BY <3>2, Asides
    <3>3. CASE Request \/ Reply \/ ShutdownClients \/ ReturnOverflow \/ ReturnEvent \/ FreeHandle
      BY <3>3 DEF Request, Reply, ShutdownClients, ReturnOverflow, ReturnEvent, FreeHandle
    <3> QED BY <1>2, <3>1, <3>2, <3>3 DEF Still, Aside
  <2> QED BY <1>1, <2>1, <2>2
<1>3. CASE Pass BY <1>1, <1>3, Starts
<1>4. CASE PassProp
  <2>1. due' = due BY <1>4, PassSteps
  <2>2. \A i \in Ids : /\ obs'[i].name = obs[i].name /\ obs'[i].ts = obs[i].ts
                       /\ \/ obs'[i].value_ts = obs[i].value_ts /\ obs'[i].ret_ts = obs[i].ret_ts
                          \/ obs'[i].value_ts = obs[i].ts /\ obs'[i].ret_ts = obs[i].ret_ts
                          \/ obs'[i].value_ts = obs[i].ts /\ obs'[i].ret_ts = obs[i].ts
    BY <1>4, PassSteps DEF Notes, Opens
  <2> QED BY <1>1, <2>1, <2>2
<1>5. CASE Read BY <1>1, <1>5, Reads
<1>6. CASE Relock
  <2>1. due' = due BY <1>6, Relocks
  <2>2. \A i \in Ids : /\ obs'[i].name = obs[i].name /\ obs'[i].ts = obs[i].ts
                       /\ \/ obs'[i].value_ts = obs[i].value_ts /\ obs'[i].ret_ts = obs[i].ret_ts
                          \/ obs'[i].value_ts = obs[i].ts /\ obs'[i].ret_ts = obs[i].ret_ts
                          \/ obs'[i].value_ts = obs[i].ts /\ obs'[i].ret_ts = obs[i].ts
    BY <1>6, Relocks DEF Notes
  <2> QED BY <1>1, <2>1, <2>2
<1>7. CASE ReturnProperty
  <2>1. PICK k, i : k = First(Found) /\ i = ctx.props[k] OBVIOUS
  <2>2. /\ i \in Ids /\ UNCHANGED due
        /\ \A j \in Ids : /\ obs'[j].name = obs[j].name /\ obs'[j].ts = obs[j].ts
                          /\ obs'[j].value_ts = obs[j].value_ts
        /\ \A j \in Ids \ {i} : obs'[j].ret_ts = obs[j].ret_ts
        /\ obs'[i].ret_ts = obs[i].value_ts
    BY <1>7, <2>1, Returns
  <2> QED BY <1>1, <2>2
<1>8. CASE Block
  <2>1. obs' = Flagged /\ due' = due BY <1>8, Blocks
  <2> QED BY <1>1, <2>1, Flags
<1>9. CASE mpv_destroy BY <1>1, <1>9, Destroys
<1>10. ASSUME NEW p \in Names, NEW v \in Values, Change(p, v) \/ Resize(p, v) PROVE TimesOK'
  <2>1. due' = due /\ \A i \in Ids : /\ obs'[i].name = obs[i].name /\ obs'[i].value_ts = obs[i].value_ts
                                     /\ obs'[i].ret_ts = obs[i].ret_ts
                                     /\ obs'[i].ts = IF i \in Listed /\ obs[i].name = p THEN obs[i].ts + 1 ELSE obs[i].ts
    BY <1>10, Changes
  <2>2. ASSUME NEW i \in Ids
        PROVE  /\ obs'[i].ret_ts <= obs'[i].value_ts /\ obs'[i].value_ts <= obs'[i].ts /\ due'[i] <= obs'[i].ts
               /\ obs'[i].name \notin Names => obs'[i].ts = 0
    <3>1. obs'[i].ts \in {obs[i].ts, obs[i].ts + 1} /\ (obs[i].name \notin Names => obs'[i].ts = obs[i].ts)
      BY <2>1
    <3> QED BY <1>a, <1>b, <2>1, <3>1
  <2> QED BY <2>2 DEF TimesOK, Named
<1>11. ASSUME NEW p \in Names, mpv_observe_property(p) PROVE TimesOK'
  <2>1. PICK i \in Ids :
          /\ obs[i].name = "none" /\ \A j \in Ids \ {i} : obs'[j] = obs[j]
          /\ obs'[i].name = p /\ obs'[i].ts = 1 /\ due' = due
          /\ obs'[i].value_ts = obs[i].value_ts /\ obs'[i].ret_ts = obs[i].ret_ts
    BY <1>11, Observes
  <2>2. obs[i].ts = 0 BY <1>b, <2>1, ClientEventsAssumption
  <2>3. obs[i].value_ts = 0 /\ obs[i].ret_ts = 0 /\ due[i] = 0 BY <1>a, <1>b, <2>2
  <2>4. \A j \in Ids : /\ obs'[j].ret_ts <= obs'[j].value_ts /\ obs'[j].value_ts <= obs'[j].ts
                       /\ due'[j] <= obs'[j].ts
                       /\ obs'[j].name \notin Names => obs'[j].ts = 0
    BY <1>a, <1>b, <2>1, <2>3
  <2> QED BY <2>4 DEF TimesOK, Named
<1>12. ASSUME NEW i \in Ids, mpv_unobserve_property(i) PROVE TimesOK'
  <2>1. due' = due /\ \A j \in Ids : /\ obs'[j].name = obs[j].name /\ obs'[j].ts = obs[j].ts
                                     /\ obs'[j].value_ts = obs[j].value_ts /\ obs'[j].ret_ts = obs[j].ret_ts
    BY <1>12, Unobserves
  <2> QED BY <1>1, <2>1
<1> QED
  BY <1>2, <1>3, <1>4, <1>5, <1>6, <1>7, <1>8, <1>9, <1>10, <1>11, <1>12, Steps

(* An observed property has exactly the references it needs.               *)
RefsOK ==
  \A i \in Ids : obs[i].refs = One(i \in Listed) + One(ctx.cur_property = i)
                                + One(Reading /\ core.id = i)

LEMMA RefsStep == ASSUME Typed, AsyncOK, ListOK, RefsOK, [Next]_vars PROVE RefsOK'
<1>a. /\ \A i \in Ids : obs[i].refs \in Int
      /\ \A i \in Ids : obs[i].refs = One(i \in Listed) + One(ctx.cur_property = i)
                                      + One(core.pc \in {"read", "got"} /\ core.id = i)
  BY DEF Typed, Observed, RefsOK, Reading
<1>b. \A b \in BOOLEAN : One(b) \in Int BY DEF One
<1>1. ASSUME \A i \in Ids : obs'[i].refs = obs[i].refs, ctx'.props = ctx.props, ctx'.cur_property = ctx.cur_property,
             \/ core'.pc = core.pc /\ core'.id = core.id
             \/ core.pc = "read" /\ core'.pc = "got" /\ core'.id = core.id
             \/ core.pc \notin {"read", "got"} /\ core'.pc \notin {"read", "got"}
      PROVE  RefsOK'
  <2>1. Listed' = Listed BY <1>1 DEF Listed
  <2>2. \A i \in Ids : (core'.pc \in {"read", "got"} /\ core'.id = i) <=> (core.pc \in {"read", "got"} /\ core.id = i)
    BY <1>1
  <2>3. ASSUME NEW i \in Ids
        PROVE  obs'[i].refs = One(i \in Listed') + One(ctx'.cur_property = i)
                              + One(core'.pc \in {"read", "got"} /\ core'.id = i)
    BY <1>1, <1>a, <2>1, <2>2 DEF One
  <2> QED BY <2>3 DEF RefsOK, Reading
<1>2. CASE Still BY <1>1, <1>2, Calms DEF Calm, SameProps, SameCur, SamePass, InPass
<1>3. CASE Pass BY <1>1, <1>3, Starts DEF SameProps, SameCur
<1>4. CASE PassProp
  <2>1. core.pc = "pass" BY <1>4, PassSteps
  <2>2. SameProps(ctx, ctx') /\ SameCur(ctx, ctx') BY <1>4, PassSteps DEF Ends, Notes, Opens, SameProps, SameCur
  <2>3. CASE Opens(Prop)
    <3>1. PICK i \in Ids : i = Prop BY <2>3 DEF Opens
    <3>2. /\ \A j \in Ids \ {i} : obs'[j] = obs[j]
          /\ obs'[i].refs = obs[i].refs + 1 /\ core'.pc = "read" /\ core'.id = i
      BY <2>3, <3>1 DEF Opens
    <3>3. Listed' = Listed /\ ctx'.cur_property = ctx.cur_property BY <2>2 DEF Listed, SameProps, SameCur
    <3>4. ASSUME NEW j \in Ids
          PROVE  obs'[j].refs = One(j \in Listed') + One(ctx'.cur_property = j)
                                + One(core'.pc \in {"read", "got"} /\ core'.id = j)
      <4>1. obs[j].refs = One(j \in Listed) + One(ctx.cur_property = j) BY <1>a, <1>b, <2>1 DEF One
      <4>2. CASE j = i BY <1>b, <3>2, <3>3, <4>1, <4>2 DEF One
      <4>3. CASE j # i
        <5>1. obs'[j].refs = obs[j].refs BY <3>2, <4>3
        <5> QED BY <1>b, <3>2, <3>3, <4>1, <4>3, <5>1 DEF One
      <4> QED BY <4>2, <4>3
    <3> QED BY <3>4 DEF RefsOK, Reading
  <2>4. CASE ~Opens(Prop)
    <3>1. (\A i \in Ids : obs'[i].refs = obs[i].refs) /\ core'.pc \in {"pass", "sleep"}
      BY <1>4, <2>4, PassSteps DEF Notes, Ends
    <3> QED BY <1>1, <2>1, <2>2, <3>1 DEF SameProps, SameCur
  <2> QED BY <2>3, <2>4
<1>5. CASE Read BY <1>1, <1>5, Reads
<1>6. CASE Relock
  <2>1. /\ core.pc = "got" /\ core.id \in Ids /\ obs'[core.id].refs = obs[core.id].refs - 1
        /\ \A j \in Ids \ {core.id} : obs'[j] = obs[j]
    BY <1>6, Relocks DEF Notes
  <2>2. SameProps(ctx, ctx') /\ SameCur(ctx, ctx') /\ core'.pc \in {"pass", "sleep"}
    BY <1>6, Relocks DEF Ends, Notes
  <2>3. Listed' = Listed /\ ctx'.cur_property = ctx.cur_property BY <2>2 DEF Listed, SameProps, SameCur
  <2>4. ASSUME NEW j \in Ids
        PROVE  obs'[j].refs = One(j \in Listed') + One(ctx'.cur_property = j)
                              + One(core'.pc \in {"read", "got"} /\ core'.id = j)
    <3>1. obs'[j].refs = One(j \in Listed) + One(ctx.cur_property = j)
      <4>1. CASE j = core.id BY <1>a, <1>b, <2>1, <4>1 DEF One
      <4>2. CASE j # core.id
        <5>1. obs'[j].refs = obs[j].refs BY <2>1, <4>2
        <5> QED BY <1>a, <1>b, <4>2, <5>1 DEF One
      <4> QED BY <4>1, <4>2
    <3> QED BY <1>b, <2>2, <2>3, <3>1 DEF One
  <2> QED BY <2>4 DEF RefsOK, Reading
<1>7. CASE ReturnProperty
  <2>1. PICK k, i : k = First(Found) /\ i = ctx.props[k] OBVIOUS
  <2>2. /\ \A j \in Ids : obs'[j].refs = obs[j].refs - One(j = ctx.cur_property) + One(j = i)
        /\ SameProps(ctx, ctx') /\ ctx'.cur_property = i /\ core' = core
    BY <1>7, <2>1, Returns
  <2>3. Listed' = Listed BY <2>2 DEF Listed, SameProps
  <2>4. ASSUME NEW j \in Ids
        PROVE  obs'[j].refs = One(j \in Listed') + One(ctx'.cur_property = j)
                              + One(core'.pc \in {"read", "got"} /\ core'.id = j)
    <3>1. obs[j].refs = One(j \in Listed) + One(ctx.cur_property = j)
                        + One(core.pc \in {"read", "got"} /\ core.id = j)
      BY <1>a
    <3>2. obs'[j].refs = obs[j].refs - One(j = ctx.cur_property) + One(j = i) BY <2>2
    <3>3. One(j = ctx.cur_property) = One(ctx.cur_property = j) /\ One(j = i) = One(ctx'.cur_property = j)
      BY <2>2 DEF One
    <3>4. One(j \in Listed') = One(j \in Listed) /\ One(core'.pc \in {"read", "got"} /\ core'.id = j)
            = One(core.pc \in {"read", "got"} /\ core.id = j)
      BY <2>2, <2>3
    <3>5. PICK a, b, c, d \in Int :
            /\ a = One(j \in Listed) /\ b = One(ctx.cur_property = j) /\ d = One(ctx'.cur_property = j)
            /\ c = One(core.pc \in {"read", "got"} /\ core.id = j)
      BY DEF One
    <3>6. obs'[j].refs = a + d + c BY <3>1, <3>2, <3>3, <3>5
    <3> QED BY <3>4, <3>5, <3>6
  <2> QED BY <2>4 DEF RefsOK, Reading
<1>8. CASE Block
  <2>1. obs' = Flagged /\ core' = core /\ SameProps(ctx, ctx') /\ ctx'.cur_property = ctx.cur_property
    BY <1>8, Blocks
  <2>2. \A i \in Ids : obs'[i].refs = obs[i].refs BY <2>1, Flags
  <2> QED BY <1>1, <2>1, <2>2 DEF SameProps
<1>9. CASE mpv_destroy
  <2>1. /\ \A i \in Ids : obs'[i].refs = obs[i].refs - One(i \in Listed) - One(ctx.cur_property = i)
        /\ Len(ctx'.props) = 0 /\ ctx'.cur_property = NoId /\ core' = core
    BY <1>9, Destroys
  <2>2. Listed' = {} BY <2>1 DEF Listed
  <2>3. ASSUME NEW j \in Ids
        PROVE  obs'[j].refs = One(j \in Listed') + One(ctx'.cur_property = j)
                              + One(core'.pc \in {"read", "got"} /\ core'.id = j)
    <3>1. One(j \in Listed') = 0 /\ One(ctx'.cur_property = j) = 0
      BY <2>1, <2>2, ClientEventsAssumption DEF One
    <3>2. PICK a, b, c \in Int :
            /\ a = One(j \in Listed) /\ b = One(ctx.cur_property = j)
            /\ c = One(core.pc \in {"read", "got"} /\ core.id = j)
      BY DEF One
    <3>3. obs'[j].refs = c BY <1>a, <2>1, <3>2
    <3>4. One(core'.pc \in {"read", "got"} /\ core'.id = j) = c BY <2>1, <3>2
    <3> QED BY <3>1, <3>2, <3>3, <3>4
  <2> QED BY <2>3 DEF RefsOK, Reading
<1>10. ASSUME NEW p \in Names, NEW v \in Values, Change(p, v) \/ Resize(p, v) PROVE RefsOK'
  BY <1>1, <1>10, Changes DEF SamePass, SameProps, SameCur
<1>11. ASSUME NEW p \in Names, mpv_observe_property(p) PROVE RefsOK'
  <2>1. PICK i \in Ids :
          /\ obs[i].name = "none" /\ \A j \in Ids \ {i} : obs'[j] = obs[j]
          /\ obs'[i].refs = 1 /\ Len(ctx'.props) = Len(ctx.props) + 1
          /\ ctx'.props[Len(ctx.props) + 1] = i
          /\ \A k \in 1..Len(ctx.props) : ctx'.props[k] = ctx.props[k]
          /\ ctx'.cur_property = ctx.cur_property /\ SamePass(core, core') /\ core'.pc = core.pc
    BY <1>11, Observes
  <2>2. Listed' = Listed \cup {i}
    <3>1. PICK n \in Nat : n = Len(ctx.props) BY LenProperties DEF Typed, Handle
    <3>2. \A k \in 1..n + 1 : k \in 1..n \/ k = n + 1 OBVIOUS
    <3>3. \A k \in 1..n : k \in 1..n + 1 OBVIOUS
    <3>4. n + 1 \in 1..n + 1 OBVIOUS
    <3> QED BY <2>1, <3>1, <3>2, <3>3, <3>4, SMTT(60) DEF Listed
  <2>3. ~Named(i) BY <2>1, ClientEventsAssumption DEF Named
  <2>4. ctx.cur_property # i /\ ~(Reading /\ core.id = i)
    <3>1. i # NoId BY ClientEventsAssumption
    <3> QED BY <2>3, <3>1 DEF ListOK, Typed
  <2>5. ASSUME NEW j \in Ids
        PROVE  obs'[j].refs = One(j \in Listed') + One(ctx'.cur_property = j)
                              + One(core'.pc \in {"read", "got"} /\ core'.id = j)
    <3>1. CASE j = i
      <4>1. One(j \in Listed') = 1 /\ One(ctx'.cur_property = j) = 0
            /\ One(core'.pc \in {"read", "got"} /\ core'.id = j) = 0
        BY <2>1, <2>2, <2>4, <3>1 DEF One, Reading, SamePass
      <4> QED BY <2>1, <3>1, <4>1
    <3>2. CASE j # i
      <4>1. obs'[j].refs = obs[j].refs /\ (j \in Listed') = (j \in Listed) BY <2>1, <2>2, <3>2
      <4> QED BY <1>a, <2>1, <4>1 DEF SamePass
    <3> QED BY <3>1, <3>2
  <2> QED BY <2>5 DEF RefsOK, Reading
<1>12. ASSUME NEW i \in Ids, mpv_unobserve_property(i) PROVE RefsOK'
  <2>1. PICK n \in Nat : n = Len(ctx.props) BY LenProperties DEF Typed, Handle
  <2>2. PICK k \in 1..n :
          /\ ctx.props[k] = i /\ Len(ctx'.props) = n - 1
          /\ \A j \in 1..n - 1 : ctx'.props[j] = ctx.props[IF j < k THEN j ELSE j + 1]
          /\ \A j \in Ids \ {i} : obs'[j] = obs[j]
          /\ obs'[i].refs = obs[i].refs - 1
          /\ ctx'.cur_property = ctx.cur_property /\ core' = core
    BY <1>12, <2>1, Unobserves
  <2>3. \A q, r \in 1..n : q # r => ctx.props[q] # ctx.props[r]
    <3>1. \A r \in 1..n : ctx.props[r] \in Ids /\ \A q \in 1..r - 1 : ctx.props[q] < ctx.props[r]
      BY <2>1 DEF ListOK, Typed, Named
    <3> TAKE q, r \in 1..n
    <3>2. CASE q < r
      <4>1. q \in 1..r - 1 BY <3>2
      <4>2. ctx.props[q] < ctx.props[r] /\ ctx.props[r] \in Int BY <3>1, <4>1 DEF Ids
      <4> QED BY <4>2
    <3>3. CASE r < q
      <4>1. r \in 1..q - 1 BY <3>3
      <4>2. ctx.props[r] < ctx.props[q] /\ ctx.props[q] \in Int BY <3>1, <4>1 DEF Ids
      <4> QED BY <4>2
    <3> QED BY <3>2, <3>3
  <2>4. Listed' = Listed \ {i}
    <3>1. ASSUME NEW x \in Listed' PROVE x \in Listed \ {i}
      <4>1. PICK j \in 1..n - 1 : x = ctx'.props[j] BY <2>2 DEF Listed
      <4>2. PICK q \in 1..n : q = (IF j < k THEN j ELSE j + 1) /\ q # k OBVIOUS
      <4>3. x = ctx.props[q] BY <2>2, <4>1, <4>2
      <4>4. x # i BY <2>2, <2>3, <4>2, <4>3
      <4> QED BY <2>1, <4>3, <4>4 DEF Listed
    <3>2. ASSUME NEW x \in Listed \ {i} PROVE x \in Listed'
      <4>1. PICK q \in 1..n : x = ctx.props[q] BY <2>1 DEF Listed
      <4>2. q # k BY <2>2, <4>1
      <4>3. PICK j \in 1..n - 1 : q = IF j < k THEN j ELSE j + 1
        <5>1. CASE q < k BY <5>1
        <5>2. CASE q > k
          <6>1. q - 1 \in 1..n - 1 /\ ~(q - 1 < k) /\ q = (q - 1) + 1 BY <5>2
          <6> QED BY <6>1
        <5> QED BY <4>2, <5>1, <5>2
      <4>4. x = ctx'.props[j] BY <2>2, <4>1, <4>3
      <4> QED BY <2>2, <4>4 DEF Listed
    <3> QED BY <3>1, <3>2
  <2>5. i \in Listed BY <2>1, <2>2 DEF Listed
  <2>6. ASSUME NEW j \in Ids
        PROVE  obs'[j].refs = One(j \in Listed') + One(ctx'.cur_property = j)
                              + One(core'.pc \in {"read", "got"} /\ core'.id = j)
    <3>1. CASE j = i
      <4>1. One(j \in Listed') = 0 /\ One(j \in Listed) = 1 BY <2>4, <2>5, <3>1 DEF One
      <4>2. obs[j].refs = 1 + One(ctx.cur_property = j) + One(core.pc \in {"read", "got"} /\ core.id = j)
        BY <1>a, <4>1
      <4>3. obs'[j].refs = obs[j].refs - 1 BY <2>2, <3>1
      <4> QED BY <1>b, <2>2, <4>1, <4>2, <4>3
    <3>2. CASE j # i
      <4>1. obs'[j].refs = obs[j].refs /\ (j \in Listed') = (j \in Listed) BY <2>2, <2>4, <3>2
      <4> QED BY <1>a, <2>2, <4>1
    <3> QED BY <3>1, <3>2
  <2> QED BY <2>6 DEF RefsOK, Reading
<1> QED
  BY <1>2, <1>3, <1>4, <1>5, <1>6, <1>7, <1>8, <1>9, <1>10, <1>11, <1>12, Steps

LEMMA HeadIs ==
  ASSUME NEW s \in Seq(Kinds \cup {"reply"})
  PROVE  s # <<>> /\ Head(s) = "hook" <=> Len(s) \in Nat \ {0} /\ s[1] = "hook"
<1>1. Len(s) \in Nat /\ (s = <<>> <=> Len(s) = 0) BY LenProperties, EmptySeq
<1>2. s # <<>> => Head(s) = s[1] BY HeadTailProperties
<1> QED BY <1>1, <1>2

(* One hook at a time; when the client has seen it, the changes that       *)
(* precede it are returned or flagged.                                     *)
HookOK ==
  /\ \A k \in 1..Len(ctx.events) : ctx.events[k] = "hook" => core.hook /\ \A j \in 1..k - 1 : ctx.events[j] # "hook"
  /\ ctx.hook_pending /\ ctx.alive => AtHook
  /\ AtHook /\ ctx.hook_pending => \A i \in Listed : obs[i].hook \/ obs[i].ret_ts >= due[i]
  /\ core.hook => "hook" \in ops.does

LEMMA Same == ASSUME Typed, [Next]_vars PROVE ops'.does = ops.does
<1>1. ops \in [does : Uses, n : Nat] BY DEF Typed
<1>2. ASSUME NEW u, Op(u) PROVE ops'.does = ops.does BY <1>1, <1>2 DEF Op
<1>3. CASE Still
  <2>1. CASE Request \/ Send \/ Quit \/ mpv_wakeup BY <1>2, <2>1 DEF Request, Send, Quit, mpv_wakeup
  <2>2. CASE \/ Reply \/ HookContinue \/ NextRound \/ ShutdownClients \/ TimerFires \/ WaitEvent
             \/ ReturnOverflow \/ ReturnEvent \/ ReturnNone \/ StopWaiting \/ Sleep \/ TimedOut
             \/ mpv_wait_async_requests \/ FreeHandle \/ UNCHANGED vars
    BY <2>2, ZenonT(60) DEF Reply, HookContinue, NextRound, ShutdownClients, TimerFires, WaitEvent, ReturnOverflow,
                ReturnEvent, ReturnNone, StopWaiting, Sleep, TimedOut, mpv_wait_async_requests, FreeHandle, vars
  <2> QED BY <1>3, <2>1, <2>2 DEF Still
<1>4. CASE Pass \/ PassProp \/ Read \/ Relock \/ ReturnProperty \/ Block
  BY <1>4 DEF Pass, PassProp, Read, Relock, ReturnProperty, Block
<1>5. CASE mpv_destroy BY <1>2, <1>5 DEF mpv_destroy
<1>6. ASSUME NEW p \in Names, NEW v \in Values, Change(p, v) \/ Resize(p, v) PROVE ops'.does = ops.does
  BY <1>2, <1>6 DEF Change, Resize
<1>7. ASSUME NEW p \in Names, mpv_observe_property(p) PROVE ops'.does = ops.does
  BY <1>2, <1>7 DEF mpv_observe_property
<1>8. ASSUME NEW i \in Ids, mpv_unobserve_property(i) PROVE ops'.does = ops.does
  BY <1>2, <1>8 DEF mpv_unobserve_property
<1> QED BY <1>3, <1>4, <1>5, <1>6, <1>7, <1>8, Steps

(* What is still listed after a property was unobserved.                   *)
LEMMA StillListed ==
  ASSUME Typed, NEW i \in Ids, mpv_unobserve_property(i) PROVE Listed' \subseteq Listed
<1>1. PICK n \in Nat : n = Len(ctx.props) BY LenProperties DEF Typed, Handle
<1>2. PICK k \in 1..n :
        /\ Len(ctx'.props) = n - 1
        /\ \A j \in 1..n - 1 : ctx'.props[j] = ctx.props[IF j < k THEN j ELSE j + 1]
  BY <1>1, Unobserves
<1>3. ASSUME NEW x \in Listed' PROVE x \in Listed
  <2>1. PICK j \in 1..n - 1 : x = ctx'.props[j] BY <1>2, <1>3 DEF Listed
  <2>2. PICK q \in 1..n : q = IF j < k THEN j ELSE j + 1 OBVIOUS
  <2> QED BY <1>1, <1>2, <2>1, <2>2 DEF Listed
<1> QED BY <1>3

LEMMA NowListed ==
  ASSUME Typed, NEW p \in Names, mpv_observe_property(p)
  PROVE  \E i \in Ids :
           /\ Listed' = Listed \cup {i} /\ ~Named(i) /\ \A j \in Ids \ {i} : obs'[j] = obs[j]
           /\ obs'[i].name = p /\ obs'[i].ts = 1
           /\ obs'[i].value_ts = obs[i].value_ts /\ obs'[i].value = obs[i].value
           /\ obs'[i].ret_ts = obs[i].ret_ts /\ obs'[i].ret = obs[i].ret /\ obs'[i].hook = obs[i].hook
<1>1. PICK n \in Nat : n = Len(ctx.props) BY LenProperties DEF Typed, Handle
<1>2. PICK i \in Ids :
        /\ obs[i].name = "none" /\ \A j \in Ids \ {i} : obs'[j] = obs[j]
        /\ obs'[i].name = p /\ obs'[i].ts = 1
        /\ obs'[i].value_ts = obs[i].value_ts /\ obs'[i].value = obs[i].value
        /\ obs'[i].ret_ts = obs[i].ret_ts /\ obs'[i].ret = obs[i].ret /\ obs'[i].hook = obs[i].hook
        /\ Len(ctx'.props) = n + 1 /\ ctx'.props[n + 1] = i
        /\ \A k \in 1..n : ctx'.props[k] = ctx.props[k]
  BY <1>1, Observes
<1>3. Listed' = Listed \cup {i}
  <2>1. \A k \in 1..n + 1 : k \in 1..n \/ k = n + 1 OBVIOUS
  <2>2. \A k \in 1..n : k \in 1..n + 1 OBVIOUS
  <2>3. n + 1 \in 1..n + 1 OBVIOUS
  <2> QED BY <1>1, <1>2, <2>1, <2>2, <2>3, SMTT(60) DEF Listed
<1>4. ~Named(i) BY <1>2, ClientEventsAssumption DEF Named
<1> QED BY <1>2, <1>3, <1>4

LEMMA HookStep == ASSUME Typed, LifeOK, TimesOK, HookOK, [Next]_vars, Typed' PROVE HookOK'
<1>a. ctx.events \in Seq(Kinds \cup {"reply"}) /\ ctx'.events \in Seq(Kinds \cup {"reply"}) BY DEF Typed, Handle
<1>b. PICK n \in Nat : n = Len(ctx.events) BY <1>a, LenProperties
<1>c. /\ AtHook <=> n # 0 /\ ctx.events[1] = "hook"
      /\ AtHook' <=> Len(ctx'.events) \in Nat \ {0} /\ ctx'.events[1] = "hook"
  BY <1>a, <1>b, HeadIs DEF AtHook
<1>d. /\ \A k \in 1..n : ctx.events[k] = "hook" => core.hook /\ \A j \in 1..k - 1 : ctx.events[j] # "hook"
      /\ ctx.hook_pending /\ ctx.alive => AtHook
      /\ AtHook /\ ctx.hook_pending => \A i \in Listed : obs[i].hook \/ obs[i].ret_ts >= due[i]
      /\ core.hook => "hook" \in ops.does
  BY <1>b DEF HookOK
<1>e. Listed \subseteq Ids BY DEF Typed, Named, Listed
<1>f. \A i \in Ids : obs[i].ts \in Nat /\ obs[i].ret_ts \in Nat /\ obs[i].value_ts \in Nat /\ due[i] \in Nat
  BY DEF Typed, Observed
<1>g. \A i \in Ids : due[i] <= obs[i].ts BY DEF TimesOK
<1>h. ops'.does = ops.does BY Same
<1>1. ASSUME ctx'.events = ctx.events, ctx'.hook_pending = ctx.hook_pending, ctx'.alive = ctx.alive,
             core'.hook = core.hook, due' = due,
             \A i \in Listed' : \/ i \in Listed /\ obs'[i].hook = obs[i].hook /\ obs'[i].ret_ts = obs[i].ret_ts
                                \/ obs'[i].ret_ts >= due[i]
      PROVE  HookOK'
  <2>1. AtHook' <=> AtHook BY <1>1, <1>b, <1>c
  <2> QED BY <1>1, <1>b, <1>d, <1>h, <2>1 DEF HookOK
<1>2. ASSUME NEW e \in Kinds \cup {"reply"}, e # "hook", ctx'.events = Append(ctx.events, e),
             ctx'.hook_pending = ctx.hook_pending, ctx'.alive = ctx.alive, core'.hook = core.hook,
             due' = due, obs' = obs, Listed' = Listed
      PROVE  HookOK'
  <2>1. Len(ctx'.events) = n + 1 /\ ctx'.events[n + 1] = e /\ \A k \in 1..n : ctx'.events[k] = ctx.events[k]
    BY <1>2, <1>a, <1>b, AppendProperties
  <2>2. AtHook' <=> AtHook
    <3>1. CASE n = 0 BY <1>2, <1>c, <2>1, <3>1
    <3>2. CASE n # 0
      <4>1. 1 \in 1..n /\ n + 1 \in Nat \ {0} BY <3>2
      <4> QED BY <1>c, <2>1, <3>2, <4>1
    <3> QED BY <3>1, <3>2
  <2>3. ASSUME NEW k \in 1..n + 1, ctx'.events[k] = "hook"
        PROVE  core'.hook /\ \A j \in 1..k - 1 : ctx'.events[j] # "hook"
    <3>1. k \in 1..n BY <1>2, <2>1, <2>3
    <3>2. \A j \in 1..k - 1 : j \in 1..n BY <3>1
    <3> QED BY <1>2, <1>d, <2>1, <2>3, <3>1, <3>2
  <2> QED BY <1>2, <1>d, <1>h, <2>1, <2>2, <2>3 DEF HookOK
<1>3. ASSUME Still PROVE obs' = obs /\ Listed' = Listed BY <1>3, Calms DEF Calm, SameProps, Listed
<1>4. CASE HookContinue
  <2>1. \A k \in 1..n : ctx.events[k] # "hook"
    <3>1. DOMAIN ctx.events = 1..n BY <1>a, <1>b, LenProperties
    <3> QED BY <1>4, <3>1 DEF HookContinue
  <2>2. ~AtHook
    <3>1. n # 0 => 1 \in 1..n OBVIOUS
    <3> QED BY <1>c, <2>1, <3>1
  <2>3. ctx' = ctx /\ ctx.alive BY <1>4 DEF HookContinue, Usable
  <2>4. core'.hook => core.hook BY <1>4 DEF HookContinue, Typed, CoreThread
  <2>5. ~AtHook' BY <1>b, <1>c, <2>2, <2>3
  <2> QED BY <1>b, <1>d, <1>h, <2>1, <2>2, <2>3, <2>4, <2>5 DEF HookOK
<1>5. CASE Aside /\ ~HookContinue
  <2>1. Still BY <1>5 DEF Aside, Still
  <2>2. /\ SameRing(ctx, ctx') /\ ctx'.alive = ctx.alive /\ ctx'.hook_pending = ctx.hook_pending
        /\ due' = due /\ core'.hook = core.hook
    BY <1>5, Asides
  <2> QED BY <1>1, <1>3, <2>1, <2>2 DEF SameRing
<1>6. CASE Request \/ ReturnOverflow
  <2>1. /\ ctx'.events = ctx.events /\ ctx'.hook_pending = ctx.hook_pending /\ ctx'.alive = ctx.alive
        /\ core'.hook = core.hook /\ due' = due
    BY <1>6, Requests, Overflows DEF SameLife
  <2> QED BY <1>1, <1>3, <1>6, <2>1 DEF Still
<1>7. CASE Reply
  <2>1. PICK e \in Kinds \cup {"reply"} : e = "reply" OBVIOUS
  <2> QED BY <1>2, <1>3, <1>7, <2>1, Replies DEF SameLife, Still
<1>8. ASSUME NEW e \in Kinds, e # "hook", Adds(e), core'.hook = core.hook, due' = due, obs' = obs, Listed' = Listed
      PROVE  HookOK'
  <2>1. ctx'.hook_pending = ctx.hook_pending /\ ctx'.alive = ctx.alive BY <1>8 DEF Adds, SameLife
  <2>2. CASE ctx'.events = ctx.events BY <1>1, <1>8, <2>1, <2>2
  <2>3. CASE ctx'.events = Append(ctx.events, e) BY <1>2, <1>8, <2>1, <2>3
  <2> QED BY <1>8, <2>2, <2>3 DEF Adds
<1>9. CASE Send
  <2>1. PICK e \in {"event", "hook"} :
          /\ Op(e) /\ Adds(e) /\ (e = "hook" => ~core.hook)
          /\ \/ core'.hook = core.hook /\ due' = due /\ (e = "hook" => ctx'.events = ctx.events)
             \/ e = "hook" /\ core'.hook
    BY <1>9, CoreSends
  <2>2. ctx.alive /\ obs' = obs /\ Listed' = Listed BY <1>3, <1>9, CoreSends DEF Still
  <2>3. CASE e # "hook" BY <1>8, <2>1, <2>2, <2>3 DEF Kinds
  <2>4. CASE e = "hook" /\ core'.hook = core.hook /\ due' = due /\ ctx'.events = ctx.events
    BY <1>1, <2>1, <2>2, <2>4 DEF Adds, SameLife
  <2>5. CASE e = "hook" /\ core'.hook
    <3>1. \A k \in 1..n : ctx.events[k] # "hook" BY <1>d, <2>1, <2>5
    <3>2. ~AtHook
      <4>1. n # 0 => 1 \in 1..n OBVIOUS
      <4> QED BY <1>c, <3>1, <4>1
    <3>3. ~ctx'.hook_pending BY <1>d, <2>1, <2>2, <3>2 DEF Adds
    <3>4. "hook" \in ops.does BY <2>1, <2>5 DEF Op
    <3>5. \A k \in 1..Len(ctx'.events) : \A j \in 1..k - 1 : ctx'.events[j] # "hook"
      <4>1. CASE ctx'.events = ctx.events
        <5>1. \A k \in 1..n : \A j \in 1..k - 1 : j \in 1..n OBVIOUS
        <5> QED BY <1>b, <3>1, <4>1, <5>1
      <4>2. CASE ctx'.events = Append(ctx.events, e)
        <5>1. e \in Kinds \cup {"reply"} BY DEF Kinds
        <5>2. Len(ctx'.events) = n + 1 /\ \A k \in 1..n : ctx'.events[k] = ctx.events[k]
          BY <1>a, <1>b, <4>2, <5>1, AppendProperties
        <5>3. \A k \in 1..n + 1 : \A j \in 1..k - 1 : j \in 1..n OBVIOUS
        <5> QED BY <3>1, <5>2, <5>3
      <4> QED BY <2>1, <4>1, <4>2 DEF Adds
    <3> QED BY <1>h, <2>5, <3>3, <3>4, <3>5 DEF HookOK
  <2> QED BY <2>1, <2>3, <2>4, <2>5
<1>10. CASE ShutdownClients
  <2>1. core'.hook = core.hook /\ due' = due /\ (ctx' = ctx \/ Adds("shutdown")) BY <1>10, CoreEnds
  <2>2. obs' = obs /\ Listed' = Listed BY <1>3, <1>10 DEF Still
  <2>3. "shutdown" \in Kinds BY DEF Kinds
  <2> QED BY <1>1, <1>8, <2>1, <2>2, <2>3
<1>11. CASE ReturnEvent
  <2>1. /\ n # 0 /\ Len(ctx'.events) = n - 1 /\ \A k \in 1..n - 1 : ctx'.events[k] = ctx.events[k + 1]
        /\ ctx'.alive = ctx.alive /\ ctx'.hook_pending = (ctx.hook_pending /\ ~AtHook)
        /\ UNCHANGED <<obs, core, ops, due>>
    <3>1. ctx.events # <<>> BY <1>11, EventsTaken
    <3>2. n # 0 BY <1>a, <1>b, <3>1, EmptySeq
    <3> QED BY <1>11, <1>b, <3>2, EventsTaken DEF SameLife
  <2>2. ASSUME NEW k \in 1..n - 1, ctx'.events[k] = "hook"
        PROVE  core'.hook /\ \A j \in 1..k - 1 : ctx'.events[j] # "hook"
    <3>1. k + 1 \in 1..n /\ ctx.events[k + 1] = "hook" BY <2>1, <2>2
    <3>2. core.hook /\ \A j \in 1..k : ctx.events[j] # "hook"
      <4>1. (k + 1) - 1 = k OBVIOUS
      <4> QED BY <1>d, <3>1, <4>1
    <3>3. \A j \in 1..k - 1 : j \in 1..n - 1 /\ j + 1 \in 1..k OBVIOUS
    <3> QED BY <2>1, <3>2, <3>3
  <2>3. ctx'.hook_pending => ~ctx'.alive /\ ~AtHook BY <1>d, <2>1
  <2>4. ctx.alive BY <1>11, EventsTaken DEF LifeOK
  <2>5. AtHook => ~AtHook'
    <3>1. ASSUME AtHook, n - 1 # 0 PROVE ctx'.events[1] # "hook"
      <4>1. 1 \in 1..n - 1 /\ 1 + 1 \in 1..n /\ 1 \in 1..(1 + 1) - 1 BY <2>1, <3>1
      <4>2. ctx.events[1 + 1] # "hook" BY <1>c, <1>d, <3>1, <4>1
      <4> QED BY <2>1, <4>1, <4>2
    <3> QED BY <1>c, <2>1, <3>1
  <2>6. ~ctx'.hook_pending BY <1>d, <2>1, <2>4
  <2> QED BY <1>h, <1>d, <2>1, <2>2, <2>6 DEF HookOK
<1>12. CASE FreeHandle
  <2>1. Len(ctx'.events) = 0 /\ ~ctx'.alive /\ core'.hook = core.hook BY <1>12, Frees
  <2>2. ~AtHook' BY <1>c, <2>1
  <2> QED BY <1>d, <1>h, <2>1, <2>2 DEF HookOK
<1>13. CASE Pass BY <1>1, <1>13, Starts DEF SameRing, SameLife, SameProps, Listed
<1>14. ASSUME NEW i \in Ids, NEW v, Notes(i, v), due' = due PROVE HookOK'
  <2>1. Listed' = Listed BY <1>14 DEF Notes, SameProps, Listed
  <2>2. ASSUME NEW j \in Listed
        PROVE  \/ obs'[j].hook = obs[j].hook /\ obs'[j].ret_ts = obs[j].ret_ts
               \/ obs'[j].ret_ts >= due[j]
    <3>1. j \in Ids BY <1>e
    <3>2. CASE j # i BY <1>14, <3>1, <3>2 DEF Notes
    <3>3. CASE j = i
      <4>1. CASE NoEvent(obs[i], v)
        <5>1. obs'[i].ret_ts = obs[i].ts BY <1>14, <4>1 DEF Notes
        <5> QED BY <1>f, <1>g, <3>3, <5>1
      <4>2. CASE ~NoEvent(obs[i], v) BY <1>14, <3>3, <4>2 DEF Notes
      <4> QED BY <4>1, <4>2
    <3> QED BY <3>2, <3>3
  <2> QED BY <1>1, <1>14, <2>1, <2>2 DEF Notes, SameRing, SameLife
<1>15. CASE PassProp
  <2>1. due' = due BY <1>15, PassSteps
  <2>2. CASE UNCHANGED obs /\ Ends
    BY <1>1, <2>1, <2>2 DEF Ends, SameRing, SameLife, SameProps, Listed
  <2>3. CASE UNCHANGED <<ctx, obs>> /\ core'.hook = core.hook BY <1>1, <2>1, <2>3 DEF Listed
  <2>4. CASE Prop \in Ids /\ Notes(Prop, "none") BY <1>14, <2>1, <2>4
  <2>5. CASE Opens(Prop)
    <3>1. \A j \in Ids : obs'[j].hook = obs[j].hook /\ obs'[j].ret_ts = obs[j].ret_ts
      BY <2>5 DEF Opens
    <3> QED BY <1>1, <1>e, <2>1, <2>5, <3>1 DEF Opens, SameRing, SameLife, SameProps, Listed
  <2> QED BY <1>15, <2>2, <2>3, <2>4, <2>5, PassSteps
<1>16. CASE Read BY <1>1, <1>16, Reads DEF Listed
<1>17. CASE Relock
  <2>1. due' = due /\ core.id \in Ids BY <1>17, Relocks
  <2>2. CASE Notes(core.id, core.val) BY <1>14, <2>1, <2>2
  <2>3. CASE ~SameList
    <3>1. /\ \A j \in Ids : obs'[j].hook = obs[j].hook /\ obs'[j].ret_ts = obs[j].ret_ts
          /\ Ends
      BY <1>17, <2>3, Relocks
    <3> QED BY <1>1, <1>e, <2>1, <3>1 DEF Ends, SameRing, SameLife, SameProps, Listed
  <2> QED BY <1>17, <2>2, <2>3, Relocks
<1>18. ASSUME SameRing(ctx, ctx'), SameLife(ctx, ctx'), SameProps(ctx, ctx'), UNCHANGED <<core, due>>,
              cl.pc = "scan", ctx'.hook_pending = (ctx.hook_pending \/ AtHook),
              \A i \in Listed : \/ ~AtHook \/ obs'[i].hook \/ obs'[i].ret_ts >= due[i]
                                \/ /\ ctx.hook_pending /\ obs'[i].hook = obs[i].hook
                                   /\ obs'[i].ret_ts = obs[i].ret_ts
       PROVE  HookOK'
  <2>1. AtHook' <=> AtHook BY <1>18, <1>b, <1>c DEF SameRing
  <2>2. ctx.alive BY <1>18 DEF LifeOK
  <2>3. Listed' = Listed BY <1>18 DEF SameProps, Listed
  <2> QED BY <1>18, <1>b, <1>d, <1>h, <2>1, <2>2, <2>3 DEF HookOK, SameRing, SameLife
<1>19. ASSUME NEW i \in Listed
       PROVE  \/ ~AtHook \/ Flagged[i].hook \/ obs[i].ret_ts >= due[i]
              \/ ctx.hook_pending /\ Flagged[i].hook = obs[i].hook
  <2>1. i \in Ids BY <1>e
  <2>2. Flagged[i].hook = (obs[i].hook \/ (AtHook /\ ~ctx.hook_pending /\ i \in Listed /\ obs[i].ret_ts # obs[i].ts))
    BY <2>1, Flags
  <2>3. CASE ctx.hook_pending
    <3>1. obs[i].hook \in BOOLEAN BY <2>1 DEF Typed, Observed
    <3> QED BY <2>2, <2>3, <3>1
  <2>4. CASE ~ctx.hook_pending /\ obs[i].ret_ts # obs[i].ts BY <2>2, <2>4
  <2>5. CASE obs[i].ret_ts = obs[i].ts BY <1>f, <1>g, <2>1, <2>5
  <2> QED BY <2>3, <2>4, <2>5
<1>20. CASE ReturnProperty
  <2>1. PICK k, i : k = First(Found) /\ i = ctx.props[k] OBVIOUS
  <2>2. /\ SameRing(ctx, ctx') /\ SameLife(ctx, ctx') /\ SameProps(ctx, ctx') /\ UNCHANGED <<core, due>>
        /\ cl.pc = "scan" /\ ctx'.hook_pending = (ctx.hook_pending \/ AtHook)
        /\ i \in Ids /\ HasEvent(i) /\ obs'[i].ret_ts = obs[i].value_ts
        /\ \A j \in Ids \ {i} : obs'[j].ret_ts = obs[j].ret_ts /\ obs'[j].hook = Flagged[j].hook
    BY <1>20, <2>1, Returns
  <2>3. obs'[i].ret_ts >= due[i] BY <1>f, <1>g, <2>2 DEF HasEvent
  <2>4. \A j \in Listed : \/ ~AtHook \/ obs'[j].hook \/ obs'[j].ret_ts >= due[j]
                          \/ /\ ctx.hook_pending /\ obs'[j].hook = obs[j].hook
                             /\ obs'[j].ret_ts = obs[j].ret_ts
    <3> TAKE j \in Listed
    <3>1. CASE j = i BY <2>3, <3>1
    <3>2. CASE j # i
      <4>1. obs'[j].ret_ts = obs[j].ret_ts /\ obs'[j].hook = Flagged[j].hook BY <1>e, <2>2, <3>2
      <4> QED BY <1>19, <4>1
    <3> QED BY <3>1, <3>2
  <2> QED BY <1>18, <2>2, <2>4
<1>21. CASE Block
  <2>1. /\ SameRing(ctx, ctx') /\ SameLife(ctx, ctx') /\ SameProps(ctx, ctx') /\ UNCHANGED <<core, due>>
        /\ cl.pc = "scan" /\ ctx'.hook_pending = (ctx.hook_pending \/ AtHook) /\ obs' = Flagged
    BY <1>21, Blocks
  <2>2. \A j \in Listed : \/ ~AtHook \/ obs'[j].hook \/ obs'[j].ret_ts >= due[j]
                          \/ /\ ctx.hook_pending /\ obs'[j].hook = obs[j].hook
                             /\ obs'[j].ret_ts = obs[j].ret_ts
    <3> TAKE j \in Listed
    <3>1. Flagged[j].ret_ts = obs[j].ret_ts BY <1>e, Flags
    <3> QED BY <1>19, <2>1, <3>1
  <2> QED BY <1>18, <2>1, <2>2
<1>22. CASE mpv_destroy
  <2>1. Listed' = {}
    <3>1. Len(ctx'.props) = 0 BY <1>22, Destroys
    <3> QED BY <3>1 DEF Listed
  <2> QED BY <1>1, <1>22, <2>1, Destroys DEF SameRing
<1>23. ASSUME NEW p \in Names, NEW v \in Values, Change(p, v) \/ Resize(p, v) PROVE HookOK'
  <2>1. /\ SameRing(ctx, ctx') /\ SameLife(ctx, ctx') /\ SameProps(ctx, ctx')
        /\ ctx'.hook_pending = ctx.hook_pending /\ core'.hook = core.hook /\ due' = due
        /\ \A i \in Ids : obs'[i].hook = obs[i].hook /\ obs'[i].ret_ts = obs[i].ret_ts
    BY <1>23, Changes
  <2> QED BY <1>1, <1>e, <2>1 DEF SameRing, SameLife, SameProps, Listed
<1>24. ASSUME NEW p \in Names, mpv_observe_property(p) PROVE HookOK'
  <2>1. /\ SameRing(ctx, ctx') /\ SameLife(ctx, ctx')
        /\ ctx'.hook_pending = ctx.hook_pending /\ core'.hook = core.hook /\ due' = due
    BY <1>24, Observes
  <2>2. PICK i \in Ids : Listed' = Listed \cup {i} /\ ~Named(i) /\ (\A j \in Ids \ {i} : obs'[j] = obs[j])
                         /\ obs'[i].ret_ts = obs[i].ret_ts
    BY <1>24, NowListed
  <2>3. due[i] = 0
    <3>1. obs[i].ts = 0 BY <2>2 DEF TimesOK
    <3> QED BY <1>f, <1>g, <3>1
  <2>4. obs'[i].ret_ts >= due[i] BY <1>f, <2>2, <2>3
  <2>5. \A j \in Listed : j # i => obs'[j] = obs[j] BY <1>e, <2>2
  <2> QED BY <1>1, <2>1, <2>2, <2>4, <2>5 DEF SameRing, SameLife
<1>25. ASSUME NEW i \in Ids, mpv_unobserve_property(i) PROVE HookOK'
  <2>1. /\ SameRing(ctx, ctx') /\ SameLife(ctx, ctx') /\ core' = core
        /\ ctx'.hook_pending = ctx.hook_pending /\ due' = due
        /\ \A j \in Ids : obs'[j].hook = obs[j].hook /\ obs'[j].ret_ts = obs[j].ret_ts
    BY <1>25, Unobserves
  <2>2. Listed' \subseteq Listed BY <1>25, StillListed
  <2> QED BY <1>1, <1>e, <2>1, <2>2 DEF SameRing, SameLife
<1>26. CASE UNCHANGED vars BY <1>1, <1>26 DEF vars, Listed
<1> QED
  BY <1>4, <1>5, <1>6, <1>7, <1>9, <1>10, <1>11, <1>12, <1>13, <1>15, <1>16, <1>17, <1>20, <1>21, <1>22,
     <1>23, <1>24, <1>25, Steps DEF Still, Aside

(* A value is read because it is out of date; a property that holds back   *)
(* a hook has not been returned.                                           *)
FreshOK ==
  /\ Reading => Stale(core.id)
  /\ \A i \in Ids : obs[i].hook => obs[i].ret_ts # obs[i].ts
  /\ \A i \in Listed : obs[i].ts # 0

LEMMA FreshStep == ASSUME Typed, TimesOK, FreshOK, [Next]_vars PROVE FreshOK'
<1>a. Listed \subseteq Ids BY DEF Typed, Named, Listed
<1>b. \A i \in Ids : obs[i].ts \in Nat /\ obs[i].ret_ts \in Nat /\ obs[i].value_ts \in Nat
  BY DEF Typed, Observed
<1>c. \A i \in Ids : obs[i].ret_ts <= obs[i].value_ts /\ obs[i].value_ts <= obs[i].ts BY DEF TimesOK
<1>d. /\ core.pc \in {"read", "got"} => core.id \in Ids /\ obs[core.id].value_ts # obs[core.id].ts /\ Named(core.id)
      /\ \A i \in Ids : obs[i].hook => obs[i].ret_ts # obs[i].ts
      /\ \A i \in Listed : obs[i].ts # 0
  BY DEF FreshOK, Typed, Reading, Named, Stale
<1>1. ASSUME Listed' \subseteq Listed,
             Reading' => Reading /\ core'.id = core.id,
             \A i \in Ids : \/ /\ obs'[i].ts = obs[i].ts /\ obs'[i].value_ts = obs[i].value_ts
                               /\ obs'[i].hook => obs[i].hook \/ obs[i].ret_ts # obs[i].ts
                               /\ obs'[i].ret_ts = obs[i].ret_ts \/ ~obs'[i].hook
                            \/ /\ obs'[i].ts = obs[i].ts + 1 /\ obs'[i].value_ts = obs[i].value_ts
                               /\ obs'[i].ret_ts = obs[i].ret_ts
      PROVE  FreshOK'
  <2>1. ASSUME NEW i \in Ids PROVE obs'[i].hook => obs'[i].ret_ts # obs'[i].ts
    BY <1>1, <1>b, <1>c, <1>d, <2>1
  <2>2. ASSUME NEW i \in Listed' PROVE obs'[i].ts # 0
    <3>1. i \in Ids /\ i \in Listed BY <1>1, <1>a, <2>2
    <3> QED BY <1>1, <1>b, <1>d, <3>1
  <2>3. ASSUME Reading' PROVE obs'[core'.id].value_ts # obs'[core'.id].ts
    <3>1. PICK i \in Ids : i = core.id /\ core'.id = i /\ obs[i].value_ts # obs[i].ts BY <1>1, <1>d, <2>3 DEF Reading
    <3>2. obs'[i].value_ts # obs'[i].ts BY <1>1, <1>b, <1>c, <3>1
    <3> QED BY <3>1, <3>2
  <2> QED BY <2>1, <2>2, <2>3 DEF FreshOK, Stale
<1>2. CASE Still
  <2>1. /\ obs' = obs /\ ctx'.props = ctx.props /\ core'.id = core.id /\ (Reading' => Reading)
    BY <1>2, Calms DEF Calm, SameProps, SamePass, Reading, InPass
  <2> QED BY <1>1, <2>1 DEF Listed
<1>3. CASE Pass BY <1>1, <1>3, Starts DEF Reading, SameProps, Listed
<1>4. ASSUME NEW i \in Ids, NEW v, Notes(i, v) PROVE FreshOK'
  <2>1. Listed' = Listed /\ ~Reading' BY <1>4 DEF Notes, SameProps, Listed, Reading
  <2>2. ASSUME NEW j \in Ids PROVE (obs'[j].hook => obs'[j].ret_ts # obs'[j].ts) /\ obs'[j].ts = obs[j].ts
    <3>1. CASE j # i BY <1>4, <1>d, <3>1 DEF Notes
    <3>2. CASE j = i /\ NoEvent(obs[i], v) BY <1>4, <3>2 DEF Notes
    <3>3. CASE j = i /\ ~NoEvent(obs[i], v) BY <1>4, <1>d, <3>3 DEF Notes
    <3> QED BY <3>1, <3>2, <3>3
  <2>3. \A j \in Listed : obs'[j].ts # 0 BY <1>a, <1>d, <2>2
  <2> QED BY <2>1, <2>2, <2>3 DEF FreshOK
<1>5. CASE PassProp
  <2>1. core.pc = "pass" BY <1>5, PassSteps
  <2>2. CASE UNCHANGED obs /\ Ends BY <1>1, <2>2 DEF Ends, SameProps, Listed, Reading
  <2>3. CASE UNCHANGED <<ctx, obs>> /\ core'.pc = "pass" BY <1>1, <2>3 DEF Listed, Reading
  <2>4. CASE Prop \in Ids /\ Notes(Prop, "none") BY <1>4, <2>4
  <2>5. CASE Opens(Prop)
    <3>1. Listed' = Listed BY <2>5 DEF Opens, SameProps, Listed
    <3>2. \A j \in Ids : /\ obs'[j].hook = obs[j].hook /\ obs'[j].ret_ts = obs[j].ret_ts
                         /\ obs'[j].ts = obs[j].ts /\ obs'[j].value_ts = obs[j].value_ts
      BY <2>5 DEF Opens
    <3>3. Prop \in Ids /\ Stale(Prop) /\ core'.id = Prop BY <2>5 DEF Opens
    <3>4. obs'[core'.id].value_ts # obs'[core'.id].ts BY <3>2, <3>3 DEF Stale
    <3> QED BY <1>a, <1>d, <3>1, <3>2, <3>4 DEF FreshOK, Stale
  <2> QED BY <1>5, <2>2, <2>3, <2>4, <2>5, PassSteps
<1>6. CASE Read BY <1>1, <1>6, Reads DEF Listed, Reading
<1>7. CASE Relock
  <2>1. core.id \in Ids BY <1>7, Relocks
  <2>2. CASE Notes(core.id, core.val) BY <1>4, <2>1, <2>2
  <2>3. CASE ~SameList
    <3>1. /\ \A j \in Ids : /\ obs'[j].hook = obs[j].hook /\ obs'[j].ret_ts = obs[j].ret_ts
                            /\ obs'[j].ts = obs[j].ts /\ obs'[j].value_ts = obs[j].value_ts
          /\ Ends
      BY <1>7, <2>3, Relocks
    <3> QED BY <1>1, <3>1 DEF Ends, SameProps, Listed, Reading
  <2> QED BY <1>7, <2>2, <2>3, Relocks
<1>8. CASE ReturnProperty
  <2>1. PICK k, i : k = First(Found) /\ i = ctx.props[k] OBVIOUS
  <2>2. /\ SameProps(ctx, ctx') /\ core' = core /\ i \in Ids /\ ~obs'[i].hook
        /\ \A j \in Ids : obs'[j].ts = obs[j].ts /\ obs'[j].value_ts = obs[j].value_ts
        /\ \A j \in Ids \ {i} : obs'[j].ret_ts = obs[j].ret_ts /\ obs'[j].hook = Flagged[j].hook
    BY <1>8, <2>1, Returns
  <2>3. \A j \in Ids \ {i} : obs'[j].hook => obs[j].hook \/ obs[j].ret_ts # obs[j].ts BY <2>2, Flags
  <2> QED BY <1>1, <2>2, <2>3 DEF SameProps, Listed, Reading
<1>9. CASE Block
  <2>1. obs' = Flagged /\ SameProps(ctx, ctx') /\ core' = core BY <1>9, Blocks
  <2>2. \A j \in Ids : /\ obs'[j].hook => obs[j].hook \/ obs[j].ret_ts # obs[j].ts
                       /\ obs'[j].ret_ts = obs[j].ret_ts
                       /\ obs'[j].ts = obs[j].ts /\ obs'[j].value_ts = obs[j].value_ts
    BY <2>1, Flags
  <2> QED BY <1>1, <2>1, <2>2 DEF SameProps, Listed, Reading
<1>10. CASE mpv_destroy
  <2>1. Listed' = {}
    <3>1. Len(ctx'.props) = 0 BY <1>10, Destroys
    <3> QED BY <3>1 DEF Listed
  <2>2. core' = core /\ \A j \in Ids : /\ obs'[j].hook = obs[j].hook /\ obs'[j].ret_ts = obs[j].ret_ts
                                       /\ obs'[j].ts = obs[j].ts /\ obs'[j].value_ts = obs[j].value_ts
    BY <1>10, Destroys
  <2> QED BY <1>1, <2>1, <2>2 DEF Reading
<1>11. ASSUME NEW p \in Names, NEW v \in Values, Change(p, v) \/ Resize(p, v) PROVE FreshOK'
  <2>1. SameProps(ctx, ctx') /\ core'.pc = core.pc /\ core'.id = core.id BY <1>11, Changes DEF SamePass
  <2>2. ASSUME NEW j \in Ids
        PROVE  /\ obs'[j].hook = obs[j].hook /\ obs'[j].ret_ts = obs[j].ret_ts
               /\ obs'[j].ts = obs[j].ts \/ obs'[j].ts = obs[j].ts + 1
               /\ obs'[j].value_ts = obs[j].value_ts
    BY <1>11, Changes
  <2> QED BY <1>1, <2>1, <2>2 DEF SameProps, Listed, Reading
<1>12. ASSUME NEW p \in Names, mpv_observe_property(p) PROVE FreshOK'
  <2>1. core'.pc = core.pc /\ core'.id = core.id BY <1>12, Observes DEF SamePass
  <2>2. PICK i \in Ids : Listed' = Listed \cup {i} /\ ~Named(i) /\ (\A j \in Ids \ {i} : obs'[j] = obs[j])
                         /\ obs'[i].ret_ts = obs[i].ret_ts /\ obs'[i].ts = 1
    BY <1>12, NowListed
  <2>3. obs[i].ts = 0 BY <2>2 DEF TimesOK
  <2>4. obs'[i].ret_ts # obs'[i].ts BY <1>b, <1>c, <2>2, <2>3
  <2>5. \A j \in Ids : obs'[j].hook => obs'[j].ret_ts # obs'[j].ts BY <1>d, <2>2, <2>4
  <2>6. \A j \in Listed' : obs'[j].ts # 0 BY <1>a, <1>d, <2>2
  <2>7. ASSUME Reading' PROVE obs'[core'.id].value_ts # obs'[core'.id].ts
    <3>1. core.id \in Ids /\ core.id # i BY <1>d, <2>1, <2>2, <2>7 DEF Reading
    <3> QED BY <1>d, <2>1, <2>2, <2>7, <3>1 DEF Reading
  <2> QED BY <2>5, <2>6, <2>7 DEF FreshOK, Stale
<1>13. ASSUME NEW i \in Ids, mpv_unobserve_property(i) PROVE FreshOK'
  <2>1. core' = core /\ \A j \in Ids : /\ obs'[j].hook = obs[j].hook /\ obs'[j].ret_ts = obs[j].ret_ts
                                       /\ obs'[j].ts = obs[j].ts /\ obs'[j].value_ts = obs[j].value_ts
    BY <1>13, Unobserves
  <2>2. Listed' \subseteq Listed BY <1>13, StillListed
  <2> QED BY <1>1, <2>1, <2>2 DEF Reading
<1> QED
  BY <1>2, <1>3, <1>5, <1>6, <1>7, <1>8, <1>9, <1>10, <1>11, <1>12, <1>13, Steps

Blocked == cl.pc \in {"unlocked", "sleeping"}

(* Without new_events, nothing to return is left behind cur_index, and     *)
(* when the client waits, nothing at all.                                  *)
SeenOK ==
  ~ctx.new_events =>
    \A k \in 1..Len(ctx.props) : k <= ctx.cur_index \/ Blocked => ~HasEvent(ctx.props[k])

LEMMA SeenStep == ASSUME Typed, LifeOK, TimesOK, FreshOK, SeenOK, [Next]_vars PROVE SeenOK'
<1>a. PICK n \in Nat : n = Len(ctx.props) BY LenProperties DEF Typed, Handle
<1>b. \A i \in Ids : obs[i].ts \in Nat /\ obs[i].ret_ts \in Nat /\ obs[i].value_ts \in Nat
  BY DEF Typed, Observed
<1>c. \A i \in Ids : obs[i].ret_ts <= obs[i].value_ts /\ obs[i].value_ts <= obs[i].ts BY DEF TimesOK
<1>d. \A k \in 1..n : ctx.props[k] \in Ids BY <1>a DEF Typed, Named
<1>e. ~ctx.new_events =>
        \A k \in 1..n : k <= ctx.cur_index \/ Blocked =>
          ~(obs[ctx.props[k]].value_ts = obs[ctx.props[k]].ts /\ obs[ctx.props[k]].ret_ts # obs[ctx.props[k]].value_ts)
  BY <1>a DEF SeenOK, HasEvent
<1>1. ASSUME SameProps(ctx, ctx'), ctx'.cur_index = ctx.cur_index, ctx.new_events => ctx'.new_events,
             Blocked' => Blocked \/ ctx.destroying,
             \A i \in Ids : \/ ctx'.new_events
                            \/ /\ obs'[i].ts = obs[i].ts /\ obs'[i].value_ts = obs[i].value_ts
                               /\ obs'[i].ret_ts = obs[i].ret_ts
                            \/ obs'[i].value_ts # obs'[i].ts
                            \/ obs'[i].ret_ts = obs'[i].value_ts
      PROVE  SeenOK'
  <2> SUFFICES ASSUME ~ctx'.new_events, NEW k \in 1..n, k <= ctx.cur_index \/ Blocked'
               PROVE  ~(/\ obs'[ctx.props[k]].value_ts = obs'[ctx.props[k]].ts
                        /\ obs'[ctx.props[k]].ret_ts # obs'[ctx.props[k]].value_ts)
    BY <1>1, <1>a DEF SeenOK, HasEvent, SameProps
  <2>1. PICK i \in Ids : i = ctx.props[k] BY <1>d
  <2>2. ~ctx.destroying
    <3>1. Len(<<>>) = 0 BY EmptySeq
    <3> QED BY <1>a, <3>1 DEF LifeOK
  <2>3. ~(obs[i].value_ts = obs[i].ts /\ obs[i].ret_ts # obs[i].value_ts) BY <1>1, <1>e, <2>1, <2>2
  <2> QED BY <1>1, <2>1, <2>3
<1>2. CASE Still
  <2>1. /\ obs' = obs /\ SameProps(ctx, ctx') /\ ctx'.cur_index = ctx.cur_index
        /\ ctx'.new_events = ctx.new_events
    BY <1>2, Calms DEF Calm, SameCur, SameFlags
  <2>2. Blocked' => Blocked \/ ctx.destroying
    <3>1. cl \in ClientThread BY DEF Typed
    <3>2. CASE Request BY <3>2, Requests DEF Blocked
    <3>3. CASE Reply BY <3>3, Replies DEF Blocked
    <3>4. CASE Send BY <3>4, CoreSends DEF Blocked
    <3>5. CASE ShutdownClients BY <3>5, CoreEnds DEF Blocked
    <3>6. CASE HookContinue \/ NextRound \/ Quit \/ TimerFires \/ mpv_wakeup \/ UNCHANGED vars
      BY <3>6 DEF HookContinue, NextRound, Quit, TimerFires, mpv_wakeup, vars, Blocked
    <3>7. CASE WaitEvent \/ ReturnNone BY <3>1, <3>7 DEF WaitEvent, ReturnNone, ClientThread, Blocked
    <3>8. CASE ReturnOverflow BY <3>8, Overflows DEF Blocked
    <3>9. CASE ReturnEvent BY <3>9, EventsTaken DEF Blocked
    <3>10. CASE StopWaiting \/ Sleep \/ TimedOut
      BY <3>1, <3>10 DEF StopWaiting, Woken, Sleep, TimedOut, ClientThread, Blocked
    <3>11. CASE mpv_wait_async_requests BY <3>11 DEF mpv_wait_async_requests, LifeOK, Serving
    <3>12. CASE FreeHandle BY <3>12, Frees DEF Blocked
    <3> QED BY <1>2, <3>2, <3>3, <3>4, <3>5, <3>6, <3>7, <3>8, <3>9, <3>10, <3>11, <3>12 DEF Still
  <2> QED BY <1>1, <2>1, <2>2
<1>3. CASE Pass BY <1>1, <1>3, Starts DEF SameCur, Blocked
<1>4. ASSUME NEW i \in Ids, NEW v, Notes(i, v), cl' = cl PROVE SeenOK'
  <2>1. SameProps(ctx, ctx') /\ ctx'.cur_index = ctx.cur_index /\ (ctx.new_events => ctx'.new_events)
        /\ (Blocked' => Blocked)
    BY <1>4 DEF Notes, SameCur, Blocked
  <2>2. NoEvent(obs[i], v) => obs'[i].ret_ts = obs'[i].value_ts BY <1>4 DEF Notes
  <2>3. ~NoEvent(obs[i], v) => ctx'.new_events BY <1>4 DEF Notes
  <2>4. \A j \in Ids \ {i} : obs'[j] = obs[j] BY <1>4 DEF Notes
  <2> QED BY <1>1, <2>1, <2>2, <2>3, <2>4
<1>5. CASE PassProp
  <2>1. cl' = cl BY <1>5, PassSteps
  <2>2. CASE UNCHANGED obs /\ Ends BY <1>1, <2>1, <2>2 DEF Ends, SameCur, Blocked
  <2>3. CASE UNCHANGED <<ctx, obs>> BY <1>1, <2>1, <2>3 DEF SameProps, Blocked
  <2>4. CASE Prop \in Ids /\ Notes(Prop, "none") BY <1>4, <2>1, <2>4
  <2>5. CASE Opens(Prop)
    <3>1. SameProps(ctx, ctx') /\ ctx'.cur_index = ctx.cur_index /\ ctx'.new_events = ctx.new_events
      BY <2>5 DEF Opens, SameCur, SameFlags
    <3>2. \A j \in Ids : /\ obs'[j].ret_ts = obs[j].ret_ts
                         /\ obs'[j].ts = obs[j].ts /\ obs'[j].value_ts = obs[j].value_ts
      BY <2>5 DEF Opens
    <3> QED BY <1>1, <2>1, <3>1, <3>2 DEF Blocked
  <2> QED BY <1>5, <2>2, <2>3, <2>4, <2>5, PassSteps
<1>6. CASE Read BY <1>1, <1>6, Reads DEF SameProps, Blocked
<1>7. CASE Relock
  <2>1. core.id \in Ids /\ cl' = cl BY <1>7, Relocks
  <2>2. CASE Notes(core.id, core.val) BY <1>4, <2>1, <2>2
  <2>3. CASE ~SameList
    <3>1. /\ \A j \in Ids : /\ obs'[j].ret_ts = obs[j].ret_ts
                            /\ obs'[j].ts = obs[j].ts /\ obs'[j].value_ts = obs[j].value_ts
          /\ Ends
      BY <1>7, <2>3, Relocks
    <3> QED BY <1>1, <2>1, <3>1 DEF Ends, SameCur, Blocked
  <2> QED BY <1>7, <2>2, <2>3, Relocks
<1>8. CASE ReturnProperty
  <2>1. PICK k, i : k = First(Found) /\ i = ctx.props[k] OBVIOUS
  <2>2. /\ k \in 1..n /\ i \in Ids
        /\ \A j \in 1..n : j < k /\ (j > ctx.cur_index \/ Rewinds) =>
             ~(obs[ctx.props[j]].value_ts = obs[ctx.props[j]].ts
               /\ obs[ctx.props[j]].ret_ts # obs[ctx.props[j]].value_ts)
        /\ cl' = [cl EXCEPT !.pc = "idle"]
        /\ \A j \in Ids : obs'[j].ts = obs[j].ts /\ obs'[j].value_ts = obs[j].value_ts
        /\ \A j \in Ids \ {i} : obs'[j].ret_ts = obs[j].ret_ts
        /\ obs'[i].ret_ts = obs[i].value_ts /\ SameProps(ctx, ctx')
        /\ ctx'.cur_index = k /\ ctx'.new_events = (ctx.new_events /\ ~Rewinds)
    BY <1>8, <1>a, <2>1, Returns DEF HasEvent
  <2>3. ~Blocked' BY <2>2 DEF Typed, ClientThread, Blocked
  <2>4. ctx.cur_index \in Nat BY DEF Typed, Handle
  <2> SUFFICES ASSUME ~ctx'.new_events, NEW j \in 1..n, j <= k
               PROVE  ~(/\ obs'[ctx.props[j]].value_ts = obs'[ctx.props[j]].ts
                        /\ obs'[ctx.props[j]].ret_ts # obs'[ctx.props[j]].value_ts)
    BY <1>a, <2>2, <2>3 DEF SeenOK, HasEvent, SameProps
  <2>5. PICK x \in Ids : x = ctx.props[j] BY <1>d
  <2>6. CASE x = i BY <2>2, <2>5, <2>6
  <2>7. CASE x # i
    <3>1. j < k BY <2>1, <2>2, <2>5, <2>7
    <3>2. ~(obs[x].value_ts = obs[x].ts /\ obs[x].ret_ts # obs[x].value_ts)
      <4>1. CASE Rewinds BY <2>2, <2>5, <3>1, <4>1
      <4>2. CASE ~ctx.new_events /\ j > ctx.cur_index BY <2>2, <2>5, <3>1, <4>2
      <4>3. CASE ~ctx.new_events /\ j <= ctx.cur_index BY <1>e, <2>5, <4>3
      <4>4. Rewinds \/ ~ctx.new_events BY <2>2, Zenon
      <4>5. j > ctx.cur_index \/ j <= ctx.cur_index BY <2>4
      <4> QED BY <4>1, <4>2, <4>3, <4>4, <4>5
    <3> QED BY <2>2, <2>5, <2>7, <3>2
  <2> QED BY <2>6, <2>7
<1>9. CASE Block
  <2>1. /\ obs' = Flagged /\ SameProps(ctx, ctx') /\ Found = {}
        /\ ctx'.new_events = (ctx.new_events /\ ~Rewinds /\ ctx.props # <<>>)
    BY <1>9, Blocks
  <2>2. \A j \in Ids : /\ obs'[j].ret_ts = obs[j].ret_ts
                       /\ obs'[j].ts = obs[j].ts /\ obs'[j].value_ts = obs[j].value_ts
    BY <2>1, Flags
  <2>3. ctx.cur_index \in Nat BY DEF Typed, Handle
  <2>4. \A m \in Nat : After(m) = {} => \A j \in 1..n : j > m => ~HasEvent(ctx.props[j])
    <3> SUFFICES ASSUME NEW m \in Nat, After(m) = {}, NEW j \in 1..n, j > m PROVE ~HasEvent(ctx.props[j])
      OBVIOUS
    <3>1. j \in m + 1..n OBVIOUS
    <3> QED BY <1>a, <3>1 DEF After
  <2> SUFFICES ASSUME ~ctx'.new_events, NEW j \in 1..n PROVE ~HasEvent(ctx.props[j])
    BY <1>a, <1>d, <2>1, <2>2 DEF SeenOK, HasEvent, SameProps
  <2>5. CASE Rewinds
    <3>1. After(0) = {} BY <2>1, <2>5 DEF Found
    <3>2. 0 \in Nat /\ j > 0 OBVIOUS
    <3> QED BY <2>4, <3>1, <3>2
  <2>6. CASE ~Rewinds /\ ~ctx.new_events
    <3>1. After(ctx.cur_index) = {} BY <2>1, <2>6 DEF Found
    <3>2. CASE j > ctx.cur_index BY <2>3, <2>4, <3>1, <3>2
    <3>3. CASE j <= ctx.cur_index BY <1>e, <2>6, <3>3 DEF HasEvent
    <3> QED BY <2>3, <3>2, <3>3
  <2>7. ctx.props # <<>>
    <3>1. Len(<<>>) = 0 BY EmptySeq
    <3> QED BY <1>a, <3>1
  <2> QED BY <2>1, <2>5, <2>6, <2>7
<1>10. CASE mpv_destroy
  <2>1. Len(ctx'.props) = 0 BY <1>10, Destroys
  <2> QED BY <2>1 DEF SeenOK
<1>11. ASSUME NEW p \in Names, NEW v \in Values, Change(p, v) \/ Resize(p, v) PROVE SeenOK'
  <2>1. SameProps(ctx, ctx') /\ ctx'.cur_index = ctx.cur_index /\ ctx'.new_events = ctx.new_events /\ cl' = cl
    BY <1>11, Changes DEF SameCur
  <2>2. ASSUME NEW j \in Ids
        PROVE  /\ obs'[j].ret_ts = obs[j].ret_ts /\ obs'[j].value_ts = obs[j].value_ts
               /\ obs'[j].ts = obs[j].ts \/ obs'[j].ts = obs[j].ts + 1
    BY <1>11, Changes
  <2>3. \A j \in Ids : obs'[j].ts = obs[j].ts \/ obs'[j].value_ts # obs'[j].ts BY <1>b, <1>c, <2>2
  <2> QED BY <1>1, <2>1, <2>2, <2>3 DEF Blocked
<1>12. ASSUME NEW p \in Names, mpv_observe_property(p) PROVE SeenOK'
  BY <1>12, Observes DEF SeenOK
<1>13. ASSUME NEW i \in Ids, mpv_unobserve_property(i) PROVE SeenOK'
  <2>1. /\ cl' = cl /\ ctx'.cur_index = 0 /\ ctx'.new_events = ctx.new_events
        /\ \A j \in Ids : /\ obs'[j].ret_ts = obs[j].ret_ts
                          /\ obs'[j].ts = obs[j].ts /\ obs'[j].value_ts = obs[j].value_ts
    BY <1>13, Unobserves DEF SameFlags
  <2>2. Listed' \subseteq Listed BY <1>13, StillListed
  <2> SUFFICES ASSUME ~ctx.new_events, Blocked, NEW k \in 1..Len(ctx'.props)
               PROVE  ~(/\ obs'[ctx'.props[k]].value_ts = obs'[ctx'.props[k]].ts
                        /\ obs'[ctx'.props[k]].ret_ts # obs'[ctx'.props[k]].value_ts)
    BY <2>1 DEF SeenOK, HasEvent, Blocked
  <2>3. ctx'.props[k] \in Listed BY <2>2 DEF Listed
  <2>4. PICK q \in 1..n : ctx'.props[k] = ctx.props[q] BY <1>a, <2>3 DEF Listed
  <2>5. PICK x \in Ids : x = ctx.props[q] BY <1>d
  <2> QED BY <1>e, <2>1, <2>4, <2>5
<1> QED
  BY <1>2, <1>3, <1>5, <1>6, <1>7, <1>8, <1>9, <1>10, <1>11, <1>12, <1>13, Steps

(* The VO thread changes a property that the core has just read, before    *)
(* the core has locked the handle again.                                   *)
SlipsIn == core.pc = "got" /\ \E v \in Values : Resize(obs[core.id].name, v)

(* The values: what the core has read, what was returned last, and what is *)
(* known of a property that has not changed since.                         *)
ValuesOK ==
  /\ core.pc = "got" => core.val = val[obs[core.id].name]
  /\ \A i \in Ids : obs[i].ret_ts = obs[i].value_ts /\ obs[i].ret_ts # 0 /\ obs[i].name \notin Plain
                      => obs[i].ret = obs[i].value
  /\ \A i \in Listed : obs[i].name \notin Plain /\ obs[i].value_ts = obs[i].ts
                         => obs[i].value = val[obs[i].name]

LEMMA ValuesStep ==
  ASSUME Typed, TimesOK, FreshOK, ValuesOK, [Next]_vars, [~SlipsIn]_vars
  PROVE  ValuesOK'
<1>a. Listed \subseteq Ids BY DEF Typed, Named, Listed
<1>b. \A i \in Ids : obs[i].ts \in Nat /\ obs[i].ret_ts \in Nat /\ obs[i].value_ts \in Nat
  BY DEF Typed, Observed
<1>c. \A i \in Ids : obs[i].ret_ts <= obs[i].value_ts /\ obs[i].value_ts <= obs[i].ts BY DEF TimesOK
<1>d. core.pc \in {"read", "got"} => core.id \in Ids /\ Named(core.id) BY DEF Typed, Reading, Named
<1>e. \A i \in Ids : obs[i].ret_ts = obs[i].value_ts /\ obs[i].ret_ts # 0 /\ obs[i].name \notin Plain
                       => obs[i].ret = obs[i].value
  BY DEF ValuesOK
<1>f. \A i \in Listed : obs[i].name \notin Plain /\ obs[i].value_ts = obs[i].ts
                          => obs[i].value = val[obs[i].name]
  BY DEF ValuesOK
<1>g. core.pc = "got" => core.val = val[obs[core.id].name]
  BY DEF ValuesOK
<1>1. ASSUME Listed' \subseteq Listed, val' = val,
             core'.pc = "got" => core.pc = "got" /\ core'.id = core.id /\ core'.val = core.val,
             \A i \in Ids : /\ obs'[i].name = obs[i].name /\ obs'[i].ts = obs[i].ts
                            /\ obs'[i].value_ts = obs[i].value_ts /\ obs'[i].value = obs[i].value
                            /\ \/ obs'[i].ret_ts = obs[i].ret_ts /\ obs'[i].ret = obs[i].ret
                               \/ obs'[i].ret_ts = obs[i].value_ts /\ obs'[i].ret = obs[i].value
      PROVE  ValuesOK'
  <2>1. ASSUME NEW i \in Ids, obs'[i].ret_ts = obs'[i].value_ts, obs'[i].ret_ts # 0, obs'[i].name \notin Plain
        PROVE  obs'[i].ret = obs'[i].value
    BY <1>1, <1>e, <2>1
  <2>2. ASSUME NEW i \in Listed', obs'[i].name \notin Plain, obs'[i].value_ts = obs'[i].ts
        PROVE  obs'[i].value = val'[obs'[i].name]
    <3>1. i \in Ids /\ i \in Listed BY <1>1, <1>a, <2>2
    <3> QED BY <1>1, <1>f, <2>2, <3>1
  <2>3. ASSUME core'.pc = "got"
        PROVE  core'.val = val'[obs'[core'.id].name]
    BY <1>1, <1>d, <1>g, <2>3
  <2> QED BY <2>1, <2>2, <2>3 DEF ValuesOK
<1>2. CASE Still
  BY <1>1, <1>2, Calms DEF Calm, SameProps, SamePass, InPass, Listed
<1>3. CASE Pass BY <1>1, <1>3, Starts DEF SameProps, Listed
<1>4. ASSUME NEW i \in Ids, NEW v, Notes(i, v), val' = val, Stale(i),
             obs[i].name \notin Plain => v = val[obs[i].name]
      PROVE  ValuesOK'
  <2>1. Listed' = Listed /\ core'.pc = "pass" /\ \A j \in Ids \ {i} : obs'[j] = obs[j]
    BY <1>4 DEF Notes, SameProps, Listed
  <2>2. obs'[i].name = obs[i].name /\ obs'[i].value = v /\ obs'[i].value_ts = obs[i].ts /\ obs'[i].ret = obs[i].ret
    BY <1>4 DEF Notes
  <2>3. ASSUME obs'[i].ret_ts = obs'[i].value_ts, obs[i].name \notin Plain PROVE obs'[i].ret = obs'[i].value
    <3>1. NoEvent(obs[i], v)
      <4>1. ~NoEvent(obs[i], v) => obs'[i].ret_ts = obs[i].ret_ts BY <1>4 DEF Notes
      <4>2. obs[i].ret_ts # obs[i].ts BY <1>4, <1>b, <1>c DEF Stale
      <4> QED BY <2>2, <2>3, <4>1, <4>2
    <3>2. obs[i].value = v /\ obs[i].value_ts # 0 /\ obs[i].ret_ts = obs[i].value_ts
      BY <3>1 DEF NoEvent, Changed
    <3> QED BY <1>e, <2>2, <2>3, <3>2
  <2>4. ASSUME NEW j \in Ids, obs'[j].ret_ts = obs'[j].value_ts, obs'[j].ret_ts # 0, obs'[j].name \notin Plain
        PROVE  obs'[j].ret = obs'[j].value
    <3>1. CASE j = i BY <2>2, <2>3, <2>4, <3>1
    <3>2. CASE j # i BY <1>e, <2>1, <2>4, <3>2
    <3> QED BY <3>1, <3>2
  <2>5. ASSUME NEW j \in Listed, obs'[j].name \notin Plain, obs'[j].value_ts = obs'[j].ts
        PROVE  obs'[j].value = val[obs'[j].name]
    <3>1. CASE j = i BY <1>4, <2>2, <2>5, <3>1
    <3>2. CASE j # i
      <4>1. obs'[j] = obs[j] BY <1>a, <2>1, <3>2
      <4> QED BY <1>f, <2>5, <4>1
    <3> QED BY <3>1, <3>2
  <2> QED BY <1>4, <2>1, <2>4, <2>5 DEF ValuesOK
<1>5. CASE PassProp
  <2>1. val' = val /\ core.pc = "pass" BY <1>5, PassSteps
  <2>2. CASE UNCHANGED obs /\ Ends BY <1>1, <2>1, <2>2 DEF Ends, SameProps, Listed
  <2>3. CASE UNCHANGED <<ctx, obs>> /\ core'.pc = "pass" BY <1>1, <2>1, <2>3 DEF Listed
  <2>4. CASE Prop \in Ids /\ Stale(Prop) /\ obs[Prop].name \in Plain /\ Notes(Prop, "none")
    BY <1>4, <2>1, <2>4
  <2>5. CASE Opens(Prop)
    <3>1. Listed' = Listed /\ core'.pc = "read" BY <2>5 DEF Opens, SameProps, Listed
    <3>2. \A j \in Ids : /\ obs'[j].name = obs[j].name /\ obs'[j].ts = obs[j].ts
                         /\ obs'[j].value_ts = obs[j].value_ts /\ obs'[j].value = obs[j].value
                         /\ obs'[j].ret_ts = obs[j].ret_ts /\ obs'[j].ret = obs[j].ret
      BY <2>5 DEF Opens
    <3> QED BY <1>1, <2>1, <3>1, <3>2
  <2> QED BY <1>5, <2>2, <2>3, <2>4, <2>5, PassSteps
<1>6. CASE Read
  <2>1. core'.val = val[obs[core.id].name] /\ core'.id = core.id /\ UNCHANGED <<ctx, obs, val>> BY <1>6, Reads
  <2> QED BY <1>e, <1>f, <2>1 DEF ValuesOK, Listed
<1>7. CASE Relock
  <2>1. core.id \in Ids /\ core.pc = "got" /\ val' = val BY <1>7, Relocks
  <2>2. CASE Notes(core.id, core.val)
    <3>1. Stale(core.id) BY <2>1 DEF FreshOK, Reading
    <3>2. obs[core.id].name \notin Plain => core.val = val[obs[core.id].name] BY <1>g, <2>1
    <3> QED BY <1>4, <2>1, <2>2, <3>1, <3>2
  <2>3. CASE ~SameList
    <3>1. /\ \A j \in Ids : /\ obs'[j].name = obs[j].name /\ obs'[j].ts = obs[j].ts
                            /\ obs'[j].value_ts = obs[j].value_ts /\ obs'[j].value = obs[j].value
                            /\ obs'[j].ret_ts = obs[j].ret_ts /\ obs'[j].ret = obs[j].ret
          /\ Ends
      BY <1>7, <2>3, Relocks
    <3> QED BY <1>1, <2>1, <3>1 DEF Ends, SameProps, Listed
  <2> QED BY <1>7, <2>2, <2>3, Relocks
<1>8. CASE ReturnProperty
  <2>1. PICK k, i : k = First(Found) /\ i = ctx.props[k] OBVIOUS
  <2>2. /\ SameProps(ctx, ctx') /\ UNCHANGED <<core, val>> /\ i \in Ids
        /\ \A j \in Ids : /\ obs'[j].name = obs[j].name /\ obs'[j].ts = obs[j].ts
                          /\ obs'[j].value_ts = obs[j].value_ts /\ obs'[j].value = obs[j].value
        /\ \A j \in Ids \ {i} : obs'[j].ret_ts = obs[j].ret_ts /\ obs'[j].ret = obs[j].ret
        /\ obs'[i].ret_ts = obs[i].value_ts /\ obs'[i].ret = obs[i].value
    BY <1>8, <2>1, Returns
  <2>3. Listed' \subseteq Listed BY <2>2 DEF SameProps, Listed
  <2> QED BY <1>1, <2>2, <2>3
<1>9. CASE Block
  <2>1. obs' = Flagged /\ SameProps(ctx, ctx') /\ UNCHANGED <<core, val>> BY <1>9, Blocks
  <2>2. Listed' \subseteq Listed BY <2>1 DEF SameProps, Listed
  <2>3. \A j \in Ids : /\ obs'[j].name = obs[j].name /\ obs'[j].ts = obs[j].ts
                       /\ obs'[j].value_ts = obs[j].value_ts /\ obs'[j].value = obs[j].value
                       /\ obs'[j].ret_ts = obs[j].ret_ts /\ obs'[j].ret = obs[j].ret
    BY <2>1, Flags
  <2> QED BY <1>1, <2>1, <2>2, <2>3
<1>10. CASE mpv_destroy
  <2>1. Listed' = {}
    <3>1. Len(ctx'.props) = 0 BY <1>10, Destroys
    <3> QED BY <3>1 DEF Listed
  <2> QED BY <1>1, <1>10, <2>1, Destroys
<1>11. ASSUME NEW p \in Names, NEW v \in Values, Change(p, v) \/ Resize(p, v) PROVE ValuesOK'
  <2>1. /\ Listed' = Listed /\ SamePass(core, core') /\ core'.pc = core.pc /\ val' = [val EXCEPT ![p] = v]
        /\ val \in [Names -> Values]
    BY <1>11, Changes DEF SameProps, Listed, Typed
  <2>2. ASSUME NEW j \in Ids
        PROVE  /\ obs'[j].name = obs[j].name /\ obs'[j].value_ts = obs[j].value_ts
               /\ obs'[j].value = obs[j].value /\ obs'[j].ret_ts = obs[j].ret_ts /\ obs'[j].ret = obs[j].ret
               /\ obs'[j].ts = IF j \in Listed /\ obs[j].name = p THEN obs[j].ts + 1 ELSE obs[j].ts
    BY <1>11, Changes
  <2>3. ASSUME NEW j \in Listed, obs'[j].name \notin Plain, obs'[j].value_ts = obs'[j].ts
        PROVE  obs'[j].value = val'[obs'[j].name]
    <3>1. j \in Ids BY <1>a
    <3>2. obs[j].name # p
      <4>1. CASE obs[j].name = p
        <5>1. obs'[j].ts = obs[j].ts + 1 /\ obs'[j].value_ts = obs[j].value_ts BY <2>2, <3>1, <4>1
        <5> QED BY <1>b, <1>c, <2>3, <3>1, <5>1
      <4> QED BY <4>1
    <3>3. obs[j].name \in Names BY DEF Typed, Named, Listed
    <3>4. val'[obs[j].name] = val[obs[j].name] BY <2>1, <3>2, <3>3
    <3>5. obs'[j].ts = obs[j].ts BY <2>2, <3>1, <3>2
    <3> QED BY <1>f, <2>2, <2>3, <3>1, <3>4, <3>5
  <2>4. ASSUME core'.pc = "got"
        PROVE  core'.val = val'[obs'[core'.id].name]
    <3>1. PICK i \in Ids : i = core.id /\ core'.id = i /\ obs[i].name \in Names /\ core'.val = core.val
      BY <1>d, <2>1, <2>4 DEF SamePass, Named
    <3>2. obs'[i].name = obs[i].name BY <2>2
    <3>3. p # obs[i].name \/ UNCHANGED vars
      <4>1. core.pc = "got" BY <2>1, <2>4
      <4>2. CASE Change(p, v) BY <4>1, <4>2 DEF Change
      <4>3. CASE Resize(p, v) BY <3>1, <4>1, <4>3 DEF SlipsIn
      <4> QED BY <1>11, <4>2, <4>3
    <3>4. val'[obs[i].name] = val[obs[i].name] BY <2>1, <3>1, <3>3 DEF vars
    <3> QED BY <1>g, <2>1, <2>4, <3>1, <3>2, <3>4
  <2>5. \A j \in Ids : obs'[j].ret_ts = obs'[j].value_ts /\ obs'[j].ret_ts # 0 /\ obs'[j].name \notin Plain
                         => obs'[j].ret = obs'[j].value
    BY <1>e, <2>2
  <2> QED BY <2>1, <2>3, <2>4, <2>5 DEF ValuesOK
<1>12. ASSUME NEW p \in Names, mpv_observe_property(p) PROVE ValuesOK'
  <2>1. core'.pc = core.pc /\ core'.id = core.id /\ core'.val = core.val /\ val' = val
    BY <1>12, Observes DEF SamePass
  <2>2. PICK i \in Ids : /\ Listed' = Listed \cup {i} /\ ~Named(i) /\ (\A j \in Ids \ {i} : obs'[j] = obs[j])
                         /\ obs'[i].ret_ts = obs[i].ret_ts /\ obs'[i].ts = 1 /\ obs'[i].value_ts = obs[i].value_ts
    BY <1>12, NowListed
  <2>3. obs[i].ts = 0 BY <2>2 DEF TimesOK
  <2>4. obs'[i].ret_ts = 0 /\ obs'[i].value_ts # obs'[i].ts BY <1>b, <1>c, <2>2, <2>3
  <2>5. \A j \in Ids : obs'[j].ret_ts = obs'[j].value_ts /\ obs'[j].ret_ts # 0 /\ obs'[j].name \notin Plain
                         => obs'[j].ret = obs'[j].value
    BY <1>e, <2>2, <2>4
  <2>6. \A j \in Listed' : obs'[j].name \notin Plain /\ obs'[j].value_ts = obs'[j].ts
                             => obs'[j].value = val'[obs'[j].name]
    BY <1>a, <1>f, <2>1, <2>2, <2>4
  <2>7. ASSUME core'.pc = "got"
        PROVE  core'.val = val'[obs'[core'.id].name]
    <3>1. core.id \in Ids /\ core.id # i BY <1>d, <2>1, <2>2, <2>7
    <3> QED BY <1>g, <2>1, <2>2, <2>7, <3>1
  <2> QED BY <2>5, <2>6, <2>7 DEF ValuesOK
<1>13. ASSUME NEW i \in Ids, mpv_unobserve_property(i) PROVE ValuesOK'
  <2>1. UNCHANGED <<core, val>>
        /\ \A j \in Ids : /\ obs'[j].name = obs[j].name /\ obs'[j].ts = obs[j].ts
                          /\ obs'[j].value_ts = obs[j].value_ts /\ obs'[j].value = obs[j].value
                          /\ obs'[j].ret_ts = obs[j].ret_ts /\ obs'[j].ret = obs[j].ret
    BY <1>13, Unobserves
  <2>2. Listed' \subseteq Listed BY <1>13, StillListed
  <2> QED BY <1>1, <2>1, <2>2
<1> QED
  BY <1>2, <1>3, <1>5, <1>6, <1>7, <1>8, <1>9, <1>10, <1>11, <1>12, <1>13, Steps

LEMMA Wakes ==
  ASSUME Typed, Still
  PROVE  /\ InPass' \/ core'.pc = "sleep" => core'.pc = core.pc /\ (core.awake => core'.awake)
         /\ Usable' => Usable
<1>a. ctx \in Handle BY DEF Typed
<1>c. core \in CoreThread BY DEF Typed
<1>1. CASE HookContinue \/ NextRound \/ Quit \/ TimerFires
  BY <1>1, <1>c, ZenonT(60) DEF HookContinue, NextRound, Quit, TimerFires, CoreThread, InPass, Usable
<1>2. CASE WaitEvent \/ Sleep \/ TimedOut \/ mpv_wait_async_requests \/ UNCHANGED vars
  BY <1>2 DEF WaitEvent, Sleep, TimedOut, mpv_wait_async_requests, vars, Usable
<1>3. CASE ReturnNone \/ StopWaiting \/ mpv_wakeup
  BY <1>3, <1>a DEF ReturnNone, StopWaiting, mpv_wakeup, Returned, wakeup_client, Handle, Usable
<1>4. CASE ReturnOverflow
  <2>1. core' = core /\ ctx'.alive = ctx.alive BY <1>4, Overflows
  <2>2. ctx'.destroying = ctx.destroying BY <1>4, Calms DEF Still, Calm
  <2> QED BY <2>1, <2>2 DEF Usable
<1>5. CASE ReturnEvent BY <1>5, EventsTaken DEF SameLife, Usable
<1>6. CASE Request
  <2>1. core'.pc = core.pc /\ core'.awake = core.awake BY <1>6, <1>c DEF Request, CoreThread
  <2> QED BY <1>6, <2>1, Requests DEF SameLife, Usable
<1>7. CASE Reply
  <2>1. core'.pc = core.pc /\ core'.awake = core.awake BY <1>7, <1>c DEF Reply, CoreThread
  <2> QED BY <1>7, <2>1, Replies DEF SameLife, Usable
<1>8. CASE Send
  <2>1. core'.pc = "work" BY <1>8, <1>c DEF Send, CoreThread
  <2>2. SameLife(ctx, ctx') BY <1>8, CoreSends DEF Adds
  <2> QED BY <2>1, <2>2 DEF SameLife, Usable, InPass
<1>9. CASE ShutdownClients BY <1>9, CoreEnds DEF Adds, SameLife, Usable, InPass
<1>10. CASE FreeHandle BY <1>10, Frees DEF Usable
<1> QED BY <1>1, <1>2, <1>3, <1>4, <1>5, <1>6, <1>7, <1>8, <1>9, <1>10 DEF Still

(* A property that is out of date is going to be looked at: its handle has *)
(* pending changes, or the core has not reached it yet.                    *)
WorkOK ==
  \A k \in 1..Len(ctx.props) : Stale(ctx.props[k]) =>
    \/ ctx.has_pending
    \/ core.pc = "pass" /\ k >= core.n
    \/ Reading /\ (k >= core.n \/ ~SameList)

LEMMA WorkStep == ASSUME Typed, ListOK, PassOK, WorkOK, [Next]_vars PROVE WorkOK'
<1>a. PICK n \in Nat : n = Len(ctx.props) BY LenProperties DEF Typed, Handle
<1>c. \A k \in 1..n : ctx.props[k] \in Ids BY <1>a DEF Typed, Named
<1>d. core.n \in Nat \ {0} /\ core.list_ts \in Nat /\ ctx.props_ts \in Nat BY DEF Typed, Handle, CoreThread
<1>e. \A k \in 1..n : obs[ctx.props[k]].value_ts # obs[ctx.props[k]].ts =>
        \/ ctx.has_pending
        \/ core.pc = "pass" /\ k >= core.n
        \/ core.pc \in {"read", "got"} /\ (k >= core.n \/ ctx.props_ts # core.list_ts \/ ctx.destroying)
  BY <1>a DEF WorkOK, Stale, Reading, SameList
<1>1. ASSUME SameProps(ctx, ctx'), ctx'.destroying = ctx.destroying,
             ctx.has_pending => ctx'.has_pending, core'.list_ts = core.list_ts, core'.n = core.n,
             core.pc = "pass" => core'.pc = "pass", Reading => Reading',
             \A i \in Ids : \/ ctx'.has_pending
                            \/ obs'[i].value_ts = obs[i].value_ts /\ obs'[i].ts = obs[i].ts
      PROVE  WorkOK'
  <2> SUFFICES ASSUME NEW k \in 1..n, obs'[ctx.props[k]].value_ts # obs'[ctx.props[k]].ts
               PROVE  \/ ctx'.has_pending
                      \/ core'.pc = "pass" /\ k >= core'.n
                      \/ core'.pc \in {"read", "got"}
                         /\ (k >= core'.n \/ ctx'.props_ts # core'.list_ts \/ ctx'.destroying)
    BY <1>1, <1>a DEF WorkOK, Stale, Reading, SameList, SameProps
  <2>1. PICK i \in Ids : i = ctx.props[k] BY <1>c
  <2>2. ctx'.has_pending \/ obs[i].value_ts # obs[i].ts BY <1>1, <2>1
  <2> QED BY <1>1, <1>e, <2>1, <2>2 DEF SameProps, Reading
<1>2. ASSUME ctx'.has_pending PROVE WorkOK' BY <1>2 DEF WorkOK
<1>3. CASE Still
  BY <1>1, <1>3, Calms DEF Calm, SameFlags, SamePass, InPass, Reading
<1>4. CASE Pass
  <2>1. /\ ctx'.props = ctx.props /\ obs' = obs /\ core.pc \in {"work", "told"}
        /\ \/ core'.pc = "pass" /\ core'.n = 1
           \/ ctx'.has_pending = ctx.has_pending
    BY <1>4, Starts DEF SameProps
  <2>2. CASE core'.pc = "pass" /\ core'.n = 1
    <3>1. \A k \in 1..Len(ctx'.props) : k >= core'.n BY <1>a, <2>1, <2>2
    <3> QED BY <2>2, <3>1 DEF WorkOK
  <2>3. CASE ctx'.has_pending = ctx.has_pending BY <1>a, <1>e, <2>1, <2>3 DEF WorkOK, Stale
  <2> QED BY <2>1, <2>2, <2>3
(* The core is through with its n-th property.                             *)
<1>5. ASSUME core'.pc = "pass", core'.n = core.n + 1, ctx'.props = ctx.props, ctx'.has_pending = ctx.has_pending,
             core.pc = "pass" \/ (core.pc = "got" /\ SameList),
             NEW i \in Ids, i = ctx.props[core.n], obs'[i].value_ts = obs'[i].ts,
             \A j \in Ids \ {i} : obs'[j] = obs[j]
      PROVE  WorkOK'
  <2> SUFFICES ASSUME NEW k \in 1..n, obs'[ctx.props[k]].value_ts # obs'[ctx.props[k]].ts
               PROVE  ctx'.has_pending \/ (core'.pc = "pass" /\ k >= core'.n)
    BY <1>5, <1>a DEF WorkOK, Stale
  <2>1. PICK x \in Ids : x = ctx.props[k] BY <1>c
  <2>2. x # i BY <1>5, <2>1
  <2>3. obs[x].value_ts # obs[x].ts BY <1>5, <2>1, <2>2
  <2>4. ctx.has_pending \/ k >= core.n BY <1>5, <1>e, <2>1, <2>3 DEF SameList
  <2>5. k # core.n BY <1>5, <2>1, <2>2
  <2> QED BY <1>5, <1>d, <2>4, <2>5
<1>6. CASE PassProp
  <2>1. core.pc = "pass" BY <1>6, PassSteps
  <2>2. CASE core.n > Len(ctx.props) /\ UNCHANGED obs /\ Ends /\ ctx'.has_pending = ctx.has_pending
    <3>1. \A k \in 1..n : ~(k >= core.n) BY <1>a, <1>d, <2>2
    <3> QED BY <1>a, <1>e, <2>1, <2>2, <3>1 DEF Ends, SameProps, WorkOK, Stale
  <2>3. CASE /\ core.n \in 1..n /\ ~Stale(Prop) /\ UNCHANGED <<ctx, obs>>
             /\ core'.pc = "pass" /\ core'.n = core.n + 1
    <3>1. PICK i \in Ids : i = ctx.props[core.n] BY <1>c, <2>3
    <3>2. obs[i].value_ts = obs[i].ts BY <2>3, <3>1 DEF Stale, Prop
    <3> QED BY <1>5, <2>1, <2>3, <3>1, <3>2
  <2>4. CASE Prop \in Ids /\ Notes(Prop, "none")
    <3>1. PICK i \in Ids : i = ctx.props[core.n] /\ Notes(i, "none") BY <2>4 DEF Prop
    <3> QED BY <1>5, <2>1, <3>1 DEF Notes, SameProps
  <2>5. CASE Opens(Prop)
    <3>1. \A j \in Ids : obs'[j].ts = obs[j].ts /\ obs'[j].value_ts = obs[j].value_ts BY <2>5 DEF Opens
    <3>2. /\ ctx'.props = ctx.props /\ ctx'.has_pending = ctx.has_pending
          /\ core'.pc = "read" /\ core'.n = core.n
      BY <2>5 DEF Opens, SameProps, SameFlags
    <3>3. \A k \in 1..n : obs'[ctx.props[k]].ts = obs[ctx.props[k]].ts
                          /\ obs'[ctx.props[k]].value_ts = obs[ctx.props[k]].value_ts
      BY <1>c, <3>1
    <3> QED BY <1>a, <1>e, <2>1, <3>2, <3>3 DEF WorkOK, Stale, Reading
  <2> QED BY <1>6, <1>a, <2>2, <2>3, <2>4, <2>5, PassSteps
<1>7. CASE Read BY <1>1, <1>7, Reads DEF SameProps, Reading
<1>8. CASE Relock
  <2>1. core.id \in Ids /\ core.pc = "got" BY <1>8, Relocks
  <2>2. CASE SameList /\ Notes(core.id, core.val)
    <3>1. core.id = ctx.props[core.n] BY <2>1, <2>2 DEF PassOK, Reading, Prop
    <3> QED BY <1>5, <2>1, <2>2, <3>1 DEF Notes, SameProps
  <2>3. CASE ~SameList
    <3>1. ctx'.has_pending BY <1>8, <2>3, Relocks
    <3> QED BY <1>2, <3>1
  <2> QED BY <1>8, <2>2, <2>3, Relocks
<1>9. CASE ReturnProperty
  <2>1. PICK k, i : k = First(Found) /\ i = ctx.props[k] OBVIOUS
  <2>2. /\ SameProps(ctx, ctx') /\ core' = core /\ ctx'.has_pending = ctx.has_pending /\ SameLife(ctx, ctx')
        /\ \A j \in Ids : obs'[j].ts = obs[j].ts /\ obs'[j].value_ts = obs[j].value_ts
    BY <1>9, <2>1, Returns
  <2> QED BY <1>1, <2>2 DEF SameLife, Reading
<1>10. CASE Block
  <2>1. /\ obs' = Flagged /\ SameProps(ctx, ctx') /\ core' = core /\ SameLife(ctx, ctx')
        /\ ctx'.has_pending = ctx.has_pending
    BY <1>10, Blocks
  <2>2. \A j \in Ids : obs'[j].ts = obs[j].ts /\ obs'[j].value_ts = obs[j].value_ts BY <2>1, Flags
  <2> QED BY <1>1, <2>1, <2>2 DEF SameLife, Reading
<1>11. CASE mpv_destroy
  <2>1. Len(ctx'.props) = 0 BY <1>11, Destroys
  <2> QED BY <2>1 DEF WorkOK
<1>12. ASSUME NEW p \in Names, NEW v \in Values, Change(p, v) \/ Resize(p, v) PROVE WorkOK'
  <2>1. /\ SameProps(ctx, ctx') /\ SameLife(ctx, ctx') /\ SamePass(core, core') /\ core'.pc = core.pc
        /\ ctx'.has_pending = (ctx.has_pending \/ \E i \in Listed : obs[i].name = p)
    BY <1>12, Changes
  <2>2. ASSUME NEW j \in Ids
        PROVE  /\ obs'[j].value_ts = obs[j].value_ts
               /\ obs'[j].ts = IF j \in Listed /\ obs[j].name = p THEN obs[j].ts + 1 ELSE obs[j].ts
    BY <1>12, Changes
  <2>3. CASE \E i \in Listed : obs[i].name = p BY <1>2, <2>1, <2>3
  <2>4. CASE ~\E i \in Listed : obs[i].name = p
    <3>1. \A j \in Ids : obs'[j].value_ts = obs[j].value_ts /\ obs'[j].ts = obs[j].ts BY <2>2, <2>4
    <3> QED BY <1>1, <2>1, <2>4, <3>1 DEF SameLife, SamePass, Reading
  <2> QED BY <2>3, <2>4
<1>13. ASSUME NEW p \in Names, mpv_observe_property(p) PROVE WorkOK' BY <1>2, <1>13, Observes
<1>14. ASSUME NEW i \in Ids, mpv_unobserve_property(i) PROVE WorkOK'
  <2>1. /\ core' = core /\ core.pc # "pass" /\ ctx'.props_ts = ctx.props_ts + 1
        /\ ctx'.has_pending = ctx.has_pending
        /\ \A j \in Ids : obs'[j].ts = obs[j].ts /\ obs'[j].value_ts = obs[j].value_ts
    BY <1>14, Unobserves DEF SameFlags
  <2>2. Listed' \subseteq Listed BY <1>14, StillListed
  <2> SUFFICES ASSUME NEW k \in 1..Len(ctx'.props), obs'[ctx'.props[k]].value_ts # obs'[ctx'.props[k]].ts
               PROVE  ctx'.has_pending \/ (core.pc \in {"read", "got"} /\ ctx'.props_ts # core.list_ts)
    BY <2>1 DEF WorkOK, Stale, Reading, SameList
  <2>3. ctx'.props[k] \in Listed BY <2>2 DEF Listed
  <2>4. PICK q \in 1..n : ctx'.props[k] = ctx.props[q] BY <1>a, <2>3 DEF Listed
  <2>5. PICK x \in Ids : x = ctx.props[q] BY <1>c
  <2>6. obs[x].value_ts # obs[x].ts BY <2>1, <2>4, <2>5
  <2>7. ctx.has_pending \/ core.pc \in {"read", "got"} BY <1>e, <2>1, <2>5, <2>6
  <2>8. core.pc \in {"read", "got"} => core.list_ts <= ctx.props_ts BY DEF PassOK, Reading
  <2> QED BY <1>d, <2>1, <2>7, <2>8
<1> QED
  BY <1>3, <1>4, <1>6, <1>7, <1>8, <1>9, <1>10, <1>11, <1>12, <1>13, <1>14, Steps

(* With pending changes, the core does not go to sleep.                    *)
AwakeOK == Usable /\ ctx.has_pending /\ (InPass \/ core.pc = "sleep") => core.awake

LEMMA AwakeStep == ASSUME Typed, AwakeOK, [Next]_vars PROVE AwakeOK'
<1>1. ASSUME Usable' => Usable, ctx'.has_pending => ctx.has_pending,
             InPass' \/ core'.pc = "sleep" => (InPass \/ core.pc = "sleep") /\ (core.awake => core'.awake)
      PROVE  AwakeOK'
  BY <1>1 DEF AwakeOK
<1>2. CASE Still
  <2>1. ctx'.has_pending = ctx.has_pending BY <1>2, Calms DEF Calm, SameFlags
  <2>2. InPass' => InPass \/ core.pc = "sleep" BY <1>2, Wakes DEF InPass
  <2> QED BY <1>1, <1>2, <2>1, <2>2, Wakes
<1>3. CASE Pass BY <1>3, Starts DEF AwakeOK, Usable
<1>4. CASE PassProp
  <2>1. InPass BY <1>4, PassSteps DEF InPass
  <2>2. SameLife(ctx, ctx') /\ ctx'.has_pending = ctx.has_pending /\ core'.awake = core.awake
    BY <1>4, PassSteps DEF Ends, Notes, Opens, SameFlags, SameLife
  <2> QED BY <1>1, <2>1, <2>2 DEF SameLife, Usable
<1>5. CASE Read BY <1>1, <1>5, Reads DEF InPass, Usable
<1>6. CASE Relock
  <2>1. InPass BY <1>6, Relocks DEF InPass
  <2>2. \/ core'.awake
        \/ SameLife(ctx, ctx') /\ ctx'.has_pending = ctx.has_pending /\ core'.awake = core.awake
    BY <1>6, Relocks DEF Notes
  <2> QED BY <1>1, <2>1, <2>2 DEF AwakeOK, SameLife, Usable
<1>7. CASE ReturnProperty
  <2>1. PICK k, i : k = First(Found) /\ i = ctx.props[k] OBVIOUS
  <2>2. core' = core /\ ctx'.has_pending = ctx.has_pending /\ SameLife(ctx, ctx')
    BY <1>7, <2>1, Returns
  <2> QED BY <1>1, <2>2 DEF SameLife, Usable, InPass
<1>8. CASE Block BY <1>1, <1>8, Blocks DEF SameLife, Usable, InPass
<1>9. CASE mpv_destroy BY <1>9, Destroys DEF AwakeOK, Usable
<1>10. ASSUME NEW p \in Names, NEW v \in Values, Change(p, v) \/ Resize(p, v) PROVE AwakeOK'
  <2>1. /\ SameLife(ctx, ctx') /\ core'.pc = core.pc /\ (core.awake => core'.awake)
        /\ ctx'.has_pending = (ctx.has_pending \/ \E i \in Listed : obs[i].name = p)
        /\ core.pc # "work" /\ (\E i \in Listed : obs[i].name = p) => core'.awake
    BY <1>10, Changes
  <2>2. CASE \E i \in Listed : obs[i].name = p BY <2>1, <2>2 DEF AwakeOK, InPass
  <2>3. CASE ~\E i \in Listed : obs[i].name = p BY <1>1, <2>1, <2>3 DEF SameLife, Usable, InPass
  <2> QED BY <2>2, <2>3
<1>11. ASSUME NEW p \in Names, mpv_observe_property(p) PROVE AwakeOK' BY <1>11, Observes DEF AwakeOK
<1>12. ASSUME NEW i \in Ids, mpv_unobserve_property(i) PROVE AwakeOK'
  BY <1>1, <1>12, Unobserves DEF SameLife, SameFlags, Usable, InPass
<1> QED
  BY <1>2, <1>3, <1>4, <1>5, <1>6, <1>7, <1>8, <1>9, <1>10, <1>11, <1>12, Steps

(* A client that waits, and that nobody is about to wake up, waits for     *)
(* something that is still to come.                                        *)
WakeOK ==
  Blocked /\ ~ctx.need_wakeup =>
    /\ ctx.destroying => Busy(ctx)
    /\ ~ctx.destroying =>
         /\ ctx.new_events => ctx.has_pending \/ InPass
         /\ ctx.events = <<>> /\ ctx.choked => ctx.reserved > 0
         /\ ctx.events # <<>> => AtHook /\ (ctx.new_events \/ \E i \in Listed : obs[i].hook)

(* Another thread unobserves a property while the client waits, with a     *)
(* hook held back: the client is not told that it can have the hook now.   *)
Withdraws == Blocked /\ AtHook /\ \E i \in Ids : mpv_unobserve_property(i)

LEMMA WakeStep ==
  ASSUME Typed, RingOK, LifeOK, HookOK, WakeOK, [Next]_vars, [~Withdraws]_vars
  PROVE  WakeOK'
<1>a. Listed \subseteq Ids BY DEF Typed, Named, Listed
<1>b. cl \in ClientThread BY DEF Typed
<1>c. ctx.events \in Seq(Kinds \cup {"reply"}) /\ ctx.reserved \in Nat
  BY DEF Typed, Handle, CoreThread, RingOK
<1>1. ASSUME Blocked' /\ ~ctx'.need_wakeup => Blocked /\ ~ctx.need_wakeup,
             ctx'.destroying = ctx.destroying, ctx.destroying /\ Busy(ctx) => Busy(ctx'),
             ctx'.events = ctx.events,
             ctx.events # <<>> \/ ~ctx'.choked \/ ctx'.reserved > 0
               \/ (ctx'.choked = ctx.choked /\ ctx'.reserved = ctx.reserved),
             ctx.new_events => ctx'.new_events,
             ctx'.new_events => \/ ctx'.has_pending \/ InPass' \/ (Blocked' => ctx'.need_wakeup)
                                \/ (ctx.new_events /\ ~ctx.has_pending /\ ~InPass),
             \A i \in Listed : obs[i].hook => ctx'.new_events \/ (i \in Listed' /\ obs'[i].hook)
      PROVE  WakeOK'
  <2> SUFFICES ASSUME Blocked', ~ctx'.need_wakeup
               PROVE  /\ ctx.destroying => Busy(ctx')
                      /\ ~ctx.destroying =>
                           /\ ctx'.new_events => ctx'.has_pending \/ InPass'
                           /\ ctx.events = <<>> /\ ctx'.choked => ctx'.reserved > 0
                           /\ ctx.events # <<>> => AtHook' /\ (ctx'.new_events \/ \E i \in Listed' : obs'[i].hook)
    BY <1>1 DEF WakeOK
  <2>1. Blocked /\ ~ctx.need_wakeup BY <1>1
  <2>2. ctx.destroying => Busy(ctx') BY <1>1, <2>1 DEF WakeOK
  <2>3. ~ctx.destroying /\ ctx'.new_events => ctx'.has_pending \/ InPass' BY <1>1, <2>1 DEF WakeOK
  <2>4. ~ctx.destroying /\ ctx.events = <<>> /\ ctx'.choked => ctx'.reserved > 0 BY <1>1, <2>1 DEF WakeOK
  <2>5. AtHook => AtHook' BY <1>1 DEF AtHook
  <2>6. ~ctx.destroying /\ ctx.events # <<>> => AtHook' /\ (ctx'.new_events \/ \E i \in Listed' : obs'[i].hook)
    BY <1>1, <2>1, <2>5 DEF WakeOK
  <2> QED BY <2>2, <2>3, <2>4, <2>6
<1>2. ASSUME ~Blocked' \/ ctx'.need_wakeup PROVE WakeOK' BY <1>2 DEF WakeOK
<1>3. ASSUME Still
      PROVE  /\ ctx'.destroying = ctx.destroying /\ ctx'.async = ctx.async /\ ctx'.new_events = ctx.new_events
             /\ ctx'.has_pending = ctx.has_pending /\ (InPass => InPass')
             /\ \A i \in Listed : i \in Listed' /\ obs'[i].hook = obs[i].hook
  BY <1>3, Calms DEF Calm, SameProps, SameFlags, InPass, Listed
<1>4. CASE HookContinue \/ NextRound \/ Quit \/ TimerFires \/ Sleep \/ UNCHANGED vars
  <2>1. ctx' = ctx BY <1>4 DEF HookContinue, NextRound, Quit, TimerFires, Sleep, vars
  <2>2. Blocked' => Blocked
    BY <1>4 DEF HookContinue, NextRound, Quit, TimerFires, Sleep, vars, Blocked
  <2> QED BY <1>1, <1>3, <1>4, <2>1, <2>2 DEF Still
<1>5. CASE mpv_wakeup
  <2>1. ctx'.need_wakeup BY <1>5 DEF mpv_wakeup, wakeup_client, Typed, Handle
  <2> QED BY <1>2, <2>1
<1>6. CASE WaitEvent \/ ReturnNone \/ StopWaiting \/ TimedOut
  <2>1. ~Blocked' BY <1>b, <1>6 DEF WaitEvent, ReturnNone, StopWaiting, TimedOut, ClientThread, Blocked
  <2> QED BY <1>2, <2>1
<1>7. CASE ReturnOverflow BY <1>2, <1>7, Overflows DEF Blocked
<1>8. CASE ReturnEvent BY <1>2, <1>8, EventsTaken DEF Blocked
<1>9. CASE FreeHandle BY <1>2, <1>9, Frees DEF Blocked
<1>10. CASE mpv_wait_async_requests
  <2>1. CASE Busy(ctx)
    <3>1. ctx' = ctx /\ ctx.destroying BY <1>10 DEF mpv_wait_async_requests, LifeOK, Serving
    <3> QED BY <2>1, <3>1 DEF WakeOK
  <2>2. CASE ~Busy(ctx)
    <3>1. cl'.pc = "remove" BY <1>b, <1>10, <2>2 DEF mpv_wait_async_requests, ClientThread
    <3> QED BY <1>2, <3>1 DEF Blocked
  <2> QED BY <2>1, <2>2
<1>11. CASE Request
  <2>1. /\ ctx'.events = ctx.events /\ ctx'.reserved = ctx.reserved + 1 /\ ctx'.need_wakeup = ctx.need_wakeup
        /\ ~ctx.destroying /\ cl' = cl
    BY <1>11, Requests DEF Usable
  <2>2. ctx'.reserved > 0 BY <1>c, <2>1
  <2> QED BY <1>1, <1>3, <1>11, <2>1, <2>2 DEF Blocked, Still
<1>12. CASE Reply BY <1>2, <1>12, Replies
<1>13. ASSUME NEW e, Adds(e), cl' = cl, Still PROVE WakeOK'
  <2>1. CASE ctx' = ctx BY <1>1, <1>3, <1>13, <2>1 DEF Blocked
  <2>2. CASE ctx'.need_wakeup BY <1>2, <2>2
  <2>3. CASE ~Room(ctx) /\ ctx'.events = ctx.events /\ ctx'.need_wakeup = ctx.need_wakeup
    <3>1. ctx'.reserved = ctx.reserved BY <1>13 DEF Adds
    <3>2. ctx.events = <<>> => ctx'.reserved > 0
      <4>1. Len(<<>>) = 0 BY EmptySeq
      <4> QED BY <1>c, <2>3, <3>1, <4>1, ClientEventsAssumption DEF Room
    <3>3. Busy(ctx) => Busy(ctx') BY <1>3, <1>13, <3>1 DEF Busy
    <3> QED BY <1>1, <1>3, <1>13, <2>3, <3>1, <3>2, <3>3 DEF Blocked
  <2> QED BY <1>13, <2>1, <2>2, <2>3 DEF Adds
<1>14. CASE Send BY <1>13, <1>14, CoreSends DEF Still
<1>15. CASE ShutdownClients
  <2>1. cl' = cl /\ (ctx' = ctx \/ Adds("shutdown")) BY <1>15, CoreEnds
  <2> QED BY <1>1, <1>3, <1>13, <1>15, <2>1 DEF Still, Blocked
<1>16. CASE Pass
  <2>1. /\ SameRing(ctx, ctx') /\ SameLife(ctx, ctx') /\ SameProps(ctx, ctx') /\ UNCHANGED <<obs, cl>>
        /\ ctx'.async = ctx.async /\ ctx'.need_wakeup = ctx.need_wakeup /\ ctx'.new_events = ctx.new_events
        /\ core.pc \in {"work", "told"} /\ (core'.pc = "pass" \/ ctx'.has_pending = ctx.has_pending)
    BY <1>16, Starts
  <2>2. Busy(ctx) => Busy(ctx') BY <2>1 DEF Busy, SameRing
  <2> QED BY <1>1, <2>1, <2>2 DEF SameRing, SameLife, SameProps, Blocked, InPass, Listed
<1>17. ASSUME NEW i \in Ids, NEW v, Notes(i, v), cl' = cl, ~ctx.destroying PROVE WakeOK'
  <2>1. Listed' = Listed BY <1>17 DEF Notes, SameProps, Listed
  <2>2. obs[i].hook => ctx'.new_events BY <1>17 DEF Notes
  <2>3. ctx.new_events => ctx'.new_events BY <1>17 DEF Notes
  <2>4. \A j \in Listed : j # i => obs'[j] = obs[j] BY <1>a, <1>17 DEF Notes
  <2>5. /\ SameRing(ctx, ctx') /\ SameLife(ctx, ctx') /\ ctx'.need_wakeup = ctx.need_wakeup /\ core'.pc = "pass"
    BY <1>17 DEF Notes
  <2> QED BY <1>1, <1>17, <2>1, <2>2, <2>3, <2>4, <2>5 DEF SameRing, SameLife, Blocked, InPass
<1>18. ASSUME Ends, cl' = cl, \A j \in Ids : obs'[j].hook = obs[j].hook PROVE WakeOK'
  <2>1. CASE ctx'.need_wakeup BY <1>2, <2>1
  <2>2. CASE ~ctx'.need_wakeup
    <3>1. ~ctx.need_wakeup /\ ~ctx.destroying /\ ~ctx.new_events BY <1>18, <2>2 DEF Ends
    <3>2. Listed' = Listed BY <1>18 DEF Ends, SameProps, Listed
    <3> QED BY <1>1, <1>a, <1>18, <3>1, <3>2 DEF Ends, SameRing, SameLife, Blocked
  <2> QED BY <2>1, <2>2
<1>19. CASE PassProp
  <2>1. ~ctx.destroying /\ cl' = cl BY <1>19, PassSteps DEF LifeOK
  <2>2. CASE UNCHANGED obs /\ Ends BY <1>18, <2>1, <2>2
  <2>3. CASE UNCHANGED <<ctx, obs>> /\ core'.pc = "pass" BY <1>1, <2>1, <2>3 DEF Blocked, InPass, Listed
  <2>4. CASE Prop \in Ids /\ Notes(Prop, "none") BY <1>17, <2>1, <2>4
  <2>5. CASE Opens(Prop)
    <3>1. \A j \in Ids : obs'[j].hook = obs[j].hook BY <2>5 DEF Opens
    <3>2. Listed' = Listed BY <2>5 DEF Opens, SameProps, Listed
    <3>3. /\ SameRing(ctx, ctx') /\ SameLife(ctx, ctx') /\ ctx'.need_wakeup = ctx.need_wakeup /\ core'.pc = "read"
          /\ ctx'.new_events = ctx.new_events
      BY <2>5 DEF Opens, SameFlags
    <3> QED BY <1>1, <1>a, <2>1, <3>1, <3>2, <3>3 DEF SameRing, SameLife, Blocked, InPass
  <2> QED BY <1>19, <2>2, <2>3, <2>4, <2>5, PassSteps
<1>20. CASE Read BY <1>1, <1>20, Reads DEF Blocked, InPass, Listed
<1>21. CASE Relock
  <2>1. core.id \in Ids /\ cl' = cl BY <1>21, Relocks
  <2>2. CASE SameList /\ Notes(core.id, core.val) BY <1>17, <2>1, <2>2 DEF SameList
  <2>3. CASE ~SameList
    <3>1. Ends /\ \A j \in Ids : obs'[j].hook = obs[j].hook BY <1>21, <2>3, Relocks
    <3> QED BY <1>18, <2>1, <3>1
  <2> QED BY <1>21, <2>2, <2>3, Relocks
<1>22. CASE ReturnProperty
  <2>1. PICK k, i : k = First(Found) /\ i = ctx.props[k] OBVIOUS
  <2>2. cl' = [cl EXCEPT !.pc = "idle"] BY <1>22, <2>1, Returns
  <2> QED BY <1>2, <1>b, <2>2 DEF ClientThread, Blocked
<1>23. CASE Block
  <2>1. /\ obs' = Flagged /\ cl.pc = "scan" /\ ~Overflow /\ ~Deliverable /\ Found = {}
        /\ SameRing(ctx, ctx') /\ SameLife(ctx, ctx') /\ SameProps(ctx, ctx')
        /\ ctx'.new_events = (ctx.new_events /\ ~Rewinds /\ ctx.props # <<>>)
    BY <1>23, Blocks
  <2>2. ~ctx.destroying BY <2>1 DEF LifeOK
  <2>3. ~ctx'.new_events
    <3>1. ASSUME ctx.new_events, ~Rewinds, ctx.props # <<>> PROVE FALSE
      <4>1. After(ctx.cur_index) # {} BY <3>1 DEF Rewinds
      <4> QED BY <2>1, <3>1, <4>1 DEF Found
    <3> QED BY <2>1, <3>1
  <2>4. ASSUME ctx.events # <<>> PROVE AtHook' /\ \E i \in Listed' : obs'[i].hook
    <3>1. HeldBack BY <2>1, <2>4 DEF Deliverable
    <3> QED BY <2>1, <3>1 DEF HeldBack, AtHook, SameRing, SameProps, Listed
  <2>5. ~(ctx.events = <<>> /\ ctx.choked) BY <2>1 DEF Overflow
  <2> QED BY <2>1, <2>2, <2>3, <2>4, <2>5 DEF WakeOK, SameRing, SameLife
<1>24. CASE mpv_destroy BY <1>2, <1>24, Destroys DEF Blocked
<1>25. ASSUME NEW p \in Names, NEW v \in Values, Change(p, v) \/ Resize(p, v) PROVE WakeOK'
  <2>1. /\ SameRing(ctx, ctx') /\ SameLife(ctx, ctx') /\ SameProps(ctx, ctx') /\ cl' = cl
        /\ ctx'.async = ctx.async /\ ctx'.need_wakeup = ctx.need_wakeup /\ ctx'.new_events = ctx.new_events
        /\ core'.pc = core.pc /\ (ctx.has_pending => ctx'.has_pending)
        /\ \A i \in Ids : obs'[i].hook = obs[i].hook
    BY <1>25, Changes
  <2>2. Busy(ctx) => Busy(ctx') BY <2>1 DEF Busy, SameRing
  <2>3. Listed' = Listed BY <2>1 DEF SameProps, Listed
  <2> QED BY <1>1, <1>a, <2>1, <2>2, <2>3 DEF SameRing, SameLife, Blocked, InPass
<1>26. ASSUME NEW p \in Names, mpv_observe_property(p) PROVE WakeOK'
  <2>1. /\ SameRing(ctx, ctx') /\ SameLife(ctx, ctx') /\ cl' = cl
        /\ ctx'.async = ctx.async /\ ctx'.need_wakeup = ctx.need_wakeup /\ ctx'.new_events /\ ctx'.has_pending
    BY <1>26, Observes
  <2>2. Busy(ctx) => Busy(ctx') BY <2>1 DEF Busy, SameRing
  <2> QED BY <1>1, <2>1, <2>2 DEF SameRing, SameLife, Blocked
<1>27. ASSUME NEW i \in Ids, mpv_unobserve_property(i) PROVE WakeOK'
  <2>1. /\ SameRing(ctx, ctx') /\ SameLife(ctx, ctx') /\ UNCHANGED <<core, cl>> /\ ~ctx.destroying
        /\ ctx'.need_wakeup = ctx.need_wakeup /\ SameFlags(ctx, ctx')
    BY <1>27, Unobserves DEF Usable
  <2> SUFFICES ASSUME Blocked, ~ctx.need_wakeup PROVE WakeOK'
    BY <1>2, <2>1 DEF Blocked
  <2>2. CASE UNCHANGED vars BY <1>4, <2>2
  <2>3. CASE ~Withdraws
    <3>1. ctx.events = <<>> BY <1>27, <2>1, <2>3 DEF WakeOK, Withdraws
    <3>2. /\ ctx.new_events => ctx.has_pending \/ InPass
          /\ ctx.events = <<>> /\ ctx.choked => ctx.reserved > 0
      BY <2>1 DEF WakeOK
    <3> QED BY <2>1, <3>1, <3>2 DEF WakeOK, SameRing, SameLife, SameFlags, InPass
  <2> QED BY <2>2, <2>3
<1> QED
  BY <1>4, <1>5, <1>6, <1>7, <1>8, <1>9, <1>10, <1>11, <1>12, <1>14, <1>15, <1>16, <1>19, <1>20, <1>21,
     <1>22, <1>23, <1>24, <1>25, <1>26, <1>27, Steps DEF Still

-----------------------------------------------------------------------------
(* The inductive invariant: what holds in all behaviours.                  *)
Inv ==
  /\ Typed /\ RingOK /\ AsyncOK /\ LifeOK /\ ListOK /\ PassOK /\ TimesOK /\ RefsOK
  /\ HookOK /\ FreshOK /\ SeenOK /\ WorkOK /\ AwakeOK

LEMMA Initial == Init => Inv
<1> SUFFICES ASSUME Init PROVE Inv OBVIOUS
<1>1. <<>> \in Seq(Kinds \cup {"reply"}) /\ <<>> \in Seq(Ids) /\ Len(<<>>) = 0 BY EmptySeq
<1>2. PICK c : c = [events |-> <<>>, reserved |-> 0, async |-> 0, choked |-> FALSE,
            mask |-> Kinds, hook_pending |-> FALSE, destroying |-> FALSE, alive |-> TRUE,
            queued_wakeup |-> FALSE, need_wakeup |-> FALSE,
            props |-> <<>>, props_ts |-> 0, has_pending |-> FALSE,
            new_events |-> FALSE, cur_index |-> 0, cur_property |-> NoId]
  OBVIOUS
<1>3. ctx = c BY <1>2 DEF Init
<1>4. ctx \in Handle BY <1>1, <1>2, <1>3 DEF Handle
<1>5. /\ ctx.events = <<>> /\ ctx.reserved = 0 /\ ctx.async = 0 /\ ~ctx.destroying /\ ctx.alive
      /\ ctx.props = <<>> /\ ctx.props_ts = 0 /\ ctx.cur_index = 0 /\ ctx.cur_property = NoId
      /\ ~ctx.hook_pending /\ ~ctx.has_pending
  BY <1>2, <1>3
<1>6. obs \in [Ids -> Observed]
      /\ \A i \in Ids : obs[i].name = "none" /\ obs[i].ts = 0 /\ obs[i].value_ts = 0 /\ obs[i].ret_ts = 0
                        /\ obs[i].refs = 0 /\ ~obs[i].hook
  BY DEF Init, Observed
<1>7. core \in CoreThread /\ core.pc = "work" /\ core.n = 1 /\ core.requests = 0 /\ ~core.hook
  BY DEF Init, CoreThread, CorePC
<1>8. cl \in ClientThread /\ cl.pc = "idle" /\ cl.back = "scan" BY DEF Init, ClientThread, ClientPC
<1>9. val \in [Names -> Values] /\ ops \in [does : Uses, n : Nat] /\ due = [i \in Ids |-> 0] BY DEF Init
<1>10. Len(ctx.props) = 0 /\ Len(ctx.events) = 0 BY <1>1, <1>5
<1>11. Typed BY <1>4, <1>6, <1>7, <1>8, <1>9, <1>10 DEF Typed, Reading
<1>12. RingOK /\ AsyncOK /\ LifeOK
  BY <1>5, <1>7, <1>8, <1>10, ClientEventsAssumption DEF RingOK, AsyncOK, LifeOK, Serving, Reading, One
<1>13. ListOK /\ PassOK
  BY <1>5, <1>6, <1>7, <1>10, ClientEventsAssumption DEF ListOK, PassOK, Reading, Named
<1>14. TimesOK BY <1>6, <1>9 DEF TimesOK
<1>15. RefsOK
  <2>1. Listed = {} BY <1>10 DEF Listed
  <2> QED BY <1>5, <1>6, <1>7, <2>1, ClientEventsAssumption DEF RefsOK, Reading, One
<1>16. HookOK
  <2>1. ~AtHook BY <1>5 DEF AtHook
  <2> QED BY <1>5, <1>7, <1>10, <2>1 DEF HookOK
<1>17. Listed = {} BY <1>10 DEF Listed
<1>18. FreshOK BY <1>6, <1>7, <1>17 DEF FreshOK, Reading
<1>19. SeenOK /\ WorkOK BY <1>10 DEF SeenOK, WorkOK
<1>20. AwakeOK BY <1>5 DEF AwakeOK
<1> QED BY <1>11, <1>12, <1>13, <1>14, <1>15, <1>16, <1>18, <1>19, <1>20 DEF Inv

LEMMA Invariant == Spec => []Inv
<1>1. ASSUME Inv, [Next]_vars PROVE Inv'
  BY <1>1, TypedStep, RingStep, AsyncStep, LifeStep, ListStep, PassStep, TimesStep, RefsStep,
     HookStep, FreshStep, SeenStep, WorkStep, AwakeStep DEF Inv
<1> QED BY <1>1, Initial, PTL DEF Spec

(* The state keeps its shape: a reply to an accepted request always has an *)
(* entry of the ring buffer (the assertions in send_reply()), and no       *)
(* timestamp of an observed property is ahead of its change_ts.            *)
THEOREM TypesKept == Spec => []TypeOK
<1>1. ASSUME Inv PROVE TypeOK
  <2>1. ctx.events \in UNION {[1..n -> Kinds \cup {"reply"}] : n \in 0..MaxEvents}
        /\ Len(ctx.events) + ctx.reserved <= MaxEvents /\ ctx.reserved = core.requests
    <3>1. ctx.events \in Seq(Kinds \cup {"reply"}) /\ ctx.reserved \in Int /\ core.requests \in Nat
      BY <1>1 DEF Inv, Typed, Handle, CoreThread
    <3>2. PICK n \in Nat : n = Len(ctx.events) BY <3>1, LenProperties
    <3>3. n + ctx.reserved <= MaxEvents /\ ctx.reserved = core.requests BY <1>1, <3>2 DEF Inv, RingOK
    <3>4. n \in 0..MaxEvents BY <3>1, <3>3, ClientEventsAssumption
    <3>5. ctx.events \in [1..n -> Kinds \cup {"reply"}] BY <3>1, <3>2, LenProperties
    <3> QED BY <3>2, <3>3, <3>4, <3>5
  <2>2. ctx.async \in 0..1 BY <1>1 DEF Inv, AsyncOK, One
  <2>3. ctx.mask \subseteq Kinds /\ ctx.cur_property \in Ids \cup {NoId} /\ val \in [Names -> Values]
        /\ core.pc \in CorePC /\ cl.pc \in ClientPC
    BY <1>1 DEF Inv, Typed, Handle, CoreThread, ClientThread
  <2>4. Listed \subseteq Ids BY <1>1 DEF Inv, Typed, Named, Listed
  <2>5. ctx.destroying \/ ctx.cur_index <= Len(ctx.props) BY <1>1 DEF Inv, ListOK
  <2>6. \A i \in Ids : obs[i].value_ts <= obs[i].ts /\ obs[i].ret_ts <= obs[i].ts
    <3> TAKE i \in Ids
    <3>1. obs[i] \in Observed BY <1>1 DEF Inv, Typed
    <3>2. obs[i].ts \in Nat /\ obs[i].value_ts \in Nat /\ obs[i].ret_ts \in Nat BY <3>1 DEF Observed
    <3> QED BY <1>1, <3>2 DEF Inv, TimesOK
  <2>7. core.n \in 1..MaxObs + 1 BY <1>1 DEF Inv, PassOK
  <2> QED BY <2>1, <2>2, <2>3, <2>4, <2>5, <2>6, <2>7 DEF TypeOK, CorePC, ClientPC
<1> QED BY <1>1, Invariant, PTL

(* An observed property has exactly the references it needs (prop_unref(), *)
(* mp_destroy_client()), and nobody works with a handle that is freed.     *)
THEOREM Referenced == Spec => []MemorySafe
<1>1. ASSUME Inv PROVE MemorySafe
  <2>1. ASSUME ~ctx.alive PROVE core.pc \notin {"pass", "read", "got"} /\ core.requests = 0
    <3>1. cl.pc = "gone" /\ ctx.destroying /\ core.pc # "pass" BY <1>1, <2>1 DEF Inv, LifeOK, Serving
    <3>2. ctx.reserved = 0 /\ ctx.async = 0 BY <1>1, <3>1 DEF Inv, LifeOK
    <3> QED BY <1>1, <3>1, <3>2 DEF Inv, RingOK, AsyncOK, Reading, One
  <2> QED BY <1>1, <2>1 DEF Inv, RefsOK, MemorySafe, Reading
<1> QED BY <1>1, Invariant, PTL

(* mpv_wait_event() returns a hook when the client has been told all the   *)
(* changes that precede it: what was not returned when the hook was first  *)
(* seen holds it back, and what was sent before the hook was seen by then. *)
THEOREM HooksWait == Spec => HookAfterChanges
<1>1. ASSUME Inv, [Next]_vars, AtHook, ReturnEvent PROVE \A i \in Listed : obs[i].ret_ts >= due[i]
  <2> TAKE i \in Listed
  <2>1. PICK j \in Ids : j = i BY <1>1 DEF Inv, Typed, Named, Listed
  <2>2. ~Flagged[j].hook BY <1>1, <2>1, EventsTaken DEF Inv, HeldBack
  <2>3. Flagged[j].hook = (obs[j].hook \/ (AtHook /\ ~ctx.hook_pending /\ j \in Listed /\ obs[j].ret_ts # obs[j].ts))
    BY <1>1, Flags DEF Inv
  <2>4. CASE ctx.hook_pending BY <1>1, <2>1, <2>2, <2>3, <2>4 DEF Inv, HookOK
  <2>5. CASE ~ctx.hook_pending
    <3>1. obs[j].ret_ts = obs[j].ts BY <1>1, <2>1, <2>2, <2>3, <2>5
    <3>2. obs[j].ts \in Nat /\ due[j] \in Nat BY <1>1 DEF Inv, Typed, Observed
    <3>3. due[j] <= obs[j].ts BY <1>1 DEF Inv, TimesOK
    <3> QED BY <2>1, <3>1, <3>2, <3>3
  <2> QED BY <2>4, <2>5
<1>2. ASSUME Inv, [Next]_vars PROVE [AtHook /\ ReturnEvent => \A i \in Listed : obs[i].ret_ts >= due[i]]_vars
  BY <1>1, <1>2
<1> QED BY <1>2, Invariant, PTL DEF Spec, HookAfterChanges

LEMMA Current == Spec /\ [][~SlipsIn]_vars => []ValuesOK
<1>1. ASSUME Init PROVE ValuesOK
  <2>1. Listed = {}
    <3>1. Len(<<>>) = 0 BY EmptySeq
    <3> QED BY <1>1, <3>1 DEF Init, Listed
  <2> QED BY <1>1, <2>1 DEF Init, ValuesOK
<1>2. ASSUME Inv, ValuesOK, [Next]_vars, [~SlipsIn]_vars PROVE ValuesOK' BY <1>2, ValuesStep DEF Inv
<1> QED BY <1>1, <1>2, Invariant, PTL DEF Spec

LEMMA Waits == Spec /\ [][~Withdraws]_vars => []WakeOK
<1>1. Init => WakeOK BY DEF Init, WakeOK, Blocked
<1>2. ASSUME Inv, WakeOK, [Next]_vars, [~Withdraws]_vars PROVE WakeOK' BY <1>2, WakeStep DEF Inv
<1> QED BY <1>1, <1>2, Invariant, PTL DEF Spec

(* A value that gen_property_change_event() takes for current is current,  *)
(* but for one case: the VO thread changes the property after the core has *)
(* read it, before it has locked the handle again.                         *)
THEOREM OnlyThenStale == Spec /\ [][~SlipsIn]_vars => []NotStale
<1>1. ASSUME Inv, ValuesOK PROVE NotStale
  <2> SUFFICES ASSUME NEW i \in Listed, HasEvent(i), obs[i].name \notin Plain
               PROVE  obs[i].value = val[obs[i].name]
    BY DEF NotStale
  <2> QED BY <1>1 DEF HasEvent, ValuesOK
<1> QED BY <1>1, Invariant, Current, PTL

(* No wakeup is lost between the core and mpv_wait_event(): when all sleep *)
(* the client has received every event and knows the present value of what *)
(* it observes, and no mpv_destroy() sleeps.  Two steps are left out, and  *)
(* after either the code may lose something: the VO thread changes what    *)
(* the core has just read, or another thread unobserves a property while   *)
(* the client waits for a hook.                                            *)
THEOREM AllReceived == Spec /\ [][~SlipsIn]_vars /\ [][~Withdraws]_vars => []NothingMissed
<1>1. ASSUME Inv, ValuesOK, WakeOK, Quiet PROVE cl.back = "scan" /\ ctx.events = <<>> /\ ~ctx.choked /\ \A i \in Listed : Told(i)
  <2>1. ctx.reserved = 0 /\ ctx.async = 0 /\ Blocked /\ ~ctx.need_wakeup
    BY <1>1 DEF Inv, RingOK, AsyncOK, Reading, One, Quiet, Blocked
  <2>2. ~Busy(ctx) BY <2>1 DEF Busy
  <2>3. ~ctx.destroying BY <1>1, <2>1, <2>2 DEF WakeOK
  <2>4. cl.back = "scan" BY <1>1, <2>3 DEF Inv, LifeOK, Typed, ClientThread
  <2>5. ~ctx.has_pending
    <3>1. Usable BY <1>1, <2>3 DEF Inv, LifeOK, Quiet, Usable
    <3> QED BY <1>1, <3>1 DEF Inv, AwakeOK, Quiet
  <2>6. ~ctx.new_events BY <1>1, <2>1, <2>3, <2>5 DEF WakeOK, InPass, Quiet
  <2>7. ASSUME NEW i \in Listed
        PROVE  i \in Ids /\ obs[i].value_ts = obs[i].ts /\ obs[i].ret_ts = obs[i].ts /\ obs[i].ts # 0
    <3>1. PICK k \in 1..Len(ctx.props) : i = ctx.props[k] BY DEF Listed
    <3>2. obs[i].value_ts = obs[i].ts BY <1>1, <2>5, <3>1 DEF Inv, WorkOK, Stale, Reading, Quiet
    <3>3. ~HasEvent(i) BY <1>1, <2>1, <2>6, <3>1 DEF Inv, SeenOK
    <3>4. i \in Ids /\ obs[i].ts # 0 BY <1>1, <3>1 DEF Inv, Typed, Named, FreshOK
    <3> QED BY <3>2, <3>3, <3>4 DEF HasEvent
  <2>8. ctx.events = <<>>
    <3>1. \A i \in Listed : ~obs[i].hook BY <1>1, <2>7 DEF Inv, FreshOK
    <3> QED BY <1>1, <2>1, <2>3, <2>6, <3>1 DEF WakeOK
  <2>9. ~ctx.choked
    <3>1. ~(ctx.reserved > 0) BY <2>1
    <3> QED BY <1>1, <2>1, <2>3, <2>8, <3>1 DEF WakeOK
  <2>10. ASSUME NEW i \in Listed PROVE Told(i)
    <3>1. CASE obs[i].name \in Plain BY <2>7, <3>1 DEF Told
    <3>2. CASE obs[i].name \notin Plain
      <4>1. obs[i].ret = obs[i].value BY <1>1, <2>7, <3>2 DEF ValuesOK
      <4>2. obs[i].value = val[obs[i].name] BY <1>1, <2>7, <3>2 DEF ValuesOK
      <4> QED BY <2>7, <3>2, <4>1, <4>2 DEF Told
    <3> QED BY <3>1, <3>2
  <2> QED BY <2>4, <2>8, <2>9, <2>10
<1>2. ASSUME Inv, ValuesOK, WakeOK PROVE NothingMissed BY <1>1, <1>2 DEF NothingMissed
<1> QED BY <1>2, Invariant, Current, Waits, PTL
=============================================================================
