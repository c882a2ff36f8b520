------------------------- MODULE AudioBufferProofs --------------------------
(***************************************************************************)
(* What holds of AudioBuffer for any drivers, frame and buffer sizes and   *)
(* any number of frames and calls: pausing keeps the audio in step, the    *)
(* core learns of every end of playback, and the device does what was last *)
(* asked for.                                                              *)
(***************************************************************************)
EXTENDS AudioBuffer, FiniteSetTheorems, SequenceTheorems, TLAPS

(* The steps of a call; the last ones call the driver ("join" ends it).    *)
CoreSteps == Calls \cup {"wakeup", "drain_delay", "drain_wait", "drain_check", "drained"}
DriverSteps == {"driver_start", "driver_reset", "driver_pause", "driver_unpause", "join"}

(* Only the first step that is left of a call can be one of the driver.    *)
TodoOK(todo) ==
  /\ todo \in Seq(CoreSteps \cup DriverSteps)
  /\ todo # <<>> => Tail(todo) \in Seq(CoreSteps)
PendingIn(todo) == IF todo # <<>> /\ Head(todo) \in DriverSteps THEN Head(todo) ELSE "none"
Pending == PendingIn(core.todo)

CoreOK ==
  /\ driver \in Drivers
  /\ core \in [todo : Seq(CoreSteps \cup DriverSteps), told : BOOLEAN, seen : BOOLEAN]
  /\ TodoOK(core.todo)

(* Silence is owed only while nothing is left in the device.               *)
Owes ==
  /\ Untimed => ~p.recover_pause
  /\ p.recover_pause => dev.buf = 0
  /\ owed = IF p.recover_pause THEN p.prepause ELSE 0

(* A push device that has stopped, or is not being fed, is empty.          *)
PushAgrees ==
  Push =>
    /\ Pending \in {"none", "join"} /\ ~dev.eof
    /\ ~dev.started \/ Untimed => dev.buf = 0
    /\ ~StreamSilence => /\ ~p.playing \/ ~p.streaming => dev.buf = 0
                         /\ p.paused => dev.paused \/ dev.buf = 0

(* "streaming" says what the device of a pull output does once the call of *)
(* the driver that is still to come has been made.                         *)
PullAgrees ==
  ~Push /\ ~StopsAtEof =>
    /\ ao.pc = "done" /\ ~dev.eof
    /\ p.playing /\ ~p.paused => p.streaming
    /\ p.paused /\ ~StreamSilence /\ (HasReset \/ HasSetPause) => ~p.streaming
    /\ Pending = "none" => /\ ~p.streaming => ~Running
                           /\ ~p.terminate => /\ p.streaming => Running
                                              /\ p.hw_paused => dev.started
    /\ Pending = "driver_start" => p.streaming
    /\ Pending = "driver_unpause" => p.streaming /\ (dev.started \/ p.terminate)
    /\ Pending = "driver_pause" => ~p.streaming /\ (dev.started \/ p.terminate)
    /\ Pending = "driver_reset" => ~p.streaming /\ ~p.hw_paused
    /\ Pending = "join" => p.terminate

IInv == TypeOK /\ CoreOK /\ Owes /\ EndTold /\ PushAgrees /\ PullAgrees
-----------------------------------------------------------------------------
(* A set of numbers has a least one.                                       *)
LEMMA Least ==
  ASSUME NEW T, T \subseteq Nat, T # {} PROVE \E x \in T : \A y \in T : x <= y
<1>1. \E x \in T : \A y \in T : ~(<<y, x>> \in OpToRel(<, Nat))
  BY NatLessThanWellFounded, WFMin
<1>2. \A x, y \in Nat : x < y => <<x, y>> \in OpToRel(<, Nat)
  BY DEF OpToRel
<1>3. PICK x \in T : \A y \in T : ~(<<y, x>> \in OpToRel(<, Nat)) BY <1>1
<1>4. \A y \in T : ~(y < x) BY <1>2, <1>3
<1>5. \A y \in T : x <= y BY <1>4
<1> QED BY <1>5

AudioIn(s, n) == {i \in 1 .. n : s[i] = "audio"}

(* One more frame of the queue is at most one more frame of audio.         *)
LEMMA OneMore ==
  ASSUME NEW s, NEW n \in Nat
  PROVE  /\ IsFiniteSet(AudioIn(s, n)) /\ Cardinality(AudioIn(s, n)) \in Nat
         /\ Cardinality(AudioIn(s, 0)) = 0
         /\ Cardinality(AudioIn(s, n + 1)) \in {Cardinality(AudioIn(s, n)), Cardinality(AudioIn(s, n)) + 1}
<1>1. IsFiniteSet(AudioIn(s, n))
  <2>1. AudioIn(s, n) \subseteq 1 .. n BY DEF AudioIn
  <2> QED BY <2>1, FS_Interval, FS_Subset
<1>2. Cardinality(AudioIn(s, n)) \in Nat BY <1>1, FS_CardinalityType
<1>3. Cardinality(AudioIn(s, 0)) = 0
  <2>1. AudioIn(s, 0) = {} BY DEF AudioIn
  <2> QED BY <2>1, FS_EmptySet
<1>4. Cardinality(AudioIn(s, n + 1)) \in {Cardinality(AudioIn(s, n)), Cardinality(AudioIn(s, n)) + 1}
  <2>1. CASE s[n + 1] = "audio"
    <3>1. AudioIn(s, n + 1) = AudioIn(s, n) \cup {n + 1} BY <2>1 DEF AudioIn
    <3>2. n + 1 \notin AudioIn(s, n) BY DEF AudioIn
    <3> QED BY <3>1, <3>2, <1>1, FS_AddElement
  <2>2. CASE s[n + 1] # "audio"
    <3>1. AudioIn(s, n + 1) = AudioIn(s, n) BY <2>2 DEF AudioIn
    <3> QED BY <3>1
  <2> QED BY <2>1, <2>2
<1> QED BY <1>1, <1>2, <1>3, <1>4

(* The least number of frames with "goal" samples has less than a frame    *)
(* more than that; if there is no such number, all are too few.            *)
LEMMA LeastEnough ==
  ASSUME NEW f \in [Nat -> Nat], NEW n \in Nat, NEW size \in Nat \ {0}, NEW goal \in Nat,
         f[0] < size, \A k \in Nat : f[k + 1] <= f[k] + size
  PROVE  LET enough == {k \in 0 .. n : f[k] >= goal}
             used == IF enough = {} THEN n ELSE CHOOSE k \in enough : \A j \in enough : k <= j
             pos == Smaller(goal, f[used]) IN
         used \in 0 .. n /\ pos \in 0 .. goal /\ f[used] - pos \in 0 .. size - 1
<1> DEFINE enough == {k \in 0 .. n : f[k] >= goal}
           used == IF enough = {} THEN n ELSE CHOOSE k \in enough : \A j \in enough : k <= j
           pos == Smaller(goal, f[used])
<1> SUFFICES used \in 0 .. n /\ pos \in 0 .. goal /\ f[used] - pos \in 0 .. size - 1
  OBVIOUS
<1>1. CASE enough = {}
  <2>1. used = n BY <1>1
  <2>2. f[n] \in Nat /\ n \in 0 .. n OBVIOUS
  <2>3. ~(f[n] >= goal) BY <1>1, <2>2
  <2> HIDE DEF used
  <2>4. pos = f[n]
    <3>1. pos = Smaller(goal, f[n]) BY <2>1
    <3> QED BY <3>1, <2>2, <2>3 DEF Smaller
  <2> HIDE DEF pos
  <2> QED BY <2>1, <2>2, <2>3, <2>4
<1>2. CASE enough # {}
  <2>1. enough \subseteq Nat /\ enough \subseteq 0 .. n OBVIOUS
  <2>2. \E x \in enough : \A y \in enough : x <= y
    <3> HIDE DEF enough
    <3> QED BY <2>1, <1>2, Least
  <2>3. used \in enough /\ \A j \in enough : used <= j
    <3> HIDE DEF enough
    <3> QED BY <2>2, <1>2
  <2> HIDE DEF used
  <2>4. used \in 0 .. n /\ f[used] >= goal /\ f[used] \in Nat BY <2>3
  <2>5. pos = goal
    <3>1. ~(goal < f[used]) => goal = f[used]
      <4>1. \A a, b \in Nat : b >= a /\ ~(a < b) => a = b OBVIOUS
      <4> QED BY <4>1, <2>4
    <3>2. pos = IF goal < f[used] THEN goal ELSE f[used] BY DEF Smaller
    <3> HIDE DEF pos, enough
    <3> QED BY <3>1, <3>2
  <2>6. f[used] < goal + size
    <3>1. CASE used = 0 BY <3>1
    <3>2. CASE used # 0
      <4>1. used - 1 \in 0 .. n /\ used - 1 + 1 = used /\ used - 1 \in Nat BY <2>4, <3>2
      <4>2. used - 1 \notin enough
        <5>1. ~(used <= used - 1) BY <2>4
        <5> HIDE DEF enough
        <5> QED BY <2>3, <5>1
      <4>3. f[used - 1] < goal /\ f[used - 1] \in Nat BY <4>1, <4>2
      <4>4. f[used] <= f[used - 1] + size
        <5>1. f[used - 1 + 1] <= f[used - 1] + size BY <4>1
        <5> QED BY <5>1, <4>1
      <4> QED BY <4>3, <4>4, <2>4
    <3> QED BY <3>1, <3>2
  <2> HIDE DEF pos, enough
  <2> QED BY <2>4, <2>5, <2>6
<1> QED BY <1>1, <1>2

(* read_buffer() returns no more than it was asked for, and what it keeps  *)
(* of the last frame is less than a frame.                                 *)
LEMMA Reads ==
  ASSUME AudioBufferAssumption, TypeOK, NEW samples \in Nat
  PROVE  LET r == read_buffer(samples) IN
         /\ r.pos \in 0 .. samples /\ r.pending \in 0 .. FrameSize - 1
         /\ r.queue \in Seq({"audio", "eof"}) /\ r.empty \in BOOLEAN /\ r.eof \in BOOLEAN
         /\ r.pos > 0 => p.playing /\ ~p.paused
         /\ r.eof => p.playing /\ ~p.paused
<1> DEFINE Audio(k) == p.pending + FrameSize * Cardinality({i \in 1 .. k : queue[i] = "audio"})
           enough == {k \in 0 .. Len(queue) : Audio(k) >= samples}
           used == IF enough = {} THEN Len(queue)
                   ELSE CHOOSE k \in enough : \A j \in enough : k <= j
           pos == Smaller(samples, Audio(used))
           full == [pos |-> pos, pending |-> Audio(used) - pos,
                    queue |-> SubSeq(queue, used + 1, Len(queue)), empty |-> enough = {},
                    eof |-> enough = {} /\ queue # <<>> /\ queue[Len(queue)] = "eof"]
           none == [pos |-> 0, pending |-> p.pending, queue |-> queue, empty |-> waiting, eof |-> FALSE]
<1>1. read_buffer(samples) = IF p.playing /\ ~p.paused THEN full ELSE none BY DEF read_buffer
<1>2. /\ p.pending \in 0 .. FrameSize - 1 /\ FrameSize \in Nat \ {0} /\ queue \in Seq({"audio", "eof"})
      /\ waiting \in BOOLEAN /\ Len(queue) \in Nat
  BY DEF TypeOK, AudioBufferAssumption
<1> DEFINE f == [k \in Nat |-> Audio(k)]
<1>3. f \in [Nat -> Nat] /\ f[0] < FrameSize /\ \A k \in Nat : f[k + 1] <= f[k] + FrameSize
  <2> DEFINE C == [k \in Nat |-> Cardinality(AudioIn(queue, k))]
  <2>1. C \in [Nat -> Nat] /\ C[0] = 0 /\ \A k \in Nat : C[k + 1] \in {C[k], C[k] + 1}
    BY OneMore
  <2>2. f = [k \in Nat |-> p.pending + FrameSize * C[k]] BY DEF AudioIn
  <2> HIDE DEF f, C
  <2>3. \A k \in Nat : FrameSize * C[k] \in Nat /\ FrameSize * (C[k] + 1) = FrameSize * C[k] + FrameSize
    <3> TAKE k \in Nat
    <3>1. C[k] \in Nat BY <2>1
    <3>2. \A a \in Nat, b \in Nat : a * b \in Nat /\ a * (b + 1) = a * b + a OBVIOUS
    <3> QED BY <3>1, <3>2, <1>2
  <2>4. \A k \in Nat : f[k] = p.pending + FrameSize * C[k] /\ f[k] \in Nat BY <2>2, <2>3, <1>2
  <2>5. f \in [Nat -> Nat] BY <2>2, <2>4
  <2>6. f[0] < FrameSize
    <3>1. f[0] = p.pending + FrameSize * 0 BY <2>1, <2>4
    <3> QED BY <3>1, <1>2
  <2>7. ASSUME NEW k \in Nat PROVE f[k + 1] <= f[k] + FrameSize
    <3>1. C[k + 1] = C[k] \/ C[k + 1] = C[k] + 1 BY <2>1
    <3>2. k + 1 \in Nat OBVIOUS
    <3>3. f[k + 1] = p.pending + FrameSize * C[k + 1] BY <2>4, <3>2
    <3>4. FrameSize * C[k] \in Nat /\ FrameSize * (C[k] + 1) = FrameSize * C[k] + FrameSize BY <2>3
    <3>5. f[k] = p.pending + FrameSize * C[k] BY <2>4
    <3>6. CASE C[k + 1] = C[k] BY <3>6, <3>3, <3>4, <3>5, <1>2
    <3>7. CASE C[k + 1] = C[k] + 1
      <4>1. f[k + 1] = p.pending + (FrameSize * C[k] + FrameSize) BY <3>7, <3>3, <3>4
      <4> QED BY <4>1, <3>4, <3>5, <1>2
    <3> QED BY <3>1, <3>6, <3>7
  <2> QED BY <2>5, <2>6, <2>7
<1>4. enough = {k \in 0 .. Len(queue) : f[k] >= samples} BY <1>2
<1>5. used \in 0 .. Len(queue) /\ pos \in 0 .. samples /\ Audio(used) - pos \in 0 .. FrameSize - 1
  <2> DEFINE some == {k \in 0 .. Len(queue) : f[k] >= samples}
             last == IF some = {} THEN Len(queue) ELSE CHOOSE k \in some : \A j \in some : k <= j
  <2>1. last \in 0 .. Len(queue) /\ Smaller(samples, f[last]) \in 0 .. samples
        /\ f[last] - Smaller(samples, f[last]) \in 0 .. FrameSize - 1
    <3> HIDE DEF f
    <3> QED BY <1>2, <1>3, LeastEnough, ZenonT(60)
  <2>2. used = last
    <3> HIDE DEF enough, some
    <3>1. enough = some BY <1>4 DEF some
    <3> QED BY <3>1
  <2>3. last \in Nat
    <3> HIDE DEF last
    <3> QED BY <2>1, <1>2
  <2> HIDE DEF last
  <2>4. f[last] = Audio(last) BY <2>3
  <2> HIDE DEF f, used, Audio
  <2> QED BY <2>1, <2>2, <2>4
<1>6. SubSeq(queue, used + 1, Len(queue)) \in Seq({"audio", "eof"})
  <2> HIDE DEF used
  <2> QED BY <1>2, <1>5, SubSeqProperties
<1> HIDE DEF f, Audio
<1> HIDE DEF used, enough, pos
<1>7. full.pos \in 0 .. samples /\ full.pending \in 0 .. FrameSize - 1 /\ full.empty \in BOOLEAN
      /\ full.eof \in BOOLEAN /\ full.queue \in Seq({"audio", "eof"})
  BY <1>5, <1>6
<1>8. none.pos \in 0 .. samples /\ none.pending \in 0 .. FrameSize - 1 /\ none.empty \in BOOLEAN
      /\ none.eof = FALSE /\ none.queue \in Seq({"audio", "eof"}) /\ none.pos = 0
  BY <1>2
<1> HIDE DEF full, none
<1> DEFINE r == read_buffer(samples)
<1> HIDE DEF r
<1>9. CASE p.playing /\ ~p.paused
  <2>1. r = full BY <1>1, <1>9 DEF r
  <2> QED BY <2>1, <1>7, <1>9 DEF r
<1>10. CASE ~(p.playing /\ ~p.paused)
  <2>1. r = none BY <1>1, <1>10 DEF r
  <2>2. ~(none.pos > 0) BY <1>8
  <2> QED BY <2>1, <2>2, <1>8 DEF r
<1> QED BY <1>9, <1>10
-----------------------------------------------------------------------------
(* What is left of a call of the core, after steps were put in front.      *)
LEMMA Continued ==
  ASSUME NEW rest \in Seq(CoreSteps), NEW s \in Seq(CoreSteps)
  PROVE  /\ s \o rest \in Seq(CoreSteps)
         /\ TodoOK(s \o rest) /\ PendingIn(s \o rest) = "none"
         /\ \A d \in DriverSteps : TodoOK((<<d>> \o s) \o rest) /\ PendingIn((<<d>> \o s) \o rest) = d
<1>1. s \o rest \in Seq(CoreSteps) BY ConcatProperties
<1>2. ASSUME NEW t \in Seq(CoreSteps) PROVE TodoOK(t) /\ PendingIn(t) = "none"
  <2>1. t \in Seq(CoreSteps \cup DriverSteps) BY SeqMonotonic
  <2>2. t # <<>> => Tail(t) \in Seq(CoreSteps) /\ Head(t) \in CoreSteps BY HeadTailProperties
  <2>3. \A x \in CoreSteps : x \notin DriverSteps BY DEF CoreSteps, DriverSteps, Calls
  <2> QED BY <2>1, <2>2, <2>3 DEF TodoOK, PendingIn
<1>3. ASSUME NEW d \in DriverSteps
      PROVE  TodoOK((<<d>> \o s) \o rest) /\ PendingIn((<<d>> \o s) \o rest) = d
  <2> DEFINE all == CoreSteps \cup DriverSteps
             t == (<<d>> \o s) \o rest
  <2>1. <<d>> \in Seq(all) /\ s \in Seq(all) /\ rest \in Seq(all) /\ s \o rest \in Seq(all)
    <3>1. Seq(CoreSteps) \subseteq Seq(all) BY SeqMonotonic
    <3> QED BY <3>1, <1>1
  <2>2. t = <<d>> \o (s \o rest)
    <3> HIDE DEF all
    <3> QED BY <2>1, ConcatAssociative
  <2>3. t \in Seq(all)
    <3> HIDE DEF all, t
    <3> QED BY <2>1, <2>2, ConcatProperties
  <2>4. t # <<>> /\ Head(t) = d /\ Tail(t) = s \o rest
    <3> DEFINE r == s \o rest
    <3>1. r \in Seq(all) /\ t = <<d>> \o r BY <2>1, <2>2
    <3> HIDE DEF r, all, t
    <3>2. Len(t) = 1 + Len(r) /\ Len(r) \in Nat /\ t[1] = d
      BY <3>1, <2>1, ConcatProperties, LenProperties
    <3>3. \A i \in 1 .. Len(r) : t[i + 1] = r[i]
      <4>1. \A i \in 1 .. Len(<<d>>) + Len(r) :
              (<<d>> \o r)[i] = IF i <= Len(<<d>>) THEN <<d>>[i] ELSE r[i - Len(<<d>>)]
        BY <3>1, <2>1, ConcatProperties
      <4> TAKE i \in 1 .. Len(r)
      <4>2. i + 1 \in 1 .. Len(<<d>>) + Len(r) /\ ~(i + 1 <= 1) /\ i + 1 - 1 = i BY <3>2
      <4> QED BY <4>1, <4>2, <3>1
    <3>4. t \in Seq(all) BY <2>3
    <3>5. t # <<>> BY <3>2, <3>4
    <3>6. Head(t) = d /\ Tail(t) \in Seq(all) /\ Len(Tail(t)) = Len(r)
          /\ \A i \in 1 .. Len(r) : Tail(t)[i] = t[i + 1]
      BY <3>2, <3>4, <3>5, HeadTailProperties
    <3>7. Tail(t) = r BY <3>1, <3>3, <3>6, SeqEqual
    <3> QED BY <3>5, <3>6, <3>7 DEF r
  <2> HIDE DEF t
  <2>5. TodoOK(t) /\ PendingIn(t) = d BY <2>3, <2>4, <1>1 DEF TodoOK, PendingIn
  <2> QED BY <2>5 DEF t
<1> QED BY <1>1, <1>2, <1>3

(* A step of the core is the first that was left; the rest are no calls of *)
(* the driver.                                                             *)
LEMMA AtStep ==
  ASSUME CoreOK, core.todo # <<>>
  PROVE  /\ Tail(core.todo) \in Seq(CoreSteps)
         /\ Head(core.todo) \in CoreSteps => Pending = "none"
         /\ Head(core.todo) \in DriverSteps => Pending = Head(core.todo)
<1>1. \A x \in CoreSteps : x \notin DriverSteps BY DEF CoreSteps, DriverSteps, Calls
<1> QED BY <1>1 DEF CoreOK, TodoOK, Pending, PendingIn

(* What the steps of the core leave to be done, and of the driver.         *)
LEMMA Continues ==
  ASSUME CoreOK, core.todo # <<>>, driver' = driver, NEW steps \in Seq(CoreSteps)
  PROVE  /\ core' = Continue(steps) => CoreOK' /\ Pending' = "none"
         /\ \A d \in DriverSteps : core' = Continue(<<d>> \o steps) => CoreOK' /\ Pending' = d
         /\ \A seen \in BOOLEAN :
              /\ core' = [Continue(steps) EXCEPT !.seen = seen] => CoreOK' /\ Pending' = "none"
              /\ \A d \in DriverSteps :
                   core' = [Continue(<<d>> \o steps) EXCEPT !.seen = seen] => CoreOK' /\ Pending' = d
<1> DEFINE rest == Tail(core.todo)
<1>1. rest \in Seq(CoreSteps) BY AtStep
<1> HIDE DEF rest
<1>2. /\ TodoOK(steps \o rest) /\ PendingIn(steps \o rest) = "none"
      /\ \A d \in DriverSteps : TodoOK((<<d>> \o steps) \o rest) /\ PendingIn((<<d>> \o steps) \o rest) = d
  BY <1>1, Continued
<1>3. \A todo : TodoOK(todo) => todo \in Seq(CoreSteps \cup DriverSteps) BY DEF TodoOK
<1>4. core \in [todo : Seq(CoreSteps \cup DriverSteps), told : BOOLEAN, seen : BOOLEAN] /\ driver \in Drivers
  BY DEF CoreOK
<1>5. ASSUME NEW todo, TodoOK(todo), NEW seen \in BOOLEAN,
             core' = [core EXCEPT !.todo = todo] \/ core' = [core EXCEPT !.todo = todo, !.seen = seen]
      PROVE  CoreOK' /\ Pending' = PendingIn(todo)
  <2>1. todo \in Seq(CoreSteps \cup DriverSteps) BY <1>3, <1>5
  <2>2. core' \in [todo : Seq(CoreSteps \cup DriverSteps), told : BOOLEAN, seen : BOOLEAN]
        /\ core'.todo = todo
    BY <2>1, <1>4, <1>5
  <2> QED BY <2>2, <1>4, <1>5 DEF CoreOK, Pending
<1>6. \A t : Continue(t) = [core EXCEPT !.todo = t \o rest] BY <1>4 DEF Continue, rest
<1>7. \A t, seen : [Continue(t) EXCEPT !.seen = seen] = [core EXCEPT !.todo = t \o rest, !.seen = seen]
  BY <1>6
<1>8. core' = Continue(steps) => CoreOK' /\ Pending' = "none" BY <1>2, <1>5, <1>6
<1>9. ASSUME NEW d \in DriverSteps, core' = Continue(<<d>> \o steps) PROVE CoreOK' /\ Pending' = d
  BY <1>9, <1>2, <1>5, <1>6
<1>10. ASSUME NEW seen \in BOOLEAN, core' = [Continue(steps) EXCEPT !.seen = seen]
       PROVE  CoreOK' /\ Pending' = "none"
  <2> DEFINE t == steps \o rest
  <2>1. core' = [core EXCEPT !.todo = t, !.seen = seen] BY <1>10, <1>7
  <2>2. TodoOK(t) /\ PendingIn(t) = "none" BY <1>2
  <2> HIDE DEF t
  <2> QED BY <2>1, <2>2, <1>5
<1>11. ASSUME NEW seen \in BOOLEAN, NEW d \in DriverSteps,
              core' = [Continue(<<d>> \o steps) EXCEPT !.seen = seen]
       PROVE  CoreOK' /\ Pending' = d
  <2> DEFINE t == (<<d>> \o steps) \o rest
  <2>1. core' = [core EXCEPT !.todo = t, !.seen = seen] BY <1>11, <1>7
  <2>2. TodoOK(t) /\ PendingIn(t) = d BY <1>2, <1>11
  <2> HIDE DEF t
  <2> QED BY <2>1, <2>2, <1>5
<1> QED BY <1>8, <1>9, <1>10, <1>11

LEMMA StepNames ==
  /\ {"start", "reset", "pause", "unpause", "drain", "uninit", "wakeup", "drain_delay", "drain_wait",
       "drain_check", "drained"} \subseteq CoreSteps
  /\ {"driver_start", "driver_reset", "driver_pause", "driver_unpause", "join"} = DriverSteps
  /\ "none" \notin DriverSteps
  /\ <<>> \in Seq(CoreSteps) /\ <<"wakeup">> \in Seq(CoreSteps)
BY DEF CoreSteps, DriverSteps, Calls

(* The call of the driver that each step of the core leaves to be made.    *)
LEMMA StartMoves ==
  ASSUME CoreOK, Start, driver' = driver
  PROVE  CoreOK' /\ Pending = "none" /\ Pending' = IF DoStart THEN "driver_start" ELSE "none"
<1>1. core.todo # <<>> /\ Pending = "none"
      /\ core' = [Continue(If(DoStart, <<"driver_start">>) \o <<"wakeup">>) EXCEPT !.seen = TRUE]
  BY AtStep, StepNames DEF Start, At
<1>2. CASE DoStart
  <2>1. If(DoStart, <<"driver_start">>) = <<"driver_start">> BY <1>2 DEF If
  <2>2. core' = [Continue(<<"driver_start">> \o <<"wakeup">>) EXCEPT !.seen = TRUE] BY <2>1, <1>1
  <2> QED BY <2>2, <1>1, <1>2, Continues, StepNames
<1>3. CASE ~DoStart
  <2>1. If(DoStart, <<"driver_start">>) \o <<"wakeup">> = <<"wakeup">> BY <1>3 DEF If
  <2>2. core' = [Continue(<<"wakeup">>) EXCEPT !.seen = TRUE] BY <2>1, <1>1
  <2> QED BY <2>2, <1>1, <1>3, Continues, StepNames
<1> QED BY <1>2, <1>3

LEMMA ResetMoves ==
  ASSUME CoreOK, Reset, driver' = driver
  PROVE  /\ CoreOK' /\ Pending = "none"
         /\ Pending' = IF ~Push /\ ~StreamSilence /\ HasReset THEN "driver_reset" ELSE "none"
<1> DEFINE calls == ~Push /\ ~StreamSilence /\ HasReset
           wakes == If(p.playing, <<"wakeup">>)
<1>1. core.todo # <<>> /\ Pending = "none"
      /\ core' = [Continue(If(calls, <<"driver_reset">>) \o wakes) EXCEPT !.seen = FALSE]
  BY AtStep, StepNames DEF Reset, At
<1>2. wakes \in Seq(CoreSteps) BY StepNames DEF If
<1> HIDE DEF wakes
<1>3. CASE calls
  <2>1. core' = [Continue(<<"driver_reset">> \o wakes) EXCEPT !.seen = FALSE] BY <1>1, <1>3 DEF If
  <2> QED BY <2>1, <1>1, <1>2, <1>3, Continues, StepNames
<1>4. CASE ~calls
  <2>1. <<>> \o wakes = wakes BY <1>2, ConcatEmptySeq
  <2>2. core' = [Continue(wakes) EXCEPT !.seen = FALSE] BY <2>1, <1>1, <1>4 DEF If
  <2> QED BY <2>2, <1>1, <1>2, <1>4, Continues, StepNames
<1> QED BY <1>3, <1>4

LEMMA PauseMoves ==
  ASSUME CoreOK, Pause, driver' = driver
  PROVE  /\ CoreOK' /\ Pending = "none"
         /\ PausePull => Pending' = IF HasSetPause THEN "driver_pause" ELSE "driver_reset"
         /\ PauseHw \/ PauseByReset \/ PauseOnly => Pending' = "none"
<1>1. core.todo # <<>> /\ Pending = "none" BY AtStep, StepNames DEF Pause, At
<1>2. ASSUME PauseHw \/ PauseByReset PROVE CoreOK' /\ Pending' = "none"
  <2>1. core' = Continue(<<"wakeup">>) BY <1>2 DEF PauseHw, PauseByReset
  <2> QED BY <2>1, <1>1, Continues, StepNames
<1>3. ASSUME PausePull
      PROVE  CoreOK' /\ Pending' = IF HasSetPause THEN "driver_pause" ELSE "driver_reset"
  <2> DEFINE d == IF HasSetPause THEN "driver_pause" ELSE "driver_reset"
  <2>1. core' = Continue(<<d, "wakeup">>) /\ <<d, "wakeup">> = <<d>> \o <<"wakeup">>
    BY <1>3 DEF PausePull
  <2>2. core' = Continue(<<d>> \o <<"wakeup">>) BY <2>1
  <2>3. d \in DriverSteps BY StepNames
  <2> HIDE DEF d
  <2>4. CoreOK' /\ Pending' = d BY <2>2, <2>3, <1>1, Continues, StepNames
  <2> QED BY <2>4 DEF d
<1>4. ASSUME PauseOnly PROVE CoreOK' /\ Pending' = "none"
  <2> DEFINE wakes == If(CanPause, <<"wakeup">>)
  <2>1. wakes \in Seq(CoreSteps) BY StepNames DEF If
  <2>2. core' = Continue(wakes) BY <1>4 DEF PauseOnly
  <2> HIDE DEF wakes
  <2> QED BY <2>1, <2>2, <1>1, Continues
<1>5. PauseHw \/ PauseByReset \/ PausePull \/ PauseOnly BY DEF Pause
<1>6. PausePull => ~(PauseHw \/ PauseByReset \/ PauseOnly)
  BY DEF PausePull, PauseHw, PauseByReset, PauseOnly
<1> QED BY <1>1, <1>2, <1>3, <1>4, <1>5, <1>6

LEMMA UnpauseMoves ==
  ASSUME CoreOK, Unpause, driver' = driver
  PROVE  /\ CoreOK' /\ Pending = "none"
         /\ Pending' = IF p.playing /\ p.paused /\ ~Push /\ ~p.streaming
                       THEN IF p.hw_paused THEN "driver_unpause" ELSE "driver_start" ELSE "none"
<1> DEFINE resumes == p.playing /\ p.paused
           change == resumes /\ ~Push /\ ~p.streaming
           d == IF p.hw_paused THEN "driver_unpause" ELSE "driver_start"
           wakes == If(resumes, <<"wakeup">>)
<1>1. core.todo # <<>> /\ Pending = "none" /\ core' = Continue(If(change, <<d>>) \o wakes)
  BY AtStep, StepNames DEF Unpause, At
<1>2. wakes \in Seq(CoreSteps) BY StepNames DEF If
<1>3. d \in DriverSteps BY StepNames
<1>4. CASE change
  <2> HIDE DEF wakes, d
  <2>1. core' = Continue(<<d>> \o wakes) BY <1>1, <1>4 DEF If
  <2>2. CoreOK' /\ Pending' = d BY <2>1, <1>1, <1>2, <1>3, Continues
  <2> QED BY <2>2, <1>1, <1>4 DEF d
<1>5. CASE ~change
  <2> HIDE DEF wakes, d
  <2>1. <<>> \o wakes = wakes BY <1>2, ConcatEmptySeq
  <2>2. core' = Continue(wakes) BY <2>1, <1>1, <1>5 DEF If
  <2>3. CoreOK' /\ Pending' = "none" BY <2>2, <1>1, <1>2, Continues
  <2> QED BY <2>3, <1>1, <1>5
<1> QED BY <1>4, <1>5

LEMMA DriverMoves ==
  ASSUME CoreOK, NEW step \in DriverSteps, Driver(step), driver' = driver
  PROVE  CoreOK' /\ Pending = step /\ Pending' = "none"
<1>1. core.todo # <<>> /\ Pending = step /\ core' = Continue(<<>>)
  BY AtStep DEF Driver, At
<1> QED BY <1>1, Continues, StepNames

(* The steps that leave nothing for the driver                             *)
OtherSteps == DrainLoop \/ Wakeup

LEMMA OtherMoves ==
  ASSUME CoreOK, OtherSteps, driver' = driver
  PROVE  CoreOK' /\ Pending = "none" /\ Pending' = "none"
<1>1. ASSUME NEW from, NEW to \in Seq(CoreSteps), DrainStep(from, to), from \in CoreSteps
      PROVE  CoreOK' /\ Pending = "none" /\ Pending' = "none"
  <2>1. core.todo # <<>> /\ Pending = "none" /\ core' = Continue(to)
    BY <1>1, AtStep DEF DrainStep, At
  <2> QED BY <2>1, Continues
<1>2. CASE Drain
  <2> DEFINE to == IF ~p.paused /\ p.playing THEN <<"drain_delay">> ELSE <<"drained", "reset">>
  <2>1. to \in Seq(CoreSteps)
    <3>1. <<"drain_delay">> \in Seq(CoreSteps) BY DEF CoreSteps
    <3>2. <<"drained", "reset">> \in Seq(CoreSteps) BY DEF CoreSteps, Calls
    <3> QED BY <3>1, <3>2
  <2>2. core.todo # <<>> /\ Pending = "none" /\ core' = Continue(to)
    BY <1>2, AtStep, StepNames DEF Drain, At
  <2> HIDE DEF to
  <2> QED BY <2>1, <2>2, Continues
<1>3. CASE DrainTimeout
  <2>1. <<"reset">> \in Seq(CoreSteps) BY DEF CoreSteps, Calls
  <2> QED BY <2>1, <1>1, <1>3, StepNames DEF DrainTimeout
<1>4. CASE DrainStep("drain_delay", <<"drain_wait">>)
  <2>1. <<"drain_wait">> \in Seq(CoreSteps) BY DEF CoreSteps
  <2> QED BY <2>1, <1>1, <1>4, StepNames
<1>5. CASE DrainStep("drain_check", Restart \o <<"drain">>)
  <2>1. <<"start">> \in Seq(CoreSteps) /\ <<"drain">> \in Seq(CoreSteps) BY DEF CoreSteps, Calls
  <2>2. Restart \in Seq(CoreSteps) BY <2>1, StepNames DEF Restart, If
  <2>3. Restart \o <<"drain">> \in Seq(CoreSteps) BY <2>1, <2>2, ConcatProperties
  <2> QED BY <2>3, <1>1, <1>5, StepNames
<1>6. CASE DrainStep("drained", <<>>) BY <1>1, <1>6, StepNames
<1>7. CASE Wakeup BY <1>7, AtStep, Continues, StepNames DEF Wakeup, At
<1> QED BY <1>2, <1>3, <1>4, <1>5, <1>6, <1>7 DEF OtherSteps, DrainLoop

LEMMA UninitMoves ==
  ASSUME CoreOK, driver' = driver
  PROVE  /\ Uninit => CoreOK' /\ Pending = "none" /\ Pending' = "join"
         /\ Join => CoreOK' /\ Pending = "join" /\ Pending' = "none"
<1>1. ASSUME Uninit PROVE CoreOK' /\ Pending = "none" /\ Pending' = "join"
  <2>1. core.todo # <<>> /\ Pending = "none" /\ core' = Continue(<<"join">>)
    BY <1>1, AtStep, StepNames DEF Uninit, At
  <2>2. <<"join">> \o <<>> = <<"join">>
    <3>1. <<"join">> \in Seq(DriverSteps) BY DEF DriverSteps
    <3> QED BY <3>1, ConcatEmptySeq
  <2>3. core' = Continue(<<"join">> \o <<>>) BY <2>1, <2>2
  <2> QED BY <2>1, <2>3, Continues, StepNames
<1>2. ASSUME Join PROVE CoreOK' /\ Pending = "join" /\ Pending' = "none"
  BY <1>2, AtStep, Continues, StepNames DEF Join, At
<1> QED BY <1>1, <1>2

(* Steps of others leave to the core what it was to do.                    *)
LEMMA SameMoves ==
  ASSUME TypeOK, CoreOK, driver' = driver,
         core' = core \/ core' = Notify(core) \/ Look \/ (\E c \in Calls : Call(c))
  PROVE  CoreOK' /\ Pending' = Pending
<1> USE DEF CoreOK
<1>1. CASE core' = core BY <1>1 DEF Pending
<1>2. CASE core' = Notify(core)
  <2> DEFINE waits == core.todo # <<>> /\ Head(core.todo) = "drain_wait"
             rest == Tail(core.todo)
  <2>1. CASE ~waits
    <3>1. core' = [core EXCEPT !.told = TRUE] BY <1>2, <2>1 DEF Notify
    <3> QED BY <3>1 DEF Pending
  <2>2. CASE waits
    <3>1. rest \in Seq(CoreSteps) /\ <<"drain_check">> \in Seq(CoreSteps) /\ Pending = "none"
      BY <2>2, AtStep, StepNames DEF CoreSteps
    <3>2. core' = [core EXCEPT !.told = TRUE, !.todo = <<"drain_check">> \o rest]
      BY <1>2, <2>2 DEF Notify
    <3> HIDE DEF rest
    <3> DEFINE t == <<"drain_check">> \o rest
    <3>3. TodoOK(t) /\ PendingIn(t) = "none" BY <3>1, Continued
    <3>4. t \in Seq(CoreSteps \cup DriverSteps) BY <3>3 DEF TodoOK
    <3> HIDE DEF t
    <3>5. core' \in [todo : Seq(CoreSteps \cup DriverSteps), told : BOOLEAN, seen : BOOLEAN] /\ core'.todo = t
      BY <3>2, <3>4 DEF t
    <3> QED BY <3>1, <3>3, <3>5 DEF Pending
  <2> QED BY <2>1, <2>2
<1>3. CASE Look
  <2>1. core.todo = <<>> /\ core'.todo = core.todo BY <1>3 DEF Look
  <2>2. core' \in [todo : Seq(CoreSteps \cup DriverSteps), told : BOOLEAN, seen : BOOLEAN]
    BY <1>3 DEF Look, TypeOK
  <2> QED BY <2>1, <2>2 DEF Pending
<1>4. ASSUME NEW c \in Calls, Call(c) PROVE CoreOK' /\ Pending' = Pending
  <2> DEFINE todo == IF c = "pause_eof" THEN If(p.playing, <<"drain">>) \o <<"pause">> ELSE <<c>>
  <2>1. core.todo = <<>> /\ core' = [core EXCEPT !.todo = todo] BY <1>4 DEF Call
  <2>2. todo \in Seq(CoreSteps)
    <3>1. <<"drain">> \in Seq(CoreSteps) /\ <<"pause">> \in Seq(CoreSteps) /\ <<c>> \in Seq(CoreSteps)
      BY DEF CoreSteps, Calls
    <3>2. If(p.playing, <<"drain">>) \in Seq(CoreSteps) BY <3>1, StepNames DEF If
    <3>3. If(p.playing, <<"drain">>) \o <<"pause">> \in Seq(CoreSteps) BY <3>1, <3>2, ConcatProperties
    <3> QED BY <3>1, <3>3
  <2> HIDE DEF todo
  <2>3. TodoOK(todo) /\ PendingIn(todo) = "none"
    <3>1. todo \o <<>> = todo BY <2>2, ConcatEmptySeq
    <3>2. <<>> \in Seq(CoreSteps) BY StepNames
    <3>3. TodoOK(todo \o <<>>) /\ PendingIn(todo \o <<>>) = "none" BY <2>2, <3>2, Continued
    <3> QED BY <3>1, <3>3
  <2>4. todo \in Seq(CoreSteps \cup DriverSteps) BY <2>3 DEF TodoOK
  <2>5. core' \in [todo : Seq(CoreSteps \cup DriverSteps), told : BOOLEAN, seen : BOOLEAN] /\ core'.todo = todo
    BY <2>1, <2>4
  <2> QED BY <2>1, <2>3, <2>5 DEF Pending, PendingIn
<1> QED BY <1>1, <1>2, <1>3, <1>4
-----------------------------------------------------------------------------
(* Every step leaves a call that can be carried on.                        *)
LEMMA CoreStepOK ==
  ASSUME TypeOK, CoreOK, [Next]_vars PROVE CoreOK'
<1>1. CASE UNCHANGED vars BY <1>1 DEF vars, dvars, CoreOK
<1> SUFFICES ASSUME Next PROVE CoreOK' BY <1>1
<1>2. driver' = driver BY DEF Next
<1>3. CASE Start BY <1>2, <1>3, StartMoves
<1>4. CASE Reset BY <1>2, <1>4, ResetMoves
<1>5. CASE Pause BY <1>2, <1>5, PauseMoves
<1>6. CASE Unpause BY <1>2, <1>6, UnpauseMoves
<1>7. CASE OtherSteps BY <1>2, <1>7, OtherMoves
<1>8. CASE DriverCall
  <2>1. PICK step \in DriverSteps : Driver(step) BY <1>8 DEF DriverCall, DriverSteps
  <2> QED BY <1>2, <2>1, DriverMoves
<1>9. CASE \E frame \in {"audio", "eof"} : Feed(frame) BY <1>2, <1>9, SameMoves DEF Feed
<1>10. CASE Look \/ \E c \in Calls : Call(c) BY <1>2, <1>10, SameMoves
<1>11. CASE AOThread
  BY <1>2, <1>11, SameMoves DEF AOThread, PlayNothing, PlayUnderrun, PlayWrite, Decide, Wake
<1>12. CASE Device BY <1>2, <1>12, SameMoves DEF Device, DevicePlay, ReadData, StopStreaming
<1>13. CASE Uninit \/ Join BY <1>2, <1>13, UninitMoves
<1> QED BY <1>3, <1>4, <1>5, <1>6, <1>7, <1>8, <1>9, <1>10, <1>11, <1>12, <1>13
      DEF Next, CoreStep, OtherSteps

PTypes ==
  p \in [playing : BOOLEAN, paused : BOOLEAN, hw_paused : BOOLEAN, streaming : BOOLEAN,
         recover_pause : BOOLEAN, prepause : 0 .. DeviceBuffer, pending : 0 .. FrameSize - 1,
         need_wakeup : BOOLEAN, terminate : BOOLEAN]
DevTypes == dev \in [started : BOOLEAN, paused : BOOLEAN, buf : 0 .. DeviceBuffer, eof : BOOLEAN]
AOTypes == ao \in [pc : {"play", "decide", "wait", "done"}, retry : BOOLEAN, timeout : BOOLEAN]
QueueTypes == queue \in Seq({"audio", "eof"}) /\ waiting \in BOOLEAN

LEMMA DriverTypes ==
  ASSUME AudioBufferAssumption, CoreOK
  PROVE  /\ {Push, HasSetPause, HasReset, StopsAtEof, StreamSilence, Untimed, WriteFails} \subseteq BOOLEAN
         /\ Push => HasReset /\ ~StopsAtEof
BY DEF AudioBufferAssumption, CoreOK, DriverKind, Push, HasSetPause, HasReset, StopsAtEof,
       StreamSilence, Untimed, WriteFails

(* Every step but PlayWrite keeps the types.                               *)
LEMMA CommonTypes ==
  ASSUME AudioBufferAssumption, TypeOK, CoreOK, Owes, Next, ~PlayWrite
  PROVE  PTypes' /\ DevTypes' /\ AOTypes' /\ QueueTypes' /\ owed' \in Nat
<1> USE DEF TypeOK, PTypes, DevTypes, AOTypes, QueueTypes
<1>1. /\ {Push, HasSetPause, HasReset, StopsAtEof, StreamSilence, Untimed, WriteFails} \subseteq BOOLEAN
      /\ DeviceBuffer \in Nat \ {0} /\ FrameSize \in Nat \ {0}
  BY DriverTypes DEF AudioBufferAssumption
<1>2. CASE Start BY <1>1, <1>2 DEF Start, DoStart
<1>3. CASE Reset
  <2>1. 0 \in 0 .. FrameSize - 1 /\ 0 \in 0 .. DeviceBuffer BY <1>1
  <2>2. Silent \in [started : BOOLEAN, paused : BOOLEAN, buf : 0 .. DeviceBuffer, eof : BOOLEAN]
    BY <2>1 DEF Silent
  <2>3. DevTypes' BY <2>2, <1>3 DEF Reset
  <2>4. PTypes'
    <3> DEFINE still == p.streaming /\ ~(~StreamSilence /\ HasReset)
    <3>1. p' = [p EXCEPT !.pending = 0, !.streaming = still, !.playing = FALSE,
                         !.recover_pause = FALSE, !.hw_paused = FALSE]
      BY <1>3 DEF Reset
    <3>2. still \in BOOLEAN OBVIOUS
    <3> HIDE DEF still
    <3> QED BY <2>1, <3>1, <3>2, ZenonT(60)
  <2>5. AOTypes' /\ owed' \in Nat BY <1>3 DEF Reset
  <2>6. QueueTypes'
    <3>1. <<>> \in Seq({"audio", "eof"}) OBVIOUS
    <3>2. queue' = <<>> /\ waiting' = FALSE BY <1>3 DEF Reset
    <3> QED BY <3>1, <3>2
  <2> QED BY <2>3, <2>4, <2>5, <2>6
<1>4. CASE Pause
  <2>1. 0 \in 0 .. DeviceBuffer /\ \A a \in Nat, b \in 0 .. DeviceBuffer : a + b \in Nat BY <1>1
  <2>2. CASE PauseHw BY <1>4, <2>2 DEF Pause, PauseHw
  <2>3. CASE PauseByReset
    <3>1. DevTypes' BY <2>1, <2>3 DEF PauseByReset, Silent
    <3>2. PTypes'
      <4>1. (IF p.recover_pause THEN p.prepause ELSE dev.buf) \in 0 .. DeviceBuffer OBVIOUS
      <4>2. Recovers \in BOOLEAN BY <1>1 DEF Recovers
      <4> QED BY <4>1, <4>2, <2>3, ZenonT(60) DEF PauseByReset
    <3>3. owed' \in Nat BY <2>1, <2>3 DEF PauseByReset
    <3>4. AOTypes' /\ QueueTypes' BY <1>4 DEF Pause
    <3> QED BY <3>1, <3>2, <3>3, <3>4
  <2>4. CASE PausePull BY <1>1, <1>4, <2>4, ZenonT(60) DEF Pause, PausePull
  <2>5. CASE PauseOnly BY <1>4, <2>5 DEF Pause, PauseOnly
  <2> QED BY <1>4, <2>2, <2>3, <2>4, <2>5 DEF Pause
<1>5. CASE Unpause
  <2>1. PTypes'
    <3> DEFINE held == p.hw_paused /\ ~(p.playing /\ p.paused)
               streams == p.streaming \/ (p.playing /\ p.paused /\ ~Push)
    <3>1. p' = [p EXCEPT !.paused = FALSE, !.hw_paused = held, !.streaming = streams]
      BY <1>5 DEF Unpause
    <3>2. held \in BOOLEAN /\ streams \in BOOLEAN OBVIOUS
    <3> HIDE DEF held, streams
    <3> QED BY <3>1, <3>2, ZenonT(60)
  <2>2. DevTypes' BY <1>1, <1>5 DEF Unpause
  <2>3. AOTypes' /\ QueueTypes' /\ owed' \in Nat BY <1>5 DEF Unpause
  <2> QED BY <2>1, <2>2, <2>3
<1>6. CASE DrainLoop BY <1>6 DEF DrainLoop, Drain, DrainTimeout, DrainStep
<1>7. CASE DriverCall
  <2>1. 0 \in 0 .. DeviceBuffer BY <1>1
  <2>2. Silent \in [started : BOOLEAN, paused : BOOLEAN, buf : 0 .. DeviceBuffer, eof : BOOLEAN]
    BY <2>1 DEF Silent
  <2>3. PICK step \in {"driver_start", "driver_reset", "driver_pause", "driver_unpause"} : Driver(step)
    BY <1>7 DEF DriverCall
  <2>4. DevTypes' BY <2>2, <2>3, ZenonT(60) DEF Driver
  <2>5. PTypes' /\ AOTypes' /\ QueueTypes' /\ owed' \in Nat BY <2>3 DEF Driver
  <2> QED BY <2>4, <2>5
<1>8. CASE Wakeup BY <1>8 DEF Wakeup, ao_wakeup
<1>9. CASE Uninit BY <1>9 DEF Uninit
<1>10. CASE Join
  <2>1. 0 \in 0 .. DeviceBuffer BY <1>1
  <2> QED BY <1>10, <2>1 DEF Join, Silent
<1>11. ASSUME NEW frame \in {"audio", "eof"}, Feed(frame)
       PROVE  PTypes' /\ DevTypes' /\ AOTypes' /\ QueueTypes' /\ owed' \in Nat
  <2>1. queue' \in Seq({"audio", "eof"}) BY <1>11, AppendProperties DEF Feed
  <2> QED BY <1>11, <2>1 DEF Feed, ao_wakeup
<1>12. CASE Look BY <1>12 DEF Look
<1>13. CASE \E c \in Calls : Call(c) BY <1>13 DEF Call
<1>14. CASE PlayNothing BY <1>14 DEF PlayNothing, Decision, Timed
<1>15. CASE PlayUnderrun BY <1>1, <1>15 DEF PlayUnderrun, Decision, EndOfAudio, Timed
<1>16. CASE Decide BY <1>16, ZenonT(60) DEF Decide
<1>17. CASE Wake BY <1>17 DEF Wake
<1>18. CASE DevicePlay
  <2>1. dev.buf > 0 => dev.buf - 1 \in 0 .. DeviceBuffer BY <1>1
  <2>2. DevTypes'
    <3>1. CASE dev.buf > 0 BY <1>18, <2>1, <3>1 DEF DevicePlay
    <3>2. CASE ~(dev.buf > 0) BY <1>18, <3>2 DEF DevicePlay
    <3> QED BY <3>1, <3>2
  <2>3. PTypes' /\ AOTypes' /\ QueueTypes' /\ owed' \in Nat BY <1>18 DEF DevicePlay
  <2> QED BY <2>2, <2>3
<1>19. CASE ReadData
  <2> DEFINE r == read_buffer(DeviceBuffer)
  <2>1. /\ r.pending \in 0 .. FrameSize - 1 /\ r.queue \in Seq({"audio", "eof"})
        /\ r.empty \in BOOLEAN /\ r.eof \in BOOLEAN
    BY <1>1, Reads
  <2>2. /\ p' = [p EXCEPT !.pending = r.pending, !.playing = @ /\ ~ReadEnds(r.pos)]
        /\ queue' = r.queue /\ waiting' = r.empty
        /\ dev' = [dev EXCEPT !.eof = StopsAtEof /\ r.eof] /\ ao' = ao /\ owed' = owed
    BY <1>19 DEF ReadData
  <2> HIDE DEF r
  <2> QED BY <1>1, <2>1, <2>2, ZenonT(60)
<1>20. CASE StopStreaming BY <1>20 DEF StopStreaming
<1> QED BY <1>2, <1>3, <1>4, <1>5, <1>6, <1>7, <1>8, <1>9, <1>10, <1>11, <1>12, <1>13, <1>14,
           <1>15, <1>16, <1>17, <1>18, <1>19, <1>20
      DEF Next, CoreStep, AOThread, Device

(* What the AO thread writes fits into the device; the silence that makes  *)
(* up for a pause fits at once, as the device is empty then.               *)
LEMMA PlayWriteTypes ==
  ASSUME AudioBufferAssumption, TypeOK, CoreOK, Owes, PlayWrite
  PROVE  /\ PTypes' /\ DevTypes' /\ AOTypes' /\ QueueTypes' /\ owed' = 0
         /\ ~p'.recover_pause /\ p'.paused = p.paused
<1> DEFINE recovered == IF p.recover_pause THEN Smaller(p.prepause, Space) ELSE 0
           r == read_buffer(Space)
           pads == p.paused \/ (StreamSilence /\ ~p.playing)
           samples == IF recovered > 0 THEN recovered ELSE IF pads THEN Space ELSE r.pos
           eof == recovered = 0 /\ r.eof
           starts == samples > 0 /\ ~p.streaming
           i == [p EXCEPT !.recover_pause = FALSE, !.streaming = @ \/ starts,
                          !.pending = IF recovered > 0 THEN @ ELSE r.pending]
<1> USE DEF TypeOK, PTypes, DevTypes, AOTypes, QueueTypes
<1>1. /\ {Push, HasSetPause, HasReset, StopsAtEof, StreamSilence, Untimed, WriteFails} \subseteq BOOLEAN
      /\ DeviceBuffer \in Nat \ {0} /\ FrameSize \in Nat \ {0}
      /\ 0 \in 0 .. DeviceBuffer
  BY DriverTypes DEF AudioBufferAssumption
<1>2. Space \in 1 .. DeviceBuffer /\ dev.buf + Space = DeviceBuffer
  BY <1>1 DEF PlayWrite, Space
<1>3. recovered \in 0 .. Space /\ owed - recovered = 0
  <2>1. CASE p.recover_pause
    <3>1. Space = DeviceBuffer /\ owed = p.prepause BY <2>1, <1>1 DEF Owes, Space
    <3>2. Smaller(p.prepause, Space) = p.prepause BY <3>1, <1>1 DEF Smaller
    <3> QED BY <2>1, <3>1, <3>2, <1>1
  <2>2. CASE ~p.recover_pause BY <2>2, <1>2 DEF Owes
  <2> QED BY <2>1, <2>2
<1>4. /\ r.pos \in 0 .. Space /\ r.pending \in 0 .. FrameSize - 1 /\ r.queue \in Seq({"audio", "eof"})
      /\ r.empty \in BOOLEAN /\ r.eof \in BOOLEAN
  BY <1>1, <1>2, Reads
<1> HIDE DEF r
<1>5. samples \in 0 .. Space BY <1>2, <1>3, <1>4
<1>6. /\ p' = IF eof THEN EndOfAudio(i, dev.started \/ starts) ELSE i
      /\ ao' = Decision(eof \/ (samples > 0 /\ (samples < Space \/ Untimed)))
      /\ IF recovered > 0 THEN UNCHANGED <<queue, waiting>>
         ELSE queue' = r.queue /\ waiting' = r.empty
      /\ \E written \in {samples} \cup (IF WriteFails THEN {0} ELSE {}) :
           dev' = [dev EXCEPT !.started = @ \/ starts, !.buf = IF Untimed THEN 0 ELSE @ + written]
      /\ owed' = owed - recovered
  BY DEF PlayWrite, r
<1>7. starts \in BOOLEAN /\ eof \in BOOLEAN BY <1>4
<1>8. (IF recovered > 0 THEN p.pending ELSE r.pending) \in 0 .. FrameSize - 1 BY <1>4
<1> DEFINE pending == IF recovered > 0 THEN p.pending ELSE r.pending
           streams == p.streaming \/ starts
<1>9. i = [p EXCEPT !.recover_pause = FALSE, !.streaming = streams, !.pending = pending] OBVIOUS
<1>10. streams \in BOOLEAN /\ pending \in 0 .. FrameSize - 1 BY <1>7, <1>8
<1> HIDE DEF recovered, samples, eof, starts, i, pending, streams
<1>11. /\ i \in [playing : BOOLEAN, paused : BOOLEAN, hw_paused : BOOLEAN, streaming : BOOLEAN,
                  recover_pause : BOOLEAN, prepause : 0 .. DeviceBuffer, pending : 0 .. FrameSize - 1,
                  need_wakeup : BOOLEAN, terminate : BOOLEAN]
       /\ ~i.recover_pause /\ i.paused = p.paused
  BY <1>9, <1>10
<1>12. PTypes' /\ ~p'.recover_pause /\ p'.paused = p.paused
  <2> DEFINE plays == dev.started \/ starts
             streaming == plays /\ ~Untimed
  <2>1. p' = i \/ p' = [i EXCEPT !.streaming = streaming, !.playing = FALSE] BY <1>6 DEF EndOfAudio
  <2>2. streaming \in BOOLEAN BY <1>1, <1>7
  <2> HIDE DEF streaming
  <2> QED BY <1>11, <2>1, <2>2, ZenonT(60)
<1>13. DevTypes'
  <2>1. PICK written \in 0 .. Space :
          dev' = [dev EXCEPT !.started = @ \/ starts, !.buf = IF Untimed THEN 0 ELSE @ + written]
    <3>1. 0 \in 0 .. Space BY <1>2
    <3> QED BY <1>5, <1>6, <3>1
  <2>2. (IF Untimed THEN 0 ELSE dev.buf + written) \in 0 .. DeviceBuffer BY <1>1, <1>2
  <2>3. (dev.started \/ starts) \in BOOLEAN BY <1>7
  <2> DEFINE started == dev.started \/ starts
             buf == IF Untimed THEN 0 ELSE dev.buf + written
  <2>4. dev' = [dev EXCEPT !.started = started, !.buf = buf] BY <2>1
  <2> HIDE DEF started, buf
  <2> QED BY <2>2, <2>3, <2>4 DEF started, buf
<1>14. AOTypes'
  <2> DEFINE retry == eof \/ (samples > 0 /\ (samples < Space \/ Untimed))
  <2>1. retry \in BOOLEAN BY <1>7
  <2>2. ao' = Decision(retry) BY <1>6
  <2> HIDE DEF retry
  <2>3. (~retry /\ Timed(p')) \in BOOLEAN OBVIOUS
  <2> QED BY <2>1, <2>2, <2>3 DEF Decision
<1>15. QueueTypes' BY <1>4, <1>6
<1>16. owed' = 0 BY <1>3, <1>6
<1> QED BY <1>12, <1>13, <1>14, <1>15, <1>16

LEMMA TypeStep ==
  ASSUME AudioBufferAssumption, TypeOK, CoreOK, Owes, [Next]_vars PROVE TypeOK'
<1>1. CASE UNCHANGED vars BY <1>1 DEF vars, dvars, TypeOK
<1>2. CASE Next
  <2>1. CoreOK' BY <1>2, CoreStepOK
  <2>2. {core'.told, core'.seen} \subseteq BOOLEAN BY <2>1 DEF CoreOK
  <2>3. PTypes' /\ DevTypes' /\ AOTypes' /\ QueueTypes' /\ owed' \in Nat
    BY <1>2, CommonTypes, PlayWriteTypes
  <2> QED BY <2>2, <2>3 DEF TypeOK, PTypes, DevTypes, AOTypes, QueueTypes
<1> QED BY <1>1, <1>2
-----------------------------------------------------------------------------
(* Every step keeps count of the silence that is owed.                     *)
LEMMA OwesStep ==
  ASSUME AudioBufferAssumption, TypeOK, CoreOK, Owes, [Next]_vars PROVE Owes'
<1> USE DEF TypeOK, Owes
<1>1. CASE UNCHANGED vars BY <1>1 DEF vars, dvars, Untimed
<1> SUFFICES ASSUME Next PROVE Owes' BY <1>1
<1>2. driver' = driver /\ Untimed' = Untimed BY DEF Next, Untimed
<1>3. ASSUME UNCHANGED <<p.recover_pause, p.prepause, owed>>, dev'.buf = dev.buf \/ dev'.buf = 0 PROVE Owes'
  BY <1>2, <1>3
<1>4. CASE Start BY <1>2, <1>4 DEF Start
<1>5. CASE Reset BY <1>2, <1>5 DEF Reset
<1>6. CASE Pause
  <2>1. CASE PauseHw
    <3>1. dev'.buf = dev.buf /\ owed' = owed /\ p'.recover_pause = p.recover_pause
          /\ p'.prepause = IF p.recover_pause THEN p.prepause ELSE dev.buf
      BY <2>1 DEF PauseHw
    <3> QED BY <3>1, <1>2
  <2>2. CASE PauseByReset
    <3>1. Untimed \in BOOLEAN BY DriverTypes
    <3> DEFINE recovers == ~Untimed
               held == IF p.recover_pause THEN p.prepause ELSE dev.buf
    <3>2. /\ p' = [p EXCEPT !.paused = TRUE, !.streaming = FALSE, !.recover_pause = recovers,
                            !.prepause = held]
          /\ dev' = Silent /\ owed' = IF Untimed THEN owed ELSE owed + dev.buf
      BY <2>2 DEF PauseByReset, Recovers
    <3>3. dev.buf \in Nat /\ p.prepause \in Nat /\ owed \in Nat BY DEF AudioBufferAssumption
    <3>6. recovers \in BOOLEAN BY <3>1
    <3> HIDE DEF recovers, held
    <3>7. dev'.buf = 0 /\ p'.recover_pause = recovers /\ p'.prepause = held
      BY <3>2 DEF Silent
    <3>4. CASE Untimed
      <4>1. ~recovers BY <3>4 DEF recovers
      <4>2. owed' = 0 BY <3>2, <3>4
      <4> QED BY <3>4, <3>7, <4>1, <4>2, <1>2
    <3>5. CASE ~Untimed
      <4>1. recovers BY <3>5 DEF recovers
      <4>2. owed' = owed + dev.buf BY <3>2, <3>5
      <4>3. CASE p.recover_pause
        <5>1. held = p.prepause /\ dev.buf = 0 /\ owed = p.prepause BY <4>3 DEF held
        <5>2. owed' = held BY <3>3, <4>2, <5>1
        <5> QED BY <3>5, <3>7, <4>1, <5>2, <1>2
      <4>4. CASE ~p.recover_pause
        <5>1. held = dev.buf /\ owed = 0 BY <4>4 DEF held
        <5>2. owed' = held BY <3>3, <4>2, <5>1
        <5> QED BY <3>5, <3>7, <4>1, <5>2, <1>2
      <4> QED BY <4>3, <4>4
    <3> QED BY <3>4, <3>5
  <2>3. CASE PausePull BY <2>3, <1>3 DEF PausePull
  <2>4. CASE PauseOnly BY <2>4, <1>3 DEF PauseOnly
  <2> QED BY <1>6, <2>1, <2>2, <2>3, <2>4 DEF Pause
<1>7. CASE Unpause BY <1>3, <1>7 DEF Unpause
<1>8. CASE DrainLoop BY <1>3, <1>8 DEF DrainLoop, Drain, DrainTimeout, DrainStep
<1>9. CASE DriverCall
  <2>1. PICK step \in DriverSteps : Driver(step) BY <1>9 DEF DriverCall, DriverSteps
  <2>2. dev'.buf = dev.buf \/ dev'.buf = 0
    <3>1. CASE dev' = Silent BY <3>1 DEF Silent
    <3>2. CASE dev' # Silent BY <2>1, <3>2 DEF Driver
    <3> QED BY <3>1, <3>2
  <2> QED BY <1>3, <2>1, <2>2 DEF Driver
<1>10. CASE Wakeup BY <1>3, <1>10 DEF Wakeup, ao_wakeup
<1>11. CASE Uninit BY <1>3, <1>11 DEF Uninit
<1>12. CASE Join BY <1>3, <1>12 DEF Join, Silent
<1>13. ASSUME NEW frame \in {"audio", "eof"}, Feed(frame) PROVE Owes'
  BY <1>3, <1>13 DEF Feed, ao_wakeup
<1>14. CASE Look BY <1>3, <1>14 DEF Look
<1>15. CASE \E c \in Calls : Call(c) BY <1>3, <1>15 DEF Call
<1>16. CASE PlayNothing BY <1>3, <1>16 DEF PlayNothing
<1>17. CASE PlayUnderrun BY <1>3, <1>17 DEF PlayUnderrun, EndOfAudio
<1>18. CASE PlayWrite BY <1>18, PlayWriteTypes
<1>19. CASE Decide BY <1>3, <1>19 DEF Decide
<1>20. CASE Wake BY <1>3, <1>20 DEF Wake
<1>21. CASE DevicePlay
  <2>1. CASE dev.buf = 0
    <3>1. dev' = [dev EXCEPT !.started = FALSE] BY <1>21, <2>1 DEF DevicePlay
    <3> QED BY <1>3, <1>21, <2>1, <3>1 DEF DevicePlay
  <2>2. CASE dev.buf # 0 BY <1>2, <1>21, <2>2 DEF DevicePlay
  <2> QED BY <2>1, <2>2
<1>22. CASE ReadData BY <1>3, <1>22 DEF ReadData
<1>23. CASE StopStreaming BY <1>3, <1>23 DEF StopStreaming
<1> QED BY <1>4, <1>5, <1>6, <1>7, <1>8, <1>9, <1>10, <1>11, <1>12, <1>13, <1>14, <1>15, <1>16,
           <1>17, <1>18, <1>19, <1>20, <1>21, <1>22, <1>23
      DEF Next, CoreStep, AOThread, Device

(* Every step that ends playback tells the core.                           *)
LEMMA EndStep ==
  ASSUME AudioBufferAssumption, TypeOK, CoreOK, EndTold, [Next]_vars PROVE EndTold'
<1> USE DEF TypeOK, CoreOK, EndTold
<1>1. CASE UNCHANGED vars BY <1>1 DEF vars, dvars
<1> SUFFICES ASSUME Next PROVE EndTold' BY <1>1
<1>2. ASSUME core'.told = core.told, core'.seen = core.seen, p'.playing = p.playing PROVE EndTold'
  BY <1>2
<1>3. ASSUME core' = Notify(core) PROVE EndTold' BY <1>3 DEF Notify
<1>4. CASE Start BY <1>4 DEF Start
<1>5. CASE Reset BY <1>5 DEF Reset, Continue
<1>6. CASE Pause
  <2>1. core'.told = core.told /\ core'.seen = core.seen /\ p'.playing = p.playing
    BY <1>6, ZenonT(60) DEF Pause, PauseHw, PauseByReset, PausePull, PauseOnly, Continue
  <2> QED BY <1>2, <2>1
<1>7. CASE Unpause BY <1>2, <1>7 DEF Unpause, Continue
<1>8. CASE DrainLoop BY <1>2, <1>8, ZenonT(60) DEF DrainLoop, Drain, DrainTimeout, DrainStep, Continue
<1>9. CASE DriverCall BY <1>2, <1>9 DEF DriverCall, Driver, Continue
<1>10. CASE Wakeup BY <1>2, <1>10 DEF Wakeup, ao_wakeup, Continue
<1>11. CASE Uninit BY <1>2, <1>11 DEF Uninit, Continue
<1>12. CASE Join BY <1>2, <1>12 DEF Join, Continue
<1>13. ASSUME NEW frame \in {"audio", "eof"}, Feed(frame) PROVE EndTold'
  BY <1>2, <1>13 DEF Feed, ao_wakeup
<1>14. CASE Look BY <1>14 DEF Look
<1>15. CASE \E c \in Calls : Call(c) BY <1>2, <1>15 DEF Call
<1>16. CASE PlayNothing BY <1>2, <1>16 DEF PlayNothing
<1>17. CASE PlayUnderrun BY <1>3, <1>17 DEF PlayUnderrun
<1>18. CASE PlayWrite
  <2>1. core' = Notify(core) \/ (core' = core /\ p'.playing = p.playing) BY <1>18 DEF PlayWrite
  <2> QED BY <1>2, <1>3, <2>1
<1>19. CASE Decide BY <1>2, <1>19 DEF Decide
<1>20. CASE Wake BY <1>2, <1>20 DEF Wake
<1>21. CASE DevicePlay BY <1>2, <1>21 DEF DevicePlay
<1>22. CASE ReadData
  <2>1. core' = Notify(core) \/ (core' = core /\ p'.playing = p.playing) BY <1>22 DEF ReadData
  <2> QED BY <1>2, <1>3, <2>1
<1>23. CASE StopStreaming BY <1>2, <1>23 DEF StopStreaming
<1> QED BY <1>4, <1>5, <1>6, <1>7, <1>8, <1>9, <1>10, <1>11, <1>12, <1>13, <1>14, <1>15, <1>16,
           <1>17, <1>18, <1>19, <1>20, <1>21, <1>22, <1>23
      DEF Next, CoreStep, AOThread, Device

(* Every step keeps what is true of a push device.                         *)
LEMMA PushStep ==
  ASSUME AudioBufferAssumption, TypeOK, CoreOK, Owes, PushAgrees, [Next]_vars PROVE PushAgrees'
<1> USE DEF TypeOK, PushAgrees
<1>1. CASE UNCHANGED vars
  BY <1>1 DEF vars, dvars, Pending, Push, Untimed, StreamSilence
<1> SUFFICES ASSUME Next, Push PROVE PushAgrees'
  <2>1. Next => Push' = Push BY DEF Next, Push
  <2> QED BY <1>1, <2>1
<1>2. /\ driver' = driver /\ Push' = Push /\ Untimed' = Untimed /\ StreamSilence' = StreamSilence
      /\ HasReset /\ {Untimed, StreamSilence} \subseteq BOOLEAN
  BY DriverTypes DEF Next, Push, Untimed, StreamSilence
<1>3. ASSUME UNCHANGED <<p.playing, p.streaming, p.paused, dev>>, Pending' = Pending PROVE PushAgrees'
  BY <1>2, <1>3
<1>4. ASSUME dev' = Silent, Pending' = "none" PROVE PushAgrees'
  BY <1>2, <1>4 DEF Silent
<1>5. CASE Start
  <2>1. p'.playing /\ p'.streaming = p.streaming /\ p'.paused = p.paused /\ dev' = dev
    BY <1>5 DEF Start, DoStart
  <2>2. Pending' = "none" BY <1>2, <1>5, StartMoves DEF DoStart
  <2> QED BY <1>2, <2>1, <2>2
<1>6. CASE Reset
  <2>1. Pending' = "none" BY <1>2, <1>6, ResetMoves
  <2>2. CASE StreamSilence
    <3>1. dev' = dev BY <1>6, <2>2 DEF Reset
    <3> QED BY <1>2, <2>1, <2>2, <3>1
  <2>3. CASE ~StreamSilence
    <3>1. dev' = Silent BY <1>2, <1>6, <2>3 DEF Reset
    <3> QED BY <1>4, <2>1, <3>1
  <2> QED BY <2>2, <2>3
<1>7. CASE Pause
  <2>1. ~PausePull BY DEF PausePull
  <2>2. Pending' = "none" BY <1>2, <1>7, <2>1, PauseMoves DEF Pause
  <2>3. CASE PauseHw
    <3>1. p'.playing = p.playing /\ p'.streaming = p.streaming /\ dev' = [dev EXCEPT !.paused = TRUE]
      BY <2>3 DEF PauseHw
    <3> QED BY <1>2, <2>2, <3>1
  <2>4. CASE PauseByReset BY <1>4, <2>2, <2>4 DEF PauseByReset
  <2>5. CASE PauseOnly
    <3>1. p'.playing = p.playing /\ p'.streaming = p.streaming /\ dev' = dev /\ p'.paused
      BY <2>5 DEF PauseOnly
    <3>2. ~p.playing \/ p.paused \/ ~p.streaming \/ StreamSilence
      BY <2>5 DEF PauseOnly, StopsDriver, CanPause
    <3> QED BY <1>2, <2>2, <3>1, <3>2
  <2> QED BY <1>7, <2>1, <2>3, <2>4, <2>5 DEF Pause
<1>8. CASE Unpause
  <2>1. p'.playing = p.playing /\ p'.streaming = p.streaming /\ ~p'.paused
        /\ dev'.buf = dev.buf /\ dev'.started = dev.started /\ dev'.eof = dev.eof
    BY <1>8 DEF Unpause
  <2>2. Pending' = "none" BY <1>2, <1>8, UnpauseMoves
  <2> QED BY <1>2, <2>1, <2>2
<1>9. CASE DrainLoop \/ Wakeup
  <2>1. Pending' = Pending BY <1>2, <1>9, OtherMoves DEF OtherSteps
  <2> QED BY <1>3, <1>9, <2>1 DEF DrainLoop, Drain, DrainTimeout, DrainStep, Wakeup, ao_wakeup
<1>19. CASE Uninit
  <2>1. Pending' = "join" BY <1>2, <1>19, UninitMoves
  <2> QED BY <1>2, <1>19, <2>1 DEF Uninit
<1>10. CASE DriverCall
  <2>1. PICK step \in DriverSteps : Driver(step) BY <1>10 DEF DriverCall, DriverSteps
  <2>2. Pending = step BY <1>2, <2>1, DriverMoves
  <2>3. step # "join" /\ step # "none" BY <2>1, StepNames DEF Driver
  <2> QED BY <2>2, <2>3
<1>11. CASE Join
  <2>1. Pending' = "none" BY <1>2, <1>11, UninitMoves
  <2> QED BY <1>4, <1>11, <2>1 DEF Join
<1>12. ASSUME NEW frame \in {"audio", "eof"}, Feed(frame) PROVE PushAgrees'
  <2>1. Pending' = Pending BY <1>12 DEF Feed, Pending
  <2> QED BY <1>3, <1>12, <2>1 DEF Feed, ao_wakeup
<1>13. CASE Look \/ \E c \in Calls : Call(c)
  <2>1. Pending' = Pending BY <1>2, <1>13, SameMoves
  <2> QED BY <1>3, <1>13, <2>1 DEF Look, Call
<1>14. CASE PlayNothing \/ Decide \/ Wake
  <2>1. Pending' = Pending BY <1>14 DEF PlayNothing, Decide, Wake, Pending
  <2> QED BY <1>3, <1>14, <2>1, ZenonT(60) DEF PlayNothing, Decide, Wake
<1>15. CASE PlayUnderrun
  <2>1. Pending' = Pending BY <1>2, <1>15, SameMoves DEF PlayUnderrun
  <2>2. dev' = dev /\ dev.buf = 0 BY <1>15 DEF PlayUnderrun, Underrun
  <2> QED BY <1>2, <2>1, <2>2
<1>16. CASE PlayWrite
  <2> DEFINE recovered == IF p.recover_pause THEN Smaller(p.prepause, Space) ELSE 0
             r == read_buffer(Space)
             pads == p.paused \/ (StreamSilence /\ ~p.playing)
             samples == IF recovered > 0 THEN recovered ELSE IF pads THEN Space ELSE r.pos
             eof == recovered = 0 /\ r.eof
             starts == samples > 0 /\ ~p.streaming
             i == [p EXCEPT !.recover_pause = FALSE, !.streaming = @ \/ starts,
                            !.pending = IF recovered > 0 THEN @ ELSE r.pending]
  <2>1. /\ p' = IF eof THEN EndOfAudio(i, dev.started \/ starts) ELSE i
        /\ \E written \in {samples} \cup (IF WriteFails THEN {0} ELSE {}) :
             dev' = [dev EXCEPT !.started = @ \/ starts, !.buf = IF Untimed THEN 0 ELSE @ + written]
        /\ core' = IF eof THEN Notify(core) ELSE core
        /\ Wants /\ ~Underrun
    BY <1>16 DEF PlayWrite
  <2>2. Pending' = Pending
    <3>1. core' = core \/ core' = Notify(core) BY <2>1
    <3> QED BY <1>2, <3>1, SameMoves
  <2>3. samples \in Nat
    <3>1. Space \in Nat /\ DeviceBuffer \in Nat BY <1>16 DEF PlayWrite, Space, AudioBufferAssumption
    <3>2. r.pos \in 0 .. Space BY <3>1, Reads
    <3>3. Smaller(p.prepause, Space) \in Nat BY <3>1 DEF Smaller
    <3> HIDE DEF r
    <3> QED BY <3>1, <3>2, <3>3
  <2>4. i.playing = p.playing /\ i.paused = p.paused /\ i.streaming = (p.streaming \/ starts)
    OBVIOUS
  <2> HIDE DEF recovered, r, samples, eof, i
  <2>5. starts \in BOOLEAN OBVIOUS
  <2>6. PICK written \in Nat :
          /\ dev' = [dev EXCEPT !.started = @ \/ starts, !.buf = IF Untimed THEN 0 ELSE @ + written]
          /\ written > 0 => samples > 0
    <3>1. PICK w \in {samples} \cup (IF WriteFails THEN {0} ELSE {}) :
            dev' = [dev EXCEPT !.started = @ \/ starts, !.buf = IF Untimed THEN 0 ELSE @ + w]
      BY <2>1
    <3>2. w = samples \/ w = 0 OBVIOUS
    <3> HIDE DEF starts
    <3>3. w \in Nat /\ (w > 0 => samples > 0) BY <2>3, <3>2
    <3> QED BY <3>1, <3>3
  <2> DEFINE started == dev.started \/ starts
  <2>7. /\ dev'.started = started /\ dev'.paused = dev.paused /\ dev'.eof = dev.eof
        /\ Untimed => dev'.buf = 0
        /\ ~Untimed => dev'.buf = dev.buf + written
    BY <2>6
  <2>8. ~started => dev'.buf = 0
    <3> SUFFICES ASSUME ~started, ~Untimed PROVE dev'.buf = 0 BY <2>7
    <3>1. dev.buf = 0 /\ ~dev.started /\ ~starts OBVIOUS
    <3>2. ~p.streaming BY <2>1, <3>1 DEF Underrun
    <3>3. ~(samples > 0) BY <3>1, <3>2
    <3>4. written = 0 BY <2>3, <2>6, <3>3
    <3> QED BY <2>7, <3>1, <3>4
  <2>9. ~StreamSilence => ~p'.paused /\ (~p'.playing \/ ~p'.streaming => dev'.buf = 0)
    <3> SUFFICES ASSUME ~StreamSilence PROVE ~p'.paused /\ (~p'.playing \/ ~p'.streaming => dev'.buf = 0)
      OBVIOUS
    <3>1. p.playing /\ ~p.paused BY <2>1 DEF Wants
    <3>2. CASE p' = i
      <4>1. p'.playing /\ ~p'.paused BY <2>4, <3>1, <3>2
      <4>2. ~p'.streaming => ~p.streaming /\ ~starts BY <2>4, <3>2
      <4>3. ~p'.streaming => written = 0 /\ dev.buf = 0 BY <4>2, <2>3, <2>6
      <4>4. ~p'.streaming => dev'.buf = 0
        <5>1. CASE Untimed BY <2>7, <5>1
        <5>2. ASSUME ~Untimed, ~p'.streaming PROVE dev'.buf = 0
          <6>1. dev'.buf = dev.buf + written BY <2>7, <5>2
          <6>2. written = 0 /\ dev.buf = 0 BY <4>3, <5>2
          <6>3. dev'.buf = 0 + 0 BY <6>1, <6>2
          <6> QED BY <6>3
        <5> QED BY <5>1, <5>2
      <4> QED BY <4>1, <4>4
    <3>3. CASE p' # i
      <4>1. p' = [i EXCEPT !.streaming = started /\ ~Untimed, !.playing = FALSE] /\ (Untimed \/ ~started)
        BY <2>1, <3>3 DEF EndOfAudio
      <4>2. ~p'.paused
        <5>1. PICK b : p' = [i EXCEPT !.streaming = b, !.playing = FALSE] BY <4>1
        <5>2. p'.paused = i.paused BY <5>1, <2>4 DEF i
        <5> QED BY <5>2, <2>4, <3>1
      <4>3. dev'.buf = 0 BY <2>7, <2>8, <4>1
      <4> QED BY <4>2, <4>3
    <3> QED BY <3>2, <3>3
  <2> QED BY <1>2, <2>2, <2>7, <2>8, <2>9
<1>17. CASE DevicePlay
  <2>1. Pending' = Pending BY <1>17 DEF DevicePlay, Pending
  <2>2. p' = p /\ dev'.paused = dev.paused /\ dev'.eof = dev.eof BY <1>17 DEF DevicePlay
  <2>3. dev.buf = 0 => dev'.buf = 0 BY <1>17 DEF DevicePlay
  <2>4. ~dev'.started => dev'.buf = 0
    <3>1. CASE dev.buf > 0
      <4>1. dev' = [dev EXCEPT !.buf = @ - 1] /\ dev.started BY <1>17, <3>1 DEF DevicePlay, Running
      <4> QED BY <4>1
    <3>2. CASE ~(dev.buf > 0)
      <4>1. dev.buf = 0 BY <3>2 DEF AudioBufferAssumption
      <4> QED BY <2>3, <4>1
    <3> QED BY <3>1, <3>2
  <2> QED BY <1>2, <2>1, <2>2, <2>3, <2>4
<1>18. CASE ReadData BY <1>18 DEF ReadData
<1>20. CASE StopStreaming BY <1>20 DEF StopStreaming
<1> QED BY <1>5, <1>6, <1>7, <1>8, <1>9, <1>10, <1>11, <1>12, <1>13, <1>14, <1>15, <1>16,
           <1>17, <1>18, <1>19, <1>20
      DEF Next, CoreStep, AOThread, Device

(* Every step keeps what "streaming" says of the device of a pull output.  *)
LEMMA PullStep ==
  ASSUME AudioBufferAssumption, TypeOK, CoreOK, PullAgrees, [Next]_vars PROVE PullAgrees'
<1> USE DEF TypeOK, PullAgrees, Running
<1>1. CASE UNCHANGED vars
  BY <1>1 DEF vars, dvars, Pending, Push, StopsAtEof, StreamSilence, HasReset, HasSetPause
<1> SUFFICES ASSUME Next, ~Push, ~StopsAtEof PROVE PullAgrees'
  <2>1. Next => Push' = Push /\ StopsAtEof' = StopsAtEof BY DEF Next, Push, StopsAtEof
  <2> QED BY <1>1, <2>1
<1>2. /\ driver' = driver /\ Push' = Push /\ StopsAtEof' = StopsAtEof
      /\ StreamSilence' = StreamSilence /\ HasReset' = HasReset /\ HasSetPause' = HasSetPause
      /\ {StreamSilence, HasReset, HasSetPause} \subseteq BOOLEAN
  BY DriverTypes DEF Next, Push, StopsAtEof, StreamSilence, HasReset, HasSetPause
<1>3. ASSUME UNCHANGED <<p.playing, p.streaming, p.paused, p.hw_paused, ao, dev>>,
             p'.terminate = p.terminate \/ p'.terminate, Pending' = Pending
      PROVE  PullAgrees'
  BY <1>2, <1>3
<1>4. CASE Start
  <2>1. /\ p'.playing /\ p'.streaming = (p.streaming \/ DoStart) /\ p'.paused = p.paused
        /\ p'.hw_paused = p.hw_paused /\ p'.terminate = p.terminate /\ dev' = dev /\ ao' = ao
    BY <1>4 DEF Start
  <2>2. Pending = "none" /\ Pending' = IF DoStart THEN "driver_start" ELSE "none"
    BY <1>2, <1>4, StartMoves
  <2>3. CASE DoStart
    <3>1. p'.streaming /\ ~p'.paused /\ Pending' = "driver_start" BY <2>1, <2>2, <2>3 DEF DoStart
    <3> QED BY <1>2, <2>1, <3>1
  <2>4. CASE ~DoStart
    <3>1. p'.streaming = p.streaming /\ Pending' = "none" /\ (~p.paused => p.streaming)
      BY <2>1, <2>2, <2>4 DEF DoStart
    <3> QED BY <1>2, <2>1, <2>2, <3>1
  <2> QED BY <2>3, <2>4
<1>5. CASE Reset
  <2> DEFINE resets == ~StreamSilence /\ HasReset
  <2>1. /\ ~p'.playing /\ p'.streaming = (p.streaming /\ ~resets) /\ p'.paused = p.paused
        /\ ~p'.hw_paused /\ p'.terminate = p.terminate /\ dev' = dev /\ ao' = ao
    BY <1>5 DEF Reset
  <2>2. Pending = "none" /\ Pending' = IF resets THEN "driver_reset" ELSE "none"
    BY <1>2, <1>5, ResetMoves
  <2>3. CASE resets
    <3>1. ~p'.streaming /\ Pending' = "driver_reset" BY <2>1, <2>2, <2>3
    <3> QED BY <1>2, <2>1, <3>1
  <2>4. CASE ~resets
    <3>1. p'.streaming = p.streaming /\ Pending' = "none" BY <2>1, <2>2, <2>4
    <3> QED BY <1>2, <2>1, <2>2, <3>1
  <2> QED BY <2>3, <2>4
<1>6. CASE Pause
  <2>1. ~PauseHw /\ ~PauseByReset BY DEF PauseHw, PauseByReset
  <2>2. Pending = "none" /\ ao' = ao BY <1>2, <1>6, PauseMoves DEF Pause
  <2>3. CASE PausePull
    <3>1. /\ p'.paused /\ ~p'.streaming /\ p'.hw_paused = HasSetPause /\ p'.terminate = p.terminate
          /\ dev' = dev /\ p.streaming
      BY <1>2, <2>3 DEF PausePull, StopsDriver
    <3>2. Pending' = IF HasSetPause THEN "driver_pause" ELSE "driver_reset"
      BY <1>2, <1>6, <2>3, PauseMoves
    <3> QED BY <1>2, <2>2, <3>1, <3>2
  <2>4. CASE PauseOnly
    <3>1. /\ p'.paused /\ p'.streaming = p.streaming /\ p'.hw_paused = p.hw_paused
          /\ p'.terminate = p.terminate /\ dev' = dev
      BY <2>4 DEF PauseOnly
    <3>2. p.paused \/ ~p.streaming \/ StreamSilence \/ (~HasReset /\ ~HasSetPause)
      BY <2>4 DEF PauseOnly, StopsDriver, CanPause
    <3>3. Pending' = "none" BY <1>2, <1>6, <2>4, PauseMoves
    <3> QED BY <1>2, <2>2, <3>1, <3>2, <3>3
  <2> QED BY <1>6, <2>1, <2>3, <2>4 DEF Pause
<1>7. CASE Unpause
  <2> DEFINE resumes == p.playing /\ p.paused
             d == IF p.hw_paused THEN "driver_unpause" ELSE "driver_start"
  <2>1. /\ p'.playing = p.playing /\ ~p'.paused /\ p'.hw_paused = (p.hw_paused /\ ~resumes)
        /\ p'.streaming = (p.streaming \/ resumes) /\ p'.terminate = p.terminate
        /\ dev' = dev /\ ao' = ao
    <3>1. dev' = [dev EXCEPT !.paused = dev.paused] BY <1>7 DEF Unpause
    <3>2. dev' = dev BY <3>1
    <3> QED BY <3>2, <1>7 DEF Unpause
  <2>2. Pending = "none" /\ Pending' = IF resumes /\ ~p.streaming THEN d ELSE "none"
    BY <1>2, <1>7, UnpauseMoves
  <2>3. CASE resumes /\ ~p.streaming
    <3>1. p'.streaming /\ ~p'.hw_paused /\ Pending' = d BY <2>1, <2>2, <2>3
    <3>2. d = "driver_unpause" => dev.started \/ p.terminate BY <2>2
    <3>3. d \in {"driver_unpause", "driver_start"} OBVIOUS
    <3> HIDE DEF d
    <3> QED BY <1>2, <2>1, <3>1, <3>2, <3>3
  <2>4. CASE ~(resumes /\ ~p.streaming)
    <3>1. p'.streaming = p.streaming /\ Pending' = "none" BY <2>1, <2>2, <2>4
    <3>2. p'.hw_paused => p.hw_paused BY <2>1
    <3>3. p.playing => p.streaming BY <2>4
    <3> QED BY <1>2, <2>1, <2>2, <3>1, <3>2, <3>3
  <2> QED BY <2>3, <2>4
<1>8. CASE DrainLoop \/ Wakeup
  <2>1. Pending' = Pending BY <1>2, <1>8, OtherMoves DEF OtherSteps
  <2> QED BY <1>3, <1>8, <2>1 DEF DrainLoop, Drain, DrainTimeout, DrainStep, Wakeup, ao_wakeup
<1>17. CASE Uninit
  <2>1. Pending' = "join" BY <1>2, <1>17, UninitMoves
  <2> QED BY <1>2, <1>17, <2>1 DEF Uninit
<1>9. CASE DriverCall
  <2>1. PICK step \in DriverSteps : Driver(step) BY <1>9 DEF DriverCall, DriverSteps
  <2>2. Pending = step /\ Pending' = "none" BY <1>2, <2>1, DriverMoves
  <2>3. p' = p /\ ao' = ao BY <2>1 DEF Driver
  <2>4. CASE step = "driver_start"
    <3>1. dev' = [dev EXCEPT !.started = TRUE, !.paused = FALSE] BY <2>1, <2>4 DEF Driver
    <3> QED BY <1>2, <2>2, <2>3, <2>4, <3>1
  <2>5. CASE step = "driver_reset"
    <3>1. dev' = Silent BY <2>1, <2>5 DEF Driver
    <3> QED BY <1>2, <2>2, <2>3, <2>5, <3>1 DEF Silent
  <2>6. CASE step = "driver_pause"
    <3>1. dev' = [dev EXCEPT !.paused = TRUE] BY <2>1, <2>6 DEF Driver
    <3> QED BY <1>2, <2>2, <2>3, <2>6, <3>1
  <2>7. CASE step = "driver_unpause"
    <3>1. dev' = [dev EXCEPT !.paused = FALSE] BY <2>1, <2>7 DEF Driver
    <3> QED BY <1>2, <2>2, <2>3, <2>7, <3>1
  <2> QED BY <2>1, <2>4, <2>5, <2>6, <2>7 DEF Driver
<1>10. CASE Join
  <2>1. Pending' = "none" /\ p.terminate BY <1>2, <1>10, UninitMoves
  <2>2. dev' = Silent /\ p' = p /\ ao' = ao BY <1>10 DEF Join
  <2> QED BY <1>2, <2>1, <2>2 DEF Silent
<1>11. ASSUME NEW frame \in {"audio", "eof"}, Feed(frame) PROVE PullAgrees'
  <2>1. Pending' = Pending BY <1>11 DEF Feed, Pending
  <2> QED BY <1>3, <1>11, <2>1 DEF Feed
<1>12. CASE Look \/ \E c \in Calls : Call(c)
  <2>1. Pending' = Pending BY <1>2, <1>12, SameMoves
  <2> QED BY <1>3, <1>12, <2>1 DEF Look, Call
<1>13. CASE AOThread
  BY <1>13 DEF AOThread, PlayNothing, PlayUnderrun, PlayWrite, Decide, Wake
<1>14. CASE DevicePlay BY <1>14 DEF DevicePlay
<1>15. CASE ReadData
  <2>1. Pending' = Pending
    <3>1. core' = core \/ core' = Notify(core) BY <1>15 DEF ReadData
    <3> QED BY <1>2, <3>1, SameMoves
  <2> DEFINE r == read_buffer(DeviceBuffer)
             playing == p.playing /\ ~ReadEnds(r.pos)
  <2>2. /\ p' = [p EXCEPT !.pending = r.pending, !.playing = playing]
        /\ dev' = [dev EXCEPT !.eof = FALSE] /\ ao' = ao
    BY <1>15 DEF ReadData
  <2>3. playing => p.playing OBVIOUS
  <2> HIDE DEF r, playing
  <2> QED BY <1>2, <2>1, <2>2, <2>3
<1>16. CASE StopStreaming BY <1>16 DEF StopStreaming
<1> QED BY <1>4, <1>5, <1>6, <1>7, <1>8, <1>9, <1>10, <1>11, <1>12, <1>13, <1>14, <1>15, <1>16, <1>17
      DEF Next, CoreStep, Device

-----------------------------------------------------------------------------
(* The invariant holds in the initial states and every step keeps it.      *)
LEMMA InitHolds ==
  ASSUME AudioBufferAssumption, Init PROVE IInv
<1>1. driver \in Drivers /\ driver \in DriverKind BY DEF Init, AudioBufferAssumption
<1>2. {Push, StreamSilence, Untimed} \subseteq BOOLEAN
  BY <1>1 DEF DriverKind, Push, StreamSilence, Untimed
<1>3. 0 \in 0 .. FrameSize - 1 /\ 0 \in 0 .. DeviceBuffer BY DEF AudioBufferAssumption
<1>4. TypeOK
  <2>1. p \in [playing : BOOLEAN, paused : BOOLEAN, hw_paused : BOOLEAN, streaming : BOOLEAN,
                recover_pause : BOOLEAN, prepause : 0 .. DeviceBuffer, pending : 0 .. FrameSize - 1,
                need_wakeup : BOOLEAN, terminate : BOOLEAN]
    BY <1>2, <1>3 DEF Init
  <2>2. ao \in [pc : {"play", "decide", "wait", "done"}, retry : BOOLEAN, timeout : BOOLEAN]
    BY DEF Init
  <2>3. dev \in [started : BOOLEAN, paused : BOOLEAN, buf : 0 .. DeviceBuffer, eof : BOOLEAN]
    BY <1>2, <1>3 DEF Init
  <2>4. queue = <<>> /\ ~waiting /\ waiting \in BOOLEAN /\ core = [todo |-> <<>>, told |-> FALSE, seen |-> FALSE]
        /\ owed = 0
    BY DEF Init
  <2>5. queue \in Seq({"audio", "eof"}) /\ {waiting, core.told, core.seen} \subseteq BOOLEAN /\ owed \in Nat
    BY <2>4
  <2> QED BY <2>1, <2>2, <2>3, <2>5 DEF TypeOK
<1>5. core.todo = <<>> /\ core = [todo |-> <<>>, told |-> FALSE, seen |-> FALSE] BY DEF Init
<1>6. CoreOK
  <2>1. <<>> \in Seq(CoreSteps \cup DriverSteps) OBVIOUS
  <2> QED BY <1>1, <1>5, <2>1 DEF CoreOK, TodoOK
<1>7. Pending = "none" BY <1>5 DEF Pending, PendingIn
<1>8. /\ ~p.playing /\ ~p.paused /\ ~p.hw_paused /\ p.streaming = (~Push /\ StreamSilence)
      /\ ~p.recover_pause /\ owed = 0 /\ dev.started = (~Push /\ StreamSilence) /\ ~dev.paused
      /\ dev.buf = 0 /\ ~dev.eof /\ (~Push => ao.pc = "done") /\ ~core.seen
  BY DEF Init
<1>9. Owes BY <1>8 DEF Owes
<1>10. EndTold BY <1>8 DEF EndTold
<1>11. PushAgrees BY <1>7, <1>8 DEF PushAgrees
<1>12. PullAgrees BY <1>2, <1>7, <1>8 DEF PullAgrees, Running
<1> QED BY <1>4, <1>6, <1>9, <1>10, <1>11, <1>12 DEF IInv

LEMMA Invariant == Spec => []IInv
<1>1. Init => IInv BY AudioBufferAssumption, InitHolds
<1>2. IInv /\ [Next]_vars => IInv'
  BY AudioBufferAssumption, TypeStep, CoreStepOK, OwesStep, EndStep, PushStep, PullStep DEF IInv
<1> QED BY <1>1, <1>2, PTL DEF Spec

(* The state has the types of the code, whatever the sizes of frames and   *)
(* of the device: what read_buffer() keeps of a frame is less than one,    *)
(* and the device is never given more than it can hold.                    *)
THEOREM TypesKept == Spec => []TypeOK
<1>1. IInv => TypeOK BY DEF IInv
<1> QED BY <1>1, Invariant, PTL

(* Pausing, however often and in whatever way, never lets the audio run    *)
(* ahead: what a pause discarded is played as silence.                     *)
THEOREM PauseKeepsSync == Spec => []SyncKept
<1>1. IInv => SyncKept BY DEF IInv, Owes, SyncKept
<1> QED BY <1>1, Invariant, PTL

(* The core has been told of every end of playback it has not seen.        *)
THEOREM EndsAreTold == Spec => []EndTold
<1>1. IInv => EndTold BY DEF IInv
<1> QED BY <1>1, Invariant, PTL

(* Between two calls the device does what the core asked for last.         *)
THEOREM DeviceObeys == Spec => []DeviceFollows
<1>1. ASSUME IInv, ~StopsAtEof PROVE DeviceFollows
  <2>1. Quiet => Pending = "none" BY DEF Quiet, Pending, PendingIn
  <2>2. Push => HasReset
    BY <1>1, AudioBufferAssumption, DriverTypes DEF IInv
  <2>3. CASE Push
    BY <1>1, <2>1, <2>3 DEF IInv, PushAgrees, DeviceFollows, Restarted, Running, TypeOK
  <2>4. CASE ~Push
    BY <1>1, <2>1, <2>4 DEF IInv, PullAgrees, DeviceFollows, Restarted, Running, TypeOK
  <2> QED BY <2>3, <2>4
<1>2. IInv => DeviceFollows BY <1>1 DEF DeviceFollows
<1> QED BY <1>2, Invariant, PTL
=============================================================================
