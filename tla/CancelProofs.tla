---------------------------- MODULE CancelProofs ----------------------------
(***************************************************************************)
(* Proofs about the two components of MCCancel, for any number of objects, *)
(* threads, calls, handles and asynchronous commands:                      *)
(*   a trigger of mp_cancel reaches all that it has to, and no object is   *)
(* used that was destroyed, however links come and go meanwhile;           *)
(*   the core of the player outlives its users, and its end never gets     *)
(* stuck.                                                                  *)
(***************************************************************************)
EXTENDS MCCancel, FiniteSetTheorems, SequenceTheorems, TLAPS

-----------------------------------------------------------------------------
(* Stacks: the top is taken, replaced, or covered.                         *)
LEMMA Popped ==
  ASSUME NEW S, NEW s \in Seq(S), s # <<>>
  PROVE  /\ Len(s) \in Nat /\ Len(s) >= 1 /\ s[1] \in S /\ Head(s) = s[1]
         /\ \A i \in 1 .. Len(s) : s[i] \in S
         /\ Tail(s) \in Seq(S) /\ Len(Tail(s)) = Len(s) - 1
         /\ \A i \in 1 .. Len(s) - 1 : Tail(s)[i] = s[i + 1]
<1>1. Len(s) \in Nat /\ Len(s) >= 1 BY EmptySeq, LenProperties
<1>2. \A i \in 1 .. Len(s) : s[i] \in S BY ElementOfSeq
<1> QED BY <1>1, <1>2, HeadTailProperties

LEMMA Replaced ==
  ASSUME NEW S, NEW s \in Seq(S), s # <<>>, NEW f \in S
  PROVE  /\ <<f>> \o Tail(s) \in Seq(S) /\ Len(<<f>> \o Tail(s)) = Len(s)
         /\ (<<f>> \o Tail(s))[1] = f
         /\ \A i \in 2 .. Len(s) : (<<f>> \o Tail(s))[i] = s[i]
<1>1. <<f>> \in Seq(S) /\ Len(<<f>>) = 1 /\ <<f>>[1] = f OBVIOUS
<1>2. Tail(s) \in Seq(S) /\ Len(Tail(s)) = Len(s) - 1 /\ Len(s) \in Nat
      /\ Len(s) >= 1 /\ \A i \in 1 .. Len(s) - 1 : Tail(s)[i] = s[i + 1]
  BY Popped
<1>3. /\ <<f>> \o Tail(s) \in Seq(S) /\ Len(<<f>> \o Tail(s)) = 1 + Len(Tail(s))
      /\ \A i \in 1 .. Len(s) : (<<f>> \o Tail(s))[i] = IF i <= 1 THEN <<f>>[i] ELSE Tail(s)[i - 1]
  BY <1>1, <1>2, ConcatProperties
<1>4. \A i \in 2 .. Len(s) : Tail(s)[i - 1] = s[i]
  <2> TAKE i \in 2 .. Len(s)
  <2>1. i - 1 \in 1 .. Len(s) - 1 /\ (i - 1) + 1 = i BY <1>2
  <2> QED BY <1>2, <2>1
<1> QED BY <1>1, <1>2, <1>3, <1>4

LEMMA Pushed ==
  ASSUME NEW S, NEW s \in Seq(S), s # <<>>, NEW f \in S, NEW g \in S
  PROVE  /\ <<f, g>> \o Tail(s) \in Seq(S) /\ Len(<<f, g>> \o Tail(s)) = Len(s) + 1
         /\ (<<f, g>> \o Tail(s))[1] = f /\ (<<f, g>> \o Tail(s))[2] = g
         /\ \A i \in 3 .. Len(s) + 1 : (<<f, g>> \o Tail(s))[i] = s[i - 1]
<1>1. <<f, g>> \in Seq(S) /\ Len(<<f, g>>) = 2 /\ <<f, g>>[1] = f /\ <<f, g>>[2] = g OBVIOUS
<1>2. Tail(s) \in Seq(S) /\ Len(Tail(s)) = Len(s) - 1 /\ Len(s) \in Nat
      /\ Len(s) >= 1 /\ \A i \in 1 .. Len(s) - 1 : Tail(s)[i] = s[i + 1]
  BY Popped
<1>3. /\ <<f, g>> \o Tail(s) \in Seq(S) /\ Len(<<f, g>> \o Tail(s)) = 2 + Len(Tail(s))
      /\ \A i \in 1 .. Len(s) + 1 : (<<f, g>> \o Tail(s))[i] = IF i <= 2 THEN <<f, g>>[i] ELSE Tail(s)[i - 2]
  BY <1>1, <1>2, ConcatProperties
<1>4. \A i \in 3 .. Len(s) + 1 : Tail(s)[i - 2] = s[i - 1]
  <2> TAKE i \in 3 .. Len(s) + 1
  <2>1. i - 2 \in 1 .. Len(s) - 1 /\ (i - 2) + 1 = i - 1 BY <1>2
  <2> QED BY <1>2, <2>1
<1> QED BY <1>1, <1>2, <1>3, <1>4
-----------------------------------------------------------------------------
(* The invariant.                                                          *)

Calls == {"trigger", "reset", "set_cb", "get_fd", "wait", "adopt", "remove", "free"}
Frames == [op : Calls, obj : Objects, arg : Objects \cup {None} \cup Timeouts,
           at : {"lock", "slaves", "sleep"}, todo : SUBSET Objects]

Typed ==
  /\ triggered \in [Objects -> BOOLEAN] /\ cb \in [Objects -> BOOLEAN]
  /\ fd \in [Objects -> {"none", "empty", "readable"}]
  /\ slaves \in [Objects -> SUBSET Objects] /\ parent \in [Objects -> Objects \cup {None}]
  /\ lock \in [Objects -> Threads \cup {None}] /\ alive \subseteq Objects
  /\ called \in [Objects -> BOOLEAN] /\ exempt \in [Objects -> BOOLEAN]
  /\ stack \in [Threads -> Seq(Frames)]

(* A link has two ends, which exist.                                       *)
Linked ==
  /\ \A s, c \in Objects : s \in slaves[c] <=> parent[s] = c
  /\ \A s \in Objects : parent[s] # None => s \in alive /\ parent[s] \in alive

(* What a thread can be doing: a call of the user; above it, while its     *)
(* slaves are triggered, a trigger, and so on.  A link is removed before   *)
(* anything else is done.                                                  *)
Moved(f) == IF f.op = "adopt" THEN f.arg ELSE f.obj
Shape(t, i) ==
  LET f == stack[t][i] IN
  /\ f.at = "slaves" => f.op \in {"trigger", "set_cb", "get_fd", "adopt"}
  /\ f.at # "slaves" => f.todo = {} /\ (i = 1 \/ (i = 2 /\ stack[t][1].op = "remove"))
  /\ f.at = "sleep" => f.op = "wait"
  /\ i = Len(stack[t]) => f.op # "remove" /\ (f.obj \in Shared \/ Owner[f.obj] = t)
  /\ i < Len(stack[t]) /\ f.op # "remove" => f.op = "trigger" /\ stack[t][i + 1].at = "slaves"
  /\ f.op = "remove" =>
       /\ f.at = "lock" /\ i = 1 /\ Len(stack[t]) = 2 /\ stack[t][2].at = "lock"
       /\ stack[t][2].op \in {"adopt", "free"} /\ f.arg = Moved(stack[t][2])
  /\ f.op = "adopt" => f.arg \in Objects /\ Owner[f.arg] = t
  /\ f.op = "free" => Owner[f.obj] = t /\ f.obj \notin Shared /\ f.at = "lock"

(* Nobody destroys or unlinks the objects that a thread is about.          *)
Placed(t, i) ==
  LET f == stack[t][i] IN
  /\ f.obj \in alive
  /\ i < Len(stack[t]) /\ f.op = "trigger" => f.obj \in slaves[stack[t][i + 1].obj]
  /\ f.at = "slaves" => f.todo \subseteq slaves[f.obj] /\ lock[f.obj] = t
  /\ f.op = "remove" => parent[f.arg] = f.obj
  /\ i = 1 /\ f.op \in {"adopt", "free"} /\ f.at = "lock" => parent[Moved(f)] = None
  /\ f.op = "free" => slaves[f.obj] = {}
  /\ f.op = "adopt" => f.arg \in alive
  /\ \A j \in 1 .. Len(stack[t]) :
       f.at = "slaves" /\ stack[t][j].at = "slaves" /\ f.obj = stack[t][j].obj => i = j

(* A trigger under way has called the callback, and goes on to the slaves. *)
Above(t, i, x) ==
  i > 1 /\ stack[t][i - 1].op = "trigger" /\ stack[t][i - 1].at = "lock" /\ stack[t][i - 1].obj = x
Reaches(t, i) ==
  LET f == stack[t][i] IN
  f.at = "slaves" =>
    /\ triggered[f.obj] /\ called[f.obj] = cb[f.obj]
    /\ \A x \in slaves[f.obj] : triggered[x] \/ exempt[x] \/ x \in f.todo \/ Above(t, i, x)

ThreadOK(t) == \A i \in 1 .. Len(stack[t]) : Shape(t, i) /\ Placed(t, i) /\ Reaches(t, i)

CInv == Typed /\ Linked /\ (\A t \in Threads : ThreadOK(t)) /\ Cancelling!TriggerComplete

-----------------------------------------------------------------------------
(* What a step of thread u leaves alone: the objects whose lock another    *)
(* thread holds, the links of objects that others own, and objects that    *)
(* others may use.                                                         *)
Framed(u) ==
  /\ \A x \in alive : x \in alive' \/ (Owner[x] = u /\ x \notin Shared /\ slaves[x] = {} /\ parent[x] = None)
  /\ \A x \in Objects : lock[x] \notin {None, u} =>
       /\ slaves'[x] = slaves[x] /\ lock'[x] = lock[x] /\ triggered'[x] = triggered[x]
       /\ called'[x] = called[x] /\ cb'[x] = cb[x]
  /\ \A x \in Objects : Owner[x] # u =>
       parent'[x] = parent[x] /\ (slaves[x] = {} /\ x \notin Shared => slaves'[x] = {})
  /\ \A x \in Objects : parent[x] # None /\ (triggered[x] \/ exempt[x]) => triggered'[x] \/ exempt'[x]

(* It may wake up others.                                                  *)
Woke(t) ==
  /\ Len(stack'[t]) = Len(stack[t])
  /\ \A i \in 1 .. Len(stack[t]) :
       \/ stack'[t][i] = stack[t][i]
       \/ stack[t][i].op = "wait" /\ stack[t][i].at = "sleep" /\ stack'[t][i] = [stack[t][i] EXCEPT !.at = "lock"]

LEMMA FrameOf ==
  ASSUME Typed, NEW t \in Threads
  PROVE  /\ stack[t] \in Seq(Frames) /\ Len(stack[t]) \in Nat
         /\ \A i \in 1 .. Len(stack[t]) : stack[t][i] \in Frames
         /\ stack[t] # <<>> => Len(stack[t]) >= 1 /\ Cancelling!Top(t) = stack[t][1]
<1>1. stack[t] \in Seq(Frames) BY DEF Typed
<1>2. Len(stack[t]) \in Nat BY <1>1, LenProperties
<1>3. \A i \in 1 .. Len(stack[t]) : stack[t][i] \in Frames BY <1>1, ElementOfSeq
<1>4. stack[t] # <<>> => Len(stack[t]) >= 1 /\ Cancelling!Top(t) = stack[t][1] BY <1>1, Popped DEF Cancelling!Top
<1> QED BY <1>1, <1>2, <1>3, <1>4

LEMMA WokeFields ==
  ASSUME Typed, NEW t \in Threads, ThreadOK(t), Woke(t), NEW i \in 1 .. Len(stack[t])
  PROVE  /\ stack'[t][i].op = stack[t][i].op /\ stack'[t][i].obj = stack[t][i].obj
         /\ stack'[t][i].arg = stack[t][i].arg /\ stack'[t][i].todo = stack[t][i].todo
         /\ stack'[t][i].at = stack[t][i].at \/ (stack[t][i].op = "wait" /\ i = 1 /\ Len(stack[t]) = 1 /\ stack'[t][i].at = "lock")
<1>1. stack[t][i] \in Frames BY FrameOf
<1>2. stack[t][i].at = "sleep" => i = 1 /\ Len(stack[t]) = 1
  <2>1. Shape(t, i) BY DEF ThreadOK
  <2>2. i \in Nat /\ Len(stack[t]) \in Nat BY FrameOf
  <2>3. ASSUME stack[t][i].at = "sleep" PROVE i = Len(stack[t]) /\ i = 1
    <3>1. stack[t][i].op = "wait" BY <2>1, <2>3 DEF Shape
    <3>2. i = Len(stack[t]) BY <2>1, <2>2, <2>3, <3>1 DEF Shape
    <3>3. stack[t][i].at # "slaves" BY <2>3
    <3>4. i = 1 \/ (i = 2 /\ stack[t][1].op = "remove") BY <2>1, <3>3 DEF Shape
    <3>5. ASSUME i = 2, stack[t][1].op = "remove" PROVE FALSE
      <4>1. Shape(t, 1) BY <2>2, <3>2, <3>5 DEF ThreadOK
      <4> QED BY <3>1, <3>5, <4>1 DEF Shape
    <3> QED BY <3>2, <3>4, <3>5
  <2> QED BY <2>3
<1> QED BY <1>1, <1>2 DEF Woke, Frames

LEMMA OtherThread ==
  ASSUME Cancelling!CancelAssumption, CInv, NEW u \in Threads, NEW t \in Threads \ {u}, Framed(u), Woke(t)
  PROVE  ThreadOK(t)'
<1>1. Typed /\ Linked /\ ThreadOK(t) /\ t \in Threads BY DEF CInv
<1>2. Len(stack'[t]) = Len(stack[t]) /\ Len(stack[t]) \in Nat BY <1>1, FrameOf DEF Woke
<1>3. \A i \in 1 .. Len(stack[t]) :
        /\ stack'[t][i].op = stack[t][i].op /\ stack'[t][i].obj = stack[t][i].obj
        /\ stack'[t][i].arg = stack[t][i].arg /\ stack'[t][i].todo = stack[t][i].todo
        /\ stack'[t][i].at = stack[t][i].at \/ (stack[t][i].op = "wait" /\ i = 1 /\ Len(stack[t]) = 1 /\ stack'[t][i].at = "lock")
        /\ stack[t][i] \in Frames
  BY <1>1, WokeFields, FrameOf
<1> SUFFICES ASSUME NEW i \in 1 .. Len(stack[t]) PROVE (Shape(t, i) /\ Placed(t, i) /\ Reaches(t, i))'
  BY <1>2 DEF ThreadOK
<1> DEFINE f == stack[t][i]
<1>4. Shape(t, i) /\ Placed(t, i) /\ Reaches(t, i) /\ f \in Frames BY <1>1, <1>3 DEF ThreadOK
<1>5. f.op # "wait" => stack'[t][i].at = f.at BY <1>3
<1>6. Shape(t, i)'
  <2>1. f.op = "remove" => 2 \in 1 .. Len(stack[t]) BY <1>4 DEF Shape
  <2>2. i < Len(stack[t]) => i + 1 \in 1 .. Len(stack[t]) BY <1>2
  <2>3. 1 \in 1 .. Len(stack[t]) BY <1>2
  <2> QED BY <1>2, <1>3, <1>4, <2>1, <2>2, <2>3, SMTT(30) DEF Shape, Moved
<1>7. f.at = "slaves" => lock[f.obj] \notin {None, u} /\ f.op # "wait" /\ f.obj \in Objects
  BY <1>4 DEF Placed, Shape, Cancelling!CancelAssumption, Frames
<1>8. f.obj \in Objects BY <1>4 DEF Frames
<1>9. ASSUME i < Len(stack[t]), f.op = "trigger"
      PROVE  LET g == stack[t][i + 1] IN
             /\ f.obj \in slaves[g.obj] /\ g.obj \in Objects /\ lock[g.obj] = t
             /\ stack'[t][i + 1].obj = g.obj /\ slaves'[g.obj] = slaves[g.obj]
  <2>1. i + 1 \in 1 .. Len(stack[t]) BY <1>2, <1>9
  <2>2. Placed(t, i + 1) /\ stack[t][i + 1] \in Frames BY <1>1, <1>3, <2>1 DEF ThreadOK
  <2>3. stack[t][i + 1].at = "slaves" BY <1>4, <1>9 DEF Shape
  <2>4. lock[stack[t][i + 1].obj] = t BY <2>2, <2>3 DEF Placed
  <2>5. stack[t][i + 1].obj \in Objects BY <2>2 DEF Frames
  <2>6. f.obj \in slaves[stack[t][i + 1].obj] BY <1>4, <1>9 DEF Placed
  <2>7. slaves'[stack[t][i + 1].obj] = slaves[stack[t][i + 1].obj] BY <2>4, <2>5 DEF Framed, Cancelling!CancelAssumption
  <2> QED BY <1>3, <2>1, <2>4, <2>5, <2>6, <2>7
<1>10. Owner[f.obj] = u /\ f.obj \notin Shared => parent[f.obj] # None \/ slaves[f.obj] # {}
  <2> SUFFICES ASSUME Owner[f.obj] = u, f.obj \notin Shared PROVE parent[f.obj] # None \/ slaves[f.obj] # {}
    OBVIOUS
  <2>1. i < Len(stack[t]) BY <1>2, <1>4 DEF Shape
  <2>2. CASE f.op = "remove"
    <3>1. parent[f.arg] = f.obj /\ f.arg \in Objects
      <4>1. parent[f.arg] = f.obj BY <1>4, <2>2 DEF Placed
      <4>2. f.arg = Moved(stack[t][2]) /\ Len(stack[t]) = 2 BY <1>4, <2>2 DEF Shape
      <4>3. Shape(t, 2) /\ stack[t][2] \in Frames BY <1>1, <1>3, <4>2 DEF ThreadOK
      <4> QED BY <4>1, <4>2, <4>3 DEF Shape, Moved, Frames
    <3> QED BY <1>1, <1>8, <3>1 DEF Linked
  <2>3. CASE f.op # "remove"
    <3>1. f.op = "trigger" BY <1>4, <2>1, <2>3 DEF Shape
    <3> QED BY <1>1, <1>8, <1>9, <2>1, <3>1 DEF Linked, Cancelling!CancelAssumption
  <2> QED BY <2>2, <2>3
<1>11. Placed(t, i)'
  <2>1. f.obj \in alive' BY <1>4, <1>10 DEF Placed, Framed
  <2>2. i < Len(stack[t]) /\ f.op = "trigger" => f.obj \in slaves'[stack'[t][i + 1].obj] BY <1>9
  <2>3. f.at = "slaves" => f.todo \subseteq slaves'[f.obj] /\ lock'[f.obj] = t
    BY <1>4, <1>7 DEF Placed, Framed
  <2>4. f.op = "remove" => parent'[f.arg] = f.obj
    <3> SUFFICES ASSUME f.op = "remove" PROVE parent'[f.arg] = f.obj OBVIOUS
    <3>1. f.arg = Moved(stack[t][2]) /\ Len(stack[t]) = 2 /\ stack[t][2].op \in {"adopt", "free"} BY <1>4 DEF Shape
    <3>2. Shape(t, 2) /\ stack[t][2] \in Frames BY <1>1, <1>3, <3>1 DEF ThreadOK
    <3>3. f.arg \in Objects /\ Owner[f.arg] = t BY <3>1, <3>2 DEF Shape, Moved, Frames
    <3> QED BY <1>4, <3>3 DEF Placed, Framed
  <2>5. i = 1 /\ f.op \in {"adopt", "free"} /\ f.at = "lock" => parent'[Moved(f)] = None
    <3>1. f.op \in {"adopt", "free"} => Moved(f) \in Objects /\ Owner[Moved(f)] = t
      BY <1>4, <1>8 DEF Shape, Moved
    <3> QED BY <1>4, <3>1 DEF Placed, Framed
  <2>6. f.op = "free" => slaves'[f.obj] = {} BY <1>4, <1>8 DEF Shape, Placed, Framed
  <2>7. f.op = "adopt" => f.arg \in alive'
    BY <1>4 DEF Shape, Placed, Framed
  <2>8. \A j \in 1 .. Len(stack[t]) :
          f.at = "slaves" /\ stack[t][j].at = "slaves" /\ f.obj = stack[t][j].obj => i = j
    BY <1>4 DEF Placed
  <2> QED BY <1>2, <1>3, <2>1, <2>2, <2>3, <2>4, <2>5, <2>6, <2>7, <2>8 DEF Placed, Moved
<1>12. Reaches(t, i)'
  <2> SUFFICES ASSUME f.at = "slaves"
               PROVE  /\ triggered'[f.obj] /\ called'[f.obj] = cb'[f.obj]
                      /\ \A x \in slaves'[f.obj] : triggered'[x] \/ exempt'[x] \/ x \in f.todo \/ Above(t, i, x)'
    BY <1>2, <1>3 DEF Reaches
  <2>1. /\ triggered'[f.obj] = triggered[f.obj] /\ called'[f.obj] = called[f.obj] /\ cb'[f.obj] = cb[f.obj]
        /\ slaves'[f.obj] = slaves[f.obj]
    BY <1>7 DEF Framed
  <2>2. ASSUME NEW x \in slaves[f.obj] PROVE triggered'[x] \/ exempt'[x] \/ x \in f.todo \/ Above(t, i, x)'
    <3>1. x \in Objects /\ parent[x] # None BY <1>1, <1>8 DEF Typed, Linked, Cancelling!CancelAssumption
    <3>2. Above(t, i, x) => Above(t, i, x)'
      <4>1. i > 1 => i - 1 \in 1 .. Len(stack[t]) BY <1>2
      <4> QED BY <1>2, <1>3, <4>1 DEF Above
    <3>3. triggered[x] \/ exempt[x] \/ x \in f.todo \/ Above(t, i, x) BY <1>4 DEF Reaches
    <3> QED BY <3>1, <3>2, <3>3 DEF Framed
  <2> QED BY <1>4, <2>1, <2>2 DEF Reaches
<1> QED BY <1>6, <1>11, <1>12

-----------------------------------------------------------------------------
LEMMA Combine ==
  ASSUME Cancelling!CancelAssumption, CInv, NEW u \in Threads, Framed(u),
         \A t \in Threads \ {u} : Woke(t), Typed', Linked', ThreadOK(u)', Cancelling!TriggerComplete'
  PROVE  CInv'
<1>1. \A t \in Threads \ {u} : ThreadOK(t)' BY OtherThread
<1>2. (\A t \in Threads : ThreadOK(t))' BY <1>1
<1> QED BY <1>2 DEF CInv

(* Most steps change only the stack of their thread.                       *)
LEMMA OthersSame ==
  ASSUME Typed, NEW u \in Threads, NEW s, stack' = [stack EXCEPT ![u] = s]
  PROVE  stack'[u] = s /\ \A t \in Threads \ {u} : Woke(t)
<1>1. \A t \in Threads \ {u} : stack'[t] = stack[t] BY DEF Typed
<1>2. \A t \in Threads \ {u} : Woke(t) BY <1>1 DEF Woke
<1> QED BY <1>2 DEF Typed

LEMMA Short ==
  ASSUME NEW S, NEW f \in S, NEW g \in S
  PROVE  /\ <<f>> \in Seq(S) /\ Len(<<f>>) = 1 /\ <<f>>[1] = f
         /\ <<g, f>> \in Seq(S) /\ Len(<<g, f>>) = 2 /\ <<g, f>>[1] = g /\ <<g, f>>[2] = f
         /\ <<>> \o <<f>> = <<f>> /\ <<g>> \o <<f>> = <<g, f>>
<1>1. /\ <<f>> \in Seq(S) /\ Len(<<f>>) = 1 /\ <<f>>[1] = f
      /\ <<g>> \in Seq(S) /\ Len(<<g>>) = 1 /\ <<g>>[1] = g
  OBVIOUS
<1>2. <<g, f>> \in Seq(S) /\ Len(<<g, f>>) = 2 /\ <<g, f>>[1] = g /\ <<g, f>>[2] = f OBVIOUS
<1>3. <<>> \o <<f>> = <<f>> BY <1>1, ConcatEmptySeq
<1>4. <<g>> \o <<f>> = <<g, f>>
  <2>1. /\ <<g>> \o <<f>> \in Seq(S) /\ Len(<<g>> \o <<f>>) = 2
        /\ \A i \in 1 .. 2 : (<<g>> \o <<f>>)[i] = IF i <= 1 THEN <<g>>[i] ELSE <<f>>[i - 1]
    BY <1>1, ConcatProperties
  <2>2. (<<g>> \o <<f>>)[1] = g BY <1>1, <2>1
  <2>3. (<<g>> \o <<f>>)[2] = f
    <3>1. 2 \in 1 .. 2 /\ 2 - 1 = 1 /\ ~(2 <= 1) OBVIOUS
    <3> QED BY <1>1, <2>1, <3>1
  <2>4. ASSUME NEW i \in 1 .. 2 PROVE (<<g>> \o <<f>>)[i] = <<g, f>>[i]
    <3>1. i = 1 \/ i = 2 OBVIOUS
    <3> QED BY <1>2, <2>2, <2>3, <3>1
  <2>5. \A i \in 1 .. Len(<<g>> \o <<f>>) : (<<g>> \o <<f>>)[i] = <<g, f>>[i] BY <2>1, <2>4
  <2> QED BY <1>2, <2>1, <2>5, SeqEqual
<1> QED BY <1>1, <1>2, <1>3, <1>4

LEMMA StackTyped ==
  ASSUME Typed, NEW u \in Threads, NEW s \in Seq(Frames), stack' = [stack EXCEPT ![u] = s]
  PROVE  stack' \in [Threads -> Seq(Frames)]
BY DEF Typed

LEMMA Idle == ASSUME NEW u \in Threads, stack'[u] = <<>> PROVE ThreadOK(u)'
BY DEF ThreadOK

(* Only triggers and removals are above something else.                    *)
LEMMA Alone ==
  ASSUME Typed, NEW u \in Threads, ThreadOK(u), stack[u] # <<>>
  PROVE  /\ Cancelling!Top(u) = stack[u][1] /\ Cancelling!Top(u) \in Frames /\ 1 \in 1 .. Len(stack[u])
         /\ Shape(u, 1) /\ Placed(u, 1) /\ Reaches(u, 1)
         /\ Cancelling!Top(u).op \notin {"trigger", "remove"} =>
              /\ Len(stack[u]) = 1 /\ Tail(stack[u]) = <<>> /\ Cancelling!Pop(u) = [stack EXCEPT ![u] = <<>>]
              /\ Cancelling!Top(u).obj \in Shared \/ Owner[Cancelling!Top(u).obj] = u
<1>1. Cancelling!Top(u) = stack[u][1] /\ Cancelling!Top(u) \in Frames /\ 1 \in 1 .. Len(stack[u]) /\ Len(stack[u]) \in Nat
  BY FrameOf
<1>2. Shape(u, 1) /\ Placed(u, 1) /\ Reaches(u, 1) BY <1>1 DEF ThreadOK
<1>3. ASSUME Cancelling!Top(u).op \notin {"trigger", "remove"}
      PROVE  /\ Len(stack[u]) = 1 /\ Tail(stack[u]) = <<>> /\ Cancelling!Pop(u) = [stack EXCEPT ![u] = <<>>]
             /\ Cancelling!Top(u).obj \in Shared \/ Owner[Cancelling!Top(u).obj] = u
  <2>1. Len(stack[u]) = 1
    <3>1. stack[u][1].op \notin {"trigger", "remove"} BY <1>1, <1>3
    <3>2. ~(1 < Len(stack[u])) BY <1>2, <3>1 DEF Shape
    <3>3. Len(stack[u]) \in Nat BY <1>1
    <3>4. 1 <= Len(stack[u]) BY <1>1
    <3>5. \A n \in Nat : 1 <= n /\ ~(1 < n) => n = 1 OBVIOUS
    <3> QED BY <3>2, <3>3, <3>4, <3>5
  <2>2. Tail(stack[u]) \in Seq(Frames) /\ Len(Tail(stack[u])) = 0 BY <2>1, FrameOf, Popped
  <2>3. Tail(stack[u]) = <<>> BY <2>2, EmptySeq
  <2>4. Cancelling!Pop(u) = [stack EXCEPT ![u] = <<>>] BY <2>3 DEF Cancelling!Pop, Typed
  <2> QED BY <1>1, <1>2, <2>1, <2>3, <2>4 DEF Shape
<1> QED BY <1>1, <1>2, <1>3

(* What a thread does in the tree.                                         *)
LEMMA UserFrame ==
  ASSUME NEW op \in Calls, NEW c \in Objects, NEW arg \in Objects \cup {None} \cup Timeouts
  PROVE  LET f == Cancelling!Frame(op, c, arg) IN
         /\ f \in Frames /\ f.op = op /\ f.obj = c /\ f.arg = arg /\ f.at = "lock" /\ f.todo = {}
BY DEF Cancelling!Frame, Frames

LEMMA OneShape ==
  ASSUME NEW u \in Threads, NEW f, Len(stack'[u]) = 1, stack'[u][1] = f,
         f.op # "remove", f.obj \in Shared \/ Owner[f.obj] = u, f.todo = {},
         f.at # "slaves", f.at = "sleep" => f.op = "wait",
         f.op = "adopt" => f.arg \in Objects /\ Owner[f.arg] = u,
         f.op = "free" => Owner[f.obj] = u /\ f.obj \notin Shared /\ f.at = "lock"
  PROVE  Shape(u, 1)'
BY SMTT(30) DEF Shape

LEMMA OneFrame ==
  ASSUME Typed, NEW u \in Threads, NEW f \in Frames, stack' = [stack EXCEPT ![u] = <<f>>],
         UNCHANGED <<triggered, cb, fd, lock, called, exempt, Cancelling!links>>,
         f.op # "remove", f.obj \in Shared \/ Owner[f.obj] = u, f.obj \in alive, f.todo = {},
         f.at # "slaves", f.at = "sleep" => f.op = "wait",
         f.op = "adopt" => f.arg \in alive /\ Owner[f.arg] = u /\ parent[f.arg] = None,
         f.op = "free" => Owner[f.obj] = u /\ f.obj \notin Shared /\ f.at = "lock"
                          /\ parent[f.obj] = None /\ slaves[f.obj] = {}
  PROVE  ThreadOK(u)' /\ Typed'
<1>1. stack'[u] = <<f>> /\ <<f>> \in Seq(Frames) /\ Len(<<f>>) = 1 /\ <<f>>[1] = f BY OthersSame, Short
<1>8. Len(stack'[u]) = 1 /\ stack'[u][1] = f BY <1>1
<1>2. Typed' BY <1>1, StackTyped DEF Typed, Cancelling!links
<1>3. f.arg \in Objects \/ f.op # "adopt" BY DEF Typed
<1>4. Shape(u, 1)'
  <2>1. f.op = "adopt" => f.arg \in Objects /\ Owner[f.arg] = u BY <1>3
  <2>2. f.op = "free" => Owner[f.obj] = u /\ f.obj \notin Shared /\ f.at = "lock" OBVIOUS
  <2> QED BY <1>8, <2>1, <2>2, OneShape
<1>5. Placed(u, 1)' BY <1>8 DEF Placed, Cancelling!links, Moved
<1>6. Reaches(u, 1)' BY <1>8 DEF Reaches
<1>7. ThreadOK(u)'
  <2>1. \A i \in 1 .. Len(stack'[u]) : i = 1
    <3>1. \A i \in 1 .. 1 : i = 1 OBVIOUS
    <3> QED BY <1>8, <3>1
  <2> QED BY <2>1, <1>4, <1>5, <1>6 DEF ThreadOK
<1> QED BY <1>2, <1>7

LEMMA TwoFrames ==
  ASSUME Typed, NEW u \in Threads, NEW f \in Frames, NEW g \in Frames,
         stack' = [stack EXCEPT ![u] = <<g, f>>],
         UNCHANGED <<triggered, cb, fd, lock, called, exempt, Cancelling!links>>,
         f.op \in {"adopt", "free"}, f.obj \in Shared \/ Owner[f.obj] = u, f.obj \in alive, f.todo = {},
         f.at = "lock", Moved(f) \in alive, Owner[Moved(f)] = u,
         f.op = "free" => f.obj \notin Shared /\ slaves[f.obj] = {},
         g.op = "remove", g.at = "lock", g.todo = {}, g.arg = Moved(f), g.obj = parent[Moved(f)], g.obj \in alive
  PROVE  ThreadOK(u)' /\ Typed'
<1>1. stack'[u] = <<g, f>> /\ <<g, f>> \in Seq(Frames) /\ Len(<<g, f>>) = 2 /\ <<g, f>>[1] = g /\ <<g, f>>[2] = f
  BY OthersSame, Short
<1>8. Len(stack'[u]) = 2 /\ stack'[u][1] = g /\ stack'[u][2] = f BY <1>1
<1>2. Typed' BY <1>1, StackTyped DEF Typed, Cancelling!links
<1>3. f.op = "adopt" => f.arg \in Objects BY DEF Typed, Moved
<1>4. Shape(u, 1)' /\ Shape(u, 2)' BY <1>8, <1>3 DEF Shape, Moved
<1>5. Placed(u, 1)' /\ Placed(u, 2)' BY <1>8 DEF Placed, Cancelling!links, Moved
<1>6. Reaches(u, 1)' /\ Reaches(u, 2)' BY <1>8 DEF Reaches
<1>7. ThreadOK(u)'
  <2>1. \A i \in 1 .. Len(stack'[u]) : i = 1 \/ i = 2
    <3>1. \A i \in 1 .. 2 : i = 1 \/ i = 2 OBVIOUS
    <3> QED BY <1>8, <3>1
  <2> QED BY <2>1, <1>4, <1>5, <1>6 DEF ThreadOK
<1> QED BY <1>2, <1>7

LEMMA StateSame ==
  ASSUME CInv, NEW u \in Threads, UNCHANGED <<triggered, cb, fd, lock, called, exempt, Cancelling!links>>
  PROVE  Framed(u) /\ Linked' /\ Cancelling!TriggerComplete'
<1>1. Framed(u) BY DEF Framed, Cancelling!links
<1>2. Linked' BY DEF CInv, Linked, Cancelling!links
<1>3. Cancelling!TriggerComplete' BY DEF CInv, Cancelling!TriggerComplete, Cancelling!links
<1> QED BY <1>1, <1>2, <1>3

LEMMA BeginStep == ASSUME Cancelling!CancelAssumption, CInv, NEW u \in Threads, Cancelling!Begin(u) PROVE CInv'
<1>1. Typed /\ Linked BY DEF CInv
<1>2. UNCHANGED <<triggered, cb, fd, lock, called, exempt, Cancelling!links>> /\ stack[u] = <<>> BY DEF Cancelling!Begin
<1>3. PICK c \in alive :
       /\ c \in Shared \/ Owner[c] = u
       /\ \/ \E op \in {"trigger", "reset", "set_cb", "get_fd"} :
               stack' = [stack EXCEPT ![u] = <<Cancelling!Frame(op, c, None)>>]
          \/ \E timeout \in Timeouts :
               stack' = [stack EXCEPT ![u] = <<Cancelling!Frame("wait", c, timeout)>>]
          \/ \E q \in alive :
               /\ Owner[c] = u /\ <<c, q>> \in CanBeParent /\ parent[c] # q
               /\ stack' = [stack EXCEPT ![u] = Cancelling!Leave(c) \o <<Cancelling!Frame("adopt", q, c)>>]
          \/ /\ Owner[c] = u /\ c \notin Shared /\ slaves[c] = {}
             /\ stack' = [stack EXCEPT ![u] = Cancelling!Leave(c) \o <<Cancelling!Frame("free", c, None)>>]
  BY DEF Cancelling!Begin
<1>9. c \in alive /\ (c \in Shared \/ Owner[c] = u) BY <1>3
<1>4. c \in Objects /\ alive \subseteq Objects BY <1>1 DEF Typed
<1>5. \A q \in alive : Cancelling!Frame("adopt", q, c) \in Frames /\ Cancelling!Frame("free", c, None) \in Frames BY <1>4, UserFrame DEF Calls
<1>6. /\ parent[c] = None => Cancelling!Leave(c) = <<>>
      /\ parent[c] # None => /\ Cancelling!Leave(c) = <<Cancelling!Frame("remove", parent[c], c)>>
                             /\ parent[c] \in alive /\ Cancelling!Frame("remove", parent[c], c) \in Frames
  <2>1. parent[c] # None => parent[c] \in alive BY <1>1, <1>4 DEF Linked
  <2> QED BY <1>4, <2>1, UserFrame DEF Cancelling!Leave, Calls
<1>7. \A f \in Frames : /\ parent[c] = None => Cancelling!Leave(c) \o <<f>> = <<f>>
                        /\ parent[c] # None => Cancelling!Leave(c) \o <<f>> = <<Cancelling!Frame("remove", parent[c], c), f>>
  <2> SUFFICES ASSUME NEW f \in Frames
               PROVE  /\ parent[c] = None => Cancelling!Leave(c) \o <<f>> = <<f>>
                      /\ parent[c] # None => Cancelling!Leave(c) \o <<f>> = <<Cancelling!Frame("remove", parent[c], c), f>>
    BY Zenon
  <2>1. parent[c] = None => Cancelling!Leave(c) \o <<f>> = <<f>>
    <3> SUFFICES ASSUME parent[c] = None PROVE Cancelling!Leave(c) \o <<f>> = <<f>> OBVIOUS
    <3>1. Cancelling!Leave(c) = <<>> BY <1>6
    <3> QED BY <3>1, Short
  <2>2. parent[c] # None => Cancelling!Leave(c) \o <<f>> = <<Cancelling!Frame("remove", parent[c], c), f>>
    <3> SUFFICES ASSUME parent[c] # None PROVE Cancelling!Leave(c) \o <<f>> = <<Cancelling!Frame("remove", parent[c], c), f>> OBVIOUS
    <3>1. Cancelling!Leave(c) = <<Cancelling!Frame("remove", parent[c], c)>> /\ Cancelling!Frame("remove", parent[c], c) \in Frames BY <1>6
    <3> QED BY <3>1, Short
  <2> QED BY <2>1, <2>2
<1>8. ThreadOK(u)' /\ Typed' /\ \A t \in Threads \ {u} : Woke(t)
  <2>1. CASE \E op \in {"trigger", "reset", "set_cb", "get_fd"} : stack' = [stack EXCEPT ![u] = <<Cancelling!Frame(op, c, None)>>]
    <3>1. PICK op \in {"trigger", "reset", "set_cb", "get_fd"} : stack' = [stack EXCEPT ![u] = <<Cancelling!Frame(op, c, None)>>]
      BY <2>1
    <3>2. op \in Calls BY DEF Calls
    <3>3. LET f == Cancelling!Frame(op, c, None) IN
          f \in Frames /\ f.op = op /\ f.obj = c /\ f.at = "lock" /\ f.todo = {}
      BY <1>4, <3>2, UserFrame
    <3>4. ThreadOK(u)' /\ Typed' BY <1>1, <1>2, <1>3, <3>1, <3>3, OneFrame
    <3> QED BY <1>1, <3>1, <3>4, OthersSame
  <2>2. CASE \E timeout \in Timeouts : stack' = [stack EXCEPT ![u] = <<Cancelling!Frame("wait", c, timeout)>>]
    <3>1. PICK timeout \in Timeouts : stack' = [stack EXCEPT ![u] = <<Cancelling!Frame("wait", c, timeout)>>]
      BY <2>2
    <3>3. LET f == Cancelling!Frame("wait", c, timeout) IN
          f \in Frames /\ f.op = "wait" /\ f.obj = c /\ f.at = "lock" /\ f.todo = {}
      BY <1>4, UserFrame DEF Calls
    <3>4. ThreadOK(u)' /\ Typed' BY <1>1, <1>2, <1>3, <3>1, <3>3, OneFrame
    <3> QED BY <1>1, <3>1, <3>4, OthersSame
  <2>3. CASE \E q \in alive : /\ Owner[c] = u /\ <<c, q>> \in CanBeParent /\ parent[c] # q
                              /\ stack' = [stack EXCEPT ![u] = Cancelling!Leave(c) \o <<Cancelling!Frame("adopt", q, c)>>]
    <3>1. PICK q \in alive : /\ Owner[c] = u /\ <<c, q>> \in CanBeParent /\ parent[c] # q
                             /\ stack' = [stack EXCEPT ![u] = Cancelling!Leave(c) \o <<Cancelling!Frame("adopt", q, c)>>]
      BY <2>3
    <3>2. q \in Shared \/ Owner[q] = u BY <3>1 DEF Cancelling!CancelAssumption
    <3>3. LET f == Cancelling!Frame("adopt", q, c) IN
          /\ f \in Frames /\ f.op = "adopt" /\ f.obj = q /\ f.arg = c /\ f.at = "lock" /\ f.todo = {} /\ Moved(f) = c
      BY <1>4, UserFrame DEF Calls, Moved
    <3>4. CASE parent[c] = None
      <4>1. stack' = [stack EXCEPT ![u] = <<Cancelling!Frame("adopt", q, c)>>] BY <1>7, <3>1, <3>3, <3>4
      <4> DEFINE f == Cancelling!Frame("adopt", q, c)
      <4>3. /\ f \in Frames /\ f.op = "adopt" /\ f.obj = q /\ f.arg = c /\ f.at = "lock" /\ f.todo = {}
            /\ stack' = [stack EXCEPT ![u] = <<f>>]
        BY <3>3, <4>1
      <4> HIDE DEF f
      <4>4. /\ f.op # "remove" /\ f.op # "free" /\ (f.obj \in Shared \/ Owner[f.obj] = u) /\ f.obj \in alive
            /\ f.at # "slaves" /\ f.at # "sleep" /\ f.arg \in alive /\ Owner[f.arg] = u /\ parent[f.arg] = None
        BY <1>9, <3>1, <3>2, <3>4, <4>3
      <4>2. ThreadOK(u)' /\ Typed' BY <1>1, <1>2, <4>3, <4>4, OneFrame
      <4> QED BY <1>1, <4>1, <4>2, OthersSame
    <3>5. CASE parent[c] # None
      <4>1. stack' = [stack EXCEPT ![u] = <<Cancelling!Frame("remove", parent[c], c), Cancelling!Frame("adopt", q, c)>>]
        BY <1>7, <3>1, <3>3, <3>5
      <4>2. LET g == Cancelling!Frame("remove", parent[c], c) IN
            /\ g \in Frames /\ g.op = "remove" /\ g.at = "lock" /\ g.todo = {} /\ g.arg = c
            /\ g.obj = parent[c] /\ g.obj \in alive
        BY <1>6, <3>5 DEF Cancelling!Frame
      <4> DEFINE f == Cancelling!Frame("adopt", q, c)
                 g == Cancelling!Frame("remove", parent[c], c)
      <4>4. f \in Frames /\ f.op = "adopt" /\ f.obj = q /\ f.at = "lock" /\ f.todo = {} /\ Moved(f) = c BY <3>3
      <4>5. g \in Frames /\ g.op = "remove" /\ g.at = "lock" /\ g.todo = {} /\ g.arg = c /\ g.obj = parent[c] /\ g.obj \in alive
        BY <4>2
      <4>6. stack' = [stack EXCEPT ![u] = <<g, f>>] BY <4>1
      <4> HIDE DEF f, g
      <4>7. /\ f.op \in {"adopt", "free"} /\ (f.obj \in Shared \/ Owner[f.obj] = u) /\ f.obj \in alive /\ f.todo = {}
            /\ f.at = "lock" /\ Moved(f) \in alive /\ Owner[Moved(f)] = u
            /\ f.op = "free" => f.obj \notin Shared /\ slaves[f.obj] = {}
            /\ g.op = "remove" /\ g.at = "lock" /\ g.todo = {} /\ g.arg = Moved(f) /\ g.obj = parent[Moved(f)] /\ g.obj \in alive
        BY <1>9, <3>1, <3>2, <4>4, <4>5
      <4>3. ThreadOK(u)' /\ Typed' BY <1>1, <1>2, <4>4, <4>5, <4>6, <4>7, TwoFrames
      <4> QED BY <1>1, <4>1, <4>3, OthersSame
    <3> QED BY <3>4, <3>5
  <2>4. CASE /\ Owner[c] = u /\ c \notin Shared /\ slaves[c] = {}
             /\ stack' = [stack EXCEPT ![u] = Cancelling!Leave(c) \o <<Cancelling!Frame("free", c, None)>>]
    <3>3. LET f == Cancelling!Frame("free", c, None) IN
          /\ f \in Frames /\ f.op = "free" /\ f.obj = c /\ f.at = "lock" /\ f.todo = {} /\ Moved(f) = c
      BY <1>4, UserFrame DEF Calls, Moved
    <3>4. CASE parent[c] = None
      <4>1. stack' = [stack EXCEPT ![u] = <<Cancelling!Frame("free", c, None)>>] BY <1>7, <2>4, <3>3, <3>4
      <4> DEFINE f == Cancelling!Frame("free", c, None)
      <4>3. /\ f \in Frames /\ f.op = "free" /\ f.obj = c /\ f.at = "lock" /\ f.todo = {}
            /\ stack' = [stack EXCEPT ![u] = <<f>>]
        BY <3>3, <4>1
      <4> HIDE DEF f
      <4>4. /\ f.op # "remove" /\ f.op # "adopt" /\ (f.obj \in Shared \/ Owner[f.obj] = u) /\ f.obj \in alive
            /\ f.at # "slaves" /\ f.at # "sleep" /\ Owner[f.obj] = u /\ f.obj \notin Shared
            /\ parent[f.obj] = None /\ slaves[f.obj] = {}
        BY <1>9, <2>4, <3>4, <4>3
      <4>2. ThreadOK(u)' /\ Typed' BY <1>1, <1>2, <4>3, <4>4, OneFrame
      <4> QED BY <1>1, <4>1, <4>2, OthersSame
    <3>5. CASE parent[c] # None
      <4>1. stack' = [stack EXCEPT ![u] = <<Cancelling!Frame("remove", parent[c], c), Cancelling!Frame("free", c, None)>>]
        BY <1>7, <2>4, <3>3, <3>5
      <4>2. LET g == Cancelling!Frame("remove", parent[c], c) IN
            /\ g \in Frames /\ g.op = "remove" /\ g.at = "lock" /\ g.todo = {} /\ g.arg = c
            /\ g.obj = parent[c] /\ g.obj \in alive
        BY <1>6, <3>5 DEF Cancelling!Frame
      <4> DEFINE f == Cancelling!Frame("free", c, None)
                 g == Cancelling!Frame("remove", parent[c], c)
      <4>4. f \in Frames /\ f.op = "free" /\ f.obj = c /\ f.at = "lock" /\ f.todo = {} /\ Moved(f) = c BY <3>3
      <4>5. g \in Frames /\ g.op = "remove" /\ g.at = "lock" /\ g.todo = {} /\ g.arg = c /\ g.obj = parent[c] /\ g.obj \in alive
        BY <4>2
      <4>6. stack' = [stack EXCEPT ![u] = <<g, f>>] BY <4>1
      <4> HIDE DEF f, g
      <4>7. /\ f.op \in {"adopt", "free"} /\ (f.obj \in Shared \/ Owner[f.obj] = u) /\ f.obj \in alive /\ f.todo = {}
            /\ f.at = "lock" /\ Moved(f) \in alive /\ Owner[Moved(f)] = u
            /\ f.op = "free" => f.obj \notin Shared /\ slaves[f.obj] = {}
            /\ g.op = "remove" /\ g.at = "lock" /\ g.todo = {} /\ g.arg = Moved(f) /\ g.obj = parent[Moved(f)] /\ g.obj \in alive
        BY <1>9, <2>4, <4>4, <4>5
      <4>3. ThreadOK(u)' /\ Typed' BY <1>1, <1>2, <4>4, <4>5, <4>6, <4>7, TwoFrames
      <4> QED BY <1>1, <4>1, <4>3, OthersSame
    <3> QED BY <3>4, <3>5
  <2> QED BY <1>3, <2>1, <2>2, <2>3, <2>4
<1> QED BY <1>2, <1>8, StateSame, Combine

-----------------------------------------------------------------------------
LEMMA ResetStep == ASSUME Cancelling!CancelAssumption, CInv, NEW u \in Threads, Cancelling!Reset(u) PROVE CInv'
<1> DEFINE c == Cancelling!Top(u).obj
<1>1. Typed /\ Linked /\ ThreadOK(u) /\ Cancelling!TriggerComplete BY DEF CInv
<1>2. /\ stack[u] # <<>> /\ Cancelling!Top(u).op = "reset" /\ lock[c] = None /\ stack' = Cancelling!Pop(u)
      /\ triggered' = [triggered EXCEPT ![c] = FALSE] /\ fd' = [fd EXCEPT ![c] = Cancelling!Flushed(@)]
      /\ exempt' = [exempt EXCEPT ![c] = TRUE] /\ called' = [called EXCEPT ![c] = FALSE]
      /\ UNCHANGED <<cb, lock, ops, Cancelling!links>>
  BY DEF Cancelling!Reset, Cancelling!Doing
<1>3. stack' = [stack EXCEPT ![u] = <<>>] /\ c \in Objects BY <1>1, <1>2, Alone DEF Frames
<1> HIDE DEF c
<1>4. stack'[u] = <<>> /\ \A t \in Threads \ {u} : Woke(t) BY <1>1, <1>3, OthersSame
<1>5. Framed(u) BY <1>1, <1>2, <1>3 DEF Framed, Cancelling!links, Typed
<1>6. Typed'
  <2>1. stack' \in [Threads -> Seq(Frames)] BY <1>1, <1>3, EmptySeq, StackTyped
  <2>2. Cancelling!Flushed(fd[c]) \in {"none", "empty"} BY DEF Cancelling!Flushed
  <2> QED BY <1>1, <1>2, <1>3, <2>1, <2>2 DEF Typed, Cancelling!links
<1>7. Linked' BY <1>1, <1>2 DEF Linked, Cancelling!links
<1>8. Cancelling!TriggerComplete'
  <2> SUFFICES ASSUME NEW x \in alive, lock[x] = None
               PROVE  /\ fd'[x] # "none" => (fd'[x] = "readable") = triggered'[x]
                      /\ triggered'[x] /\ cb[x] => called'[x]
                      /\ triggered'[x] => \A s \in slaves[x] : triggered'[s] \/ exempt'[s]
    BY <1>2 DEF Cancelling!TriggerComplete, Cancelling!links
  <2>1. CASE x = c BY <1>1, <1>2, <1>3, <2>1 DEF Typed, Cancelling!Flushed
  <2>2. CASE x # c
    <3>1. triggered'[x] = triggered[x] /\ called'[x] = called[x] /\ fd'[x] = fd[x]
      BY <1>1, <1>2, <2>2 DEF Typed
    <3>2. \A s \in slaves[x] : triggered[s] \/ exempt[s] => triggered'[s] \/ exempt'[s]
      BY <1>1, <1>2, <1>3 DEF Typed
    <3> QED BY <1>1, <3>1, <3>2 DEF Cancelling!TriggerComplete
  <2> QED BY <2>1, <2>2
<1> QED BY <1>4, <1>5, <1>6, <1>7, <1>8, Idle, Combine

LEMMA DestroyStep == ASSUME Cancelling!CancelAssumption, CInv, NEW u \in Threads, Cancelling!Destroy(u) PROVE CInv'
<1> DEFINE c == Cancelling!Top(u).obj
<1>1. Typed /\ Linked /\ ThreadOK(u) /\ Cancelling!TriggerComplete BY DEF CInv
<1>2. /\ stack[u] # <<>> /\ Cancelling!Top(u).op = "free" /\ Cancelling!Top(u).at = "lock" /\ stack' = Cancelling!Pop(u) /\ alive' = alive \ {c}
      /\ UNCHANGED <<triggered, cb, fd, slaves, parent, lock, ops, called, exempt>>
  BY DEF Cancelling!Destroy, Cancelling!Doing
<1>3. stack' = [stack EXCEPT ![u] = <<>>] /\ c \in Objects BY <1>1, <1>2, Alone DEF Frames
<1>4. Owner[c] = u /\ c \notin Shared /\ slaves[c] = {} /\ parent[c] = None
  <2>1. Cancelling!Top(u) = stack[u][1] /\ Shape(u, 1) /\ Placed(u, 1) BY <1>1, <1>2, Alone
  <2>2. Owner[c] = u /\ c \notin Shared BY <1>2, <2>1 DEF Shape
  <2>3. slaves[c] = {} BY <1>2, <2>1 DEF Placed
  <2>4. parent[c] = None BY <1>2, <2>1 DEF Placed, Moved
  <2> QED BY <2>2, <2>3, <2>4
<1> HIDE DEF c
<1>5. stack'[u] = <<>> /\ \A t \in Threads \ {u} : Woke(t) BY <1>1, <1>3, OthersSame
<1>6. Framed(u) BY <1>2, <1>4 DEF Framed
<1>7. Typed'
  <2>1. stack' \in [Threads -> Seq(Frames)] BY <1>1, <1>3, EmptySeq, StackTyped
  <2> QED BY <1>1, <1>2, <2>1 DEF Typed
<1>8. Linked'
  <2>1. \A s \in Objects : parent[s] # c BY <1>1, <1>3, <1>4 DEF Linked
  <2> QED BY <1>1, <1>2, <1>4, <2>1 DEF Linked
<1>9. Cancelling!TriggerComplete' BY <1>1, <1>2 DEF Cancelling!TriggerComplete
<1> QED BY <1>5, <1>6, <1>7, <1>8, <1>9, Idle, Combine

LEMMA WaitStep == ASSUME Cancelling!CancelAssumption, CInv, NEW u \in Threads, Cancelling!Sleep(u) \/ Cancelling!Timeout(u) PROVE CInv'
<1>1. Typed /\ Linked /\ ThreadOK(u) BY DEF CInv
<1> DEFINE f == [Cancelling!Top(u) EXCEPT !.at = "sleep"]
<1>2. /\ stack[u] # <<>> /\ Cancelling!Top(u).op = "wait" /\ Cancelling!Top(u).at \in {"lock", "sleep"}
      /\ stack' = Cancelling!Pop(u) \/ stack' = [stack EXCEPT ![u] = <<f>> \o Tail(@)]
      /\ UNCHANGED <<triggered, cb, fd, lock, ops, called, exempt, Cancelling!links>>
  BY DEF Cancelling!Sleep, Cancelling!Timeout, Cancelling!Doing
<1>3. /\ Cancelling!Top(u) \in Frames /\ Cancelling!Pop(u) = [stack EXCEPT ![u] = <<>>] /\ Tail(stack[u]) = <<>>
      /\ Cancelling!Top(u).obj \in Shared \/ Owner[Cancelling!Top(u).obj] = u
      /\ Shape(u, 1) /\ Placed(u, 1) /\ Cancelling!Top(u) = stack[u][1]
  BY <1>1, <1>2, Alone
<1>4. Cancelling!Top(u).obj \in alive /\ Cancelling!Top(u).todo = {} BY <1>2, <1>3 DEF Shape, Placed
<1>5. f \in Frames /\ f.op = "wait" /\ f.obj = Cancelling!Top(u).obj /\ f.todo = {} /\ f.at = "sleep"
  BY <1>2, <1>3, <1>4 DEF Frames
<1>6. CASE stack' = Cancelling!Pop(u)
  <2>1. stack' = [stack EXCEPT ![u] = <<>>] BY <1>3, <1>6
  <2>2. stack'[u] = <<>> /\ \A t \in Threads \ {u} : Woke(t) BY <1>1, <2>1, OthersSame
  <2>3. Typed'
    <3>1. stack' \in [Threads -> Seq(Frames)] BY <1>1, <2>1, EmptySeq, StackTyped
    <3> QED BY <1>1, <1>2, <3>1 DEF Typed, Cancelling!links
  <2> QED BY <1>2, <2>2, <2>3, StateSame, Idle, Combine
<1>7. CASE stack' = [stack EXCEPT ![u] = <<f>> \o Tail(@)]
  <2>1. stack' = [stack EXCEPT ![u] = <<f>> \o Tail(stack[u])] BY <1>1, <1>7 DEF Typed, Cancelling!Top
  <2>2. <<f>> \o Tail(stack[u]) = <<f>>
    <3>1. <<f>> \in Seq(Frames) BY <1>5, Short
    <3> QED BY <1>3, <3>1, ConcatEmptySeq
  <2>3. stack' = [stack EXCEPT ![u] = <<f>>] BY <2>1, <2>2
  <2> HIDE DEF f
  <2>4. ThreadOK(u)' /\ Typed' BY <1>1, <1>2, <1>3, <1>4, <1>5, <2>3, OneFrame
  <2>5. \A t \in Threads \ {u} : Woke(t) BY <1>1, <2>3, OthersSame
  <2> QED BY <1>2, <2>4, <2>5, StateSame, Combine
<1> QED BY <1>2, <1>6, <1>7

LEMMA RemoveStep == ASSUME Cancelling!CancelAssumption, CInv, NEW u \in Threads, Cancelling!Remove(u) PROVE CInv'
<1> DEFINE p == Cancelling!Top(u).obj
           x == Cancelling!Top(u).arg
           f == stack[u][2]
<1>1. Typed /\ Linked /\ ThreadOK(u) /\ Cancelling!TriggerComplete BY DEF CInv
<1>2. /\ stack[u] # <<>> /\ Cancelling!Top(u).op = "remove" /\ lock[p] = None /\ stack' = Cancelling!Pop(u)
      /\ slaves' = [slaves EXCEPT ![p] = @ \ {x}] /\ parent' = [parent EXCEPT ![x] = None]
      /\ UNCHANGED <<triggered, cb, fd, lock, alive, ops, called, exempt>>
  BY DEF Cancelling!Remove, Cancelling!Doing, Cancelling!Free
<1>3. Cancelling!Top(u) = stack[u][1] /\ Cancelling!Top(u) \in Frames /\ Shape(u, 1) /\ Placed(u, 1) BY <1>1, <1>2, Alone
<1>4. /\ Len(stack[u]) = 2 /\ f.at = "lock" /\ f.op \in {"adopt", "free"} /\ x = Moved(f) /\ parent[x] = p
  BY <1>2, <1>3 DEF Shape, Placed
<1>5. f \in Frames /\ Shape(u, 2) /\ Placed(u, 2)
  <2>1. 2 \in 1 .. Len(stack[u]) BY <1>4
  <2> QED BY <1>1, <2>1, FrameOf DEF ThreadOK
<1>6. /\ p \in Objects /\ x \in Objects /\ Owner[x] = u /\ f.todo = {}
      /\ f.obj \in Shared \/ Owner[f.obj] = u
      /\ f.obj \in alive /\ f.obj \in Objects
      /\ f.op = "adopt" => f.arg \in alive /\ f.arg \in Objects /\ Owner[f.arg] = u
      /\ f.op = "free" => slaves[f.obj] = {} /\ Owner[f.obj] = u /\ f.obj \notin Shared
  <2>1. p \in Objects /\ f.obj \in Objects BY <1>3, <1>5 DEF Frames
  <2>2. f.op = "adopt" => f.arg \in alive /\ f.arg \in Objects /\ Owner[f.arg] = u BY <1>5 DEF Shape, Placed
  <2>3. f.op = "free" => slaves[f.obj] = {} /\ Owner[f.obj] = u /\ f.obj \notin Shared BY <1>5 DEF Shape, Placed
  <2>4. x \in Objects /\ Owner[x] = u BY <1>4, <2>1, <2>2, <2>3 DEF Moved
  <2>5. f.todo = {} /\ f.obj \in alive BY <1>4, <1>5 DEF Shape, Placed
  <2>6. f.obj \in Shared \/ Owner[f.obj] = u BY <1>4, <1>5 DEF Shape
  <2> QED BY <2>1, <2>2, <2>3, <2>4, <2>5, <2>6
<1>7. stack' = [stack EXCEPT ![u] = Tail(stack[u])] /\ Tail(stack[u]) \in Seq(Frames)
      /\ Len(Tail(stack[u])) = 1 /\ Tail(stack[u])[1] = f
  <2>1. stack' = [stack EXCEPT ![u] = Tail(stack[u])] BY <1>1, <1>2 DEF Cancelling!Pop, Typed
  <2>2. stack[u] \in Seq(Frames) BY <1>1, FrameOf
  <2>3. /\ Tail(stack[u]) \in Seq(Frames) /\ Len(Tail(stack[u])) = Len(stack[u]) - 1
        /\ \A i \in 1 .. Len(stack[u]) - 1 : Tail(stack[u])[i] = stack[u][i + 1]
    BY <1>2, <2>2, Popped
  <2>4. 1 \in 1 .. Len(stack[u]) - 1 BY <1>4
  <2> QED BY <1>4, <2>1, <2>3, <2>4
<1>8. /\ \A y \in Objects : slaves'[y] \subseteq slaves[y] /\ (y # p => slaves'[y] = slaves[y])
      /\ \A y \in Objects : parent'[y] = IF y = x THEN None ELSE parent[y]
      /\ slaves'[p] = slaves[p] \ {x}
  BY <1>1, <1>2, <1>6 DEF Typed
<1> HIDE DEF p, x, f
<1>9. Len(stack'[u]) = 1 /\ stack'[u][1] = f /\ \A t \in Threads \ {u} : Woke(t) BY <1>1, <1>7, OthersSame
<1>10. Framed(u) BY <1>2, <1>6, <1>8 DEF Framed
<1>11. Typed'
  <2>1. stack' \in [Threads -> Seq(Frames)] BY <1>1, <1>7, StackTyped
  <2>2. slaves' \in [Objects -> SUBSET Objects] /\ parent' \in [Objects -> Objects \cup {None}]
    BY <1>1, <1>2 DEF Typed
  <2> QED BY <1>1, <1>2, <2>1, <2>2 DEF Typed
<1>12. Linked'
  <2>1. \A s, c \in Objects : s \in slaves'[c] <=> parent'[s] = c
    BY <1>1, <1>4, <1>6, <1>8 DEF Linked, Cancelling!CancelAssumption
  <2>2. \A s \in Objects : parent'[s] # None => s \in alive /\ parent'[s] \in alive BY <1>1, <1>8 DEF Linked
  <2> QED BY <1>2, <2>1, <2>2 DEF Linked
<1>13. Cancelling!TriggerComplete' BY <1>1, <1>2, <1>8 DEF Cancelling!TriggerComplete, Typed
<1>14. ThreadOK(u)'
  <2>1. Shape(u, 1)' BY <1>4, <1>6, <1>9 DEF Shape
  <2>2. parent'[Moved(f)] = None BY <1>4, <1>6, <1>8
  <2>3. f.op = "free" => slaves'[f.obj] = {} BY <1>6, <1>8
  <2>4. Placed(u, 1)' BY <1>2, <1>4, <1>6, <1>9, <2>2, <2>3 DEF Placed, Moved
  <2>5. Reaches(u, 1)' BY <1>4, <1>9 DEF Reaches
  <2>6. \A i \in 1 .. Len(stack'[u]) : i = 1
    <3>1. \A i \in 1 .. 1 : i = 1 OBVIOUS
    <3> QED BY <1>9, <3>1
  <2> QED BY <2>1, <2>4, <2>5, <2>6 DEF ThreadOK
<1> QED BY <1>9, <1>10, <1>11, <1>12, <1>13, <1>14, Combine

-----------------------------------------------------------------------------
(* Below a frame that triggers its slaves there are only such frames, and  *)
(* they wait for nothing but the frames above them.                        *)
LEMMA Chain ==
  ASSUME Typed, NEW u \in Threads, ThreadOK(u), stack[u] # <<>>,
         Cancelling!Top(u).at = "slaves" \/ Cancelling!Top(u).op = "trigger", NEW i \in 1 .. Len(stack[u]),
         i = 1 => Cancelling!Top(u).at = "slaves"
  PROVE  /\ stack[u][i].at = "slaves" /\ stack[u][i].op \in {"trigger", "set_cb", "get_fd", "adopt"}
         /\ i < Len(stack[u]) => stack[u][i].op = "trigger"
         /\ stack[u][i] \in Frames
<1>1. Shape(u, i) /\ stack[u][i] \in Frames /\ Cancelling!Top(u) = stack[u][1] /\ Shape(u, 1) BY Alone, FrameOf DEF ThreadOK
<1>2. stack[u][1].op # "remove" BY <1>1 DEF Shape
<1>3. stack[u][i].at = "slaves" BY <1>1, <1>2 DEF Shape
<1>4. stack[u][i].op \in {"trigger", "set_cb", "get_fd", "adopt"} BY <1>1, <1>3 DEF Shape
<1>5. i < Len(stack[u]) => stack[u][i].op = "trigger" BY <1>1, <1>4 DEF Shape
<1> QED BY <1>1, <1>3, <1>4, <1>5

LEMMA TriggerSlaveStep == ASSUME Cancelling!CancelAssumption, CInv, NEW u \in Threads, Cancelling!TriggerSlave(u) PROVE CInv'
<1>1. Typed /\ Linked /\ ThreadOK(u) BY DEF CInv
<1>2. /\ stack[u] # <<>> /\ Cancelling!Top(u).at = "slaves"
      /\ UNCHANGED <<triggered, cb, fd, lock, ops, called, exempt, Cancelling!links>>
  BY DEF Cancelling!TriggerSlave
<1>3. PICK s \in Cancelling!Top(u).todo :
        stack' = [stack EXCEPT ![u] = <<Cancelling!Frame("trigger", s, None), [Cancelling!Top(u) EXCEPT !.todo = @ \ {s}]>> \o Tail(@)]
  BY DEF Cancelling!TriggerSlave
<1> DEFINE n == Len(stack[u])
           f == Cancelling!Frame("trigger", s, None)
           g == [Cancelling!Top(u) EXCEPT !.todo = @ \ {s}]
           c == Cancelling!Top(u).obj
<1>4. Cancelling!Top(u) = stack[u][1] /\ Cancelling!Top(u) \in Frames /\ Shape(u, 1) /\ Placed(u, 1) /\ Reaches(u, 1) /\ n \in Nat /\ n >= 1
  BY <1>1, <1>2, Alone, FrameOf
<1>5. s \in Objects /\ s \in slaves[c] /\ s \in alive /\ c \in Objects
  <2>1. s \in Objects /\ c \in Objects BY <1>3, <1>4 DEF Frames
  <2>2. s \in slaves[c] BY <1>2, <1>3, <1>4 DEF Placed
  <2>3. s \in alive BY <1>1, <2>1, <2>2 DEF Linked, Cancelling!CancelAssumption
  <2> QED BY <2>1, <2>2, <2>3
<1>6. f \in Frames /\ f.op = "trigger" /\ f.obj = s /\ f.at = "lock" /\ f.todo = {}
  BY <1>5, UserFrame DEF Calls
<1>7. g \in Frames /\ g.op = Cancelling!Top(u).op /\ g.obj = c /\ g.arg = Cancelling!Top(u).arg /\ g.at = "slaves" /\ g.todo = Cancelling!Top(u).todo \ {s}
  BY <1>2, <1>4 DEF Frames
<1>8. stack' = [stack EXCEPT ![u] = <<f, g>> \o Tail(stack[u])] BY <1>3
<1> HIDE DEF f, g, c
<1>9. /\ <<f, g>> \o Tail(stack[u]) \in Seq(Frames) /\ Len(<<f, g>> \o Tail(stack[u])) = n + 1
      /\ (<<f, g>> \o Tail(stack[u]))[1] = f /\ (<<f, g>> \o Tail(stack[u]))[2] = g
      /\ \A i \in 3 .. n + 1 : (<<f, g>> \o Tail(stack[u]))[i] = stack[u][i - 1]
  BY <1>1, <1>2, <1>6, <1>7, FrameOf, Pushed
<1>10. /\ Len(stack'[u]) = n + 1 /\ stack'[u][1] = f /\ stack'[u][2] = g
       /\ \A i \in 3 .. n + 1 : stack'[u][i] = stack[u][i - 1]
       /\ \A t \in Threads \ {u} : Woke(t)
  BY <1>1, <1>8, <1>9, OthersSame
<1>11. Typed'
  <2>1. stack' \in [Threads -> Seq(Frames)] BY <1>1, <1>8, <1>9, StackTyped
  <2> QED BY <1>1, <1>2, <2>1 DEF Typed, Cancelling!links
<1> HIDE DEF n
(* The frames below move down by one.                                      *)
<1>12. \A i \in 2 .. n + 1 :
         /\ i - 1 \in 1 .. n /\ stack'[u][i].op = stack[u][i - 1].op /\ stack'[u][i].obj = stack[u][i - 1].obj
         /\ stack'[u][i].arg = stack[u][i - 1].arg /\ stack'[u][i].at = "slaves" /\ stack[u][i - 1].at = "slaves"
         /\ stack'[u][i].todo = IF i = 2 THEN g.todo ELSE stack[u][i - 1].todo
         /\ stack'[u][i].op \in {"trigger", "set_cb", "get_fd", "adopt"}
         /\ i < n + 1 => stack'[u][i].op = "trigger"
  <2> TAKE i \in 2 .. n + 1
  <2>1. i - 1 \in 1 .. n BY <1>4
  <2>2. /\ stack[u][i - 1].at = "slaves" /\ stack[u][i - 1].op \in {"trigger", "set_cb", "get_fd", "adopt"}
        /\ i - 1 < n => stack[u][i - 1].op = "trigger"
    BY <1>1, <1>2, <2>1, Chain DEF n
  <2>3. i - 1 < n <=> i < n + 1 BY <1>4
  <2>4. CASE i = 2
    <3>1. i - 1 = 1 BY <2>4
    <3> QED BY <1>4, <1>7, <1>10, <2>1, <2>2, <2>3, <2>4, <3>1 DEF c
  <2>5. CASE i # 2
    <3>1. i \in 3 .. n + 1 BY <2>5
    <3> QED BY <1>10, <2>1, <2>2, <2>3, <2>5, <3>1
  <2> QED BY <2>4, <2>5
<1>13. ASSUME NEW i \in 2 .. n + 1 PROVE (Shape(u, i) /\ Placed(u, i) /\ Reaches(u, i))'
  <2> DEFINE k == i - 1
  <2>1. k \in 1 .. n /\ Shape(u, k) /\ Placed(u, k) /\ Reaches(u, k) BY <1>1, <1>12 DEF ThreadOK, n
  <2>2. Len(stack'[u]) = n + 1 /\ (i = n + 1 <=> k = n) /\ (i < n + 1 <=> k < n) BY <1>4, <1>10
  <2>3. Shape(u, i)'
    <3>1. i < n + 1 => stack'[u][i + 1].at = "slaves"
      <4>1. i < n + 1 => i + 1 \in 2 .. n + 1 BY <1>4
      <4> QED BY <1>12, <4>1
    <3>2. stack[u][k].op = stack'[u][i].op /\ stack[u][k].obj = stack'[u][i].obj /\ stack[u][k].arg = stack'[u][i].arg
          /\ stack'[u][i].at = "slaves" /\ stack'[u][i].op \in {"trigger", "set_cb", "get_fd", "adopt"}
          /\ (i < n + 1 => stack'[u][i].op = "trigger")
      BY <1>12
    <3>3. k = n => stack'[u][i].obj \in Shared \/ Owner[stack'[u][i].obj] = u BY <2>1, <3>2 DEF Shape, n
    <3>4. stack'[u][i].op = "adopt" => stack'[u][i].arg \in Objects /\ Owner[stack'[u][i].arg] = u
      BY <2>1, <3>2 DEF Shape
    <3> QED BY <2>2, <3>1, <3>2, <3>3, <3>4 DEF Shape
  <2>4. Placed(u, i)'
    <3>1. stack[u][k].op = stack'[u][i].op /\ stack[u][k].obj = stack'[u][i].obj /\ stack[u][k].arg = stack'[u][i].arg
          /\ stack'[u][i].at = "slaves" /\ stack[u][k].at = "slaves"
          /\ stack'[u][i].op \in {"trigger", "set_cb", "get_fd", "adopt"}
      BY <1>12
    <3>2. stack'[u][i].todo \subseteq stack[u][k].todo
      <4>1. i = 2 => k = 1 OBVIOUS
      <4> QED BY <1>4, <1>7, <1>12, <4>1
    <3>3. i < n + 1 => stack'[u][i].obj \in slaves[stack'[u][i + 1].obj]
      <4> SUFFICES ASSUME i < n + 1 PROVE stack'[u][i].obj \in slaves[stack'[u][i + 1].obj] OBVIOUS
      <4>1. i + 1 \in 2 .. n + 1 /\ (i + 1) - 1 = k + 1 /\ k < n BY <1>4
      <4>2. stack'[u][i + 1].obj = stack[u][k + 1].obj BY <1>12, <4>1
      <4>3. stack[u][k].op = "trigger" BY <1>12, <3>1
      <4> QED BY <2>1, <3>1, <4>1, <4>2, <4>3 DEF Placed, n
    <3>4. stack[u][k].todo \subseteq slaves[stack[u][k].obj] /\ lock[stack[u][k].obj] = u /\ stack[u][k].obj \in alive
          /\ (stack[u][k].op = "adopt" => stack[u][k].arg \in alive)
      BY <2>1, <3>1 DEF Placed
    <3>5. ASSUME NEW j \in 1 .. n + 1, stack'[u][j].at = "slaves", stack'[u][i].obj = stack'[u][j].obj PROVE i = j
      <4>1. j # 1 BY <1>6, <1>10, <3>5
      <4>2. j \in 2 .. n + 1 /\ j - 1 \in 1 .. n BY <1>4, <4>1
      <4>3. stack[u][j - 1].at = "slaves" /\ stack[u][j - 1].obj = stack'[u][j].obj BY <1>12, <4>2
      <4>4. k = j - 1 BY <2>1, <3>1, <3>5, <4>2, <4>3 DEF Placed, n
      <4> QED BY <1>4, <4>2, <4>4
    <3> QED BY <1>2, <2>2, <3>1, <3>2, <3>3, <3>4, <3>5 DEF Placed, Cancelling!links
  <2>5. Reaches(u, i)'
    <3>1. stack[u][k].obj = stack'[u][i].obj /\ stack[u][k].at = "slaves" BY <1>12
    <3>2. \A x : ~Above(u, k, x)
      <4>1. k > 1 => k - 1 \in 1 .. n /\ stack[u][k - 1].at = "slaves"
        <5>1. k > 1 => k \in 2 .. n + 1 /\ k - 1 \in 1 .. n BY <1>4, <2>1
        <5> QED BY <1>12, <5>1
      <4> QED BY <4>1 DEF Above
    <3>3. ASSUME NEW x \in slaves[stack[u][k].obj]
          PROVE  triggered[x] \/ exempt[x] \/ x \in stack'[u][i].todo \/ Above(u, i, x)'
      <4>1. triggered[x] \/ exempt[x] \/ x \in stack[u][k].todo BY <2>1, <3>1, <3>2 DEF Reaches
      <4>2. CASE i = 2
        <5>1. k = 1 /\ stack'[u][i].todo = stack[u][k].todo \ {s} BY <1>4, <1>7, <1>12, <4>2
        <5>2. Above(u, 2, s)' BY <1>6, <1>10 DEF Above
        <5> QED BY <4>1, <4>2, <5>1, <5>2
      <4>3. CASE i # 2 BY <1>12, <4>1, <4>3
      <4> QED BY <4>2, <4>3
    <3> QED BY <1>2, <2>1, <3>1, <3>3 DEF Reaches, Cancelling!links
  <2> QED BY <2>3, <2>4, <2>5
<1>14. (Shape(u, 1) /\ Placed(u, 1) /\ Reaches(u, 1))'
  <2>1. Len(stack'[u]) = n + 1 /\ 1 < n + 1 /\ n + 1 # 1 BY <1>4, <1>10
  <2>2. Shape(u, 1)' BY <1>6, <1>7, <1>10, <2>1 DEF Shape
  <2>3. s \in alive' /\ s \in slaves'[g.obj] BY <1>2, <1>5, <1>7 DEF Cancelling!links
  <2>4. Placed(u, 1)' BY <1>6, <1>7, <1>10, <2>1, <2>3 DEF Placed, Cancelling!links
  <2>5. Reaches(u, 1)' BY <1>6, <1>10 DEF Reaches
  <2> QED BY <2>2, <2>4, <2>5
<1>15. ThreadOK(u)'
  <2>1. \A i \in 1 .. Len(stack'[u]) : i = 1 \/ i \in 2 .. n + 1 BY <1>4, <1>10
  <2> QED BY <1>13, <1>14, <2>1 DEF ThreadOK
<1> QED BY <1>2, <1>10, <1>11, <1>15, StateSame, Combine

-----------------------------------------------------------------------------
LEMMA TriggerDoneStep == ASSUME Cancelling!CancelAssumption, CInv, NEW u \in Threads, Cancelling!TriggerDone(u) PROVE CInv'
<1> DEFINE n == Len(stack[u])
           c == Cancelling!Top(u).obj
<1>1. Typed /\ Linked /\ ThreadOK(u) /\ Cancelling!TriggerComplete BY DEF CInv
<1>2. /\ stack[u] # <<>> /\ Cancelling!Top(u).at = "slaves" /\ Cancelling!Top(u).todo = {} /\ stack' = Cancelling!Pop(u)
      /\ fd' = [fd EXCEPT ![c] = Cancelling!Notified(c)] /\ lock' = [lock EXCEPT ![c] = None]
      /\ UNCHANGED <<triggered, cb, ops, called, exempt, Cancelling!links>>
  BY DEF Cancelling!TriggerDone, Cancelling!Unlock
<1>3. Cancelling!Top(u) = stack[u][1] /\ Cancelling!Top(u) \in Frames /\ Shape(u, 1) /\ Placed(u, 1) /\ Reaches(u, 1) /\ n \in Nat /\ n >= 1
  BY <1>1, <1>2, Alone, FrameOf
<1>4. c \in Objects /\ lock[c] = u BY <1>2, <1>3 DEF Placed, Frames
<1>5. stack' = [stack EXCEPT ![u] = Tail(stack[u])] /\ Tail(stack[u]) \in Seq(Frames)
      /\ Len(Tail(stack[u])) = n - 1 /\ \A i \in 1 .. n - 1 : Tail(stack[u])[i] = stack[u][i + 1]
  <2>1. stack' = [stack EXCEPT ![u] = Tail(stack[u])] BY <1>1, <1>2 DEF Cancelling!Pop, Typed
  <2> QED BY <1>1, <1>2, <2>1, FrameOf, Popped
<1>6. triggered[c] /\ called[c] = cb[c] /\ \A x \in slaves[c] : triggered[x] \/ exempt[x]
  <2>1. \A x : ~Above(u, 1, x) BY DEF Above
  <2> QED BY <1>2, <1>3, <2>1 DEF Reaches
<1> HIDE DEF c, n
<1>7. Len(stack'[u]) = n - 1 /\ (\A i \in 1 .. n - 1 : stack'[u][i] = stack[u][i + 1]) /\ \A t \in Threads \ {u} : Woke(t)
  BY <1>1, <1>5, OthersSame
<1>8. Typed'
  <2>1. stack' \in [Threads -> Seq(Frames)] BY <1>1, <1>5, StackTyped
  <2>2. Cancelling!Notified(c) \in {"none", "readable"} BY DEF Cancelling!Notified
  <2> QED BY <1>1, <1>2, <2>1, <2>2 DEF Typed, Cancelling!links
<1>9. Linked' BY <1>1, <1>2 DEF Linked, Cancelling!links
<1>10. Framed(u) BY <1>1, <1>2, <1>4 DEF Framed, Cancelling!links, Typed
<1>11. Cancelling!TriggerComplete'
  <2> SUFFICES ASSUME NEW x \in alive, lock'[x] = None
               PROVE  /\ fd'[x] # "none" => (fd'[x] = "readable") = triggered[x]
                      /\ triggered[x] /\ cb[x] => called[x]
                      /\ triggered[x] => \A s \in slaves[x] : triggered[s] \/ exempt[s]
    BY <1>2 DEF Cancelling!TriggerComplete, Cancelling!links
  <2>1. CASE x = c
    <3>1. fd'[c] = Cancelling!Notified(c) BY <1>1, <1>2, <1>4 DEF Typed
    <3> QED BY <1>1, <1>4, <1>6, <2>1, <3>1 DEF Cancelling!Notified, Typed
  <2>2. CASE x # c
    <3>1. lock[x] = None /\ fd'[x] = fd[x] BY <1>1, <1>2, <2>2 DEF Typed
    <3> QED BY <1>1, <3>1 DEF Cancelling!TriggerComplete
  <2> QED BY <2>1, <2>2
(* The frames below move up by one.                                        *)
<1>12. ASSUME NEW i \in 1 .. n - 1 PROVE (Shape(u, i) /\ Placed(u, i) /\ Reaches(u, i))'
  <2> DEFINE k == i + 1
  <2>1. k \in 1 .. n /\ k > 1 /\ i \in 1 .. n BY <1>3
  <2>2. Shape(u, k) /\ Placed(u, k) /\ Reaches(u, k) BY <1>1, <2>1 DEF ThreadOK, n
  <2>3. /\ stack[u][k].at = "slaves" /\ stack[u][k].op \in {"trigger", "set_cb", "get_fd", "adopt"}
        /\ k < n => stack[u][k].op = "trigger"
    BY <1>1, <1>2, <2>1, Chain DEF n
  <2>4. stack'[u][i] = stack[u][k] /\ Len(stack'[u]) = n - 1 /\ (i = n - 1 <=> k = n) /\ (i < n - 1 <=> k < n)
    BY <1>3, <1>7
  <2>5. i < n - 1 => stack'[u][i + 1] = stack[u][k + 1] /\ stack[u][k + 1].at = "slaves"
    <3> SUFFICES ASSUME i < n - 1 PROVE stack'[u][i + 1] = stack[u][k + 1] /\ stack[u][k + 1].at = "slaves" OBVIOUS
    <3>1. i + 1 \in 1 .. n - 1 /\ k + 1 = (i + 1) + 1 /\ k + 1 \in 1 .. n /\ k + 1 # 1 BY <1>3
    <3> QED BY <1>1, <1>2, <1>7, <3>1, Chain DEF n
  <2>6. Shape(u, i)'
    <3>1. k = n => stack[u][k].obj \in Shared \/ Owner[stack[u][k].obj] = u BY <2>2 DEF Shape, n
    <3>2. stack[u][k].op = "adopt" => stack[u][k].arg \in Objects /\ Owner[stack[u][k].arg] = u BY <2>2 DEF Shape
    <3> QED BY <2>3, <2>4, <2>5, <3>1, <3>2 DEF Shape
  <2>7. Placed(u, i)'
    <3>1. stack[u][k].obj # c
      <4>1. 1 \in 1 .. Len(stack[u]) BY <1>3 DEF n
      <4> QED BY <1>2, <1>3, <2>1, <2>2, <2>3, <4>1 DEF Placed, c
    <3>2. lock'[stack[u][k].obj] = lock[stack[u][k].obj] BY <1>1, <1>2, <3>1 DEF Typed
    <3>3. /\ stack[u][k].todo \subseteq slaves[stack[u][k].obj] /\ lock[stack[u][k].obj] = u /\ stack[u][k].obj \in alive
          /\ (stack[u][k].op = "adopt" => stack[u][k].arg \in alive)
          /\ k < n /\ stack[u][k].op = "trigger" => stack[u][k].obj \in slaves[stack[u][k + 1].obj]
      BY <2>2, <2>3 DEF Placed, n
    <3>4. ASSUME NEW j \in 1 .. n - 1, stack'[u][j].at = "slaves", stack'[u][i].obj = stack'[u][j].obj PROVE i = j
      <4>1. j + 1 \in 1 .. n /\ stack'[u][j] = stack[u][j + 1] BY <1>3, <1>7
      <4>2. k = j + 1 BY <2>2, <2>3, <2>4, <3>4, <4>1 DEF Placed, n
      <4> QED BY <4>2
    <3> QED BY <1>2, <2>3, <2>4, <2>5, <3>2, <3>3, <3>4 DEF Placed, Cancelling!links
  <2>8. Reaches(u, i)'
    <3>1. \A x : ~Above(u, k, x)
      <4>1. stack[u][k - 1].at = "slaves"
        <5>1. k - 1 = i /\ (i = 1 => Cancelling!Top(u).at = "slaves") BY <1>2
        <5> QED BY <1>1, <1>2, <2>1, <5>1, Chain DEF n
      <4> QED BY <4>1 DEF Above
    <3> QED BY <1>2, <2>2, <2>3, <2>4, <3>1 DEF Reaches, Cancelling!links
  <2> QED BY <2>6, <2>7, <2>8
<1>13. ThreadOK(u)' BY <1>7, <1>12 DEF ThreadOK
<1> QED BY <1>7, <1>8, <1>9, <1>10, <1>11, <1>13, Combine

-----------------------------------------------------------------------------
(* What is done under the lock before the trigger.                         *)
LEMMA LockedFields ==
  ASSUME Cancelling!CancelAssumption, CInv, NEW u \in Threads, Cancelling!Locked(u)
  PROVE  LET c == Cancelling!Top(u).obj
             op == Cancelling!Top(u).op
             s == Cancelling!Top(u).arg IN
         /\ stack[u] # <<>> /\ Cancelling!Top(u).at = "lock" /\ lock[c] = None /\ c \in Objects /\ c \in alive
         /\ op \in {"trigger", "set_cb", "get_fd", "adopt"}
         /\ cb' \in [Objects -> BOOLEAN] /\ fd' \in [Objects -> {"none", "empty", "readable"}]
         /\ \A x \in Objects : x # c => cb'[x] = cb[x] /\ fd'[x] = fd[x] /\ slaves'[x] = slaves[x]
         /\ op # "set_cb" => cb'[c] = cb[c]
         /\ fd[c] # "none" => fd'[c] = fd[c]
         /\ fd'[c] # "none" /\ fd[c] = "none" => fd'[c] = "empty" /\ op = "get_fd"
         /\ op = "adopt" => /\ s \in Objects /\ Owner[s] = u /\ s \in alive /\ parent[s] = None
                            /\ c \in Shared \/ Owner[c] = u
                            /\ parent' = [parent EXCEPT ![s] = c] /\ slaves'[c] = slaves[c] \cup {s}
                            /\ slaves' = [slaves EXCEPT ![c] = @ \cup {s}]
         /\ op # "adopt" => UNCHANGED <<parent, slaves>>
         /\ UNCHANGED <<alive, ops>>
<1> DEFINE c == Cancelling!Top(u).obj
           op == Cancelling!Top(u).op
           s == Cancelling!Top(u).arg
<1>1. Typed /\ Linked /\ ThreadOK(u) BY DEF CInv
<1>2. /\ stack[u] # <<>> /\ Cancelling!Top(u).at = "lock" /\ lock[c] = None
      /\ op \in {"trigger", "set_cb", "get_fd", "adopt"}
      /\ cb' = [cb EXCEPT ![c] = @ \/ op = "set_cb"]
      /\ fd' = [fd EXCEPT ![c] = IF op = "get_fd" /\ @ = "none" THEN "empty" ELSE @]
      /\ op = "adopt" => /\ parent' = [parent EXCEPT ![s] = c] /\ slaves' = [slaves EXCEPT ![c] = @ \cup {s}]
      /\ op # "adopt" => UNCHANGED <<parent, slaves>>
      /\ UNCHANGED <<alive, ops>>
  BY DEF Cancelling!Locked
<1>3. Cancelling!Top(u) = stack[u][1] /\ Cancelling!Top(u) \in Frames /\ Shape(u, 1) /\ Placed(u, 1)
      /\ (op \notin {"trigger", "remove"} => c \in Shared \/ Owner[c] = u)
  BY <1>1, <1>2, Alone
<1>4. c \in Objects /\ c \in alive BY <1>3 DEF Frames, Placed
<1>5. op = "adopt" => s \in Objects /\ Owner[s] = u /\ s \in alive /\ parent[s] = None /\ (c \in Shared \/ Owner[c] = u)
  <2>1. op = "adopt" => s \in Objects /\ Owner[s] = u BY <1>3 DEF Shape
  <2>2. op = "adopt" => s \in alive /\ parent[s] = None BY <1>2, <1>3 DEF Placed, Moved
  <2> QED BY <1>3, <2>1, <2>2
<1> HIDE DEF c, op, s
<1>6. cb' \in [Objects -> BOOLEAN] /\ fd' \in [Objects -> {"none", "empty", "readable"}]
      /\ (op # "set_cb" => cb'[c] = cb[c]) /\ (fd[c] # "none" => fd'[c] = fd[c])
      /\ (fd'[c] # "none" /\ fd[c] = "none" => fd'[c] = "empty" /\ op = "get_fd")
      /\ \A x \in Objects : x # c => cb'[x] = cb[x] /\ fd'[x] = fd[x]
  BY <1>1, <1>2, <1>4 DEF Typed
<1>7. \A x \in Objects : x # c => slaves'[x] = slaves[x] BY <1>1, <1>2 DEF Typed
<1>8. op = "adopt" => slaves'[c] = slaves[c] \cup {s} BY <1>1, <1>2, <1>4 DEF Typed
<1> QED BY <1>2, <1>4, <1>5, <1>6, <1>7, <1>8 DEF c, op, s

(* The links after mp_cancel_set_parent(), or unchanged.                   *)
LEMMA LockedLinks ==
  ASSUME Cancelling!CancelAssumption, CInv, NEW u \in Threads, Cancelling!Locked(u)
  PROVE  /\ slaves' \in [Objects -> SUBSET Objects] /\ parent' \in [Objects -> Objects \cup {None}] /\ Linked'
         /\ \A x \in Objects : Owner[x] # u =>
              parent'[x] = parent[x] /\ (slaves[x] = {} /\ x \notin Shared => slaves'[x] = {})
         /\ \A x \in Objects : parent[x] # None => parent'[x] = parent[x]
<1> DEFINE c == Cancelling!Top(u).obj
           s == Cancelling!Top(u).arg
<1>1. Typed /\ Linked BY DEF CInv
<1>2. CASE Cancelling!Top(u).op = "adopt"
  <2>1. /\ s \in Objects /\ Owner[s] = u /\ s \in alive /\ parent[s] = None /\ c \in Objects /\ c \in alive
        /\ c \in Shared \/ Owner[c] = u
        /\ parent' = [parent EXCEPT ![s] = c] /\ slaves'[c] = slaves[c] \cup {s}
        /\ slaves' = [slaves EXCEPT ![c] = @ \cup {s}] /\ alive' = alive
        /\ \A x \in Objects : x # c => slaves'[x] = slaves[x]
    BY <1>2, LockedFields
  <2> HIDE DEF c, s
  <2>2. slaves' \in [Objects -> SUBSET Objects] /\ parent' \in [Objects -> Objects \cup {None}] BY <1>1, <2>1 DEF Typed
  <2>3. \A x \in Objects : parent'[x] = IF x = s THEN c ELSE parent[x] BY <1>1, <2>1 DEF Typed
  <2>4. \A x, y \in Objects : x \in slaves'[y] <=> parent'[x] = y
    BY <1>1, <2>1, <2>3 DEF Linked, Cancelling!CancelAssumption
  <2>5. \A x \in Objects : parent'[x] # None => x \in alive' /\ parent'[x] \in alive' BY <1>1, <2>1, <2>3 DEF Linked
  <2>6. Linked' BY <2>4, <2>5 DEF Linked
  <2> QED BY <2>1, <2>2, <2>3, <2>6
<1>3. CASE Cancelling!Top(u).op # "adopt"
  <2>1. UNCHANGED <<parent, slaves, alive>> BY <1>3, LockedFields
  <2> QED BY <1>1, <2>1 DEF Typed, Linked
<1> QED BY <1>2, <1>3

(* Nothing is to be triggered.                                             *)
LEMMA QuietStep ==
  ASSUME Cancelling!CancelAssumption, CInv, NEW u \in Threads, Cancelling!Locked(u),
         ~(Cancelling!Triggers(u) /\ (Cancelling!Top(u).op = "get_fd" => fd[Cancelling!Top(u).obj] = "none"))
  PROVE  CInv'
<1> DEFINE c == Cancelling!Top(u).obj
           op == Cancelling!Top(u).op
           s == Cancelling!Top(u).arg
<1>1. Typed /\ Linked /\ ThreadOK(u) /\ Cancelling!TriggerComplete BY DEF CInv
<1>2. /\ stack' = Cancelling!Pop(u) /\ UNCHANGED <<triggered, lock>>
      /\ called' = [called EXCEPT ![c] = @ /\ op # "set_cb"]
      /\ exempt' = IF op = "adopt" THEN [exempt EXCEPT ![s] = FALSE] ELSE exempt
  BY DEF Cancelling!Locked
<1>3. op # "trigger" /\ (triggered[c] => op = "get_fd" /\ fd[c] # "none") BY DEF Cancelling!Triggers
<1>4. /\ stack[u] # <<>> /\ lock[c] = None /\ c \in Objects
      /\ op \in {"trigger", "set_cb", "get_fd", "adopt"}
      /\ cb' \in [Objects -> BOOLEAN] /\ fd' \in [Objects -> {"none", "empty", "readable"}]
      /\ \A x \in Objects : x # c => cb'[x] = cb[x] /\ fd'[x] = fd[x] /\ slaves'[x] = slaves[x]
      /\ op # "set_cb" => cb'[c] = cb[c]
      /\ fd[c] # "none" => fd'[c] = fd[c]
      /\ fd'[c] # "none" /\ fd[c] = "none" => fd'[c] = "empty"
      /\ op = "adopt" => s \in Objects /\ parent[s] = None
      /\ op # "adopt" => UNCHANGED <<parent, slaves>>
      /\ alive' = alive
  BY LockedFields
<1>5. stack' = [stack EXCEPT ![u] = <<>>] BY <1>1, <1>2, <1>3, <1>4, Alone
<1> HIDE DEF c, op, s
<1>6. stack'[u] = <<>> /\ \A t \in Threads \ {u} : Woke(t) BY <1>1, <1>5, OthersSame
<1>7. /\ \A x \in Objects : x # c => called'[x] = called[x]
      /\ op # "set_cb" => called'[c] = called[c]
      /\ \A x \in Objects : parent[x] # None => exempt'[x] = exempt[x]
      /\ called' \in [Objects -> BOOLEAN] /\ exempt' \in [Objects -> BOOLEAN]
  BY <1>1, <1>2, <1>4 DEF Typed
<1>8. Typed'
  <2>1. stack' \in [Threads -> Seq(Frames)] BY <1>1, <1>5, EmptySeq, StackTyped
  <2> QED BY <1>1, <1>2, <1>4, <1>7, <2>1, LockedLinks DEF Typed
<1>9. Framed(u) BY <1>2, <1>4, <1>7, LockedLinks DEF Framed
<1>10. Cancelling!TriggerComplete'
  <2> SUFFICES ASSUME NEW x \in alive, lock[x] = None
               PROVE  /\ fd'[x] # "none" => (fd'[x] = "readable") = triggered[x]
                      /\ triggered[x] /\ cb'[x] => called'[x]
                      /\ triggered[x] => \A y \in slaves'[x] : triggered[y] \/ exempt'[y]
    BY <1>2, <1>4 DEF Cancelling!TriggerComplete
  <2>1. x \in Objects BY <1>1 DEF Typed
  <2>2. \A y \in slaves[x] : y \in Objects /\ parent[y] # None
    BY <1>1, <2>1 DEF Typed, Linked, Cancelling!CancelAssumption
  <2>3. CASE x = c /\ ~triggered[c] BY <1>1, <1>4, <2>3 DEF Cancelling!TriggerComplete, Typed
  <2>4. CASE x = c /\ triggered[c]
    <3>1. op = "get_fd" /\ fd[c] # "none" BY <1>3, <2>4 DEF c, op
    <3> QED BY <1>1, <1>4, <1>7, <2>2, <2>4, <3>1 DEF Cancelling!TriggerComplete
  <2>5. CASE x # c BY <1>1, <1>4, <1>7, <2>1, <2>2, <2>5 DEF Cancelling!TriggerComplete
  <2> QED BY <2>3, <2>4, <2>5
<1> QED BY <1>6, <1>8, <1>9, <1>10, Idle, LockedLinks, Combine

(* trigger_locked()                                                        *)
LEMMA TriggerStep ==
  ASSUME Cancelling!CancelAssumption, CInv, NEW u \in Threads, Cancelling!Locked(u), Cancelling!Triggers(u),
         Cancelling!Top(u).op = "get_fd" => fd[Cancelling!Top(u).obj] = "none"
  PROVE  CInv'
<1> DEFINE c == Cancelling!Top(u).obj
           op == Cancelling!Top(u).op
           s == Cancelling!Top(u).arg
           n == Len(stack[u])
           f == [Cancelling!Top(u) EXCEPT !.at = "slaves", !.todo = slaves'[c]]
<1>1. Typed /\ Linked /\ ThreadOK(u) /\ Cancelling!TriggerComplete BY DEF CInv
<1>2. /\ triggered' = [triggered EXCEPT ![c] = TRUE] /\ called' = [called EXCEPT ![c] = cb'[c]]
      /\ exempt' = [exempt EXCEPT ![c] = FALSE] /\ lock' = [lock EXCEPT ![c] = u]
      /\ stack' = [Cancelling!Woken(stack, c) EXCEPT ![u] = <<f>> \o Tail(@)]
  BY DEF Cancelling!Locked, Cancelling!trigger_locked
<1>3. /\ stack[u] # <<>> /\ Cancelling!Top(u).at = "lock" /\ lock[c] = None /\ c \in Objects /\ c \in alive
      /\ op \in {"trigger", "set_cb", "get_fd", "adopt"}
      /\ cb' \in [Objects -> BOOLEAN] /\ fd' \in [Objects -> {"none", "empty", "readable"}]
      /\ \A x \in Objects : x # c => cb'[x] = cb[x] /\ fd'[x] = fd[x] /\ slaves'[x] = slaves[x]
      /\ op = "adopt" => s \in alive
      /\ alive' = alive
  BY LockedFields
<1>4. Cancelling!Top(u) = stack[u][1] /\ Cancelling!Top(u) \in Frames /\ Shape(u, 1) /\ Placed(u, 1) /\ n \in Nat /\ n >= 1
  BY <1>1, <1>3, Alone, FrameOf
<1>5. slaves'[c] \subseteq Objects BY <1>3, LockedLinks
<1>6. f \in Frames /\ f.op = op /\ f.obj = c /\ f.arg = s /\ f.at = "slaves" /\ f.todo = slaves'[c]
  BY <1>4, <1>5 DEF Frames
<1> HIDE DEF f, c, op, s
<1>7. Cancelling!Woken(stack, c)[u] = stack[u] BY <1>3, <1>4 DEF Cancelling!Woken, Cancelling!Top
<1>8. /\ <<f>> \o Tail(stack[u]) \in Seq(Frames) /\ Len(<<f>> \o Tail(stack[u])) = n
      /\ (<<f>> \o Tail(stack[u]))[1] = f /\ \A i \in 2 .. n : (<<f>> \o Tail(stack[u]))[i] = stack[u][i]
  BY <1>1, <1>3, <1>6, FrameOf, Replaced
<1>9. /\ stack'[u] = <<f>> \o Tail(stack[u])
      /\ \A t \in Threads \ {u} : stack'[t] = Cancelling!Woken(stack, c)[t]
      /\ DOMAIN stack' = Threads /\ stack' = [t \in Threads |-> stack'[t]]
  <2>1. Cancelling!Woken(stack, c) = [t \in Threads |-> Cancelling!Woken(stack, c)[t]] BY DEF Cancelling!Woken
  <2> HIDE DEF n
  <2> QED BY <1>2, <1>7, <2>1
<1>10. ASSUME NEW t \in Threads \ {u} PROVE stack'[t] \in Seq(Frames) /\ Woke(t)
  <2>1. stack[t] \in Seq(Frames) /\ stack'[t] = Cancelling!Woken(stack, c)[t] BY <1>1, <1>9, FrameOf
  <2>2. CASE stack[t] # <<>> /\ Head(stack[t]).op = "wait" /\ Head(stack[t]).obj = c /\ Head(stack[t]).at = "sleep"
    <3> DEFINE g == [Head(stack[t]) EXCEPT !.at = "lock"]
    <3>1. stack'[t] = <<g>> \o Tail(stack[t]) BY <2>1, <2>2 DEF Cancelling!Woken
    <3>2. Head(stack[t]) = stack[t][1] /\ Head(stack[t]) \in Frames BY <2>1, <2>2, Popped
    <3>3. g \in Frames BY <3>2 DEF Frames
    <3>4. g = [stack[t][1] EXCEPT !.at = "lock"] BY <3>2
    <3> HIDE DEF g
    <3>5. /\ stack'[t] \in Seq(Frames) /\ Len(stack'[t]) = Len(stack[t]) /\ stack'[t][1] = g
          /\ \A i \in 2 .. Len(stack[t]) : stack'[t][i] = stack[t][i]
      BY <2>1, <2>2, <3>1, <3>3, Replaced
    <3>6. \A i \in 1 .. Len(stack[t]) : i = 1 \/ i \in 2 .. Len(stack[t])
      <4>1. Len(stack[t]) \in Nat BY <2>1, LenProperties
      <4> QED BY <4>1
    <3> QED BY <2>2, <3>2, <3>4, <3>5, <3>6 DEF Woke
  <2>3. CASE ~(stack[t] # <<>> /\ Head(stack[t]).op = "wait" /\ Head(stack[t]).obj = c /\ Head(stack[t]).at = "sleep")
    <3>1. stack'[t] = stack[t] BY <2>1, <2>3 DEF Cancelling!Woken
    <3> QED BY <2>1, <3>1 DEF Woke
  <2> QED BY <2>2, <2>3
<1>11. /\ \A x \in Objects : x # c => /\ triggered'[x] = triggered[x] /\ called'[x] = called[x]
                                      /\ exempt'[x] = exempt[x] /\ lock'[x] = lock[x]
       /\ triggered'[c] = TRUE /\ called'[c] = cb'[c] /\ lock'[c] = u
       /\ triggered' \in [Objects -> BOOLEAN] /\ called' \in [Objects -> BOOLEAN]
       /\ exempt' \in [Objects -> BOOLEAN] /\ lock' \in [Objects -> Threads \cup {None}]
  BY <1>1, <1>2, <1>3 DEF Typed
<1>12. Typed'
  <2>1. \A t \in Threads : stack'[t] \in Seq(Frames) BY <1>8, <1>9, <1>10
  <2>2. stack' \in [Threads -> Seq(Frames)] BY <1>9, <2>1
  <2> QED BY <1>1, <1>3, <1>11, <2>2, LockedLinks DEF Typed
<1>13. Framed(u) BY <1>3, <1>11, LockedLinks DEF Framed
<1>14. Cancelling!TriggerComplete'
  <2> SUFFICES ASSUME NEW x \in alive, lock'[x] = None
               PROVE  /\ fd'[x] # "none" => (fd'[x] = "readable") = triggered'[x]
                      /\ triggered'[x] /\ cb'[x] => called'[x]
                      /\ triggered'[x] => \A y \in slaves'[x] : triggered'[y] \/ exempt'[y]
    BY <1>3 DEF Cancelling!TriggerComplete
  <2>1. x \in Objects /\ x # c BY <1>1, <1>11 DEF Typed, Cancelling!CancelAssumption
  <2>2. \A y \in slaves[x] : y \in Objects BY <1>1, <2>1 DEF Typed
  <2>3. \A y \in slaves[x] : triggered[y] \/ exempt[y] => triggered'[y] \/ exempt'[y] BY <1>11, <2>2
  <2> QED BY <1>1, <1>3, <1>11, <2>1, <2>3 DEF Cancelling!TriggerComplete
<1>15. ASSUME NEW i \in 2 .. n
       PROVE  /\ i \in 1 .. n /\ i > 1 /\ stack'[u][i] = stack[u][i] /\ stack[u][i] \in Frames /\ op = "trigger"
              /\ stack[u][i].at = "slaves" /\ stack[u][i].op \in {"trigger", "set_cb", "get_fd", "adopt"}
              /\ i < n => stack[u][i].op = "trigger"
              /\ stack[u][i].obj # c /\ stack[u][i].obj \in Objects /\ lock[stack[u][i].obj] = u
              /\ Shape(u, i) /\ Placed(u, i) /\ Reaches(u, i)
  <2>1. i \in 1 .. n /\ i > 1 BY <1>4
  <2>2. op = "trigger"
    <3>1. 1 < n BY <1>4
    <3> QED BY <1>3, <1>4, <3>1 DEF Shape, op, n
  <2>3. /\ stack[u][i].at = "slaves" /\ stack[u][i].op \in {"trigger", "set_cb", "get_fd", "adopt"}
        /\ i < n => stack[u][i].op = "trigger"
        /\ stack[u][i] \in Frames
    BY <1>1, <1>3, <2>1, <2>2, Chain DEF op, n
  <2>4. Shape(u, i) /\ Placed(u, i) /\ Reaches(u, i) BY <1>1, <2>1 DEF ThreadOK, n
  <2>5. stack[u][i].obj \in Objects BY <2>3 DEF Frames
  <2>6. lock[stack[u][i].obj] = u BY <2>3, <2>4 DEF Placed
  <2>7. stack[u][i].obj # c BY <1>3, <2>6 DEF Cancelling!CancelAssumption
  <2> QED BY <1>8, <1>9, <2>1, <2>2, <2>3, <2>4, <2>5, <2>6, <2>7
<1>16. Len(stack'[u]) = n /\ stack'[u][1] = f BY <1>8, <1>9
<1>17. ASSUME NEW i \in 2 .. n PROVE (Shape(u, i) /\ Placed(u, i) /\ Reaches(u, i))'
  <2>1. /\ i \in 1 .. n /\ i > 1 /\ stack'[u][i] = stack[u][i] /\ stack[u][i] \in Frames
        /\ stack[u][i].at = "slaves" /\ stack[u][i].op \in {"trigger", "set_cb", "get_fd", "adopt"}
        /\ i < n => stack[u][i].op = "trigger"
        /\ stack[u][i].obj # c /\ stack[u][i].obj \in Objects /\ lock[stack[u][i].obj] = u
        /\ Shape(u, i) /\ Placed(u, i) /\ Reaches(u, i)
    BY <1>15
  <2>2. i < n => /\ stack'[u][i + 1] = stack[u][i + 1] /\ stack[u][i + 1].at = "slaves"
                 /\ slaves'[stack[u][i + 1].obj] = slaves[stack[u][i + 1].obj]
    <3> SUFFICES ASSUME i < n
                 PROVE  /\ stack'[u][i + 1] = stack[u][i + 1] /\ stack[u][i + 1].at = "slaves"
                        /\ slaves'[stack[u][i + 1].obj] = slaves[stack[u][i + 1].obj]
      OBVIOUS
    <3>1. i + 1 \in 2 .. n BY <1>4, <2>1
    <3> QED BY <1>3, <1>15, <3>1
  <2>3. Shape(u, i)'
    <3>1. i = n => stack[u][i].obj \in Shared \/ Owner[stack[u][i].obj] = u BY <2>1 DEF Shape, n
    <3>2. stack[u][i].op = "adopt" => stack[u][i].arg \in Objects /\ Owner[stack[u][i].arg] = u BY <2>1 DEF Shape
    <3> QED BY <1>16, <2>1, <2>2, <3>1, <3>2 DEF Shape
  <2>4. Placed(u, i)'
    <3>1. /\ stack[u][i].todo \subseteq slaves[stack[u][i].obj] /\ stack[u][i].obj \in alive
          /\ stack[u][i].op = "adopt" => stack[u][i].arg \in alive
          /\ i < n /\ stack[u][i].op = "trigger" => stack[u][i].obj \in slaves[stack[u][i + 1].obj]
      BY <2>1 DEF Placed, n
    <3>2. slaves'[stack[u][i].obj] = slaves[stack[u][i].obj] /\ lock'[stack[u][i].obj] = u BY <1>3, <1>11, <2>1
    <3>3. ASSUME NEW j \in 1 .. n, stack'[u][j].at = "slaves", stack'[u][i].obj = stack'[u][j].obj PROVE i = j
      <4>1. j # 1 BY <1>6, <1>16, <2>1, <3>3
      <4>2. j \in 2 .. n BY <1>4, <4>1
      <4>3. stack'[u][j] = stack[u][j] BY <1>15, <4>2
      <4> QED BY <2>1, <3>3, <4>3 DEF Placed, n
    <3> QED BY <1>3, <1>16, <2>1, <2>2, <3>1, <3>2, <3>3 DEF Placed
  <2>5. Reaches(u, i)'
    <3>1. /\ triggered[stack[u][i].obj] /\ called[stack[u][i].obj] = cb[stack[u][i].obj]
          /\ \A x \in slaves[stack[u][i].obj] : triggered[x] \/ exempt[x] \/ x \in stack[u][i].todo \/ Above(u, i, x)
      BY <2>1 DEF Reaches
    <3>2. slaves'[stack[u][i].obj] = slaves[stack[u][i].obj] /\ slaves[stack[u][i].obj] \subseteq Objects
      BY <1>1, <1>3, <2>1 DEF Typed
    <3>3. ASSUME NEW x \in slaves[stack[u][i].obj] PROVE triggered'[x] \/ exempt'[x] \/ x \in stack[u][i].todo
      <4>1. CASE Above(u, i, x)
        <5>1. i - 1 \in 1 .. n BY <2>1
        <5>2. i - 1 = 1
          <6>1. i - 1 = 1 \/ i - 1 \in 2 .. n BY <1>4, <2>1
          <6> QED BY <1>15, <4>1, <6>1 DEF Above
        <5>3. x = c BY <1>4, <4>1, <5>2 DEF Above, c
        <5> QED BY <1>11, <5>3
      <4>2. CASE ~Above(u, i, x) BY <1>11, <3>1, <3>2, <4>2
      <4> QED BY <4>1, <4>2
    <3>4. /\ triggered'[stack[u][i].obj] /\ called'[stack[u][i].obj] = cb'[stack[u][i].obj]
      BY <1>3, <1>11, <2>1, <3>1
    <3> QED BY <2>1, <3>2, <3>3, <3>4 DEF Reaches
  <2> QED BY <2>3, <2>4, <2>5
<1>18. (Shape(u, 1) /\ Placed(u, 1) /\ Reaches(u, 1))'
  <2>1. 1 < n => 2 \in 2 .. n BY <1>4
  <2>2. 1 < n => op = "trigger" /\ stack'[u][2] = stack[u][2] /\ stack[u][2].at = "slaves"
                 /\ slaves'[stack[u][2].obj] = slaves[stack[u][2].obj]
    BY <1>3, <1>15, <2>1
  <2>3. Shape(u, 1)'
    <3>1. 1 = n => c \in Shared \/ Owner[c] = u BY <1>4 DEF Shape, c, n
    <3>2. op = "adopt" => s \in Objects /\ Owner[s] = u BY <1>4 DEF Shape, op, s
    <3> QED BY <1>3, <1>6, <1>16, <2>2, <3>1, <3>2 DEF Shape
  <2>4. Placed(u, 1)'
    <3>1. 1 < n => c \in slaves[stack[u][2].obj] BY <1>4, <2>2 DEF Placed, c, op, n
    <3>2. ASSUME NEW j \in 1 .. n, stack'[u][j].at = "slaves", c = stack'[u][j].obj PROVE 1 = j
      <4>1. j = 1 \/ j \in 2 .. n BY <1>4
      <4> QED BY <1>15, <3>2, <4>1
    <3> QED BY <1>3, <1>6, <1>11, <1>16, <2>2, <3>1, <3>2 DEF Placed
  <2>5. Reaches(u, 1)' BY <1>6, <1>11, <1>16 DEF Reaches
  <2> QED BY <2>3, <2>4, <2>5
<1>19. ThreadOK(u)'
  <2>1. \A i \in 1 .. Len(stack'[u]) : i = 1 \/ i \in 2 .. n BY <1>4, <1>16
  <2> QED BY <1>17, <1>18, <2>1 DEF ThreadOK
<1> QED BY <1>10, <1>12, <1>13, <1>14, <1>19, LockedLinks, Combine

-----------------------------------------------------------------------------
LEMMA CancelStep == ASSUME Cancelling!CancelAssumption, CInv, [Cancelling!Next]_(Cancelling!vars) PROVE CInv'
<1>1. CASE Cancelling!Next
  <2>1. PICK u \in Threads : Cancelling!Begin(u) \/ Cancelling!Step(u) BY <1>1 DEF Cancelling!Next
  <2>2. CASE Cancelling!Locked(u) BY <2>2, QuietStep, TriggerStep
  <2> QED BY <2>1, <2>2, BeginStep, TriggerSlaveStep, TriggerDoneStep, ResetStep, RemoveStep, DestroyStep, WaitStep
    DEF Cancelling!Step
<1>2. CASE UNCHANGED Cancelling!vars
  <2>1. UNCHANGED <<triggered, cb, fd, slaves, parent, lock, alive, stack, called, exempt>> BY <1>2 DEF Cancelling!vars
  <2>2. Typed' /\ Linked' /\ Cancelling!TriggerComplete' BY <2>1 DEF CInv, Typed, Linked, Cancelling!TriggerComplete
  <2>3. ASSUME NEW t \in Threads PROVE ThreadOK(t)'
    <3>1. ThreadOK(t) BY DEF CInv
    <3>2. ASSUME NEW i \in 1 .. Len(stack[t]) PROVE (Shape(t, i) /\ Placed(t, i) /\ Reaches(t, i))'
      <4>1. Shape(t, i) /\ Placed(t, i) /\ Reaches(t, i) BY <3>1 DEF ThreadOK
      <4>2. Shape(t, i)' BY <2>1, <4>1 DEF Shape
      <4>3. Placed(t, i)' BY <2>1, <4>1 DEF Placed
      <4>4. Reaches(t, i)' BY <2>1, <4>1 DEF Reaches, Above
      <4> QED BY <4>2, <4>3, <4>4
    <3> QED BY <2>1, <3>2 DEF ThreadOK
  <2>4. (\A t \in Threads : ThreadOK(t))' BY <2>3
  <2> QED BY <2>2, <2>4 DEF CInv
<1> QED BY <1>1, <1>2

LEMMA CancelInit == ASSUME Cancelling!CancelAssumption, Cancelling!Init PROVE CInv
<1>1. Typed BY EmptySeq DEF Cancelling!Init, Typed
<1>2. Linked BY DEF Cancelling!Init, Linked, Cancelling!CancelAssumption
<1>3. \A t \in Threads : ThreadOK(t) BY DEF Cancelling!Init, ThreadOK
<1>4. Cancelling!TriggerComplete BY DEF Cancelling!Init, Cancelling!TriggerComplete
<1> QED BY <1>1, <1>2, <1>3, <1>4 DEF CInv

LEMMA CancelTypes == ASSUME Cancelling!CancelAssumption, CInv PROVE Cancelling!TypeOK /\ Cancelling!TriggerComplete
<1>1. Typed /\ Linked BY DEF CInv
<1>2. \A c \in Objects : slaves[c] = {s \in Objects : parent[s] = c} BY <1>1 DEF Typed, Linked
<1>3. \A c \in alive : slaves[c] \subseteq alive
  BY <1>1 DEF Typed, Linked, Cancelling!CancelAssumption
<1>4. ASSUME NEW t \in Threads, NEW i \in 1 .. Len(stack[t])
      PROVE  stack[t][i].obj \in alive /\ stack[t][i].todo \subseteq alive
  <2>1. Shape(t, i) /\ Placed(t, i) /\ stack[t][i] \in Frames BY <1>1, <1>4, FrameOf DEF CInv, ThreadOK
  <2>2. stack[t][i].obj \in alive BY <2>1 DEF Placed
  <2>3. stack[t][i].todo \subseteq slaves[stack[t][i].obj] BY <2>1 DEF Shape, Placed
  <2> QED BY <1>3, <2>2, <2>3
<1> QED BY <1>1, <1>2, <1>3, <1>4 DEF Cancelling!TypeOK, Cancelling!NoDeadObject, Typed, CInv

-----------------------------------------------------------------------------
(* The end of the player.                                                  *)

(* The right to destroy the core was given away before, once, and never in *)
(* the command line player.                                                *)
Reserved ==
  /\ is_cli => ~have_terminator
  /\ terminate_core_thread => have_terminator
  /\ \A h \in Handles : Destroying(h) => have_terminator
  /\ \A g, h \in Handles : Destroying(g) /\ Destroying(h) => g = h

(* Who has yet to lock the core has not asked it to stop.                  *)
AskedLast == \A h \in Handles : pc[h] \in {"stop", "ask"} => ~terminate_core_thread

(* The core thread exits when nobody uses the core and, in libmpv, when it *)
(* was asked to; only one thread is then left that may act.                *)
ExitsLast ==
  /\ core \in {"exited", "destroyed"} => clients = {} /\ work = {}
  /\ core = "exited" => terminate_core_thread
  /\ core = "destroyed" => \A h \in Handles : ~Destroying(h)

IInv == TypeOK /\ Reserved /\ AskedLast /\ ExitsLast

(* Initially only one handle exists, and nobody ends anything.            *)
LEMMA InitInv == ASSUME Assumption, Init PROVE IInv
<1>1. TypeOK BY DEF Assumption, Init, TypeOK, Existing
<1>2. Reserved /\ AskedLast /\ ExitsLast
  BY DEF Init, Reserved, AskedLast, ExitsLast, Destroying
<1> QED BY <1>1, <1>2 DEF IInv
-----------------------------------------------------------------------------
(* Every step keeps the types, and clients the set of existing handles.    *)
LEMMA TypeStep == ASSUME Assumption, IInv, [Next]_vars PROVE TypeOK'
<1> USE DEF TypeOK, Existing, flags, IInv, Goes
<1>1. CASE EndPlay BY <1>1 DEF EndPlay
<1>2. CASE Test BY <1>2 DEF Test, MayExit
<1>3. CASE Tell BY <1>3 DEF Tell
<1>4. CASE WakeUp BY <1>4 DEF WakeUp
<1>5. CASE Quit BY <1>5 DEF Quit
<1>6. CASE Late BY <1>6 DEF Late
<1>7. ASSUME NEW h \in Handles, QuitCommand(h) PROVE TypeOK' BY <1>7 DEF QuitCommand
<1>8. ASSUME NEW h \in Handles, AbortAsync(h) PROVE TypeOK' BY <1>8 DEF AbortAsync
<1>9. ASSUME NEW h \in Handles, Remove(h) PROVE TypeOK' BY <1>9 DEF Remove
<1>10. ASSUME NEW h \in Handles, StopPlay(h) PROVE TypeOK' BY <1>10 DEF StopPlay
<1>11. ASSUME NEW h \in Handles, AskToStop(h) PROVE TypeOK' BY <1>11 DEF AskToStop
<1>12. ASSUME NEW h \in Handles, WakeupCore(h) PROVE TypeOK' BY <1>12 DEF WakeupCore
<1>13. ASSUME NEW h \in Handles, DestroyCore(h) PROVE TypeOK' BY <1>13 DEF DestroyCore
<1>14. ASSUME NEW h \in Handles, NEW n \in Handles, SetWeak(h, n) PROVE TypeOK'
  BY <1>14 DEF SetWeak
<1>15. ASSUME NEW h \in Handles, NEW b \in BOOLEAN, Destroy(h, b) PROVE TypeOK'
  BY <1>15 DEF Destroy
<1>16. ASSUME NEW h \in Handles, NEW n \in Handles, NEW b \in BOOLEAN, NewClient(h, n, b)
       PROVE TypeOK'
  BY <1>16 DEF NewClient
<1>17. ASSUME NEW o \in Owners, Async(o) PROVE TypeOK' BY <1>17 DEF Async, Assumption
<1>18. ASSUME NEW o \in Owners, AsyncDone(o) PROVE TypeOK' BY <1>18 DEF AsyncDone
<1>19. CASE UNCHANGED vars BY <1>19 DEF vars
<1> QED
  BY <1>1, <1>2, <1>3, <1>4, <1>5, <1>6, <1>7, <1>8, <1>9, <1>10, <1>11, <1>12, <1>13,
     <1>14, <1>15, <1>16, <1>17, <1>18, <1>19, Zenon
  DEF Next, Core, Thread, User
-----------------------------------------------------------------------------
(* Only Remove gives the right away, once; only the thread that has it     *)
(* stops the core thread, after it has locked it; and the core exits only  *)
(* when nobody is left who could come back to it.                          *)
LEMMA OrderStep ==
  ASSUME Assumption, IInv, [Next]_vars
  PROVE  Reserved' /\ AskedLast' /\ ExitsLast'
<1> DEFINE Kept == Reserved' /\ AskedLast' /\ ExitsLast'
<1> USE DEF IInv, TypeOK, Reserved, AskedLast, ExitsLast, Destroying, Existing, flags, Goes
<1>1. CASE EndPlay BY <1>1 DEF EndPlay
<1>2. CASE Test BY <1>2 DEF Test, MayExit
<1>3. CASE Tell BY <1>3 DEF Tell
<1>4. CASE WakeUp BY <1>4 DEF WakeUp
<1>5. CASE Quit BY <1>5 DEF Quit
<1>6. CASE Late BY <1>6 DEF Late
<1>7. ASSUME NEW h \in Handles, QuitCommand(h) PROVE Kept BY <1>7 DEF QuitCommand
<1>8. ASSUME NEW h \in Handles, AbortAsync(h) PROVE Kept BY <1>8 DEF AbortAsync
<1>9. ASSUME NEW h \in Handles, Remove(h) PROVE Kept
  <2> DEFINE gives == ~is_cli /\ Terminates(h)
  <2>1. /\ \A g \in Handles : pc'[g] = IF g # h THEN pc[g] ELSE IF gives THEN "stop" ELSE "gone"
        /\ have_terminator' <=> have_terminator \/ gives
        /\ UNCHANGED <<is_cli, terminate_core_thread, core, work>>
    BY <1>9 DEF Remove
  <2>2. gives => ~is_cli /\ ~have_terminator
    BY DEF Terminates
  <2>3. core \notin {"exited", "destroyed"}
    BY <1>9 DEF Remove
  <2>4. Reserved'
    BY <2>1, <2>2
  <2>5. AskedLast'
    BY <2>1, <2>2
  <2>6. ExitsLast'
    BY <2>1, <2>3
  <2> QED
    BY <2>4, <2>5, <2>6
<1>10. ASSUME NEW h \in Handles, StopPlay(h) PROVE Kept BY <1>10 DEF StopPlay
<1>11. ASSUME NEW h \in Handles, AskToStop(h) PROVE Kept BY <1>11 DEF AskToStop
<1>12. ASSUME NEW h \in Handles, WakeupCore(h) PROVE Kept BY <1>12 DEF WakeupCore
<1>13. ASSUME NEW h \in Handles, DestroyCore(h) PROVE Kept BY <1>13 DEF DestroyCore
<1>14. ASSUME NEW h \in Handles, NEW n \in Handles, SetWeak(h, n) PROVE Kept
  BY <1>14 DEF SetWeak
<1>15. ASSUME NEW h \in Handles, NEW b \in BOOLEAN, Destroy(h, b) PROVE Kept
  BY <1>15 DEF Destroy
<1>16. ASSUME NEW h \in Handles, NEW n \in Handles, NEW b \in BOOLEAN, NewClient(h, n, b)
       PROVE Kept
  BY <1>16 DEF NewClient
<1>17. ASSUME NEW o \in Owners, Async(o) PROVE Kept BY <1>17 DEF Async, Assumption
<1>18. ASSUME NEW o \in Owners, AsyncDone(o) PROVE Kept BY <1>18 DEF AsyncDone
<1>19. CASE UNCHANGED vars BY <1>19 DEF vars
<1> QED
  BY <1>1, <1>2, <1>3, <1>4, <1>5, <1>6, <1>7, <1>8, <1>9, <1>10, <1>11, <1>12, <1>13,
     <1>14, <1>15, <1>16, <1>17, <1>18, <1>19, ZenonT(60)
  DEF Next, Core, Thread, User

(* The invariant is inductive: client.c:424 and 543, and command.c:5871,   *)
(* keep the order in which the handles, the commands and the core end.     *)
THEOREM Invariance == ASSUME Assumption PROVE Spec => []IInv
<1>1. Init => IInv
  BY InitInv
<1>2. IInv /\ [Next]_vars => IInv'
  BY TypeStep, OrderStep DEF IInv
<1> QED
  BY <1>1, <1>2, PTL DEF Spec
-----------------------------------------------------------------------------
(* The thread that is to destroy the core is on its way to do so.          *)
OnItsWay ==
  /\ have_terminator /\ ~stop_play => \E h \in Handles : pc[h] = "stop"
  /\ have_terminator /\ core # "destroyed" => \E h \in Handles : Destroying(h)
  /\ ~is_cli /\ clients = {} => have_terminator
  /\ terminate_core_thread /\ core # "destroyed" => \E h \in Handles : pc[h] \in {"wakeup", "join"}
  /\ \A h \in Handles : pc[h] \in {"wakeup", "join"} => terminate_core_thread

(* The core thread sleeps for two seconds, then aborts all commands, and   *)
(* it has been woken up, or will be, if it could exit.                     *)
SleepsWell ==
  /\ core # "play" => shutting_down
  /\ core = "sleep" => told /\ (timed \/ abort_all)
  /\ core \in {"tell", "sleep"} /\ MayExit => interrupted \/ \E h \in Handles : pc[h] = "wakeup"

(* Who makes a weak handle waits for it only.                              *)
At(position) == {h \in Handles : pc[h] = position}
Weakened ==
  /\ IsFiniteSet(At("creates")) /\ IsFiniteSet(At("created"))
  /\ Cardinality(At("creates")) = Cardinality(At("created"))

Unstuck == IInv /\ OnItsWay /\ SleepsWell /\ Weakened

LEMMA UnstuckInit == ASSUME Assumption, Init PROVE Unstuck
<1>1. OnItsWay /\ SleepsWell BY DEF Assumption, Init, OnItsWay, SleepsWell, MayExit
<1>2. At("creates") = {} /\ At("created") = {} BY DEF Init, At
<1>3. Weakened BY <1>2, FS_EmptySet DEF Weakened
<1> QED BY <1>1, <1>3, InitInv DEF Unstuck

LEMMA WeakenedStep == ASSUME Assumption, Unstuck, [Next]_vars PROVE Weakened'
<1> USE DEF At
<1>1. TypeOK /\ Weakened BY DEF Unstuck, IInv
<1>2. pc \in [Handles -> Existing \cup {"unused", "stop", "ask", "wakeup", "join", "gone"}] BY <1>1 DEF TypeOK
<1>3. ASSUME NEW h \in Handles, NEW n \in Handles, SetWeak(h, n) PROVE Weakened'
  <2>1. /\ h \in At("creates") /\ n \in At("created")
        /\ At("creates")' = At("creates") \ {h} /\ At("created")' = At("created") \ {n}
    BY <1>2, <1>3 DEF SetWeak
  <2> HIDE DEF At
  <2>2. /\ IsFiniteSet(At("creates") \ {h}) /\ IsFiniteSet(At("created") \ {n})
        /\ Cardinality(At("creates") \ {h}) = Cardinality(At("creates")) - 1
        /\ Cardinality(At("created") \ {n}) = Cardinality(At("created")) - 1
    BY <1>1, <2>1, FS_RemoveElement DEF Weakened
  <2> QED BY <1>1, <2>1, <2>2 DEF Weakened
<1>4. ASSUME NEW h \in Handles, NEW n \in Handles, NEW b \in BOOLEAN, NewClient(h, n, b) PROVE Weakened'
  <2>1. CASE b
    <3>1. /\ h \notin At("creates") /\ n \notin At("created")
          /\ At("creates")' = At("creates") \cup {h} /\ At("created")' = At("created") \cup {n}
      BY <1>2, <1>4, <2>1 DEF NewClient
    <3> HIDE DEF At
    <3>2. /\ IsFiniteSet(At("creates") \cup {h}) /\ IsFiniteSet(At("created") \cup {n})
          /\ Cardinality(At("creates") \cup {h}) = Cardinality(At("creates")) + 1
          /\ Cardinality(At("created") \cup {n}) = Cardinality(At("created")) + 1
      BY <1>1, <3>1, FS_AddElement DEF Weakened
    <3> QED BY <1>1, <3>1, <3>2 DEF Weakened
  <2>2. CASE ~b
    <3>1. At("creates")' = At("creates") /\ At("created")' = At("created")
      BY <1>2, <1>4, <2>2 DEF NewClient
    <3> QED BY <1>1, <3>1 DEF Weakened
  <2> QED BY <2>1, <2>2
<1>5. ASSUME \A h \in Handles : pc'[h] = pc[h] \/ {pc[h], pc'[h]} \cap {"creates", "created"} = {}
      PROVE  Weakened'
  <2>1. At("creates")' = At("creates") /\ At("created")' = At("created") BY <1>5
  <2> QED BY <1>1, <2>1 DEF Weakened
<1> HIDE DEF At
<1> DEFINE Elsewhere == \A h \in Handles : pc'[h] = pc[h] \/ {pc[h], pc'[h]} \cap {"creates", "created"} = {}
<1>6. (Core \/ Quit \/ Late \/ UNCHANGED vars) => Elsewhere
  BY DEF Core, EndPlay, Test, Tell, WakeUp, Quit, Late, vars
<1>7. \A o \in Owners : Async(o) \/ AsyncDone(o) => Elsewhere BY DEF Async, AsyncDone
<1>8. ASSUME NEW h \in Handles,
             QuitCommand(h) \/ AbortAsync(h) \/ Remove(h) \/ StopPlay(h) \/ AskToStop(h) \/ WakeupCore(h) \/ DestroyCore(h)
      PROVE  Elsewhere
  BY <1>2, <1>8 DEF QuitCommand, AbortAsync, Remove, StopPlay, AskToStop, WakeupCore, DestroyCore, Goes
<1>9. ASSUME NEW h \in Handles, User(h) PROVE Elsewhere BY <1>2, <1>9 DEF User, Destroy, Goes
<1> QED BY <1>3, <1>4, <1>5, <1>6, <1>7, <1>8, <1>9 DEF Next, Thread

LEMMA OnItsWayStep == ASSUME Assumption, Unstuck, [Next]_vars PROVE OnItsWay' /\ SleepsWell'
<1> DEFINE Kept == OnItsWay' /\ SleepsWell'
<1> USE DEF Unstuck, IInv, TypeOK, OnItsWay, SleepsWell, MayExit, Destroying, Existing, flags, Goes
<1>1. CASE EndPlay BY <1>1 DEF EndPlay
<1>2. CASE Test BY <1>2 DEF Test, MayExit
<1>3. CASE Tell BY <1>3 DEF Tell
<1>4. CASE WakeUp BY <1>4 DEF WakeUp
<1>5. CASE Quit BY <1>5 DEF Quit
<1>6. CASE Late BY <1>6 DEF Late
<1>7. ASSUME NEW h \in Handles, QuitCommand(h) PROVE Kept BY <1>7 DEF QuitCommand
<1>8. ASSUME NEW h \in Handles, AbortAsync(h) PROVE Kept BY <1>8 DEF AbortAsync
<1>9. ASSUME NEW h \in Handles, Remove(h) PROVE Kept
  <2> DEFINE gives == ~is_cli /\ Terminates(h)
  <2>1. /\ \A g \in Handles : pc'[g] = IF g # h THEN pc[g] ELSE IF gives THEN "stop" ELSE "gone"
        /\ have_terminator' <=> have_terminator \/ gives
        /\ clients' = clients \ {h} /\ pc[h] = "wait" /\ interrupted' = TRUE
        /\ UNCHANGED <<is_cli, terminate_core_thread, core, work, stop_play, shutting_down, told, timed, abort_all>>
    BY <1>9 DEF Remove
  <2>2. clients' = {} => have_terminator \/ gives \/ is_cli BY <2>1 DEF Terminates
  <2> HIDE DEF gives
  <2> QED BY <2>1, <2>2
<1>10. ASSUME NEW h \in Handles, StopPlay(h) PROVE Kept BY <1>10 DEF StopPlay
<1>11. ASSUME NEW h \in Handles, AskToStop(h) PROVE Kept BY <1>11 DEF AskToStop
<1>12. ASSUME NEW h \in Handles, WakeupCore(h) PROVE Kept BY <1>12 DEF WakeupCore
<1>13. ASSUME NEW h \in Handles, DestroyCore(h) PROVE Kept BY <1>13 DEF DestroyCore
<1>14. ASSUME NEW h \in Handles, NEW n \in Handles, SetWeak(h, n) PROVE Kept
  BY <1>14 DEF SetWeak
<1>15. ASSUME NEW h \in Handles, NEW b \in BOOLEAN, Destroy(h, b) PROVE Kept
  BY <1>15 DEF Destroy
<1>16. ASSUME NEW h \in Handles, NEW n \in Handles, NEW b \in BOOLEAN, NewClient(h, n, b)
       PROVE Kept
  BY <1>16 DEF NewClient
<1>17. ASSUME NEW o \in Owners, Async(o) PROVE Kept BY <1>17 DEF Async, Assumption
<1>18. ASSUME NEW o \in Owners, AsyncDone(o) PROVE Kept
  <2>1. work' = {} => Cardinality(work) = 1
    <3>1. work' = {} => work = {o} BY <1>18 DEF AsyncDone
    <3> QED BY <3>1, FS_Singleton
  <2> QED BY <1>18, <2>1 DEF AsyncDone, LastWork
<1>19. CASE UNCHANGED vars BY <1>19 DEF vars
<1> QED
  BY <1>1, <1>2, <1>3, <1>4, <1>5, <1>6, <1>7, <1>8, <1>9, <1>10, <1>11, <1>12, <1>13,
     <1>14, <1>15, <1>16, <1>17, <1>18, <1>19, ZenonT(60)
  DEF Next, Core, Thread, User

LEMMA SomebodyGoesOn ==
  ASSUME Assumption, Unstuck, stop_play \/ have_terminator, core # "destroyed" PROVE GoesOn
<1> SUFFICES ASSUME ~GoesOn PROVE FALSE OBVIOUS
<1>1. ~CoreGoesOn /\ (shutting_down => late) /\ \A h \in Handles : ~HandleGoesOn(h) BY DEF GoesOn
<1>2. TypeOK /\ ExitsLast /\ OnItsWay /\ SleepsWell /\ Weakened BY DEF Unstuck, IInv
<1>3. core # "play"
  <2> SUFFICES ASSUME core = "play" PROVE FALSE OBVIOUS
  <2>1. ~stop_play BY <1>1 DEF CoreGoesOn
  <2>2. PICK h \in Handles : pc[h] = "stop" BY <1>2, <2>1 DEF OnItsWay
  <2> QED BY <1>1, <2>2 DEF HandleGoesOn, Lockable
<1>4. core # "exited"
  <2> SUFFICES ASSUME core = "exited" PROVE FALSE OBVIOUS
  <2>1. PICK h \in Handles : pc[h] \in {"wakeup", "join"} BY <1>2 DEF OnItsWay, ExitsLast
  <2> QED BY <1>1, <2>1 DEF HandleGoesOn
<1>5. core = "sleep" BY <1>1, <1>2, <1>3, <1>4 DEF CoreGoesOn, TypeOK
<1>6. ~interrupted /\ told /\ abort_all /\ Lockable BY <1>1, <1>2, <1>5 DEF CoreGoesOn, SleepsWell, Lockable
<1>7. work = {} BY <1>6 DEF GoesOn, Aborted
<1>8. At("creates") = {} /\ At("created") = {}
  <2>1. At("creates") = {} <=> At("created") = {}
    <3>1. /\ At("creates") = {} <=> Cardinality(At("creates")) = 0
          /\ At("created") = {} <=> Cardinality(At("created")) = 0
      BY <1>2, FS_EmptySet DEF Weakened
    <3> QED BY <1>2, <3>1 DEF Weakened
  <2>2. At("creates") = {} \/ At("created") = {} BY <1>1 DEF HandleGoesOn, At
  <2> QED BY <2>1, <2>2
<1>9. \A h \in Handles : pc[h] \in {"unused", "join", "gone"}
  BY <1>1, <1>2, <1>6, <1>7, <1>8 DEF HandleGoesOn, TypeOK, Existing, At
<1>10. clients = {} BY <1>2, <1>9 DEF TypeOK, Existing
<1>11. is_cli \/ terminate_core_thread BY <1>2, <1>5, <1>9, <1>10 DEF OnItsWay, Destroying
<1> QED BY <1>2, <1>5, <1>6, <1>7, <1>9, <1>10, <1>11 DEF SleepsWell, MayExit
-----------------------------------------------------------------------------
(* The two together: in a behaviour one of them is used.                   *)

AllInv == IInv /\ CInv

LEMMA EachStep == ASSUME [AllNext]_allvars PROVE [Next]_vars /\ [Cancelling!Next]_(Cancelling!vars)
<1>1. UNCHANGED cancel => UNCHANGED Cancelling!vars BY DEF cancel, Cancelling!vars
<1> QED BY <1>1 DEF AllNext, InCancel, InLifetime, allvars

THEOREM AllInvariant == AllSpec => []AllInv
<1>1. AllInit => AllInv BY InitInv, CancelInit, CancelAssumed DEF AllInit, AllInv
<1>2. AllInv /\ [AllNext]_allvars => AllInv'
  <2> SUFFICES ASSUME AllInv, [AllNext]_allvars PROVE AllInv' OBVIOUS
  <2>1. [Next]_vars /\ [Cancelling!Next]_(Cancelling!vars) BY EachStep
  <2>2. IInv' BY <2>1, TypeStep, OrderStep, CancelAssumed DEF AllInv, IInv
  <2>3. CInv' BY <2>1, CancelStep, CancelAssumed DEF AllInv
  <2> QED BY <2>2, <2>3 DEF AllInv
<1> QED BY <1>1, <1>2, PTL DEF AllSpec

(* The types of both.  In particular no thread locks or triggers an object *)
(* of mp_cancel that was destroyed, no object has a destroyed slave, and   *)
(* no asynchronous command belongs to a client that is gone.               *)
THEOREM TypesKept == AllSpec => []TypesOK
<1>1. AllInv => TypesOK BY CancelTypes, CancelAssumed DEF AllInv, IInv, TypesOK
<1> QED BY <1>1, AllInvariant, PTL

(* Whenever the lock of an object is free, a trigger has reached its file  *)
(* descriptor, its callback and its slaves, however threads trigger, reset,*)
(* link and unlink them while it goes through the tree.                    *)
THEOREM TriggersReach == AllSpec => []TriggerComplete
<1>1. AllInv => TriggerComplete BY DEF AllInv, CInv, TriggerComplete
<1> QED BY <1>1, AllInvariant, PTL

(* The core outlives everybody who uses it, for any number of handles and  *)
(* commands: mp_destroy_client() lets one thread destroy it, after all     *)
(* others, and that thread finds it alive when it locks it.                *)
THEOREM CoreOutlivesUsers == AllSpec => []CoreKept
<1>1. AllInv => CoreKept
  BY DEF AllInv, IInv, TypeOK, Reserved, AskedLast, ExitsLast, CoreKept, Destroying, Existing
<1> QED BY <1>1, AllInvariant, PTL

(* The end of the player never gets stuck: once somebody quits or the last *)
(* strong handle is destroyed, a thread can go on by itself until the core *)
(* is destroyed.  (The other half of Ends, about ENABLED, is checked only.)*)
THEOREM NeverStuck == AllSpec => []Unblocked
<1>1. AllInit => Unstuck BY UnstuckInit, CancelAssumed DEF AllInit
<1>2. Unstuck /\ [AllNext]_allvars => Unstuck'
  <2> SUFFICES ASSUME Unstuck, [Next]_vars PROVE Unstuck' BY EachStep
  <2>1. IInv' BY TypeStep, OrderStep, CancelAssumed DEF Unstuck, IInv
  <2> QED BY <2>1, WeakenedStep, OnItsWayStep, CancelAssumed DEF Unstuck
<1>3. Unstuck => Unblocked BY SomebodyGoesOn, CancelAssumed DEF Unblocked
<1> QED BY <1>1, <1>2, <1>3, PTL DEF AllSpec
=============================================================================
