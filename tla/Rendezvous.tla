----------------------------- MODULE Rendezvous -----------------------------
(***************************************************************************)
(* misc/rendezvous.c: two threads that call mp_rendezvous() with the same  *)
(* tag wait for each other and exchange a value.  The value passed in a    *)
(* thread's n-th call with a tag is n.                                     *)
(*                                                                         *)
(* A thread that arrives first links a waiter into a list of all waiters   *)
(* of the process; the second completes and unlinks it, and does not wait. *)
(* The first may be slow to return: the second may call again before.      *)
(***************************************************************************)
EXTENDS Naturals

CONSTANTS
  Threads, Tags,
  Members,        (* the two threads that use a tag                        *)
  None,
  MaxCalls        (* bound: calls of a thread with a tag                   *)

ASSUME RendezvousAssumption ==
  /\ Members \in [Tags -> SUBSET Threads]
  /\ \A tag \in Tags : \E a, b \in Threads : a # b /\ Members[tag] = {a, b}
  /\ None \notin Tags
  /\ MaxCalls \in Nat

VARIABLES
  waiters,        (* the threads whose waiter is in the list               *)
  at,             (* the tag a thread has called with and waits for        *)
  value,          (* *wait.value of a thread                               *)
  calls,          (* number of calls, and the value of the last one        *)
  got             (* history: the value the last call returned             *)

vars == <<waiters, at, value, calls, got>>

Init ==
  /\ waiters = {} /\ at = [t \in Threads |-> None] /\ value = [t \in Threads |-> 0]
  /\ calls = [t \in Threads |-> [tag \in Tags |-> 0]]
  /\ got = [t \in Threads |-> [tag \in Tags |-> 0]]

(* The search of the list                                                  *)
AnyWaiter(u, tag) == u \in waiters                     (* mutant of Matches *)
Matches(u, tag) == u \in waiters /\ at[u] = tag

Call(t, tag) ==
  /\ at[t] = None /\ t \in Members[tag] /\ calls[t][tag] < MaxCalls
  /\ calls' = [calls EXCEPT ![t][tag] = @ + 1]

(* the first: link the waiter and wait                                     *)
Arrive(t, tag) ==
  /\ Call(t, tag)
  /\ \A u \in Threads : ~Matches(u, tag)
  /\ at' = [at EXCEPT ![t] = tag]
  /\ waiters' = waiters \cup {t}
  /\ value' = [value EXCEPT ![t] = calls'[t][tag]]
  /\ UNCHANGED got

(* the second: exchange the values and unlink                              *)
Meet(t, u, tag) ==
  /\ Call(t, tag) /\ Matches(u, tag)
  /\ got' = [got EXCEPT ![t][tag] = value[u]]
  /\ value' = [value EXCEPT ![u] = calls'[t][tag]]
  /\ waiters' = waiters \ {u}
  /\ UNCHANGED at

(* the end of the wait                                                     *)
NeverWoken(t) == FALSE                                (* mutant of Complete *)
Complete(t) == t \notin waiters
Return(t) ==
  /\ at[t] # None /\ Complete(t)
  /\ got' = [got EXCEPT ![t][at[t]] = value[t]]
  /\ at' = [at EXCEPT ![t] = None]
  /\ UNCHANGED <<waiters, value, calls>>

Next == \E t \in Threads :
  \/ \E tag \in Tags : Arrive(t, tag) \/ \E u \in Threads : Meet(t, u, tag)
  \/ Return(t)

(* The waiting thread runs after the broadcast.                            *)
Spec == Init /\ [][Next]_vars /\ \A t \in Threads : WF_vars(Return(t))

-----------------------------------------------------------------------------
(* The variables have the types of the code.                               *)
TypeOK ==
  /\ waiters \in SUBSET Threads /\ at \in [Threads -> Tags \cup {None}]
  /\ value \in [Threads -> Nat]
  /\ calls \in [Threads -> [Tags -> Nat]] /\ got \in [Threads -> [Tags -> Nat]]

(* "on each thread the call returns the value parameter of the _other_     *)
(* thread": what the n-th call returns is the value of the other's n-th,   *)
(* whether the calls of a slow and a fast thread overlap or not.           *)
Paired == \A t \in Threads, tag \in Tags : at[t] # tag => got[t][tag] = calls[t][tag]

(* Nobody is left waiting once the other has called as often.  (The calls  *)
(* are bounded: in the end nobody is.)                                     *)
Due == \E tag \in Tags : \E t, u \in Members[tag] :
         t # u /\ at[t] = tag /\ calls[u][tag] >= calls[t][tag]
Met == Due ~> ~Due

(* A thread waits in the list only as long as it is ahead of the other.    *)
Ahead == \A tag \in Tags : \A t, u \in Members[tag] :
  t # u => IF Matches(t, tag) THEN calls[t][tag] = calls[u][tag] + 1
                              ELSE calls[t][tag] <= calls[u][tag]
Waiting == \A t \in Threads :
  at[t] # None => /\ t \in Members[at[t]]
                  /\ value[t] = calls[t][at[t]]
Linked == \A t \in waiters : at[t] # None

IInv == TypeOK /\ Ahead /\ Waiting /\ Linked /\ Paired
=============================================================================
