----------------------------- MODULE MCDispatch -----------------------------
(***************************************************************************)
(* Model checking instance of the dispatch queue and of the option caches, *)
(* which notify their users through it.  They do not interact here: in a   *)
(* behaviour one of them is used, and the other is idle.                   *)
(*   Dispatch: two clients and one target thread.                          *)
(*   ConfigCache: the core, which reads changes one by one, and the video  *)
(* output, which has the second of two groups of options.                  *)
(***************************************************************************)
EXTENDS Dispatch

CONSTANTS player, vo
MCCaches == {player, vo}
MCGroup == <<1, 2, 2>>
MCView == [c \in MCCaches |-> IF c = player THEN {1, 2} ELSE {2}]

CONSTANTS Caches, NumOptions, Group, View, Stepwise, Forced, Values, MaxWrites

VARIABLES shadow, cache, does, notified, due, raced
config == <<shadow, cache, does, notified, due, raced>>
Config == INSTANCE ConfigCache WITH pc <- does

ASSUME ConfigAssumption == Config!Assumption

VARIABLE part       (* the one that is used                                *)
allvars == <<vars, config, part>>

AllInit ==
  /\ part \in {"dispatch", "config"}
  /\ Init /\ Config!Init
  /\ part # "dispatch" => wakeup_fn

InDispatch(A) == part = "dispatch" /\ A /\ UNCHANGED <<config, part>>
InConfig(A) == part = "config" /\ A /\ UNCHANGED <<vars, part>>
AllNext == InDispatch(Next) \/ InConfig(Config!Next)

(* The fairness of the specifications, each for its own component.         *)
AllSpec ==
  /\ AllInit /\ [][AllNext]_allvars
  /\ WF_allvars(InDispatch(TargetStep /\ UNCHANGED wakeup_fn))
  /\ \A c \in Clients : SF_allvars(InDispatch(ClientStep(c) /\ UNCHANGED wakeup_fn))
-----------------------------------------------------------------------------
(* While a cache of options has a change to report, its thread is at it or *)
(* is notified (m_config_cache_write_opt(), m_config_cache_update()).      *)
Told == Config!TypeOK /\ Config!Told
=============================================================================
