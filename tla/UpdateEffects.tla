---------------------------- MODULE UpdateEffects ----------------------------
(***************************************************************************)
(* What the bot promises of the updates of MAX: an update takes effect in  *)
(* one step and at most once, with at most one row to show for it, and a   *)
(* background task belongs to an update that took effect and is started    *)
(* once.                                                                   *)
(***************************************************************************)
CONSTANT Updates

VARIABLES
  done,     \* the updates that took effect
  effects,  \* the rows each update left
  started   \* the updates whose background task was started

vars == <<done, effects, started>>

Init ==
  /\ done = {}
  /\ effects = [x \in Updates |-> {}]
  /\ started = {}

TakeEffect(x) ==
  /\ x \in Updates \ done
  /\ done' = done \cup {x}
  /\ \A y \in Updates \ {x} : effects'[y] = effects[y]
  /\ DOMAIN effects' = Updates
  /\ \A i, j \in effects'[x] : i = j
  /\ UNCHANGED started

StartTask(x) ==
  /\ x \in done \ started
  /\ effects[x] # {}
  /\ started' = started \cup {x}
  /\ UNCHANGED <<done, effects>>

Next == \E x \in Updates : TakeEffect(x) \/ StartTask(x)

Spec == Init /\ [][Next]_vars
=============================================================================
