----------------------------- MODULE NodeHandle -----------------------------
(***************************************************************************)
(* What Start and Stop promise about one node, whatever its kind: at most  *)
(* one daemon that nobody has told to stop, which comes into being inside  *)
(* a Start and is told to stop before the call that gives it up returns.   *)
(* Module Lifecycle implements it, with processes, mutexes and incarnations*)
(* in the place of two words.                                              *)
(***************************************************************************)
VARIABLES
  phase,  \* where the node is between a Start and the end of its Stop
  loose   \* a living daemon of the node has not been told to stop

vars == <<phase, loose>>

Phases == {"off", "starting", "launched", "on", "stopping", "lost"}

TypeOK == phase \in Phases /\ loose \in BOOLEAN

Init == phase = "off" /\ loose = FALSE

\* Start of a node that has no runtime, and only of such a node.
Start == phase = "off" /\ ~ loose /\ phase' = "starting" /\ UNCHANGED loose

\* cmd.Start, the only way a daemon comes into being.
Spawn == phase = "starting" /\ phase' = "launched" /\ loose' = TRUE

\* A daemon dies by itself, or with the context.
Crash == loose /\ loose' = FALSE /\ UNCHANGED phase

\* Start returns.
Ready == phase = "launched" /\ phase' = "on" /\ UNCHANGED loose

\* Start gives up: nothing it launched is left without a signal.
GiveUp ==
  /\ phase \in {"starting", "launched"}
  /\ phase' \in {"off", "stopping"}
  /\ loose' = FALSE

\* Stop: at once, or after waiting for the process.
Stop == phase = "on" /\ phase' \in {"off", "stopping"} /\ loose' = FALSE
Stopped == phase = "stopping" /\ phase' = "off" /\ UNCHANGED loose

\* log.Fatalf: the test binary is gone and keeps no promise any more.
Abandon == phase # "lost" /\ phase' = "lost" /\ UNCHANGED loose

Next ==
  \/ Start \/ Spawn \/ Crash \/ Ready \/ GiveUp
  \/ Stop \/ Stopped \/ Abandon

Spec == Init /\ [][Next]_vars
=============================================================================
