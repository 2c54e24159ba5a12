------------------------------- MODULE LogWait -------------------------------
(***************************************************************************)
(* What Start of the miner and of cln expects of waitForLog, and what      *)
(* AwaitLog of module Lifecycle takes for granted: it returns nil only     *)
(* once the log has more ready lines than the node was started before.     *)
(***************************************************************************)
EXTENDS Naturals

CONSTANT TimesStarted  \* n.timesStarted while waitForLog runs

VARIABLES
  readyLines,  \* the ready lines in the log
  found        \* waitForLog has returned nil

vars == <<readyLines, found>>

Init == readyLines \in Nat /\ found = FALSE

Announce == readyLines' > readyLines /\ UNCHANGED found

Return ==
  /\ readyLines > TimesStarted
  /\ found' = TRUE
  /\ UNCHANGED readyLines

Next == Announce \/ Return

Spec == Init /\ [][Next]_vars
=============================================================================
