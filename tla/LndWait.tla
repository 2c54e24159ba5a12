------------------------------- MODULE LndWait -------------------------------
(***************************************************************************)
(* What Start of lnd expects of waitServerStarted, of opening the wallet   *)
(* and of waitServerActive, and what AwaitStarted, OpenWallet and          *)
(* AwaitActive of module Lifecycle take for granted: it gets past the      *)
(* first wait only when the node's own daemon has left WAITING_TO_START,   *)
(* opens the wallet of that daemon and of no other, and gets past the      *)
(* second wait only when that daemon has reached SERVER_ACTIVE.            *)
(***************************************************************************)
EXTENDS Naturals

VARIABLES
  reached,  \* how far the node's own daemon has come
  foreign,  \* Start has opened the wallet of another daemon
  at        \* where Start is

vars == <<reached, foreign, at>>

\* WAITING_TO_START, wallet closed, UNLOCKED, RPC_ACTIVE, SERVER_ACTIVE.
Waiting == 0
Closed  == 1
Active  == 4

Init == reached = Waiting /\ foreign = FALSE /\ at = "starting"

\* The daemon makes its way, but nothing except Open opens its wallet.
Advance ==
  /\ reached \in (Waiting .. Active - 1) \ {Closed}
  /\ reached' = reached + 1
  /\ UNCHANGED <<foreign, at>>

Begin ==
  /\ at = "starting" /\ reached # Waiting /\ at' = "started"
  /\ UNCHANGED <<reached, foreign>>

\* The reply may be lost.
Open ==
  /\ at = "started" /\ reached = Closed
  /\ reached' = Closed + 1 /\ at' \in {"opened", "failed"}
  /\ UNCHANGED foreign

Activate ==
  /\ at = "opened" /\ reached = Active /\ at' = "active"
  /\ UNCHANGED <<reached, foreign>>

Fail == at # "active" /\ at' = "failed" /\ UNCHANGED <<reached, foreign>>

Next == Advance \/ Begin \/ Open \/ Activate \/ Fail

Spec == Init /\ [][Next]_vars
=============================================================================
