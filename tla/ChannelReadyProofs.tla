-------------------------- MODULE ChannelReadyProofs --------------------------
(***************************************************************************)
(* Proofs about module ChannelReady, for nodes of either kind at each end, *)
(* any number of calls and any number of blocks mined meanwhile.           *)
(***************************************************************************)
EXTENDS ChannelReady, TLAPS

USE RoundsAssumption

-----------------------------------------------------------------------------
(* Types.  A round is counted only while there is one left to wait for.    *)

Counting == pc \notin Finished => round < Rounds

TypeInv == TypeOK /\ Counting

LEMMA TypesInit == Init => TypeInv
<1> SUFFICES ASSUME Init PROVE TypeInv
  OBVIOUS
<1>1. 0 \in 0 .. Rounds /\ 0 < Rounds /\ 0 \in 0 .. MaxOther
  OBVIOUS
<1>2. TypeOK
  BY <1>1 DEF Init, TypeOK, Ends, Orders, RpcLabels
<1>3. Counting
  BY <1>1 DEF Init, Counting
<1> QED
  BY <1>2, <1>3 DEF TypeInv

\* WaitForChannelReady of one end returns.
LEMMA TypesReturns ==
  ASSUME TypeInv, pc = "list", Returns,
         fundingTxId' \in Orders, UNCHANGED <<kind, txidStr, info, expired, chainVars>>
  PROVE  TypeInv'
BY DEF TypeInv, TypeOK, Counting, Returns, Peer, Ends, RpcLabels, Finished, chainVars

LEMMA TypesStep == TypeInv /\ [Next]_vars => TypeInv'
<1> SUFFICES ASSUME TypeInv, [Next]_vars PROVE TypeInv'
  OBVIOUS
<1> USE DEF TypeInv, TypeOK, Counting, Orders, RpcLabels, Finished, chainVars, testVars
<1>1. CASE OpenChannel
  BY <1>1 DEF OpenChannel, reverseBytes
<1>2. CASE Start
  BY <1>2 DEF Start
<1>3. CASE LndList
  <2>1. CASE Returns
    BY <1>3, <2>1, TypesReturns DEF LndList
  <2>2. CASE ~ Returns
    BY <1>3, <2>2 DEF LndList
  <2> QED
    BY <2>1, <2>2
<1>4. CASE LndPending
  BY <1>4 DEF LndPending
<1>5. CASE ClnList
  <2>1. fundingTxId' \in Orders
    BY <1>5 DEF ClnList, reverseBytes
  <2>2. CASE Returns
    BY <1>5, <2>1, <2>2, TypesReturns DEF ClnList
  <2>3. CASE ~ Returns
    BY <1>5, <2>1, <2>3 DEF ClnList
  <2> QED
    BY <2>2, <2>3
<1>6. CASE Late
  BY <1>6 DEF Late
<1>7. CASE MineBlocks
  BY <1>7 DEF MineBlocks, Mined
<1>8. CASE GetInfo
  BY <1>8 DEF GetInfo
<1>9. CASE GetBlockHeight
  BY <1>9 DEF GetBlockHeight
<1>10. CASE RpcFails
  BY <1>10 DEF RpcFails
<1>11. ASSUME NEW e \in Ends, Process(e) PROVE TypeInv'
  BY <1>11 DEF Process
<1>12. ASSUME NEW e \in Ends, ChannelReadyArrives(e) PROVE TypeInv'
  BY <1>12 DEF ChannelReadyArrives
<1>13. CASE OtherMines
  BY <1>13 DEF OtherMines, Mined
<1>14. CASE Tick
  BY <1>14 DEF Tick
<1>15. CASE UNCHANGED vars
  BY <1>15 DEF vars
<1> QED
  BY <1>1, <1>2, <1>3, <1>4, <1>5, <1>6, <1>7, <1>8, <1>9, <1>10, <1>11, <1>12,
     <1>13, <1>14, <1>15 DEF Next, TestStep

\* Whatever the daemons, the miner and the clock do, the test counts no more
\* rounds than it has calls to WaitForChannelReady.
THEOREM TypeCorrect == Spec => []TypeOK
<1>1. Spec => []TypeInv
  BY TypesInit, TypesStep, PTL DEF Spec
<1>2. TypeInv => TypeOK
  BY DEF TypeInv
<1> QED
  BY <1>1, <1>2, PTL

-----------------------------------------------------------------------------
(* What a daemon has seen and what WaitForSync concludes from its height.  *)

\* A daemon has seen the funding transaction confirmed only if it is, and
\* has when it is not behind the chain.
SeesChain ==
  \A e \in Ends : /\ sawFunding[e] => confirmed
                  /\ confirmed /\ ~ behind[e] => sawFunding[e]

\* WaitForSync follows MineBlocks; an answer that is still the height of the
\* chain is the one of a daemon that is not behind.
Syncing ==
  /\ pc \in {"getinfo", "height"} => confirmed
  /\ pc = "height" /\ info = "tip" => ~ behind[waiter]

ChainInv == SeesChain /\ Syncing

LEMMA ChainInit == Init => ChainInv
BY DEF Init, ChainInv, SeesChain, Syncing, Ends

\* Blocks are mined.
LEMMA ChainMined ==
  ASSUME TypeInv, ChainInv, Mined, UNCHANGED <<waiter, sawFunding>>,
         pc' = pc \/ (pc = "mine" /\ pc' = "getinfo")
  PROVE  ChainInv'
BY DEF TypeInv, TypeOK, ChainInv, SeesChain, Syncing, Mined, Ends, RpcLabels, Finished

\* The test takes a step that leaves the daemons alone.
LEMMA ChainKept ==
  ASSUME ChainInv, UNCHANGED chainVars, pc' \notin {"getinfo", "height"}
  PROVE  ChainInv'
BY DEF ChainInv, SeesChain, Syncing, chainVars

LEMMA ChainStep == TypeInv /\ ChainInv /\ [Next]_vars => ChainInv'
<1> SUFFICES ASSUME TypeInv, ChainInv, [Next]_vars PROVE ChainInv'
  OBVIOUS
<1>1. CASE OpenChannel \/ Start \/ LndPending \/ Late
  BY <1>1, ChainKept DEF OpenChannel, Start, LndPending, Late
<1>2. CASE LndList \/ ClnList
  BY <1>2, ChainKept DEF LndList, ClnList, Returns
<1>3. CASE MineBlocks
  BY <1>3, ChainMined DEF MineBlocks
<1>4. CASE GetInfo
  BY <1>4 DEF GetInfo, ChainInv, SeesChain, Syncing, chainVars
<1>5. CASE GetBlockHeight
  BY <1>5 DEF GetBlockHeight, ChainInv, SeesChain, Syncing, chainVars, TypeInv, TypeOK
<1>6. CASE RpcFails
  BY <1>6 DEF RpcFails, ChainInv, SeesChain, Syncing, chainVars
<1>7. ASSUME NEW e \in Ends, Process(e) PROVE ChainInv'
  BY <1>7 DEF Process, ChainInv, SeesChain, Syncing, testVars, TypeInv, TypeOK
<1>8. ASSUME NEW e \in Ends, ChannelReadyArrives(e) PROVE ChainInv'
  BY <1>8 DEF ChannelReadyArrives, ChainInv, SeesChain, Syncing, testVars
<1>9. CASE OtherMines
  BY <1>9, ChainMined DEF OtherMines
<1>10. CASE Tick
  BY <1>10 DEF Tick, ChainInv, SeesChain, Syncing, testVars, chainVars
<1>11. CASE UNCHANGED vars
  BY <1>11 DEF vars, ChainInv, SeesChain, Syncing, testVars, chainVars
<1> QED
  BY <1>1, <1>2, <1>3, <1>4, <1>5, <1>6, <1>7, <1>8, <1>9, <1>10, <1>11
     DEF Next, TestStep

\* Only WaitForSync goes from "height" to "list", and only on an answer that
\* is still the height of the chain.
LEMMA SyncStep ==
  TypeInv /\ ChainInv /\ [Next]_vars
    => (pc = "height" /\ pc' = "list" => sawFunding[waiter] /\ ~ behind[waiter])
<1> SUFFICES ASSUME TypeInv, ChainInv, [Next]_vars, pc = "height", pc' = "list"
             PROVE  sawFunding[waiter] /\ ~ behind[waiter]
  OBVIOUS
<1>1. GetBlockHeight
  BY DEF Next, TestStep, OpenChannel, Start, LndList, LndPending, ClnList, Late,
         MineBlocks, GetInfo, RpcFails, RpcLabels, Process, ChannelReadyArrives,
         OtherMines, Tick, vars, testVars
<1>2. info = "tip"
  BY <1>1 DEF GetBlockHeight, TypeInv, TypeOK
<1> QED
  BY <1>2 DEF ChainInv, SeesChain, Syncing, TypeInv, TypeOK

\* WaitForSync never returns for a daemon that is behind the chain or has not
\* seen the funding transaction, however many blocks others mine between the
\* two heights it compares.
THEOREM SyncCaughtUp == Spec => SyncCatchesUp
<1>1. Spec => [](TypeInv /\ ChainInv)
  BY TypesInit, TypesStep, ChainInit, ChainStep, PTL DEF Spec
<1>2. Spec => [][pc = "height" /\ pc' = "list"
                   => sawFunding[waiter] /\ ~ behind[waiter]]_vars
  BY <1>1, SyncStep, PTL DEF Spec
<1> QED
  BY <1>2 DEF SyncCatchesUp

-----------------------------------------------------------------------------
(* A channel that is ready stays ready, and each end was waited for.       *)

Waited ==
  /\ waiter = "to" \/ round > 0 => Locked("from")
  /\ round > 0 => Locked("to")
  /\ pc = "done" => round > 0

LEMMA WaitedInit == Init => Waited
BY DEF Init, Waited

\* No step of a daemon or of the chain takes a channel out of use.
LEMMA LockedStays ==
  ASSUME TypeInv, ChainInv, [Next]_vars, NEW e \in Ends, Locked(e)
  PROVE  Locked(e)'
<1> USE DEF Locked
<1>1. CASE TestStep \/ Tick \/ UNCHANGED vars
  BY <1>1 DEF TestStep, OpenChannel, Start, LndList, LndPending, ClnList, Late,
     MineBlocks, GetInfo, GetBlockHeight, RpcFails, Tick, vars, chainVars
<1>2. ASSUME NEW d \in Ends, Process(d) PROVE Locked(e)'
  BY <1>2 DEF Process, ChainInv, SeesChain, TypeInv, TypeOK
<1>3. ASSUME NEW d \in Ends, ChannelReadyArrives(d) PROVE Locked(e)'
  BY <1>3 DEF ChannelReadyArrives, TypeInv, TypeOK
<1>4. CASE OtherMines
  BY <1>4 DEF OtherMines
<1> QED
  BY <1>1, <1>2, <1>3, <1>4 DEF Next

\* Only the two polls end the wait for an end, and only when it has locked in.
LEMMA WaiterMoves ==
  ASSUME TypeInv, [Next]_vars
  PROVE  \/ UNCHANGED <<waiter, round>> /\ (pc' = "done" => pc = "done")
         \/ Locked(waiter) /\ Returns
BY DEF Next, TestStep, OpenChannel, Start, LndList, LndPending, ClnList, Late,
       MineBlocks, GetInfo, GetBlockHeight, RpcFails, Process, ChannelReadyArrives,
       OtherMines, Tick, vars, testVars, TypeInv, TypeOK

LEMMA WaitedStep == TypeInv /\ ChainInv /\ Waited /\ [Next]_vars => Waited'
<1> SUFFICES ASSUME TypeInv, ChainInv, Waited, [Next]_vars PROVE Waited'
  OBVIOUS
<1>1. \A e \in Ends : Locked(e) => Locked(e)'
  BY LockedStays
<1>2. "from" \in Ends /\ "to" \in Ends
  BY DEF Ends
<1>3. CASE UNCHANGED <<waiter, round>> /\ (pc' = "done" => pc = "done")
  BY <1>1, <1>2, <1>3 DEF Waited
<1>4. CASE Locked(waiter) /\ Returns
  <2>1. waiter \in Ends /\ round \in Nat
    BY DEF TypeInv, TypeOK
  <2>2. CASE waiter = "from"
    BY <1>1, <1>2, <1>4, <2>1, <2>2 DEF Waited, Returns, Peer
  <2>3. CASE waiter = "to"
    BY <1>1, <1>2, <1>4, <2>1, <2>3 DEF Waited, Returns, Peer
  <2> QED
    BY <2>1, <2>2, <2>3 DEF Ends
<1> QED
  BY <1>3, <1>4, WaiterMoves

\* When ChannelInfo.WaitForChannelReady has returned, both ends have locked
\* the channel in, whichever kind of node each is.
THEOREM Ready == Spec => []ReadyOnBothEnds
<1>1. Spec => [](TypeInv /\ ChainInv /\ Waited)
  BY TypesInit, TypesStep, ChainInit, ChainStep, WaitedInit, WaitedStep, PTL DEF Spec
<1>2. Waited => ReadyOnBothEnds
  BY DEF Waited, ReadyOnBothEnds, Ends
<1> QED
  BY <1>1, <1>2, PTL
===============================================================================
