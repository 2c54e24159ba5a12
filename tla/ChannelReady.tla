----------------------------- MODULE ChannelReady -----------------------------
(***************************************************************************)
(* Waiting for a channel: OpenChannel of one node, then Rounds times       *)
(* ChannelInfo.WaitForChannelReady, which waits on the opener (From) and   *)
(* then on its peer (To).  Each node polls its daemon, mines six blocks    *)
(* while the daemon says the funding transaction is unconfirmed, waits     *)
(* until the daemon has seen them (WaitForSync) and polls again.           *)
(*                                                                         *)
(* The blocks are abstracted to what the polls tell apart: six blocks      *)
(* confirm the funding transaction deeply enough for either daemon, and a  *)
(* daemon is or is not behind the tip.  ChannelInfo.FundingTxId is         *)
(* abstracted to its byte order, which the two kinds of node disagree on.  *)
(***************************************************************************)
EXTENDS Naturals

CONSTANTS
  Rounds,    \* calls of ChannelInfo.WaitForChannelReady
  MaxOther   \* bound: blocks the rest of the test mines meanwhile

ASSUME RoundsAssumption == Rounds \in Nat \ {0} /\ MaxOther \in Nat

VARIABLES
  kind,         \* whether each end is an lnd or a cln node
  pc,           \* where the test is
  round,        \* calls of ChannelInfo.WaitForChannelReady that returned
  waiter,       \* the end of the channel being waited on
  fundingTxId,  \* byte order of channel.FundingTxId
  txidStr,      \* byte order of it when WaitForChannelReady of lnd began
  info,         \* what WaitForSync's GetInfo answered
  expired,      \* the deadline of the harness, and so of its Ctx, has passed
  confirmed,    \* the funding transaction is in a block
  behind,       \* whether a daemon is behind the tip of the chain
  sawFunding,   \* whether a daemon has seen the funding transaction confirmed
  gotReady,     \* whether a daemon has received channel_ready from its peer
  others        \* blocks mined by the rest of the test

testVars  == <<kind, pc, round, waiter, fundingTxId, txidStr, info>>
chainVars == <<confirmed, behind, sawFunding, gotReady, others>>
vars == <<testVars, expired, chainVars>>

Ends == {"from", "to"}
Peer(e) == IF e = "from" THEN "to" ELSE "from"
\* The daemon has locked the channel in: CHANNELD_NORMAL, or Active in lnd.
Locked(e) == sawFunding[e] /\ gotReady[e]

\* lnd hands out and expects the hash order, the txid of cln is the reverse.
Orders == {"hash", "reversed"}
reverseBytes(o) == IF o = "hash" THEN "reversed" ELSE "hash"

RpcLabels  == {"open", "list", "pending", "mine", "getinfo", "height"}
Finished == {"done", "failed", "panic"}

TypeOK ==
  /\ kind \in [Ends -> {"lnd", "cln"}]
  /\ pc \in RpcLabels \cup {"start", "late"} \cup Finished
  /\ round \in 0 .. Rounds
  /\ waiter \in Ends
  /\ fundingTxId \in Orders /\ txidStr \in Orders
  /\ info \in {"nil", "tip", "old"}
  /\ expired \in BOOLEAN /\ confirmed \in BOOLEAN
  /\ behind \in [Ends -> BOOLEAN]
  /\ sawFunding \in [Ends -> BOOLEAN]
  /\ gotReady \in [Ends -> BOOLEAN]
  /\ others \in 0 .. MaxOther

Init ==
  /\ kind \in [Ends -> {"lnd", "cln"}]
  /\ pc = "open"
  /\ round = 0
  /\ waiter = "from"
  /\ fundingTxId = "hash" /\ txidStr = "hash"
  /\ info = "nil"
  /\ expired = FALSE /\ confirmed = FALSE
  /\ behind = [e \in Ends |-> FALSE]
  /\ sawFunding = [e \in Ends |-> FALSE]
  /\ gotReady = [e \in Ends |-> FALSE]
  /\ others = 0

-----------------------------------------------------------------------------
(* The calls of the test.  A reply comes only before the deadline: every   *)
(* RPC carries the context of the harness.                                 *)

\* OpenChannel: lnd answers with the hash order; cln reverses its txid into it.
OpenChannel ==
  /\ pc = "open" /\ ~ expired
  /\ fundingTxId' = IF kind["from"] = "cln" THEN reverseBytes("reversed") ELSE "hash"
  /\ pc' = "start"
  /\ UNCHANGED <<kind, round, waiter, txidStr, info, expired, chainVars>>

\* WaitForChannelReady begins; lnd turns FundingTxId into a string once.
Start ==
  /\ pc = "start"
  /\ txidStr' = fundingTxId
  /\ pc' = "list"
  /\ UNCHANGED <<kind, round, waiter, fundingTxId, info, expired, chainVars>>

\* Fault: the end is noticed one call late.
ReturnsLate ==
  /\ waiter' = Peer(waiter)
  /\ round' = IF waiter = "to" THEN round + 1 ELSE round
  /\ pc' = IF waiter = "to" /\ round = Rounds THEN "done" ELSE "start"

\* WaitForChannelReady of the waiter returns: From is followed by To, To by
\* the next call, if any.
Returns ==
  /\ waiter' = Peer(waiter)
  /\ round' = IF waiter = "to" THEN round + 1 ELSE round
  /\ pc' = IF round' = Rounds THEN "done" ELSE "start"

\* Fault: a listed channel is taken for an active one.
LndListInactive ==
  /\ pc = "list" /\ ~ expired /\ kind[waiter] = "lnd"
  /\ IF txidStr = "hash" /\ sawFunding[waiter]
       THEN Returns
       ELSE pc' = "pending" /\ UNCHANGED <<round, waiter>>
  /\ UNCHANGED <<kind, fundingTxId, txidStr, info, expired, chainVars>>

\* ListChannels of lnd: the channel is listed once confirmed.
LndList ==
  /\ pc = "list" /\ ~ expired /\ kind[waiter] = "lnd"
  /\ \/ /\ txidStr = "hash" /\ Locked(waiter)
        /\ Returns
     \/ /\ txidStr = "hash" /\ sawFunding[waiter] /\ ~ gotReady[waiter]
        /\ pc' = "late"
        /\ UNCHANGED <<round, waiter>>
     \/ /\ ~ (txidStr = "hash" /\ sawFunding[waiter])
        /\ pc' = "pending"
        /\ UNCHANGED <<round, waiter>>
  /\ UNCHANGED <<kind, fundingTxId, txidStr, info, expired, chainVars>>

\* Fault: nobody mines for a pending channel.
LndPendingIdle ==
  /\ pc = "pending" /\ ~ expired
  /\ pc' = "late"
  /\ UNCHANGED <<kind, round, waiter, fundingTxId, txidStr, info, expired, chainVars>>

\* PendingChannels of lnd, a second read: the channel may have left the list.
LndPending ==
  /\ pc = "pending" /\ ~ expired
  /\ pc' = IF txidStr = "hash" /\ ~ sawFunding[waiter] THEN "mine" ELSE "late"
  /\ UNCHANGED <<kind, round, waiter, fundingTxId, txidStr, info, expired, chainVars>>

\* Fault: the state of the channel is not looked at.
ClnListAnyState ==
  /\ pc = "list" /\ ~ expired /\ kind[waiter] = "cln"
  /\ fundingTxId' = reverseBytes(fundingTxId)
  /\ IF fundingTxId' = "reversed"
       THEN Returns
       ELSE pc' = "late" /\ UNCHANGED <<round, waiter>>
  /\ UNCHANGED <<kind, txidStr, info, expired, chainVars>>

\* Fault: FundingTxId is compared without being reversed.
ClnListUnreversed ==
  /\ pc = "list" /\ ~ expired /\ kind[waiter] = "cln"
  /\ \/ fundingTxId = "reversed" /\ Locked(waiter) /\ Returns
     \/ /\ fundingTxId = "reversed" /\ ~ Locked(waiter)
        /\ pc' = "mine" /\ UNCHANGED <<round, waiter>>
     \/ /\ fundingTxId # "reversed"
        /\ pc' = "late" /\ UNCHANGED <<round, waiter>>
  /\ UNCHANGED <<kind, fundingTxId, txidStr, info, expired, chainVars>>

\* ListPeerChannels of cln.  Every poll reverses the bytes of FundingTxId in
\* place, so that it finds the channel in every second one only.
ClnList ==
  /\ pc = "list" /\ ~ expired /\ kind[waiter] = "cln"
  /\ fundingTxId' = reverseBytes(fundingTxId)
  /\ \/ fundingTxId' = "reversed" /\ Locked(waiter) /\ Returns
     \/ /\ fundingTxId' = "reversed" /\ ~ Locked(waiter)
        /\ pc' = "mine" /\ UNCHANGED <<round, waiter>>
     \/ /\ fundingTxId' # "reversed"
        /\ pc' = "late" /\ UNCHANGED <<round, waiter>>
  /\ UNCHANGED <<kind, txidStr, info, expired, chainVars>>

\* The end of the loop of WaitForChannelReady: the deadline, or another poll.
Late ==
  /\ pc = "late"
  /\ pc' = IF expired THEN "failed" ELSE "list"
  /\ UNCHANGED <<kind, round, waiter, fundingTxId, txidStr, info, expired, chainVars>>

\* New blocks: what was the tip when GetInfo answered is no longer.
Mined ==
  /\ confirmed' = (confirmed \/ pc # "open")
  /\ behind' = [e \in Ends |-> TRUE]
  /\ info' = IF info = "tip" THEN "old" ELSE info

\* MineBlocks(6), a call of the miner without the context of the harness.
MineBlocks ==
  /\ pc = "mine"
  /\ Mined
  /\ pc' = "getinfo"
  /\ UNCHANGED <<kind, round, waiter, fundingTxId, txidStr, expired,
                 sawFunding, gotReady, others>>

\* WaitForSync asks the daemon for its height, ...
GetInfo ==
  /\ pc = "getinfo" /\ ~ expired
  /\ info' = IF behind[waiter] THEN "old" ELSE "tip"
  /\ pc' = "height"
  /\ UNCHANGED <<kind, round, waiter, fundingTxId, txidStr, expired, chainVars>>

\* Fault: WaitForSync is content with any answer.
GetBlockHeightUnchecked ==
  /\ pc = "height"
  /\ pc' = IF info = "nil" THEN "panic" ELSE "list"
  /\ UNCHANGED <<kind, round, waiter, fundingTxId, txidStr, info, expired, chainVars>>

\* ... then the miner for that of the chain, and dereferences info, which is
\* nil when GetInfo failed.
GetBlockHeight ==
  /\ pc = "height"
  /\ pc' = CASE info = "nil" -> "panic"
             [] info = "tip" -> "list"
             [] info = "old" -> IF expired THEN "failed" ELSE "getinfo"
  /\ UNCHANGED <<kind, round, waiter, fundingTxId, txidStr, info, expired, chainVars>>

\* Fault: the calls do not carry the context of the harness.
RpcFailsUncut ==
  /\ pc \in RpcLabels /\ ~ expired
  /\ pc' = IF pc = "getinfo" THEN "height" ELSE "failed"
  /\ info' = IF pc = "getinfo" THEN "nil" ELSE info
  /\ UNCHANGED <<kind, round, waiter, fundingTxId, txidStr, expired, chainVars>>

\* An RPC fails or is cut off: CheckError ends the test, only WaitForSync
\* drops the error of GetInfo.
RpcFails ==
  /\ pc \in RpcLabels
  /\ pc' = IF pc = "getinfo" THEN "height" ELSE "failed"
  /\ info' = IF pc = "getinfo" THEN "nil" ELSE info
  /\ UNCHANGED <<kind, round, waiter, fundingTxId, txidStr, expired, chainVars>>

-----------------------------------------------------------------------------
(* The daemons, the rest of the test and the clock.                        *)

\* A daemon processes blocks: some of them, or all up to the tip.
Process(e) ==
  /\ behind[e]
  /\ sawFunding' = [sawFunding EXCEPT ![e] = confirmed]
  /\ behind' \in {behind, [behind EXCEPT ![e] = FALSE]}
  /\ UNCHANGED <<testVars, expired, confirmed, gotReady, others>>

\* channel_ready, sent once the peer has seen the confirmation, arrives.
ChannelReadyArrives(e) ==
  /\ sawFunding[Peer(e)] /\ ~ gotReady[e]
  /\ gotReady' = [gotReady EXCEPT ![e] = TRUE]
  /\ UNCHANGED <<testVars, expired, confirmed, behind, sawFunding, others>>

\* Another goroutine mines.
OtherMines ==
  /\ others < MaxOther
  /\ others' = others + 1
  /\ Mined
  /\ UNCHANGED <<kind, pc, round, waiter, fundingTxId, txidStr, expired,
                 sawFunding, gotReady>>

Tick ==
  /\ ~ expired
  /\ expired' = TRUE
  /\ UNCHANGED <<testVars, chainVars>>

TestStep ==
  \/ OpenChannel \/ Start \/ LndList \/ LndPending \/ ClnList \/ Late
  \/ MineBlocks \/ GetInfo \/ GetBlockHeight \/ RpcFails

Next ==
  \/ TestStep
  \/ \E e \in Ends : Process(e) \/ ChannelReadyArrives(e)
  \/ OtherMines \/ Tick

Spec == Init /\ [][Next]_vars

\* The test keeps running, daemons catch up with the tip and deliver
\* channel_ready.  Nothing is owed by the clock.
Fairness ==
  /\ WF_vars(TestStep)
  /\ \A e \in Ends :
       /\ WF_vars(Process(e) /\ ~ behind'[e])
       /\ WF_vars(ChannelReadyArrives(e))

FairSpec == Spec /\ Fairness

-----------------------------------------------------------------------------
(* Properties.                                                             *)

\* ChannelInfo.WaitForChannelReady returns only when both ends have locked
\* the channel in, so that the test may pay in either direction.
ReadyOnBothEnds == pc = "done" => \A e \in Ends : Locked(e)

\* WaitForSync returns with the daemon at the tip of the chain, although it
\* compares two heights read at different times while others mine: the poll
\* after MineBlocks is of a daemon that has seen the confirmation.
SyncCatchesUp ==
  [][pc = "height" /\ pc' = "list" => sawFunding[waiter] /\ ~ behind[waiter]]_vars

\* The wait for each end returns unless the deadline passes or a call fails,
\* when no cln node polled before an lnd node: the node neither looks for the
\* wrong transaction nor waits for blocks nobody mines.
PolledByCln(e) ==
  kind[Peer(e)] = "cln" /\ (e = "to" \/ round > 0)
EndBecomesReady ==
  \A e \in Ends :
    pc = "start" /\ waiter = e /\ ~ (kind[e] = "lnd" /\ PolledByCln(e))
      ~> pc \in Finished \/ expired \/ waiter # e

\* The same without the condition, for the whole call: the channel becomes
\* ready, the deadline passes or a call fails.
BecomesReady == pc = "start" ~> pc \in Finished \/ expired

\* Once the deadline has passed the call ends, whatever it was waiting for.
EndsAfterDeadline == expired ~> pc \in Finished

\* A wait that runs into the deadline or a failing call ends through T.Fatal
\* ("timed out waiting for channel normal"), never in a nil dereference.
NoPanic == pc # "panic"
=============================================================================
