----------------------- MODULE LifecycleRestartProofs -----------------------
(***************************************************************************)
(* What the next Start of a node finds, for any sets of nodes and          *)
(* goroutines and any number of restarts: lnd a wallet exactly when        *)
(* isInitialized says so, the miner a data directory nobody holds, miner   *)
(* and cln as many ready lines in the log as they have counted; and with   *)
(* which of its incarnations it returns.                                   *)
(***************************************************************************)
EXTENDS LifecycleHandleProofs, FiniteSetTheorems

-----------------------------------------------------------------------------
(* isInitialized and the wallet on disk.                                   *)

LEMMA WalletStep == HandleInv /\ WalletInStep /\ [Next]_vars => WalletInStep'
<1> SUFFICES ASSUME HandleInv, WalletInStep, [Next]_vars PROVE WalletInStep'
  OBVIOUS
<1>a. /\ disk \in [Nodes -> SUBSET {"cert", "wallet"}]
      /\ isInitialized \in [Nodes -> BOOLEAN]
      /\ LndNodes \subseteq Nodes
  BY DEF HandleInv, StrayInv, TypeInv, TypeOK, Nodes
<1>1. ASSUME NEW t \in Goroutines, OpenWallet(t) PROVE WalletInStep'
  BY <1>a, <1>1 DEF OpenWallet, WalletInStep, harnessVars
<1>2. ASSUME NEW t \in Goroutines, OpenWalletLost(t) PROVE WalletInStep'
  BY <1>a, <1>2 DEF OpenWalletLost, Fatalf, WalletInStep, nodeVars
<1>3. ASSUME NEW t \in Goroutines, FirstRun(t) PROVE WalletInStep'
  <2>1. on[t] \notin LndNodes
    BY <1>3, NodesAssumption DEF FirstRun, HandleInv, FirstIsMiner
  <2> QED
    BY <1>a, <1>3, <2>1 DEF FirstRun, WalletInStep, harnessVars, procVars
<1>4. ASSUME NEW n \in Nodes, NEW i \in Incarnations, Serve(n, i)
      PROVE  WalletInStep'
  BY <1>a, <1>4 DEF Serve, WalletInStep, harnessVars, nodeVars
<1>5. ASSUME failed' = failed \/ failed', UNCHANGED <<disk, isInitialized>>
      PROVE  WalletInStep'
  BY <1>5 DEF WalletInStep
<1> USE <1>5 DEF vars, harnessVars, nodeVars, procVars
<1>6. ASSUME NEW t \in Goroutines,
             \/ Spawn(t) \/ SpawnFails(t) \/ AwaitLog(t) \/ StartUp(t)
             \/ AwaitTls(t) \/ Dial(t)
      PROVE  WalletInStep'
  BY <1>6 DEF Spawn, SpawnFails, AwaitLog, StartUp, AwaitTls, Dial, Fatalf
<1>7. ASSUME NEW t \in Goroutines,
             AwaitStarted(t) \/ AwaitActive(t) \/ GetInfo(t)
      PROVE  WalletInStep'
  BY <1>7 DEF AwaitStarted, AwaitActive, GetInfo
<1>8. ASSUME NEW t \in Goroutines,
             StartFails(t) \/ StartBreaks(t) \/ StartReaped(t) \/ StopReaped(t)
      PROVE  WalletInStep'
  BY <1>8 DEF StartFails, StartBreaks, Abort, StartReaped, StopReaped, Fatalf
<1>9. CASE TearStop \/ TearReaped \/ TearClean \/ TearEnd \/ TearDown
  BY <1>9 DEF TearStop, TearReaped, TearClean, TearEnd, TearDown
<1>10. ASSUME NEW t \in Goroutines, NEW n \in Nodes,
              NewNode(t, n) \/ StartCall(t, n) \/ StopCall(t, n)
       PROVE  WalletInStep'
  BY <1>10 DEF NewNode, StartCall, StopCall
<1>11. ASSUME NEW n \in Nodes, NEW i \in Incarnations,
              Activate(n, i) \/ Die(n, i) \/ CtxKill(n, i)
       PROVE  WalletInStep'
  BY <1>11 DEF Activate, Die, CtxKill, Gone
<1>12. CASE Tick \/ Exit \/ UNCHANGED vars
  BY <1>12 DEF Tick, Exit
<1> QED
  BY <1>1, <1>2, <1>3, <1>4, <1>6, <1>7, <1>8, <1>9, <1>10, <1>11, <1>12
  DEF Next, Call, CallStep, StartStep, TearStep, Environment

\* isInitialized follows the wallet on disk through every restart and crash
\* until the test has failed, for any nodes and goroutines.
THEOREM WalletKept == Spec => []WalletInStep
<1>1. Init => WalletInStep
  BY DEF Init, WalletInStep, Nodes
<1> QED
  BY <1>1, WalletStep, HandleInvInit, HandleInvStep, PTL DEF Spec

-----------------------------------------------------------------------------
(* The data directory of the miner.                                        *)

\* Inside Start, from cmd.Start to the end of the call.
BusyLabels == (StartLabels \ {"spawn"}) \cup {"reap"}

\* Only the nodes with a gRPC connection are past the log.
PastLog == {"tls", "dial", "started", "wallet", "active", "info"}
MinerLabels ==
  \A t \in Goroutines : on[t] \in Miners => pc[t] \notin PastLog

\* A process of the miner is the one it holds, or the one its Start works on.
LoneAt(n) ==
  \A i \in Incarnations : stage[n][i] \in Alive =>
    \/ runtime[n] = i
    \/ i = spawned[n] /\ Held(n, BusyLabels)

MinerInv == MinerLabels /\ (~ Exited => \A n \in Miners : LoneAt(n))

LEMMA MinerLabelsStep ==
  HandleInv /\ MinerLabels /\ [Next]_vars => MinerLabels'
<1> SUFFICES ASSUME HandleInv, MinerLabels, [Next]_vars PROVE MinerLabels'
  OBVIOUS
<1>a. /\ pc \in [Goroutines -> Labels]
      /\ on \in [Goroutines -> Nodes \cup {NoNode}]
      /\ FirstIsMiner /\ Holding
      /\ Miners \subseteq Nodes /\ NoNode \notin Miners /\ Miners \cap LndNodes = {}
  BY NodesAssumption DEF HandleInv, StrayInv, TypeInv, TypeOK, Nodes
<1> USE <1>a, GoroutineAssumption
<1> USE DEF MinerLabels, PastLog, Goto, Lock, Unlock, Fatalf, vars, harnessVars,
            callVars, nodeVars, procVars
<1>1. ASSUME NEW t \in Goroutines,
             Spawn(t)
      PROVE  MinerLabels'
  BY <1>1 DEF Spawn
<1>2. ASSUME NEW t \in Goroutines,
             SpawnFails(t)
      PROVE  MinerLabels'
  BY <1>2 DEF SpawnFails
<1>3. ASSUME NEW t \in Goroutines,
             AwaitLog(t) \/ StartUp(t)
      PROVE  MinerLabels'
  BY <1>3 DEF AwaitLog, StartUp
<1>4. ASSUME NEW t \in Goroutines,
             AwaitTls(t) \/ Dial(t) \/ AwaitStarted(t) \/ AwaitActive(t)
      PROVE  MinerLabels'
  BY <1>4 DEF AwaitTls, Dial, AwaitStarted, AwaitActive
<1>5. ASSUME NEW t \in Goroutines,
             FirstRun(t) \/ OpenWallet(t) \/ OpenWalletLost(t) \/ GetInfo(t)
      PROVE  MinerLabels'
  BY <1>5 DEF FirstRun, OpenWallet, OpenWalletLost, GetInfo
<1>6. ASSUME NEW t \in Goroutines,
             StartFails(t) \/ StartBreaks(t) \/ StartReaped(t) \/ StopReaped(t)
      PROVE  MinerLabels'
  BY <1>6 DEF StartFails, StartBreaks, Abort, StartReaped, StopReaped
<1>7. CASE TearStop
  <2>1. PICK n \in Nodes : StopNode(Main, n, "tear", "tearreap")
    BY <1>7, TearStopNode DEF TearStop, HandleInv, StrayInv
  <2> QED
    BY <2>1, StopCases
<1>8. CASE TearReaped \/ TearClean \/ TearEnd \/ TearDown
  BY <1>8 DEF TearReaped, TearClean, TearEnd, TearDown
<1>9. ASSUME NEW t \in Goroutines, NEW n \in Nodes, NewNode(t, n) \/ StartCall(t, n)
      PROVE  MinerLabels'
  BY <1>9 DEF NewNode, StartCall
<1>10. ASSUME NEW t \in Goroutines, NEW n \in Nodes, StopCall(t, n) PROVE MinerLabels'
  BY <1>10, StopCases DEF StopCall
<1>11. CASE Environment \/ Exit \/ UNCHANGED vars
  BY <1>11 DEF Environment, Exit, Serve, Activate, Die, CtxKill, Gone, Tick
<1> QED
  BY <1>1, <1>2, <1>3, <1>4, <1>5, <1>6, <1>7, <1>8, <1>9, <1>10, <1>11
  DEF Next, Call, CallStep, StartStep, TearStep

\* A step on one node leaves the processes of the others where they belong.
LEMMA OthersLone ==
  ASSUME HandleInv, NEW t \in Goroutines, NEW n \in Nodes, Acts(t, n),
         spawned' = [spawned EXCEPT ![n] = spawned'[n]],
         NEW m \in Nodes, m # n, LoneAt(m)
  PROVE  LoneAt(m)'
<1>1. /\ on \in [Goroutines -> Nodes \cup {NoNode}] /\ pc \in [Goroutines -> Labels]
      /\ spawned \in [Nodes -> 0 .. MaxSpawn]
  BY DEF HandleInv, StrayInv, TypeInv, TypeOK
<1>2. Held(m, BusyLabels) => Held(m, BusyLabels)'
  <2> SUFFICES ASSUME NEW u \in Goroutines, on[u] = m, pc[u] \in BusyLabels
               PROVE  Held(m, BusyLabels)'
    BY DEF Held
  <2>1. u # t
    BY NodesAssumption DEF Acts
  <2>2. on'[u] = m /\ pc'[u] \in BusyLabels
    BY <1>1, <2>1 DEF Acts
  <2> QED
    BY <2>2 DEF Held, BusyLabels, StartLabels
<1>3. runtime'[m] = runtime[m] /\ stage'[m] = stage[m] /\ spawned'[m] = spawned[m]
  BY <1>1 DEF Acts
<1> QED
  BY <1>2, <1>3 DEF LoneAt

\* The holder of the mutex is the only one to ask.
LEMMA HolderTells ==
  ASSUME HandleInv, NEW t \in Goroutines, NEW n \in Nodes, on[t] = n
  PROVE  Held(n, BusyLabels) <=> pc[t] \in BusyLabels
BY NodesAssumption DEF HandleInv, StrayInv, Exclusive, Held

\* So only the node of the step has to be looked at.
LEMMA MinersLone ==
  ASSUME HandleInv, MinerInv, NEW t \in Goroutines, NEW n \in Nodes, Acts(t, n),
         spawned' = [spawned EXCEPT ![n] = spawned'[n]],
         n \in Miners => LoneAt(n)'
  PROVE  \A m \in Miners : LoneAt(m)'
<1>1. ~ Exited
  BY StillRunning DEF Acts, HandleInv, StrayInv, TypeInv, TypeOK
<1>2. ASSUME NEW m \in Miners, m # n PROVE LoneAt(m)'
  BY <1>1, <1>2, OthersLone DEF MinerInv, Nodes
<1> QED
  BY <1>2

LEMMA MinerInvInit == Init => MinerInv
BY NodesAssumption DEF Init, MinerInv, MinerLabels, PastLog, LoneAt, Alive, Listening, Nodes

LEMMA MinerInvStep == HandleInv /\ MinerInv /\ [Next]_vars => MinerInv'
<1> SUFFICES ASSUME HandleInv, MinerInv, [Next]_vars, ~ Exited'
             PROVE  \A m \in Miners : LoneAt(m)'
  BY MinerLabelsStep DEF MinerInv
<1>0. HandleInv'
  BY HandleInvStep
<1>a. /\ pc \in [Goroutines -> Labels]
      /\ on \in [Goroutines -> Nodes \cup {NoNode}]
      /\ runtime \in [Nodes -> 0 .. MaxSpawn]
      /\ spawned \in [Nodes -> 0 .. MaxSpawn]
      /\ stage \in [Nodes -> [Incarnations -> {"unborn", "gone"} \cup Alive]]
      /\ NoNode \notin Nodes /\ Holding /\ Begun /\ Unborn
      /\ Exclusive /\ RuntimeLatest /\ AllExited /\ NilRuntime
      /\ FirstIsMiner /\ MinerLabels
  BY NodesAssumption DEF HandleInv, StrayInv, TypeInv, TypeOK, MinerInv
<1>b. Miners \subseteq Nodes /\ Miners \cap LndNodes = {}
  BY NodesAssumption DEF Nodes
<1>c. \A t \in Goroutines, n \in Miners :
        pc[t] # "exit" /\ on[t] = n => LoneAt(n) /\ (Held(n, BusyLabels) <=> pc[t] \in BusyLabels)
  BY <1>a, <1>b, HolderTells DEF MinerInv, AllExited, Exited
<1> USE <1>0, <1>a, <1>b, <1>c, BoundsAssumption, GoroutineAssumption
<1>1. ASSUME NEW t \in Goroutines, Spawn(t) PROVE \A m \in Miners : LoneAt(m)'
  <2>1. PICK n \in Nodes : n = on[t] /\ pc[t] = "spawn"
    BY <1>1 DEF Spawn, GivesUp, Holding, StartLabels, ReapLabels
  <2>2. Acts(t, n) /\ spawned' = [spawned EXCEPT ![n] = spawned'[n]]
    BY <1>1, <2>1 DEF Acts, Spawn, Goto, Lock, Unlock, Fatalf, Interrupt, procVars,
       nodeVars, harnessVars, callVars, StartLabels
  <2>3. ASSUME n \in Miners PROVE LoneAt(n)'
    <3>1. \A i \in Incarnations : stage[n][i] \in Alive => i = spawned[n] + 1
      BY <2>1, <2>3 DEF LoneAt, NilRuntime, StartLabels, BusyLabels, Incarnations
    <3>2. \A i \in Incarnations : stage'[n][i] \in Alive => i = spawned'[n]
      BY <1>1, <2>1, <3>1 DEF Spawn
    <3>3. Held(n, BusyLabels)'
      BY <1>1, <2>1 DEF Spawn, Goto, Held, BusyLabels, StartLabels
    <3> QED
      BY <3>2, <3>3 DEF LoneAt
  <2> QED
    BY <2>1, <2>2, <2>3, MinersLone
<1>2. ASSUME NEW t \in Goroutines, SpawnFails(t) PROVE \A m \in Miners : LoneAt(m)'
  <2>1. PICK n \in Nodes : n = on[t] /\ pc[t] = "spawn"
    BY <1>2 DEF SpawnFails, Holding, StartLabels, ReapLabels
  <2>2. Fatalf(t) /\ UNCHANGED <<runtime, spawned, stage, signalled>>
    BY <1>2 DEF SpawnFails, Exited, nodeVars, procVars
  <2>3. Acts(t, n) /\ spawned' = [spawned EXCEPT ![n] = spawned'[n]]
    BY <2>1, <2>2 DEF Acts, Fatalf, Goto, Unlock
  <2>4. ASSUME n \in Miners PROVE LoneAt(n)'
    <3>1. \A i \in Incarnations : stage[n][i] \notin Alive
      BY <2>1, <2>4 DEF LoneAt, NilRuntime, StartLabels, BusyLabels, Incarnations
    <3> QED
      BY <2>2, <3>1 DEF LoneAt
  <2> QED
    BY <2>1, <2>3, <2>4, MinersLone
<1>3. ASSUME NEW t \in Goroutines, AwaitLog(t) PROVE \A m \in Miners : LoneAt(m)'
  <2>1. PICK n \in Nodes : n = on[t] /\ pc[t] = "log"
    BY <1>3 DEF AwaitLog, Holding, StartLabels, ReapLabels
  <2>2. Acts(t, n) /\ spawned' = [spawned EXCEPT ![n] = spawned'[n]]
    BY <1>3, <2>1 DEF Acts, AwaitLog, Goto, procVars
  <2>3. ASSUME n \in Miners PROVE LoneAt(n)'
    <3>1. LoneAt(n)
      BY <2>1, <2>3 DEF StartLabels
    <3>2. UNCHANGED <<runtime, spawned, stage>>
      BY <1>3 DEF AwaitLog, procVars
    <3>3. Held(n, BusyLabels)'
      BY <1>3, <2>1, <2>3 DEF AwaitLog, Goto, Held, BusyLabels, StartLabels
    <3> QED
      BY <3>1, <3>2, <3>3 DEF LoneAt
  <2> QED
    BY <2>1, <2>2, <2>3, MinersLone
<1>4. ASSUME NEW t \in Goroutines, FirstRun(t) PROVE \A m \in Miners : LoneAt(m)'
  <2>1. PICK n \in Nodes : n = on[t] /\ pc[t] = "first"
    BY <1>4 DEF FirstRun, GivesUp, Holding, StartLabels, ReapLabels
  <2>2. Acts(t, n) /\ spawned' = [spawned EXCEPT ![n] = spawned'[n]]
    BY <1>4, <2>1 DEF Acts, FirstRun, Goto, Lock, Unlock, Fatalf, Interrupt, procVars,
       nodeVars, harnessVars, callVars, StartLabels
  <2>3. ASSUME n \in Miners PROVE LoneAt(n)'
    <3>1. \A i \in Incarnations : stage[n][i] \in Alive => i = runtime[n]
      BY <2>1, <2>3 DEF LoneAt, RuntimeLatest
    <3>2. UNCHANGED <<runtime, spawned, stage>>
      BY <1>4 DEF FirstRun, procVars
    <3> QED
      BY <3>1, <3>2 DEF LoneAt
  <2> QED
    BY <2>1, <2>2, <2>3, MinersLone
<1>5. ASSUME NEW t \in Goroutines, AwaitTls(t) PROVE \A m \in Miners : LoneAt(m)'
  <2>1. PICK n \in Nodes : n = on[t] /\ pc[t] = "tls"
    BY <1>5 DEF AwaitTls, GivesUp, Holding, StartLabels, ReapLabels
  <2>2. Acts(t, n) /\ spawned' = [spawned EXCEPT ![n] = spawned'[n]]
    BY <1>5, <2>1 DEF Acts, AwaitTls, Goto, Lock, Unlock, Fatalf, Interrupt, procVars,
       nodeVars, harnessVars, callVars, StartLabels
  <2>3. n \notin Miners
    BY <2>1 DEF MinerLabels, PastLog
  <2> QED
    BY <2>1, <2>2, <2>3, MinersLone
<1>6. ASSUME NEW t \in Goroutines, Dial(t) PROVE \A m \in Miners : LoneAt(m)'
  <2>1. PICK n \in Nodes : n = on[t] /\ pc[t] = "dial"
    BY <1>6 DEF Dial, GivesUp, Holding, StartLabels, ReapLabels
  <2>2. Acts(t, n) /\ spawned' = [spawned EXCEPT ![n] = spawned'[n]]
    BY <1>6, <2>1 DEF Acts, Dial, Goto, Lock, Unlock, Fatalf, Interrupt, procVars,
       nodeVars, harnessVars, callVars, StartLabels
  <2>3. n \notin Miners
    BY <2>1 DEF MinerLabels, PastLog
  <2> QED
    BY <2>1, <2>2, <2>3, MinersLone
<1>7. ASSUME NEW t \in Goroutines, AwaitStarted(t) PROVE \A m \in Miners : LoneAt(m)'
  <2>1. PICK n \in Nodes : n = on[t] /\ pc[t] = "started"
    BY <1>7 DEF AwaitStarted, GivesUp, Holding, StartLabels, ReapLabels
  <2>2. Acts(t, n) /\ spawned' = [spawned EXCEPT ![n] = spawned'[n]]
    BY <1>7, <2>1 DEF Acts, AwaitStarted, Goto, Lock, Unlock, Fatalf, Interrupt, procVars,
       nodeVars, harnessVars, callVars, StartLabels
  <2>3. n \notin Miners
    BY <2>1 DEF MinerLabels, PastLog
  <2> QED
    BY <2>1, <2>2, <2>3, MinersLone
<1>8. ASSUME NEW t \in Goroutines, OpenWallet(t) PROVE \A m \in Miners : LoneAt(m)'
  <2>1. PICK n \in Nodes : n = on[t] /\ pc[t] = "wallet"
    BY <1>8 DEF OpenWallet, GivesUp, Holding, StartLabels, ReapLabels
  <2>2. Acts(t, n) /\ spawned' = [spawned EXCEPT ![n] = spawned'[n]]
    BY <1>8, <2>1 DEF Acts, OpenWallet, Goto, Lock, Unlock, Fatalf, Interrupt, procVars,
       nodeVars, harnessVars, callVars, StartLabels
  <2>3. n \notin Miners
    BY <2>1 DEF MinerLabels, PastLog
  <2> QED
    BY <2>1, <2>2, <2>3, MinersLone
<1>9. ASSUME NEW t \in Goroutines, OpenWalletLost(t) PROVE \A m \in Miners : LoneAt(m)'
  <2>1. PICK n \in Nodes : n = on[t] /\ pc[t] = "wallet"
    BY <1>9 DEF OpenWalletLost, GivesUp, Holding, StartLabels, ReapLabels
  <2>2. Acts(t, n) /\ spawned' = [spawned EXCEPT ![n] = spawned'[n]]
    BY <1>9, <2>1 DEF Acts, OpenWalletLost, Goto, Lock, Unlock, Fatalf, Interrupt, procVars,
       nodeVars, harnessVars, callVars, StartLabels
  <2>3. n \notin Miners
    BY <2>1 DEF MinerLabels, PastLog
  <2> QED
    BY <2>1, <2>2, <2>3, MinersLone
<1>10. ASSUME NEW t \in Goroutines, AwaitActive(t) PROVE \A m \in Miners : LoneAt(m)'
  <2>1. PICK n \in Nodes : n = on[t] /\ pc[t] = "active"
    BY <1>10 DEF AwaitActive, GivesUp, Holding, StartLabels, ReapLabels
  <2>2. Acts(t, n) /\ spawned' = [spawned EXCEPT ![n] = spawned'[n]]
    BY <1>10, <2>1 DEF Acts, AwaitActive, Goto, Lock, Unlock, Fatalf, Interrupt, procVars,
       nodeVars, harnessVars, callVars, StartLabels
  <2>3. n \notin Miners
    BY <2>1 DEF MinerLabels, PastLog
  <2> QED
    BY <2>1, <2>2, <2>3, MinersLone
<1>11. ASSUME NEW t \in Goroutines, GetInfo(t) PROVE \A m \in Miners : LoneAt(m)'
  <2>1. PICK n \in Nodes : n = on[t] /\ pc[t] = "info"
    BY <1>11 DEF GetInfo, GivesUp, Holding, StartLabels, ReapLabels
  <2>2. Acts(t, n) /\ spawned' = [spawned EXCEPT ![n] = spawned'[n]]
    BY <1>11, <2>1 DEF Acts, GetInfo, Goto, Lock, Unlock, Fatalf, Interrupt, procVars,
       nodeVars, harnessVars, callVars, StartLabels
  <2>3. n \notin Miners
    BY <2>1 DEF MinerLabels, PastLog
  <2> QED
    BY <2>1, <2>2, <2>3, MinersLone
<1>12. ASSUME NEW t \in Goroutines, StartFails(t) \/ StartBreaks(t)
       PROVE  \A m \in Miners : LoneAt(m)'
  <2>1. PICK n \in Nodes : n = on[t] /\ pc[t] \in StartLabels \ {"spawn"}
    BY <1>12 DEF StartFails, StartBreaks, GivesUp, ReadFails, Holding, StartLabels, ReapLabels
  <2>2. Acts(t, n) /\ spawned' = [spawned EXCEPT ![n] = spawned'[n]]
    <3>1. /\ pc' = [pc EXCEPT ![t] = pc'[t]] /\ pc'[t] # "exit"
          /\ on' = [on EXCEPT ![t] = on'[t]] /\ on'[t] \in {n, NoNode}
      BY <1>12, <2>1 DEF StartFails, StartBreaks, Abort, Goto, Unlock, Fatalf
    <3>3. /\ \A k \in Nodes \ {n} : /\ runtime'[k] = runtime[k]
                                  /\ signalled'[k] = signalled[k]
          /\ stage' = stage
      BY <1>12, <2>1 DEF StartFails, StartBreaks, Abort, Interrupt, HandleInv, StrayInv,
         TypeInv, TypeOK
    <3>2. spawned' = spawned
      BY <1>12 DEF StartFails, StartBreaks, Abort
    <3> QED
      BY <2>1, <3>1, <3>2, <3>3 DEF Acts, StartLabels
  <2>3. ASSUME n \in Miners PROVE LoneAt(n)'
    <3>1. \A i \in Incarnations : stage[n][i] \in Alive => i = spawned[n]
      <4>1. LoneAt(n)
        BY <2>1, <2>3 DEF StartLabels
      <4>2. \A i \in Incarnations : runtime[n] = i => i = spawned[n]
        BY DEF RuntimeLatest, Incarnations
      <4> QED
        BY <4>1, <4>2 DEF LoneAt
    <3>2. UNCHANGED <<spawned, stage>>
      BY <1>12 DEF StartFails, StartBreaks, Abort
    <3>3. Held(n, BusyLabels)'
      BY <1>12, <2>1, <2>3 DEF StartFails, StartBreaks, Abort, Goto, Held, BusyLabels
    <3> QED
      BY <3>1, <3>2, <3>3 DEF LoneAt
  <2> QED
    BY <2>1, <2>2, <2>3, MinersLone
<1>13. ASSUME NEW t \in Goroutines, StartReaped(t) PROVE \A m \in Miners : LoneAt(m)'
  <2>1. PICK n \in Nodes : n = on[t] /\ pc[t] = "reap"
    BY <1>13 DEF StartReaped, GivesUp, Holding, StartLabels, ReapLabels
  <2>2. Acts(t, n) /\ spawned' = [spawned EXCEPT ![n] = spawned'[n]]
    BY <1>13, <2>1 DEF Acts, StartReaped, Goto, Lock, Unlock, Fatalf, Interrupt, procVars,
       nodeVars, harnessVars, callVars, StartLabels
  <2>3. ASSUME n \in Miners PROVE LoneAt(n)'
    <3>1. \A i \in Incarnations : stage[n][i] \notin Alive
      <4>1. LoneAt(n) /\ runtime[n] = 0
        BY <2>1, <2>3 DEF NilRuntime
      <4>2. stage[n][spawned[n]] \notin Alive
        BY <1>13, <2>1 DEF StartReaped, Current, Alive, Listening
      <4> QED
        BY <4>1, <4>2 DEF LoneAt, Incarnations
    <3>2. UNCHANGED stage
      BY <1>13 DEF StartReaped, procVars
    <3> QED
      BY <3>1, <3>2 DEF LoneAt
  <2> QED
    BY <2>1, <2>2, <2>3, MinersLone
<1>14. ASSUME NEW t \in Goroutines, StopReaped(t) PROVE \A m \in Miners : LoneAt(m)'
  <2>1. PICK n \in Nodes : n = on[t] /\ pc[t] = "stopreap"
    BY <1>14 DEF StopReaped, GivesUp, Holding, StartLabels, ReapLabels
  <2>2. Acts(t, n) /\ spawned' = [spawned EXCEPT ![n] = spawned'[n]]
    BY <1>14, <2>1 DEF Acts, StopReaped, Goto, Lock, Unlock, Fatalf, Interrupt, procVars,
       nodeVars, harnessVars, callVars, StartLabels
  <2>3. ASSUME n \in Miners PROVE LoneAt(n)'
    <3>1. pc[t] \notin BusyLabels
      BY <2>1 DEF BusyLabels, StartLabels
    <3>2. \A i \in Incarnations : stage[n][i] \notin Alive
      BY <1>14, <2>1, <2>3, <3>1 DEF StopReaped, LoneAt, Alive, Listening
    <3>3. UNCHANGED stage
      BY <1>14 DEF StopReaped, procVars
    <3> QED
      BY <3>2, <3>3 DEF LoneAt
  <2> QED
    BY <2>1, <2>2, <2>3, MinersLone
<1>15. ASSUME NEW t \in Goroutines, NEW n \in Nodes, NEW done, NEW waiting,
              pc[t] \in RestLabels \cup TearLabels, pc[t] # "exit", on[t] = NoNode,
              done \notin {"exit"}, waiting \in ReapLabels,
              StopNode(t, n, done, waiting), UNCHANGED <<spawned, stage>>
       PROVE  \A m \in Miners : LoneAt(m)'
  <2>1. /\ MutexFree(n) /\ pc' = [pc EXCEPT ![t] = pc'[t]] /\ pc'[t] \in {done, waiting}
        /\ on' = [on EXCEPT ![t] = on'[t]] /\ on'[t] \in {n, NoNode}
        /\ runtime' = [runtime EXCEPT ![n] = runtime'[n]]
        /\ signalled' = [signalled EXCEPT ![n] = signalled'[n]]
    <3>1. signalled \in [Nodes -> SUBSET Incarnations]
      BY DEF HandleInv, StrayInv, TypeInv, TypeOK
    <3> QED
      BY <1>15, <3>1, StopCases DEF Goto, Lock, Interrupt
  <2>2. Acts(t, n)
    <3>1. \A m \in Nodes \ {n} : /\ runtime'[m] = runtime[m]
                                /\ stage'[m] = stage[m]
                                /\ signalled'[m] = signalled[m]
      <4>1. signalled \in [Nodes -> SUBSET Incarnations]
        BY DEF HandleInv, StrayInv, TypeInv, TypeOK
      <4> QED
        BY <1>15, <2>1, <4>1
    <3>2. pc'[t] # "exit"
      BY <1>15, <2>1 DEF ReapLabels
    <3> QED
      BY <1>15, <2>1, <3>1, <3>2 DEF Acts
  <2>3. ASSUME n \in Miners PROVE LoneAt(n)'
    <3>1. ~ Exited /\ ~ Held(n, BusyLabels)
      BY <1>15, <2>1 DEF MutexFree, Held, AllExited
    <3>2. runtime' = runtime
      BY <1>15, <2>3 DEF StopNode
    <3> QED
      BY <1>15, <2>3, <3>1, <3>2 DEF LoneAt, MinerInv
  <2> QED
    BY <1>15, <2>2, <2>3, MinersLone
<1>16. CASE TearStop
  <2>1. /\ stoppables[tdPos] \in Nodes /\ on[Main] = NoNode /\ pc[Main] = "tear"
        /\ StopNode(Main, stoppables[tdPos], "tear", "tearreap")
        /\ UNCHANGED <<spawned, stage>>
    BY <1>16, TearStopNode DEF TearStop, HandleInv, StrayInv
  <2> QED
    BY <1>15, <2>1 DEF TearLabels, ReapLabels
<1>17. CASE TearReaped
  <2>1. PICK n \in Nodes : n = on[Main] /\ pc[Main] = "tearreap"
    BY <1>17 DEF TearReaped, Holding, StartLabels, ReapLabels
  <2>2. Acts(Main, n) /\ spawned' = [spawned EXCEPT ![n] = spawned'[n]]
    BY <1>17, <2>1 DEF Acts, TearReaped, Goto, Unlock, procVars
  <2>3. ASSUME n \in Miners PROVE LoneAt(n)'
    <3>1. pc[Main] \notin BusyLabels
      BY <2>1 DEF BusyLabels, StartLabels
    <3>2. \A i \in Incarnations : stage[n][i] \notin Alive
      BY <1>17, <2>1, <2>3, <3>1 DEF TearReaped, LoneAt, Alive, Listening
    <3>3. UNCHANGED stage
      BY <1>17 DEF TearReaped, procVars
    <3> QED
      BY <3>2, <3>3 DEF LoneAt
  <2> QED
    BY <2>2, <2>3, MinersLone
<1>18. CASE TearClean \/ TearEnd \/ TearDown
  <2>1. /\ pc[Main] \in {"tear", "clean", "idle", "unwind"}
        /\ pc'[Main] \in {"tear", "clean", "over"} /\ pc' = [pc EXCEPT ![Main] = pc'[Main]]
        /\ UNCHANGED <<on, runtime, spawned, stage, signalled>>
    BY <1>18 DEF TearClean, TearEnd, TearDown, Goto, nodeVars, procVars
  <2>2. on[Main] = NoNode
    BY <2>1 DEF Holding, StartLabels, ReapLabels
  <2>3. ASSUME NEW n \in Miners PROVE LoneAt(n)'
    <3>1. Held(n, BusyLabels)' <=> Held(n, BusyLabels)
      BY <2>1, <2>2 DEF Held, BusyLabels, StartLabels
    <3>2. LoneAt(n)
      BY <2>1 DEF MinerInv, AllExited
    <3> QED
      BY <2>1, <3>1, <3>2 DEF LoneAt
  <2> QED
    BY <2>3
<1>19. ASSUME UNCHANGED <<pc, on, runtime, spawned>>,
              \A n \in Nodes, i \in Incarnations :
                stage'[n][i] \in Alive => stage[n][i] \in Alive
       PROVE  \A m \in Miners : LoneAt(m)'
  BY <1>19 DEF LoneAt, Held, MinerInv, Exited
<1>20. ASSUME NEW t \in Goroutines, NEW n \in Nodes, NewNode(t, n)
       PROVE  \A m \in Miners : LoneAt(m)'
  BY <1>19, <1>20 DEF NewNode, callVars, nodeVars, procVars
<1>21. ASSUME NEW t \in Goroutines, NEW n \in Nodes, StartCall(t, n)
       PROVE  \A m \in Miners : LoneAt(m)'
  <2>1. pc[t] = "idle" /\ MutexFree(n) /\ UNCHANGED <<runtime, spawned, stage, signalled>>
    BY <1>21 DEF StartCall, nodeVars, procVars
  <2>2. CASE runtime[n] # 0
    BY <1>19, <1>21, <2>1, <2>2 DEF StartCall, callVars
  <2>3. CASE runtime[n] = 0
    <3>1. on[t] = NoNode
      BY <2>1 DEF Holding, StartLabels, ReapLabels
    <3>2. Acts(t, n) /\ spawned' = [spawned EXCEPT ![n] = spawned'[n]]
      BY <1>21, <2>1, <2>3, <3>1 DEF Acts, StartCall, Goto, Lock
    <3>3. ASSUME n \in Miners PROVE LoneAt(n)'
      <4>1. ~ Exited /\ ~ Held(n, BusyLabels)
        BY <2>1 DEF MutexFree, Held, AllExited
      <4> QED
        BY <2>1, <3>3, <4>1 DEF LoneAt, MinerInv
    <3> QED
      BY <3>2, <3>3, MinersLone
  <2> QED
    BY <2>2, <2>3
<1>22. ASSUME NEW t \in Goroutines, NEW n \in Nodes, StopCall(t, n)
       PROVE  \A m \in Miners : LoneAt(m)'
  <2>1. /\ pc[t] = "idle" /\ on[t] = NoNode /\ UNCHANGED <<spawned, stage>>
        /\ StopNode(t, n, "idle", "stopreap")
    BY <1>22 DEF StopCall, Holding, StartLabels, ReapLabels
  <2> QED
    BY <1>15, <2>1 DEF RestLabels, ReapLabels
<1>23. ASSUME NEW n \in Nodes, NEW i \in Incarnations,
              Serve(n, i) \/ Activate(n, i) \/ Die(n, i) \/ CtxKill(n, i)
       PROVE  \A m \in Miners : LoneAt(m)'
  <2>1. UNCHANGED <<pc, on, runtime, spawned>>
    BY <1>23 DEF Serve, Activate, Die, CtxKill, Gone, callVars, nodeVars
  <2>2. /\ stage[n][i] \in Alive /\ stage' = [stage EXCEPT ![n][i] = stage'[n][i]]
    BY <1>23 DEF Serve, Activate, Die, CtxKill, Gone, Alive, Listening
  <2> QED
    BY <1>19, <2>1, <2>2
<1>25. ASSUME NEW t \in Goroutines, StartUp(t) PROVE \A m \in Miners : LoneAt(m)'
  <2>1. PICK n \in Nodes : n = on[t] /\ pc[t] = "startup"
    BY <1>25 DEF StartUp, GivesUp, Holding, StartLabels, ReapLabels
  <2>2. Acts(t, n) /\ spawned' = [spawned EXCEPT ![n] = spawned'[n]]
    BY <1>25, <2>1 DEF Acts, StartUp, Goto, Lock, Unlock, Fatalf, Interrupt, procVars,
       nodeVars, harnessVars, callVars, StartLabels
  <2>3. ASSUME n \in Miners PROVE LoneAt(n)'
    <3>1. \A i \in Incarnations : stage[n][i] \in Alive => i = spawned[n]
      <4>1. LoneAt(n)
        BY <2>1, <2>3 DEF StartLabels
      <4>2. \A i \in Incarnations : runtime[n] = i => i = spawned[n]
        BY DEF RuntimeLatest, Incarnations
      <4> QED
        BY <4>1, <4>2 DEF LoneAt
    <3>2. runtime'[n] = spawned[n] /\ UNCHANGED <<spawned, stage>>
      BY <1>25, <2>1, <2>3 DEF StartUp, Current, procVars
    <3> QED
      BY <3>1, <3>2 DEF LoneAt
  <2> QED
    BY <2>1, <2>2, <2>3, MinersLone
<1>24. CASE Tick \/ UNCHANGED vars
  BY <1>19, <1>24 DEF Tick, vars, callVars, nodeVars, procVars
<1>26. CASE Exit
  BY <1>26 DEF Exit, Exited
<1> QED
  BY <1>1, <1>2, <1>3, <1>4, <1>5, <1>6, <1>7, <1>8, <1>9, <1>10, <1>11, <1>12,
     <1>13, <1>14, <1>16, <1>17, <1>18, <1>20, <1>21, <1>22, <1>23, <1>24,
     <1>25, <1>26
  DEF Next, Call, CallStep, StartStep, TearStep, Environment

\* A miner that is neither started nor inside a call has no bitcoind left, so
\* a restart finds its data directory unlocked, for any nodes and goroutines.
THEOREM MinerLeft == Spec => []MinerLeavesNothing
<1>2. HandleInv /\ MinerInv => MinerLeavesNothing
  <2> SUFFICES ASSUME MinerInv, ~ Exited, NEW n \in Miners, runtime[n] = 0, MutexFree(n),
                      NEW i \in Incarnations, stage[n][i] \in Alive
               PROVE  FALSE
    BY DEF MinerLeavesNothing
  <2>1. ~ Held(n, BusyLabels)
    BY DEF Held, MutexFree
  <2> QED
    BY <2>1 DEF MinerInv, LoneAt, Incarnations
<1> QED
  BY <1>2, MinerInvInit, MinerInvStep, HandleInvInit, HandleInvStep, PTL DEF Spec

-----------------------------------------------------------------------------
(* The ready lines.                                                        *)

\* A ready line is written by a process that was spawned and boots no more.
AnnouncedInv ==
  \A n \in Nodes : \A i \in announced[n] :
    i <= spawned[n] /\ stage[n][i] \in {"up", "gone"}

\* Which waits, and which stages, are those of lnd.
LndWaits == {"tls", "dial", "started", "wallet", "active"}
KindInv ==
  /\ \A t \in Goroutines : /\ pc[t] = "log" => on[t] \notin LndNodes
                           /\ pc[t] \in LndWaits => on[t] \in LndNodes
  /\ \A n \in Nodes \ LndNodes, i \in Incarnations : stage[n][i] \notin {"rpc", "open"}

\* waitForLog waits for the line of the last incarnation, every other one was
\* counted and boots no more.  Without a wait every line was counted, unless a
\* miner is giving its process up.
Awaited(n) ==
  /\ Cardinality(announced[n] \ {spawned[n]}) = timesStarted[n]
  /\ \A i \in Incarnations : stage[n][i] = "boot" => i >= spawned[n]
Counted(n) ==
  /\ Cardinality(announced[n]) = timesStarted[n]
  /\ \A i \in Incarnations : stage[n][i] # "boot"
LogAt(n) ==
  /\ Held(n, {"log"}) => Awaited(n)
  /\ Held(n, {"log"}) \/ Held(n, {"reap"}) \/ Counted(n)

LogInv == ~ Exited /\ ~ failed => \A n \in Nodes \ LndNodes : LogAt(n)

\* No line is counted before it is written, whatever has failed.
NeverAhead == \A n \in Nodes \ LndNodes : timesStarted[n] <= Cardinality(announced[n])

RestartInv == HandleInv /\ AnnouncedInv /\ KindInv

LEMMA RestartInvInit == Init => RestartInv
BY HandleInvInit DEF Init, RestartInv, AnnouncedInv, KindInv, LndWaits, Alive, Listening

LEMMA RestartInvStep == RestartInv /\ [Next]_vars => RestartInv'
<1> SUFFICES ASSUME RestartInv, [Next]_vars PROVE AnnouncedInv' /\ KindInv'
  BY HandleInvStep DEF RestartInv
<1>a. /\ pc \in [Goroutines -> Labels]
      /\ on \in [Goroutines -> Nodes \cup {NoNode}]
      /\ spawned \in [Nodes -> 0 .. MaxSpawn]
      /\ stage \in [Nodes -> [Incarnations -> {"unborn", "gone"} \cup Alive]]
      /\ announced \in [Nodes -> SUBSET Incarnations]
      /\ Unborn /\ Holding /\ AnnouncedInv /\ KindInv
      /\ NoNode \notin LndNodes /\ Miners \subseteq Nodes /\ Miners \cap LndNodes = {}
  BY NodesAssumption DEF RestartInv, HandleInv, StrayInv, TypeInv, TypeOK, Nodes
<1> USE <1>a, BoundsAssumption, GoroutineAssumption
<1> USE DEF AnnouncedInv, KindInv, LndWaits, Goto, Lock, Unlock, Fatalf, vars,
            harnessVars, callVars, nodeVars, procVars, Incarnations
<1>1. ASSUME NEW t \in Goroutines, Spawn(t) PROVE AnnouncedInv' /\ KindInv'
  <2>1. PICK n \in Nodes : n = on[t] /\ pc[t] = "spawn"
    BY <1>1 DEF Spawn, StartLabels, ReapLabels, Holding
  <2>2. AnnouncedInv'
    BY <1>1, <2>1 DEF Spawn
  <2>3. KindInv'
    BY <1>1, <2>1 DEF Spawn
  <2> QED
    BY <2>2, <2>3
<1>2. ASSUME NEW t \in Goroutines,
             SpawnFails(t)
      PROVE  AnnouncedInv' /\ KindInv'
  BY <1>2 DEF SpawnFails
<1>3. ASSUME NEW t \in Goroutines,
             AwaitLog(t) \/ StartUp(t)
      PROVE  AnnouncedInv' /\ KindInv'
  BY <1>3 DEF AwaitLog, StartUp
<1>4. ASSUME NEW t \in Goroutines,
             AwaitTls(t) \/ Dial(t) \/ AwaitStarted(t) \/ AwaitActive(t)
      PROVE  AnnouncedInv' /\ KindInv'
  BY <1>4 DEF AwaitTls, Dial, AwaitStarted, AwaitActive
<1>5. ASSUME NEW t \in Goroutines, OpenWallet(t) \/ OpenWalletLost(t)
      PROVE  AnnouncedInv' /\ KindInv'
  <2>1. PICK j \in Incarnations : /\ stage[on[t]][j] = "rpc"
                                  /\ stage' = [stage EXCEPT ![on[t]][j] = "open"]
    BY <1>5 DEF OpenWallet, OpenWalletLost
  <2>2. UNCHANGED <<announced, spawned>> /\ pc[t] = "wallet"
    BY <1>5 DEF OpenWallet, OpenWalletLost
  <2>3. \A m \in Nodes, i \in Incarnations : stage[m][i] \in {"up", "gone"} => stage'[m][i] = stage[m][i]
    BY <2>1
  <2>4. KindInv'
    <3>1. on[t] \in LndNodes
      BY <2>2
    <3>2. \A m \in Nodes \ LndNodes : stage'[m] = stage[m]
      BY <2>1, <3>1
    <3>3. \/ pc' = [pc EXCEPT ![t] = "active"] /\ on' = on
          \/ /\ pc' = [pc EXCEPT ![t] = IF t = Main THEN "unwind" ELSE "dead"]
             /\ on' = [on EXCEPT ![t] = NoNode]
      BY <1>5 DEF OpenWallet, OpenWalletLost
    <3> QED
      BY <3>1, <3>2, <3>3
  <2> QED
    BY <2>2, <2>3, <2>4
<1>6. ASSUME NEW t \in Goroutines,
             FirstRun(t) \/ GetInfo(t)
      PROVE  AnnouncedInv' /\ KindInv'
  BY <1>6 DEF FirstRun, GetInfo
<1>7. ASSUME NEW t \in Goroutines,
             StartFails(t) \/ StartBreaks(t) \/ StartReaped(t) \/ StopReaped(t)
      PROVE  AnnouncedInv' /\ KindInv'
  BY <1>7 DEF StartFails, StartBreaks, Abort, StartReaped, StopReaped
<1>8. CASE TearStop
  <2>1. PICK n \in Nodes : StopNode(Main, n, "tear", "tearreap")
    BY <1>8, TearStopNode DEF TearStop, RestartInv, HandleInv, StrayInv
  <2>2. UNCHANGED <<announced, spawned, stage>>
    BY <1>8 DEF TearStop
  <2>3. \/ pc' = [pc EXCEPT ![Main] = "tear"] /\ on' = on
        \/ pc' = [pc EXCEPT ![Main] = "tearreap"] /\ on' = [on EXCEPT ![Main] = n]
    BY <2>1, StopCases
  <2> QED
    BY <2>2, <2>3
<1>9. CASE TearReaped \/ TearClean \/ TearEnd \/ TearDown
  BY <1>9 DEF TearReaped, TearClean, TearEnd, TearDown
<1>10. ASSUME NEW t \in Goroutines, NEW n \in Nodes,
             NewNode(t, n) \/ StartCall(t, n)
      PROVE  AnnouncedInv' /\ KindInv'
  BY <1>10 DEF NewNode, StartCall
<1>11. ASSUME NEW t \in Goroutines, NEW n \in Nodes, StopCall(t, n)
       PROVE  AnnouncedInv' /\ KindInv'
  BY <1>11, StopCases DEF StopCall
<1>12. ASSUME NEW n \in Nodes, NEW i \in Incarnations, Serve(n, i) \/ Activate(n, i)
       PROVE  AnnouncedInv' /\ KindInv'
  <2>0. stage[n][i] \in {"boot", "open"}
    BY <1>12 DEF Serve, Activate
  <2>1. i <= spawned[n] /\ i \notin announced[n]
    <3>1. ~ (i > spawned[n])
      BY <2>0 DEF Unborn
    <3>2. i \notin announced[n]
      BY <2>0
    <3> QED
      BY <3>1, <3>2
  <2>2. /\ stage' = [stage EXCEPT ![n][i] = stage'[n][i]] /\ spawned' = spawned
        /\ \/ announced' = announced
           \/ announced' = [announced EXCEPT ![n] = @ \cup {i}] /\ stage'[n][i] = "up"
    BY <1>12 DEF Serve, Activate
  <2>3. ASSUME NEW m \in Nodes, NEW j \in announced'[m]
        PROVE  j <= spawned'[m] /\ stage'[m][j] \in {"up", "gone"}
    <3>1. CASE m = n /\ j = i
      <4>1. announced' # announced
        BY <2>1, <3>1
      <4> QED
        BY <2>1, <2>2, <3>1, <4>1
    <3>2. CASE ~ (m = n /\ j = i)
      <4>1. j \in announced[m]
        BY <2>2, <3>2
      <4>2. stage'[m][j] = stage[m][j]
        BY <2>2, <3>2
      <4> QED
        BY <2>2, <4>1, <4>2
    <3> QED
      BY <3>1, <3>2
  <2>4. KindInv'
    <3>1. n \notin LndNodes => stage'[n][i] = "up"
      BY <1>12 DEF Serve, Activate
    <3>2. UNCHANGED <<pc, on>>
      BY <1>12 DEF Serve, Activate
    <3>3. \A m \in Nodes \ LndNodes, j \in Incarnations :
            stage'[m][j] = stage[m][j] \/ stage'[m][j] = "up"
      <4>1. CASE n \in LndNodes
        BY <2>2, <4>1
      <4>2. CASE n \notin LndNodes
        <5> SUFFICES ASSUME NEW m \in Nodes, NEW j \in Incarnations, ~ (m = n /\ j = i)
                     PROVE  stage'[m][j] = stage[m][j]
          BY <3>1, <4>2
        <5> QED
          BY <2>2
      <4> QED
        BY <4>1, <4>2
    <3> QED
      BY <3>2, <3>3
  <2> QED
    BY <2>3, <2>4
<1>13. ASSUME NEW n \in Nodes, NEW i \in Incarnations, Die(n, i) \/ CtxKill(n, i)
       PROVE  AnnouncedInv' /\ KindInv'
  <2>1. /\ stage' = [stage EXCEPT ![n][i] = "gone"]
        /\ UNCHANGED <<pc, on, spawned, announced>>
    BY <1>13 DEF Die, CtxKill, Gone
  <2> QED
    BY <2>1
<1>14. CASE Tick \/ Exit \/ UNCHANGED vars
  BY <1>14 DEF Tick, Exit
<1> QED
  BY <1>1, <1>2, <1>3, <1>4, <1>5, <1>6, <1>7, <1>8, <1>9, <1>10, <1>11, <1>12, <1>13,
     <1>14
  DEF Next, Call, CallStep, StartStep, TearStep, Environment

LEMMA AnnouncedFinite ==
  ASSUME RestartInv, NEW n \in Nodes
  PROVE  /\ IsFiniteSet(announced[n])
         /\ announced[n] \subseteq Incarnations
         /\ Cardinality(announced[n]) \in Nat
<1>1. IsFiniteSet(Incarnations)
  BY BoundsAssumption, FS_Interval DEF Incarnations
<1>2. announced[n] \in SUBSET Incarnations
  BY DEF RestartInv, HandleInv, StrayInv, TypeInv, TypeOK
<1>3. IsFiniteSet(announced[n])
  BY <1>1, <1>2, FS_Subset
<1> QED
  BY <1>2, <1>3, FS_CardinalityType

LEMMA FailedStays == [Next]_vars /\ failed => failed'
<1> SUFFICES ASSUME [Next]_vars, failed PROVE failed'
  OBVIOUS
<1> USE DEF vars, harnessVars, Fatalf
<1>1. ASSUME NEW t \in Goroutines, StartStep(t) PROVE failed'
  BY <1>1 DEF StartStep, Spawn, SpawnFails, AwaitLog, StartUp, FirstRun, AwaitTls, Dial,
     AwaitStarted, OpenWallet, OpenWalletLost, AwaitActive, GetInfo, StartFails, Abort,
     StartReaped
<1>2. ASSUME NEW t \in Goroutines, StartBreaks(t) \/ StopReaped(t) PROVE failed'
  BY <1>2 DEF StartBreaks, Abort, StopReaped
<1>3. CASE TearStep \/ TearDown \/ Exit
  BY <1>3 DEF TearStep, TearStop, TearReaped, TearClean, TearEnd, TearDown, Exit
<1>4. ASSUME NEW t \in Goroutines, NEW n \in Nodes,
             NewNode(t, n) \/ StartCall(t, n) \/ StopCall(t, n)
      PROVE  failed'
  BY <1>4 DEF NewNode, StartCall, StopCall
<1>5. CASE Environment \/ UNCHANGED vars
  BY <1>5 DEF Environment, Serve, Activate, Die, CtxKill, Gone, Tick
<1> QED
  BY <1>1, <1>2, <1>3, <1>4, <1>5 DEF Next, Call, CallStep

\* A step in which no process is spawned, no line is written, no goroutine
\* begins or ends a wait for one, and none is through with giving up.
LEMMA LogSame ==
  ASSUME NEW m \in Nodes, LogAt(m),
         \A u \in Goroutines : \/ pc[u] # "log" /\ pc'[u] # "log"
                               \/ pc[u] = "log" /\ pc'[u] = "log" /\ on'[u] = on[u],
         \A u \in Goroutines : pc[u] = "reap" => pc'[u] = "reap" /\ on'[u] = on[u],
         announced'[m] = announced[m], timesStarted'[m] = timesStarted[m],
         spawned'[m] = spawned[m],
         \A i \in Incarnations : stage'[m][i] = "boot" => stage[m][i] = "boot"
  PROVE  LogAt(m)'
<1>1. Held(m, {"log"})' <=> Held(m, {"log"})
  BY DEF Held
<1>2. Awaited(m) => Awaited(m)'
  BY DEF Awaited
<1>3. Counted(m) => Counted(m)'
  BY DEF Counted
<1>4. Held(m, {"reap"}) => Held(m, {"reap"})'
  BY DEF Held
<1> QED
  BY <1>1, <1>2, <1>3, <1>4 DEF LogAt

\* The same of a step of one goroutine, for the nodes it does not work on.
LEMMA LogOther ==
  ASSUME pc \in [Goroutines -> Labels], on \in [Goroutines -> Nodes \cup {NoNode}],
         NEW t \in Goroutines, NEW m \in Nodes, LogAt(m),
         pc' = [pc EXCEPT ![t] = pc'[t]], on' = [on EXCEPT ![t] = on'[t]],
         on[t] # m, on'[t] # m,
         announced'[m] = announced[m], timesStarted'[m] = timesStarted[m],
         spawned'[m] = spawned[m], stage'[m] = stage[m]
  PROVE  LogAt(m)'
<1>1. /\ Held(m, {"log"})' <=> Held(m, {"log"})
      /\ Held(m, {"reap"})' <=> Held(m, {"reap"})
  BY DEF Held
<1>2. Awaited(m) => Awaited(m)'
  BY DEF Awaited
<1>3. Counted(m) => Counted(m)'
  BY DEF Counted
<1> QED
  BY <1>1, <1>2, <1>3 DEF LogAt

\* What waitForLog has found when it returns: the line of the incarnation that
\* was started, and no other that was not counted.
LEMMA LogFound ==
  ASSUME RestartInv, LogInv, ~ failed, NEW t \in Goroutines, AwaitLog(t)
  PROVE  /\ on[t] \in Nodes \ LndNodes /\ pc[t] = "log"
         /\ spawned[on[t]] \in announced[on[t]]
         /\ Cardinality(announced[on[t]]) = timesStarted[on[t]] + 1
         /\ \A i \in Incarnations : stage[on[t]][i] # "boot"
<1>1. on[t] \in Nodes \ LndNodes /\ pc[t] = "log"
  BY DEF AwaitLog, RestartInv, KindInv, HandleInv, StrayInv, TypeInv, TypeOK, Holding,
     StartLabels, ReapLabels
<1> DEFINE n == on[t]
<1>2. ~ Exited
  BY <1>1 DEF RestartInv, HandleInv, AllExited
<1>3. Awaited(n)
  BY <1>1, <1>2 DEF LogInv, LogAt, Held
<1>4. Cardinality(announced[n]) > timesStarted[n]
  BY DEF AwaitLog
<1>5. /\ IsFiniteSet(announced[n]) /\ Cardinality(announced[n]) \in Nat
      /\ announced[n] \subseteq Incarnations
  BY <1>1, AnnouncedFinite
<1>6. timesStarted[n] \in Nat /\ spawned[n] \in 0 .. MaxSpawn
  BY <1>1 DEF RestartInv, HandleInv, StrayInv, TypeInv, TypeOK
<1>7. Cardinality(announced[n] \ {spawned[n]})
        = IF spawned[n] \in announced[n] THEN Cardinality(announced[n]) - 1
                                         ELSE Cardinality(announced[n])
  BY <1>5, FS_RemoveElement
<1>8. spawned[n] \in announced[n] /\ Cardinality(announced[n]) = timesStarted[n] + 1
  BY <1>3, <1>4, <1>5, <1>6, <1>7 DEF Awaited
<1>9. ASSUME NEW i \in Incarnations, stage[n][i] = "boot" PROVE FALSE
  <2>1. i >= spawned[n]
    BY <1>3, <1>9 DEF Awaited
  <2>2. i \notin announced[n]
    BY <1>1, <1>9 DEF RestartInv, AnnouncedInv
  <2>3. i > spawned[n]
    BY <1>6, <1>8, <2>1, <2>2 DEF Incarnations
  <2> QED
    BY <1>1, <1>9, <2>3 DEF RestartInv, HandleInv, StrayInv, Unborn
<1> QED
  BY <1>1, <1>8, <1>9

LEMMA LogInvStep == RestartInv /\ LogInv /\ [Next]_vars => LogInv'
<1> SUFFICES ASSUME RestartInv, LogInv, [Next]_vars, ~ Exited', ~ failed',
                    NEW m \in Nodes \ LndNodes
             PROVE  LogAt(m)'
  BY DEF LogInv
<1>f. ~ failed
  BY FailedStays
<1>a. /\ pc \in [Goroutines -> Labels]
      /\ on \in [Goroutines -> Nodes \cup {NoNode}]
      /\ spawned \in [Nodes -> 0 .. MaxSpawn]
      /\ timesStarted \in [Nodes -> Nat]
      /\ stage \in [Nodes -> [Incarnations -> {"unborn", "gone"} \cup Alive]]
      /\ announced \in [Nodes -> SUBSET Incarnations]
      /\ NoNode \notin Nodes
      /\ Unborn /\ Holding /\ Exclusive /\ AllExited /\ AnnouncedInv /\ KindInv
  BY NodesAssumption DEF RestartInv, HandleInv, StrayInv, TypeInv, TypeOK
<1>b. \A t \in Goroutines : pc[t] # "exit" => LogAt(m)
  BY <1>a, <1>f DEF AllExited, LogInv
<1>c. \A t \in Goroutines : on[t] = m =>
        /\ Held(m, {"log"}) <=> pc[t] = "log"
        /\ Held(m, {"reap"}) <=> pc[t] = "reap"
  BY <1>a DEF Exclusive, Held
<1>d. \A t, u \in Goroutines : on[t] = m /\ on[u] = m => t = u
  BY <1>a DEF Exclusive
<1> USE <1>a, <1>f, BoundsAssumption, GoroutineAssumption
<1>1. ASSUME NEW t \in Goroutines, Spawn(t) PROVE LogAt(m)'
  <2>1. PICK n \in Nodes : n = on[t] /\ pc[t] = "spawn"
    BY <1>1 DEF Spawn, StartLabels, ReapLabels, Holding
  <2>2. LogAt(m)
    BY <1>b, <2>1
  <2>3. CASE n # m
    BY <1>1, <2>1, <2>2, <2>3, LogOther DEF Spawn, Goto, harnessVars, nodeVars
  <2>4. CASE n = m
    <3>0. ~ Held(m, {"log"}) /\ ~ Held(m, {"reap"})
      BY <1>c, <2>1, <2>4
    <3>1. Counted(m)
      BY <2>2, <3>0 DEF LogAt
    <3>2. /\ spawned'[m] = spawned[m] + 1 /\ UNCHANGED <<announced, timesStarted>>
          /\ \A i \in Incarnations : stage'[m][i] = "boot" => i = spawned'[m]
      BY <1>1, <2>1, <2>4, <3>1 DEF Spawn, nodeVars, Counted
    <3>3. announced[m] \ {spawned[m] + 1} = announced[m]
      BY DEF AnnouncedInv, Incarnations
    <3>4. Awaited(m)'
      <4>1. (announced[m] \ {spawned[m]})' = announced[m]
        BY <3>2, <3>3
      <4>2. Cardinality(announced[m] \ {spawned[m]})' = timesStarted'[m]
        BY <3>1, <3>2, <4>1 DEF Counted
      <4>3. \A i \in Incarnations : stage'[m][i] = "boot" => i >= spawned'[m]
        BY <3>2 DEF Incarnations
      <4> QED
        BY <4>2, <4>3 DEF Awaited
    <3>5. Held(m, {"log"})'
      BY <1>1, <2>1, <2>4 DEF Spawn, Goto, Held
    <3> QED
      BY <3>4, <3>5 DEF LogAt
  <2> QED
    BY <2>3, <2>4
<1>2. ASSUME NEW t \in Goroutines, AwaitLog(t) PROVE LogAt(m)'
  <2>0. /\ on[t] \in Nodes \ LndNodes /\ pc[t] = "log"
        /\ Cardinality(announced[on[t]]) = timesStarted[on[t]] + 1
        /\ \A i \in Incarnations : stage[on[t]][i] # "boot"
    BY <1>f, <1>2, LogFound
  <2>1. PICK n \in Nodes : n = on[t] /\ pc[t] = "log" /\ n \notin LndNodes
    BY <2>0
  <2>2. LogAt(m)
    BY <1>b, <2>1
  <2>3. /\ pc' = [pc EXCEPT ![t] = pc'[t]] /\ pc'[t] # "log"
        /\ on' = [on EXCEPT ![t] = on'[t]] /\ on'[t] \in {n, NoNode}
        /\ timesStarted' = [timesStarted EXCEPT ![n] = @ + 1]
        /\ UNCHANGED <<spawned, stage, announced>>
    BY <1>2, <2>1 DEF AwaitLog, Goto, Unlock, procVars, harnessVars
  <2>4. CASE n # m
    BY <2>1, <2>2, <2>3, <2>4, LogOther
  <2>5. CASE n = m
    <3>1. Counted(m)'
      <4>1. /\ Cardinality(announced[m]) = timesStarted[m] + 1
            /\ \A i \in Incarnations : stage[m][i] # "boot"
        BY <2>0, <2>1, <2>5
      <4> QED
        BY <2>3, <2>5, <4>1 DEF Counted
    <3>2. ~ Held(m, {"log"})'
      <4>1. \A u \in Goroutines : u # t => on[u] # m /\ on'[u] = on[u]
        BY <1>d, <2>1, <2>3, <2>5
      <4> QED
        BY <2>3, <4>1 DEF Held
    <3> QED
      BY <3>1, <3>2 DEF LogAt
  <2> QED
    BY <2>4, <2>5
<1>3. ASSUME NEW t \in Goroutines, StartFails(t) \/ StartBreaks(t) PROVE LogAt(m)'
  <2>1. PICK n \in Nodes : n = on[t] /\ pc[t] \in StartLabels
    BY <1>3 DEF StartFails, StartBreaks, GivesUp, ReadFails, StartLabels, ReapLabels, Holding
  <2>2. LogAt(m)
    BY <1>b, <2>1 DEF StartLabels
  <2>3. /\ pc' = [pc EXCEPT ![t] = "reap"] /\ on' = on
        /\ UNCHANGED <<timesStarted, spawned, stage, announced>>
    BY <1>3, <2>1 DEF StartFails, StartBreaks, Abort, Goto, Fatalf
  <2>4. CASE n # m
    <3>1. pc' = [pc EXCEPT ![t] = pc'[t]] /\ on' = [on EXCEPT ![t] = on'[t]]
      BY <2>3
    <3> QED
      BY <2>1, <2>2, <2>3, <2>4, <3>1, LogOther
  <2>5. CASE n = m
    <3>1. ~ Held(m, {"log"})'
      BY <1>d, <2>1, <2>3, <2>5 DEF Held
    <3>2. Held(m, {"reap"})'
      BY <2>1, <2>3, <2>5 DEF Held
    <3> QED
      BY <3>1, <3>2 DEF LogAt
  <2> QED
    BY <2>4, <2>5
<1>4. ASSUME NEW n \in Nodes, NEW i \in Incarnations, Serve(n, i) PROVE LogAt(m)'
  <2>1. /\ stage[n][i] = "boot" /\ stage'[n][i] # "boot"
        /\ stage' = [stage EXCEPT ![n][i] = stage'[n][i]]
        /\ n # m => announced'[m] = announced[m]
        /\ n = m => announced'[m] = announced[m] \cup {i}
        /\ UNCHANGED <<pc, on, timesStarted, spawned>>
    BY <1>4 DEF Serve, callVars, nodeVars, harnessVars
  <2>2. LogAt(m)
    BY <2>1 DEF Exited, LogInv
  <2>3. CASE n # m
    BY <2>1, <2>2, <2>3, LogSame
  <2>4. CASE n = m
    <3>1. /\ Held(m, {"log"})' <=> Held(m, {"log"})
          /\ Held(m, {"reap"})' <=> Held(m, {"reap"})
      BY <2>1 DEF Held
    <3>2. ~ Counted(m)
      BY <2>1, <2>4 DEF Counted
    <3>3. CASE ~ Held(m, {"log"})
      BY <2>1, <2>2, <3>1, <3>2, <3>3 DEF LogAt
    <3>4. CASE Held(m, {"log"})
      <4>1. Awaited(m)
        BY <2>2, <3>4 DEF LogAt
      <4>2. i = spawned[m]
        <5>1. stage[m][i] = "boot"
          BY <2>1, <2>4
        <5>2. i >= spawned[m] /\ ~ (i > spawned[m])
          BY <4>1, <5>1 DEF Awaited, Unborn
        <5> QED
          BY <5>2 DEF Incarnations
      <4>3. (announced[m] \cup {i}) \ {spawned[m]} = announced[m] \ {spawned[m]}
        BY <4>2
      <4>4. (announced[m] \ {spawned[m]})' = announced[m] \ {spawned[m]}
        BY <2>1, <2>4, <4>3
      <4>5. \A k \in Incarnations : stage'[m][k] = "boot" => stage[m][k] = "boot"
        BY <2>1, <2>4
      <4>6. Cardinality(announced[m] \ {spawned[m]})' = timesStarted'[m]
        BY <2>1, <4>1, <4>4 DEF Awaited
      <4>7. Awaited(m)'
        BY <2>1, <4>1, <4>5, <4>6 DEF Awaited
      <4> QED
        BY <3>1, <3>4, <4>7 DEF LogAt
    <3> QED
      BY <3>3, <3>4
  <2> QED
    BY <2>3, <2>4
\* The other steps.
<1>5. ASSUME LogAt(m),
             \A u \in Goroutines : pc[u] = "reap" => pc'[u] = "reap" /\ on'[u] = on[u],
             \A u \in Goroutines : \/ pc[u] # "log" /\ pc'[u] # "log"
                                   \/ pc[u] = "log" /\ pc'[u] = "log" /\ on'[u] = on[u],
             UNCHANGED <<announced, timesStarted, spawned>>,
             \A n \in Nodes, i \in Incarnations : stage'[n][i] = "boot" => stage[n][i] = "boot"
      PROVE  LogAt(m)'
  BY <1>5, LogSame
<1> USE <1>5 DEF Goto, Lock, Unlock, Fatalf, harnessVars, callVars, nodeVars, procVars
<1>6. ASSUME NEW t \in Goroutines, SpawnFails(t) PROVE LogAt(m)'
  <2>1. LogAt(m) /\ pc[t] = "spawn"
    BY <1>b, <1>6 DEF SpawnFails
  <2>2. CASE Fatalf(t)
    BY <2>2
  <2>3. CASE pc' = [u \in Goroutines |-> "exit"]
    BY <2>3 DEF Exited
  <2> QED
    BY <1>6, <2>2, <2>3 DEF SpawnFails
<1>7. ASSUME NEW t \in Goroutines,
             AwaitTls(t) \/ Dial(t) \/ AwaitStarted(t) \/ AwaitActive(t)
      PROVE  LogAt(m)'
  <2>1. LogAt(m)
    BY <1>b, <1>7 DEF AwaitTls, Dial, AwaitStarted, AwaitActive
  <2> QED
    BY <1>7, <2>1 DEF AwaitTls, Dial, AwaitStarted, AwaitActive
<1>8. ASSUME NEW t \in Goroutines, OpenWallet(t) PROVE LogAt(m)'
  <2>1. PICK j \in Incarnations : stage' = [stage EXCEPT ![on[t]][j] = "open"]
    BY <1>8 DEF OpenWallet
  <2>2. \A n \in Nodes, i \in Incarnations : stage'[n][i] = "boot" => stage[n][i] = "boot"
    BY <2>1
  <2>3. LogAt(m)
    BY <1>b, <1>8 DEF OpenWallet
  <2> QED
    BY <1>8, <2>2, <2>3 DEF OpenWallet
<1>9. ASSUME NEW t \in Goroutines,
             StartUp(t) \/ FirstRun(t) \/ GetInfo(t)
      PROVE  LogAt(m)'
  <2>1. LogAt(m)
    BY <1>b, <1>9 DEF StartUp, FirstRun, GetInfo
  <2> QED
    BY <1>9, <2>1 DEF StartUp, FirstRun, GetInfo
<1>10. ASSUME NEW t \in Goroutines, StopReaped(t) PROVE LogAt(m)'
  <2>1. LogAt(m)
    BY <1>b, <1>10 DEF StopReaped
  <2> QED
    BY <1>10, <2>1 DEF StopReaped
<1>11. CASE TearStop
  <2>1. PICK n \in Nodes : StopNode(Main, n, "tear", "tearreap")
    BY <1>11, TearStopNode DEF TearStop, RestartInv, HandleInv, StrayInv
  <2>2. UNCHANGED <<announced, timesStarted, spawned, stage>> /\ pc[Main] = "tear"
    BY <1>11 DEF TearStop
  <2>3. LogAt(m)
    BY <1>b, <2>2
  <2> QED
    BY <2>1, <2>2, <2>3, StopCases
<1>12. CASE TearReaped \/ TearClean \/ TearEnd \/ TearDown
  <2>1. LogAt(m)
    BY <1>b, <1>12 DEF TearReaped, TearClean, TearEnd, TearDown
  <2> QED
    BY <1>12, <2>1 DEF TearReaped, TearClean, TearEnd, TearDown
<1>13. ASSUME NEW t \in Goroutines, NEW n \in Nodes, NewNode(t, n) \/ StartCall(t, n)
       PROVE  LogAt(m)'
  <2>1. LogAt(m)
    BY <1>b, <1>13 DEF NewNode, StartCall
  <2> QED
    BY <1>13, <2>1 DEF NewNode, StartCall
<1>14. ASSUME NEW t \in Goroutines, NEW n \in Nodes, StopCall(t, n) PROVE LogAt(m)'
  <2>1. LogAt(m)
    BY <1>b, <1>14 DEF StopCall
  <2> QED
    BY <1>14, <2>1, StopCases DEF StopCall
<1>15. ASSUME NEW n \in Nodes, NEW i \in Incarnations, Activate(n, i) PROVE LogAt(m)'
  <2>1. n # m
    BY <1>15 DEF Activate, KindInv
  <2>2. LogAt(m)
    BY <1>15 DEF Activate, Exited, LogInv
  <2>3. /\ stage' = [stage EXCEPT ![n][i] = "up"]
        /\ announced' = [announced EXCEPT ![n] = @ \cup {i}]
        /\ UNCHANGED <<pc, on, timesStarted, spawned>>
    BY <1>15 DEF Activate
  <2> QED
    BY <2>1, <2>2, <2>3, LogSame
<1>16. ASSUME NEW n \in Nodes, NEW i \in Incarnations, Die(n, i) \/ CtxKill(n, i)
       PROVE  LogAt(m)'
  <2>1. /\ stage' = [stage EXCEPT ![n][i] = "gone"]
        /\ UNCHANGED <<pc, on, timesStarted, spawned, announced>>
    BY <1>16 DEF Die, CtxKill, Gone
  <2>2. LogAt(m)
    BY <2>1 DEF Exited, LogInv
  <2> QED
    BY <2>1, <2>2
<1>17. CASE Tick \/ UNCHANGED vars
  <2>1. LogAt(m)
    BY <1>17 DEF Tick, vars, Exited, LogInv
  <2> QED
    BY <1>17, <2>1 DEF Tick, vars
<1>18. ASSUME NEW t \in Goroutines, OpenWalletLost(t) \/ StartReaped(t) PROVE FALSE
  BY <1>18 DEF OpenWalletLost, StartReaped
<1>19. CASE Exit
  BY <1>19 DEF Exit, Exited
<1> QED
  BY <1>1, <1>2, <1>3, <1>4, <1>6, <1>7, <1>8, <1>9, <1>10, <1>11, <1>12, <1>13,
     <1>14, <1>15, <1>16, <1>17, <1>18, <1>19
  DEF Next, Call, CallStep, StartStep, TearStep, Environment

LEMMA LogInvInit == Init => LogInv
<1> SUFFICES ASSUME Init, NEW n \in Nodes \ LndNodes PROVE LogAt(n)
  BY DEF LogInv
<1>1. Cardinality({}) = 0
  BY FS_EmptySet
<1>2. Counted(n) /\ ~ Held(n, {"log"})
  BY <1>1 DEF Init, Counted, Held
<1> QED
  BY <1>2 DEF LogAt

LEMMA NeverAheadStep == RestartInv /\ NeverAhead /\ [Next]_vars => NeverAhead'
<1> SUFFICES ASSUME RestartInv, NeverAhead, [Next]_vars, NEW n \in Nodes \ LndNodes
             PROVE  timesStarted'[n] <= Cardinality(announced'[n])
  BY DEF NeverAhead
<1>a. /\ timesStarted[n] \in Nat /\ timesStarted \in [Nodes -> Nat]
      /\ Cardinality(announced[n]) \in Nat
      /\ timesStarted[n] <= Cardinality(announced[n])
      /\ announced \in [Nodes -> SUBSET Incarnations]
  BY AnnouncedFinite DEF RestartInv, HandleInv, StrayInv, TypeInv, TypeOK, NeverAhead
<1>1. ASSUME NEW t \in Goroutines, AwaitLog(t)
      PROVE  timesStarted'[n] <= Cardinality(announced'[n])
  <2>1. announced' = announced
    BY <1>1 DEF AwaitLog, procVars
  <2>2. timesStarted' = [timesStarted EXCEPT ![on[t]] = @ + 1]
    BY <1>1 DEF AwaitLog
  <2>3. on[t] = n => timesStarted[n] + 1 <= Cardinality(announced[n])
    BY <1>a, <1>1 DEF AwaitLog
  <2> QED
    BY <1>a, <2>1, <2>2, <2>3
<1>2. ASSUME NEW k \in Nodes, NEW i \in Incarnations, Serve(k, i) \/ Activate(k, i)
      PROVE  timesStarted'[n] <= Cardinality(announced'[n])
  <2>1. timesStarted' = timesStarted
    BY <1>2 DEF Serve, Activate, nodeVars
  <2>2. announced'[n] \in {announced[n], announced[n] \cup {i}}
    BY <1>a, <1>2 DEF Serve, Activate
  <2>3. IsFiniteSet(announced'[n])
    BY <2>2, AnnouncedFinite, FS_AddElement
  <2>4. Cardinality(announced[n]) <= Cardinality(announced'[n]) /\ Cardinality(announced'[n]) \in Nat
    BY <2>2, <2>3, FS_Subset, FS_CardinalityType
  <2> QED
    BY <1>a, <2>1, <2>4
<1>3. ASSUME UNCHANGED <<timesStarted, announced>>
      PROVE  timesStarted'[n] <= Cardinality(announced'[n])
  BY <1>a, <1>3
<1> USE <1>3 DEF vars, nodeVars, procVars
<1>4. ASSUME NEW t \in Goroutines,
             \/ Spawn(t) \/ SpawnFails(t) \/ StartUp(t) \/ FirstRun(t) \/ AwaitTls(t)
             \/ Dial(t) \/ AwaitStarted(t) \/ OpenWallet(t) \/ OpenWalletLost(t)
      PROVE  timesStarted'[n] <= Cardinality(announced'[n])
  BY <1>4 DEF Spawn, SpawnFails, StartUp, FirstRun, AwaitTls, Dial, AwaitStarted,
     OpenWallet, OpenWalletLost
<1>5. ASSUME NEW t \in Goroutines,
             \/ AwaitActive(t) \/ GetInfo(t) \/ StartFails(t) \/ StartBreaks(t)
             \/ StartReaped(t) \/ StopReaped(t)
      PROVE  timesStarted'[n] <= Cardinality(announced'[n])
  BY <1>5 DEF AwaitActive, GetInfo, StartFails, StartBreaks, Abort, StartReaped, StopReaped
<1>6. CASE TearStep \/ TearDown \/ Exit
  BY <1>6 DEF TearStep, TearStop, TearReaped, TearClean, TearEnd, TearDown, Exit
<1>7. ASSUME NEW t \in Goroutines, NEW k \in Nodes,
             NewNode(t, k) \/ StartCall(t, k) \/ StopCall(t, k)
      PROVE  timesStarted'[n] <= Cardinality(announced'[n])
  BY <1>7 DEF NewNode, StartCall, StopCall
<1>8. ASSUME NEW k \in Nodes, NEW i \in Incarnations, Die(k, i) \/ CtxKill(k, i)
      PROVE  timesStarted'[n] <= Cardinality(announced'[n])
  BY <1>8 DEF Die, CtxKill, Gone
<1>9. CASE Tick \/ UNCHANGED vars
  BY <1>9 DEF Tick
<1> QED
  BY <1>1, <1>2, <1>4, <1>5, <1>6, <1>7, <1>8, <1>9
  DEF Next, Call, CallStep, StartStep, Environment

\* The log never has fewer ready lines than were counted, and until the test has
\* failed it has no other ones but that of a Start that waits for it or gives
\* up: the next waitForLog neither returns on an old line nor waits for one too
\* many, for any nodes and goroutines and any number of restarts.
THEOREM LogKept == Spec => []LogInStep
<1>1. Init => NeverAhead
  BY FS_EmptySet DEF Init, NeverAhead
<1>2. LogInv /\ NeverAhead => LogInStep
  <2> SUFFICES ASSUME LogInv, ~ Exited, NEW n \in Nodes \ LndNodes,
                      ~ \E t \in Goroutines : on[t] = n /\ pc[t] \in {"log", "reap"},
                      ~ failed
               PROVE  Cardinality(announced[n]) = timesStarted[n]
    BY DEF LogInStep, NeverAhead
  <2> QED
    BY DEF LogInv, LogAt, Held, Counted
<1> QED
  BY <1>1, <1>2, LogInvInit, LogInvStep, NeverAheadStep, RestartInvInit, RestartInvStep,
     PTL DEF Spec

-----------------------------------------------------------------------------
(* Which incarnation Start returns with.                                   *)

\* Read as "unless the test has failed" for lnd and cln.
Lenient(n) == n \notin Miners /\ failed

\* Whoever serves has written its ready line.
UpInv == \A n \in Nodes, i \in Incarnations : stage[n][i] = "up" => i \in announced[n]

LEMMA UpInvStep == HandleInv /\ UpInv /\ [Next]_vars => UpInv'
<1> SUFFICES ASSUME HandleInv, UpInv, [Next]_vars PROVE UpInv'
  OBVIOUS
<1>a. /\ stage \in [Nodes -> [Incarnations -> {"unborn", "gone"} \cup Alive]]
      /\ announced \in [Nodes -> SUBSET Incarnations]
      /\ spawned \in [Nodes -> 0 .. MaxSpawn] /\ Holding
  BY DEF HandleInv, StrayInv, TypeInv, TypeOK
<1>1. ASSUME \A n \in Nodes : announced[n] \subseteq announced'[n],
             \A n \in Nodes, i \in Incarnations :
               stage'[n][i] = "up" => stage[n][i] = "up" \/ i \in announced'[n]
      PROVE  UpInv'
  BY <1>1 DEF UpInv
<1> USE <1>a DEF vars, harnessVars, callVars, nodeVars, procVars
<1>2. ASSUME NEW t \in Goroutines, Spawn(t) PROVE UpInv'
  <2>1. /\ stage' = [stage EXCEPT ![on[t]][spawned[on[t]] + 1] = "boot"]
        /\ UNCHANGED announced
    BY <1>2 DEF Spawn
  <2>2. \A n \in Nodes, i \in Incarnations : stage'[n][i] \in {stage[n][i], "boot"}
    BY <2>1
  <2> QED
    BY <1>1, <2>1, <2>2
<1>3. ASSUME NEW t \in Goroutines, OpenWallet(t) \/ OpenWalletLost(t) PROVE UpInv'
  <2>1. PICK j \in Incarnations : stage' = [stage EXCEPT ![on[t]][j] = "open"]
    BY <1>3 DEF OpenWallet, OpenWalletLost
  <2>2. UNCHANGED announced
    BY <1>3 DEF OpenWallet, OpenWalletLost
  <2>3. \A n \in Nodes, i \in Incarnations : stage'[n][i] \in {stage[n][i], "open"}
    BY <2>1
  <2> QED
    BY <1>1, <2>2, <2>3
<1>4. ASSUME NEW n \in Nodes, NEW i \in Incarnations, Serve(n, i) \/ Activate(n, i)
      PROVE  UpInv'
  <2>1. PICK l \in {"rpc", "up"} :
          /\ stage' = [stage EXCEPT ![n][i] = l]
          /\ l = "up" => i \in announced'[n]
          /\ \A m \in Nodes : announced[m] \subseteq announced'[m]
    BY <1>4 DEF Serve, Activate
  <2>2. \A m \in Nodes, k \in Incarnations :
          stage'[m][k] = stage[m][k] \/ (m = n /\ k = i)
    <3>1. \A m \in Nodes \ {n} : stage'[m] = stage[m]
      BY <2>1
    <3>2. \A k \in Incarnations \ {i} : stage'[n][k] = stage[n][k]
      BY <2>1
    <3> QED
      BY <3>1, <3>2
  <2> QED
    <3>1. stage'[n][i] = l
      BY <2>1
    <3> QED
      BY <1>1, <2>1, <2>2, <3>1
<1>5. ASSUME NEW n \in Nodes, NEW i \in Incarnations, Die(n, i) \/ CtxKill(n, i)
      PROVE  UpInv'
  <2>1. stage' = [stage EXCEPT ![n][i] = "gone"] /\ UNCHANGED announced
    BY <1>5 DEF Die, CtxKill, Gone
  <2>2. \A m \in Nodes, k \in Incarnations : stage'[m][k] \in {stage[m][k], "gone"}
    BY <2>1
  <2> QED
    BY <1>1, <2>1, <2>2
<1> USE <1>1
<1>6. ASSUME NEW t \in Goroutines,
             \/ SpawnFails(t) \/ AwaitLog(t) \/ StartUp(t) \/ FirstRun(t) \/ AwaitTls(t)
             \/ Dial(t) \/ AwaitStarted(t)
      PROVE  UpInv'
  BY <1>6 DEF SpawnFails, AwaitLog, StartUp, FirstRun, AwaitTls, Dial, AwaitStarted
<1>7. ASSUME NEW t \in Goroutines,
             \/ AwaitActive(t) \/ GetInfo(t) \/ StartFails(t) \/ StartBreaks(t)
             \/ StartReaped(t) \/ StopReaped(t)
      PROVE  UpInv'
  BY <1>7 DEF AwaitActive, GetInfo, StartFails, StartBreaks, Abort, StartReaped, StopReaped
<1>8. CASE TearStep \/ TearDown \/ Exit
  BY <1>8 DEF TearStep, TearStop, TearReaped, TearClean, TearEnd, TearDown, Exit
<1>9. ASSUME NEW t \in Goroutines, NEW n \in Nodes,
             NewNode(t, n) \/ StartCall(t, n) \/ StopCall(t, n)
      PROVE  UpInv'
  BY <1>9 DEF NewNode, StartCall, StopCall
<1>10. CASE Tick \/ UNCHANGED vars
  BY <1>10 DEF Tick
<1> QED
  BY <1>2, <1>3, <1>4, <1>5, <1>6, <1>7, <1>8, <1>9, <1>10
  DEF Next, Call, CallStep, StartStep, Environment

\* The incarnation a Start ends with, and the one a runtime holds, was ready.
\* A miner that is asked whether it is up has no process but the last one.
\* lnd talks to its last incarnation, since every earlier one was ready and so
\* has no closed wallet any more.
ReadyInv ==
  /\ \A n \in Nodes : runtime[n] # 0 => runtime[n] \in announced[n] \/ Lenient(n)
  /\ \A t \in Goroutines :
       pc[t] = "info" => spawned[on[t]] \in announced[on[t]] \/ Lenient(on[t])
  /\ \A t \in Goroutines : pc[t] = "active" => peer[t] = spawned[on[t]] \/ failed
AllReady ==
  ~ failed /\ ~ Exited => \A n \in LndNodes :
    /\ \A i \in Incarnations : i < spawned[n] => i \in announced[n]
    /\ spawned[n] = 0 \/ spawned[n] \in announced[n] \/ Held(n, LndWaits)

StartInv == RestartInv /\ MinerInv /\ UpInv /\ LogInv /\ ReadyInv /\ AllReady

\* A step in which no process is spawned and no runtime is set, and lnd waits on.
LEMMA ReadySame ==
  ASSUME RestartInv, ReadyInv,
         \A n \in Nodes : announced[n] \subseteq announced'[n],
         spawned' = spawned, failed => failed',
         \A n \in Nodes : runtime'[n] \in {0, runtime[n]},
         \A t \in Goroutines : pc'[t] \in {"info", "active"} =>
           pc'[t] = pc[t] /\ on'[t] = on[t] /\ peer'[t] = peer[t]
  PROVE  ReadyInv'
<1>1. \A t \in Goroutines : pc[t] \in {"info", "active"} => on[t] \in Nodes
  BY DEF RestartInv, HandleInv, StrayInv, TypeInv, TypeOK, Holding, StartLabels
<1> QED
  BY <1>1 DEF ReadyInv, Lenient

LEMMA AllSame ==
  ASSUME AllReady, \A n \in LndNodes : announced[n] \subseteq announced'[n],
         spawned' = spawned, failed => failed', Exited => Exited',
         \A t \in Goroutines : pc[t] \in LndWaits =>
           \/ pc'[t] \in LndWaits /\ on'[t] = on[t]
           \/ failed'
           \/ spawned[on[t]] \in announced[on[t]]
  PROVE  AllReady'
<1> SUFFICES ASSUME ~ failed', ~ Exited', NEW n \in LndNodes
             PROVE  /\ \A i \in Incarnations : i < spawned[n] => i \in announced[n]
                    /\ spawned[n] = 0 \/ spawned[n] \in announced[n] \/ Held(n, LndWaits)'
  BY DEF AllReady
<1>1. /\ \A i \in Incarnations : i < spawned[n] => i \in announced[n]
      /\ spawned[n] = 0 \/ spawned[n] \in announced[n] \/ Held(n, LndWaits)
  BY DEF AllReady
<1>2. ASSUME NEW t \in Goroutines, on[t] = n, pc[t] \in LndWaits
      PROVE  spawned[n] \in announced[n] \/ Held(n, LndWaits)'
  BY <1>2 DEF Held
<1> QED
  BY <1>1, <1>2 DEF Held

LEMMA StartInvStep == StartInv /\ [Next]_vars => StartInv'
<1> SUFFICES ASSUME StartInv, [Next]_vars PROVE ReadyInv' /\ AllReady'
  BY RestartInvStep, MinerInvStep, UpInvStep, LogInvStep DEF StartInv, RestartInv
<1>a. /\ pc \in [Goroutines -> Labels]
      /\ on \in [Goroutines -> Nodes \cup {NoNode}]
      /\ peer \in [Goroutines -> 0 .. MaxSpawn]
      /\ runtime \in [Nodes -> 0 .. MaxSpawn]
      /\ spawned \in [Nodes -> 0 .. MaxSpawn]
      /\ stage \in [Nodes -> [Incarnations -> {"unborn", "gone"} \cup Alive]]
      /\ announced \in [Nodes -> SUBSET Incarnations]
      /\ failed \in BOOLEAN /\ NoNode \notin Nodes
      /\ Unborn /\ Holding /\ Exclusive /\ AllExited /\ RuntimeLatest
      /\ AnnouncedInv /\ KindInv /\ NilRuntime
      /\ RestartInv /\ MinerInv /\ UpInv /\ LogInv /\ ReadyInv /\ AllReady
      /\ FirstIsMiner
      /\ LndNodes \subseteq Nodes /\ Miners \subseteq Nodes /\ Miners \cap LndNodes = {}
  BY NodesAssumption DEF StartInv, RestartInv, HandleInv, StrayInv, TypeInv, TypeOK, Nodes
<1> USE <1>a, BoundsAssumption, GoroutineAssumption
<1> USE DEF LndWaits
<1>1. ASSUME NEW t \in Goroutines, Spawn(t) PROVE ReadyInv' /\ AllReady'
  <2>1. PICK n \in Nodes : n = on[t] /\ pc[t] = "spawn"
    BY <1>1 DEF Spawn, StartLabels, ReapLabels, Holding
  <2>2. PICK l \in {"tls", "log"} :
          /\ pc' = [pc EXCEPT ![t] = l]
          /\ n \in LndNodes <=> l = "tls"
          /\ spawned' = [spawned EXCEPT ![n] = @ + 1]
          /\ UNCHANGED <<on, peer, runtime, announced, failed>>
    BY <1>1, <2>1 DEF Spawn, Goto, harnessVars, nodeVars
  <2>3. \A u \in Goroutines : u # t => on[u] # n
    BY <2>1 DEF Exclusive
  <2>4. ReadyInv'
    <3>1. \A m \in Nodes : runtime'[m] # 0 => runtime'[m] \in announced'[m] \/ Lenient(m)'
      BY <2>2 DEF ReadyInv, Lenient
    <3>2. \A u \in Goroutines : pc'[u] \in {"info", "active"} =>
            u # t /\ pc[u] = pc'[u] /\ on'[u] = on[u] /\ spawned'[on[u]] = spawned[on[u]]
      BY <2>2, <2>3
    <3>3. \A u \in Goroutines : pc'[u] = "info" =>
            spawned'[on'[u]] \in announced'[on'[u]] \/ Lenient(on[u])
      BY <2>2, <3>2 DEF ReadyInv
    <3>4. \A u \in Goroutines : pc'[u] = "active" => peer'[u] = spawned'[on'[u]] \/ failed'
      BY <2>2, <3>2 DEF ReadyInv
    <3> QED
      BY <2>2, <3>1, <3>3, <3>4 DEF ReadyInv, Lenient
  <2>5. AllReady'
    <3> SUFFICES ASSUME ~ failed', ~ Exited', NEW m \in LndNodes
                 PROVE  /\ \A i \in Incarnations : i < spawned'[m] => i \in announced'[m]
                        /\ spawned'[m] = 0 \/ spawned'[m] \in announced'[m] \/ Held(m, LndWaits)'
      BY DEF AllReady
    <3>1. /\ \A i \in Incarnations : i < spawned[m] => i \in announced[m]
          /\ spawned[m] = 0 \/ spawned[m] \in announced[m] \/ Held(m, LndWaits)
      BY <2>1, <2>2 DEF AllReady, AllExited
    <3>2. CASE m = n
      <4>1. ~ Held(m, LndWaits)
        BY <2>1, <2>3, <3>2 DEF Held
      <4>2. \A i \in Incarnations : i < spawned'[m] => i \in announced'[m]
        BY <2>2, <3>1, <3>2, <4>1 DEF Incarnations
      <4>3. Held(m, LndWaits)'
        BY <2>1, <2>2, <3>2 DEF Held
      <4> QED
        BY <4>2, <4>3
    <3>3. CASE m # n
      <4>1. ASSUME NEW u \in Goroutines, on[u] = m, pc[u] \in LndWaits
            PROVE  on'[u] = m /\ pc'[u] \in LndWaits
        BY <2>1, <2>2, <3>3, <4>1
      <4>2. Held(m, LndWaits) => Held(m, LndWaits)'
        BY <4>1 DEF Held
      <4> QED
        BY <2>2, <3>1, <3>3, <4>2
    <3> QED
      BY <3>2, <3>3
  <2> QED
    BY <2>4, <2>5
<1>2. ASSUME NEW t \in Goroutines, AwaitLog(t) PROVE ReadyInv' /\ AllReady'
  <2>1. PICK n \in Nodes : n = on[t] /\ n \notin LndNodes /\ pc[t] = "log"
    BY <1>2 DEF AwaitLog, StartLabels, ReapLabels, Holding, KindInv
  <2>2. /\ UNCHANGED <<peer, announced, spawned, failed, on, runtime>>
        /\ pc' = [pc EXCEPT ![t] = IF n \in Miners THEN "startup" ELSE "info"]
    BY <1>2, <2>1 DEF AwaitLog, Goto, harnessVars, procVars
  <2>3. spawned[n] \in announced[n] \/ failed
    BY <1>2, <2>1, LogFound
  <2>4. ReadyInv'
    <3>1. \A m \in Nodes : runtime'[m] # 0 => runtime'[m] \in announced'[m] \/ Lenient(m)'
      BY <2>2 DEF ReadyInv, Lenient
    <3>2. \A u \in Goroutines : pc'[u] = "info" =>
            spawned'[on'[u]] \in announced'[on'[u]] \/ (on'[u] \notin Miners /\ failed')
      BY <2>1, <2>2, <2>3 DEF ReadyInv, Lenient
    <3>3. \A u \in Goroutines : pc'[u] = "active" => peer'[u] = spawned'[on'[u]] \/ failed'
      BY <2>1, <2>2 DEF ReadyInv
    <3> QED
      BY <3>1, <3>2, <3>3 DEF ReadyInv, Lenient
  <2>5. AllReady'
    <3>1. Exited => Exited'
      BY <2>1 DEF AllExited
    <3> QED
      BY <2>1, <2>2, <3>1, AllSame
  <2> QED
    BY <2>4, <2>5
<1>18. ASSUME NEW t \in Goroutines, StartUp(t) PROVE ReadyInv' /\ AllReady'
  <2>1. PICK n \in Miners : n = on[t] /\ pc[t] = "startup"
    BY <1>18 DEF StartUp, FirstIsMiner
  <2>2. /\ UNCHANGED <<peer, announced, spawned, failed>>
        /\ pc' = [pc EXCEPT ![t] = pc'[t]] /\ pc'[t] \in {"idle", "first"}
        /\ on' = [on EXCEPT ![t] = on'[t]]
        /\ runtime' = [runtime EXCEPT ![n] = spawned[n]]
    BY <1>18, <2>1 DEF StartUp, Goto, Unlock, Current, harnessVars, procVars
  <2>3. spawned[n] \in announced[n]
    <3>1. PICK j \in Incarnations : stage[n][j] = "up"
      BY <1>18, <2>1 DEF StartUp
    <3>2. LoneAt(n)
      BY <2>1 DEF MinerInv, AllExited
    <3>3. j = runtime[n] \/ j = spawned[n]
      BY <3>1, <3>2 DEF LoneAt, Alive, Listening
    <3>4. j = spawned[n]
      BY <3>3 DEF RuntimeLatest, Incarnations
    <3> QED
      BY <3>1, <3>4 DEF UpInv
  <2>4. ReadyInv'
    <3>1. \A m \in Nodes : runtime'[m] # 0 => runtime'[m] \in announced'[m] \/ Lenient(m)'
      BY <2>2, <2>3 DEF ReadyInv, Lenient
    <3>2. \A u \in Goroutines : pc'[u] \in {"info", "active"} =>
            pc'[u] = pc[u] /\ on'[u] = on[u]
      BY <2>2
    <3> QED
      BY <2>2, <3>1, <3>2 DEF ReadyInv, Lenient
  <2>5. AllReady'
    <3>1. Exited => Exited'
      BY <2>1 DEF AllExited
    <3> QED
      BY <2>1, <2>2, <3>1, AllSame
  <2> QED
    BY <2>4, <2>5
<1>3. ASSUME NEW t \in Goroutines, OpenWallet(t) PROVE ReadyInv' /\ AllReady'
  <2>1. PICK n \in LndNodes : n = on[t] /\ pc[t] = "wallet"
    BY <1>3 DEF OpenWallet, KindInv
  <2>2. PICK j \in Incarnations : /\ stage[n][j] = "rpc"
                                  /\ peer' = [peer EXCEPT ![t] = j]
    BY <1>3, <2>1 DEF OpenWallet
  <2>3. /\ pc' = [pc EXCEPT ![t] = "active"]
        /\ UNCHANGED <<on, runtime, announced, spawned, failed>>
    BY <1>3 DEF OpenWallet, Goto, harnessVars
  <2>4. ~ Exited
    BY <2>1 DEF AllExited
  <2>5. j = spawned[n] \/ failed
    <3>1. ~ (j > spawned[n])
      BY <2>2 DEF Unborn
    <3>2. j \notin announced[n]
      BY <2>2 DEF AnnouncedInv
    <3>3. ~ (j < spawned[n]) \/ failed
      BY <2>4, <3>2 DEF AllReady
    <3> QED
      BY <3>1, <3>3 DEF Incarnations
  <2>6. ReadyInv'
    <3>1. \A u \in Goroutines : pc'[u] = "active" => peer'[u] = spawned'[on'[u]] \/ failed'
      BY <2>1, <2>2, <2>3, <2>5 DEF ReadyInv
    <3>2. \A u \in Goroutines : pc'[u] = "info" =>
            spawned'[on'[u]] \in announced'[on'[u]] \/ (on'[u] \notin Miners /\ failed')
      BY <2>3 DEF ReadyInv, Lenient
    <3> QED
      BY <2>3, <3>1, <3>2 DEF ReadyInv, Lenient
  <2>7. AllReady'
    BY <2>3, <2>4, AllSame
  <2> QED
    BY <2>6, <2>7
<1>4. ASSUME NEW t \in Goroutines, AwaitActive(t) PROVE ReadyInv' /\ AllReady'
  <2>1. PICK n \in LndNodes : n = on[t] /\ pc[t] = "active"
    BY <1>4 DEF AwaitActive, KindInv
  <2>2. /\ pc' = [pc EXCEPT ![t] = "info"]
        /\ UNCHANGED <<on, peer, runtime, announced, spawned, failed>>
    BY <1>4 DEF AwaitActive, Goto, harnessVars, nodeVars, procVars
  <2>3. spawned[n] \in announced[n] \/ failed
    BY <1>4, <2>1 DEF AwaitActive, ReadyInv
  <2>4. ReadyInv'
    <3>1. \A u \in Goroutines : pc'[u] = "info" =>
            spawned'[on'[u]] \in announced'[on'[u]] \/ (on'[u] \notin Miners /\ failed')
      BY <2>1, <2>2, <2>3 DEF ReadyInv, Lenient
    <3>2. \A u \in Goroutines : pc'[u] = "active" => peer'[u] = spawned'[on'[u]] \/ failed'
      BY <2>2 DEF ReadyInv
    <3> QED
      BY <2>2, <3>1, <3>2 DEF ReadyInv, Lenient
  <2>5. AllReady'
    <3>1. Exited => Exited'
      BY <2>1 DEF AllExited
    <3>2. \A u \in Goroutines : pc[u] \in LndWaits =>
            \/ pc'[u] \in LndWaits /\ on'[u] = on[u]
            \/ failed'
            \/ spawned[on[u]] \in announced[on[u]]
      BY <2>1, <2>2, <2>3
    <3> QED
      BY <2>2, <3>1, <3>2, AllSame
  <2> QED
    BY <2>4, <2>5
<1>5. ASSUME NEW t \in Goroutines, GetInfo(t) PROVE ReadyInv' /\ AllReady'
  <2>1. PICK n \in Nodes : n = on[t] /\ pc[t] = "info"
    BY <1>5 DEF GetInfo, StartLabels, ReapLabels, Holding
  <2>2. /\ pc' = [pc EXCEPT ![t] = "idle"]
        /\ on' = [on EXCEPT ![t] = NoNode]
        /\ runtime' = [runtime EXCEPT ![n] = spawned[n]]
        /\ UNCHANGED <<peer, announced, spawned, failed>>
    BY <1>5, <2>1 DEF GetInfo, Goto, Unlock, Current, harnessVars, procVars
  <2>3. spawned[n] \in announced[n] \/ Lenient(n)
    BY <2>1 DEF ReadyInv
  <2>4. ReadyInv'
    <3>1. \A m \in Nodes : runtime'[m] # 0 => runtime'[m] \in announced'[m] \/ Lenient(m)'
      BY <2>2, <2>3 DEF ReadyInv, Lenient
    <3>2. \A u \in Goroutines : pc'[u] \in {"info", "active"} =>
            pc'[u] = pc[u] /\ on'[u] = on[u]
      BY <2>2
    <3> QED
      BY <2>2, <3>1, <3>2 DEF ReadyInv, Lenient
  <2>5. AllReady'
    <3>1. Exited => Exited'
      BY <2>1 DEF AllExited
    <3> QED
      BY <2>1, <2>2, <3>1, AllSame
  <2> QED
    BY <2>4, <2>5
\* The other steps.
<1>6. ASSUME \A n \in Nodes : announced[n] \subseteq announced'[n],
             spawned' = spawned, failed => failed', Exited => Exited',
             \A n \in Nodes : runtime'[n] \in {0, runtime[n]},
             \A t \in Goroutines : pc'[t] \in {"info", "active"} =>
               pc'[t] = pc[t] /\ on'[t] = on[t] /\ peer'[t] = peer[t],
             \A t \in Goroutines : pc[t] \in LndWaits =>
               \/ pc'[t] \in LndWaits /\ on'[t] = on[t]
               \/ failed' \/ Exited'
      PROVE  ReadyInv' /\ AllReady'
  <2>1. ReadyInv'
    BY <1>6, ReadySame
  <2>2. AllReady'
    <3>1. CASE Exited'
      BY <3>1 DEF AllReady
    <3>2. CASE ~ Exited'
      BY <1>6, <3>2, AllSame
    <3> QED
      BY <3>1, <3>2
  <2> QED
    BY <2>1, <2>2
<1> USE <1>6 DEF Goto, Lock, Unlock, Fatalf, harnessVars, callVars, nodeVars, procVars, AllExited
<1>7. ASSUME NEW t \in Goroutines, SpawnFails(t) PROVE ReadyInv' /\ AllReady'
  <2>1. UNCHANGED <<peer, runtime, announced, spawned>> /\ pc[t] = "spawn"
    BY <1>7 DEF SpawnFails
  <2>2. CASE Fatalf(t)
    <3>1. /\ failed' /\ pc' = [pc EXCEPT ![t] = pc'[t]] /\ pc'[t] \in {"unwind", "dead"}
          /\ on' = [on EXCEPT ![t] = NoNode]
      BY <2>2
    <3>2. Exited => Exited'
      BY <2>1, <3>1 DEF Exited
    <3> QED
      BY <2>1, <3>1, <3>2
  <2>3. CASE ~ Fatalf(t)
    <3>1. pc' = [u \in Goroutines |-> "exit"] /\ failed' = failed
      BY <1>7, <2>3 DEF SpawnFails
    <3>2. Exited'
      BY <3>1 DEF Exited
    <3> QED
      BY <2>1, <3>1, <3>2
  <2> QED
    BY <2>2, <2>3
<1>8. ASSUME NEW t \in Goroutines,
             AwaitTls(t) \/ Dial(t) \/ AwaitStarted(t)
      PROVE  ReadyInv' /\ AllReady'
  <2>1. Exited => Exited'
    BY <1>8 DEF AwaitTls, Dial, AwaitStarted, Exited
  <2> QED
    BY <1>8, <2>1 DEF AwaitTls, Dial, AwaitStarted
<1>9. ASSUME NEW t \in Goroutines,
             FirstRun(t) \/ OpenWalletLost(t)
      PROVE  ReadyInv' /\ AllReady'
  <2>1. Exited => Exited'
    BY <1>9 DEF FirstRun, OpenWalletLost, Exited
  <2> QED
    BY <1>9, <2>1 DEF FirstRun, OpenWalletLost
<1>10. ASSUME NEW t \in Goroutines, StartFails(t) \/ StartBreaks(t)
       PROVE  ReadyInv' /\ AllReady'
  <2>1. on[t] \in Miners => pc[t] \notin LndWaits
    BY DEF KindInv
  <2>2. Exited => Exited'
    BY <1>10 DEF StartFails, StartBreaks, GivesUp, ReadFails, Exited
  <2>3. /\ pc' = [pc EXCEPT ![t] = pc'[t]] /\ pc'[t] \notin {"info", "active"}
        /\ on' = [on EXCEPT ![t] = on'[t]]
        /\ pc[t] \in LndWaits => failed'
        /\ failed => failed'
        /\ \A n \in Nodes : runtime'[n] \in {0, runtime[n]}
        /\ UNCHANGED <<announced, spawned, peer>>
    BY <1>10, <2>1 DEF StartFails, StartBreaks, Abort
  <2> QED
    BY <2>2, <2>3
<1>11. ASSUME NEW t \in Goroutines,
             StartReaped(t) \/ StopReaped(t)
      PROVE  ReadyInv' /\ AllReady'
  <2>1. Exited => Exited'
    BY <1>11 DEF StartReaped, StopReaped, Exited
  <2> QED
    BY <1>11, <2>1 DEF StartReaped, StopReaped
<1>12. ASSUME NEW t \in Goroutines, NEW n \in Nodes, NEW done, NEW waiting,
              pc[t] \in {"idle", "tear"}, done \in {"idle", "tear"},
              waiting \in ReapLabels, StopNode(t, n, done, waiting),
              UNCHANGED <<announced, spawned, peer, failed>>
       PROVE  ReadyInv' /\ AllReady'
  <2>1. Exited => Exited'
    BY <1>12
  <2>2. /\ pc' = [pc EXCEPT ![t] = pc'[t]] /\ pc'[t] \in {done, waiting}
        /\ on' = [on EXCEPT ![t] = on'[t]]
        /\ \A m \in Nodes : runtime'[m] \in {0, runtime[m]}
    BY <1>12, StopCases
  <2>3. pc'[t] \notin {"info", "active"}
    BY <1>12, <2>2 DEF ReapLabels
  <2> QED
    BY <1>12, <2>1, <2>2, <2>3
<1>13. CASE TearStop
  <2>1. PICK n \in Nodes : StopNode(Main, n, "tear", "tearreap")
    BY <1>13, TearStopNode DEF TearStop, RestartInv, HandleInv, StrayInv
  <2> QED
    BY <1>12, <1>13, <2>1 DEF TearStop, ReapLabels
<1>14. CASE TearReaped \/ TearClean \/ TearEnd \/ TearDown
  <2>1. Exited => Exited'
    BY <1>14 DEF TearReaped, TearClean, TearEnd, TearDown
  <2> QED
    BY <1>14, <2>1 DEF TearReaped, TearClean, TearEnd, TearDown
<1>15. ASSUME NEW t \in Goroutines, NEW n \in Nodes, NewNode(t, n) \/ StartCall(t, n)
       PROVE  ReadyInv' /\ AllReady'
  <2>1. Exited => Exited'
    BY <1>15 DEF NewNode, StartCall
  <2> QED
    BY <1>15, <2>1 DEF NewNode, StartCall
<1>16. ASSUME NEW t \in Goroutines, NEW n \in Nodes, StopCall(t, n) PROVE ReadyInv' /\ AllReady'
  BY <1>12, <1>16 DEF StopCall, ReapLabels
<1>17. CASE Environment \/ UNCHANGED vars
  <2>1. /\ UNCHANGED <<pc, on, peer, runtime, spawned, failed>>
        /\ \A n \in Nodes : announced[n] \subseteq announced'[n]
    BY <1>17 DEF Environment, Serve, Activate, Die, CtxKill, Gone, Tick, vars
  <2>2. Exited => Exited'
    BY <2>1 DEF Exited
  <2> QED
    BY <2>1, <2>2
<1>19. CASE Exit
  BY <1>19 DEF Exit, Exited
<1> QED
  BY <1>1, <1>2, <1>3, <1>4, <1>5, <1>7, <1>8, <1>9, <1>10, <1>11, <1>13, <1>14,
     <1>15, <1>16, <1>17, <1>18, <1>19
  DEF Next, Call, CallStep, StartStep, TearStep

\* A Start that returned holds the last incarnation it launched, and that very
\* one had become ready (for lnd and cln: until the test has failed), whatever is
\* left of the incarnations before it and whichever of them the port, the
\* certificate or the log would lead to.
THEOREM ReadyWhenStarted == Spec => []StartedWasReady
<1>2. Init => StartInv
  <2> SUFFICES ASSUME Init PROVE StartInv
    OBVIOUS
  <2>1. /\ \A n \in Nodes : runtime[n] = 0 /\ spawned[n] = 0
        /\ \A t \in Goroutines : pc[t] = "idle"
    BY DEF Init
  <2>2. ReadyInv
    BY <2>1 DEF ReadyInv
  <2>3. AllReady
    BY <2>1, BoundsAssumption DEF AllReady, Incarnations, Nodes
  <2> QED
    BY <2>1, <2>2, <2>3, RestartInvInit, LogInvInit, MinerInvInit DEF StartInv, UpInv, Init
<1>3. StartInv => StartedWasReady
  BY DEF StartInv, RestartInv, HandleInv, StrayInv, RuntimeLatest, ReadyInv, Lenient,
         StartedWasReady
<1> QED
  BY <1>2, <1>3, StartInvStep, PTL DEF Spec
-----------------------------------------------------------------------------
(* TearDown and the node it comes to.                                      *)

\* While TearDown waits for a process, it is at the stoppable whose mutex it holds.
TearAt == pc[Main] = "tearreap" => on[Main] = stoppables[tdPos]

LEMMA TearAtStep == HandleInv /\ TearAt /\ [Next]_vars => TearAt'
<1> SUFFICES ASSUME HandleInv, TearAt, [Next]_vars PROVE TearAt'
  OBVIOUS
<1>a. /\ pc \in [Goroutines -> Labels] /\ on \in [Goroutines -> Nodes \cup {NoNode}]
      /\ TypeInv
  BY DEF HandleInv, StrayInv, TypeInv, TypeOK
<1> USE <1>a, GoroutineAssumption
<1> USE DEF TearAt, Goto, Lock, Unlock, Fatalf, vars, harnessVars, callVars, nodeVars,
            procVars
<1>1. ASSUME NEW t \in Goroutines,
             \/ Spawn(t) \/ SpawnFails(t) \/ AwaitLog(t) \/ StartUp(t) \/ FirstRun(t)
             \/ AwaitTls(t) \/ Dial(t)
      PROVE  TearAt'
  BY <1>1 DEF Spawn, SpawnFails, AwaitLog, StartUp, FirstRun, AwaitTls, Dial
<1>2. ASSUME NEW t \in Goroutines,
             \/ AwaitStarted(t) \/ OpenWallet(t) \/ OpenWalletLost(t) \/ AwaitActive(t)
             \/ GetInfo(t) \/ StartReaped(t) \/ StopReaped(t)
      PROVE  TearAt'
  BY <1>2 DEF AwaitStarted, OpenWallet, OpenWalletLost, AwaitActive, GetInfo,
     StartReaped, StopReaped
<1>3. ASSUME NEW t \in Goroutines, StartFails(t) \/ StartBreaks(t) PROVE TearAt'
  BY <1>3 DEF StartFails, StartBreaks, Abort
<1>4. CASE TearStop
  BY <1>4, TearStopNode, StopCases DEF TearStop
<1>5. CASE TearReaped \/ TearClean \/ TearEnd \/ TearDown \/ Exit
  BY <1>5 DEF TearReaped, TearClean, TearEnd, TearDown, Exit
<1>6. ASSUME NEW t \in Goroutines, NEW n \in Nodes, NewNode(t, n) PROVE TearAt'
  BY <1>6 DEF NewNode, TearingDown, TearLabels
<1>7. ASSUME NEW t \in Goroutines, NEW n \in Nodes, StartCall(t, n) PROVE TearAt'
  BY <1>7 DEF StartCall
<1>8. ASSUME NEW t \in Goroutines, NEW n \in Nodes, StopCall(t, n) PROVE TearAt'
  BY <1>8, StopCases DEF StopCall
<1>9. CASE Environment \/ UNCHANGED vars
  BY <1>9 DEF Environment, Serve, Activate, Die, CtxKill, Gone, Tick
<1> QED
  BY <1>1, <1>2, <1>3, <1>4, <1>5, <1>6, <1>7, <1>8, <1>9
  DEF Next, Call, CallStep, StartStep, TearStep

\* What TearDown leaves behind at the stoppable it goes on from.
LeftStopped(n) ==
  /\ ~ Loose(n)'
  /\ n \in Miners => \A i \in Incarnations : stage'[n][i] \notin Alive

LEMMA LeavesStopped ==
  HandleInv /\ MinerInv /\ TearAt /\ [Next]_vars =>
    (tdPos > 0 /\ tdPos' > tdPos =>
       \A n \in Nodes : n = stoppables[tdPos] => LeftStopped(n))
<1> SUFFICES ASSUME HandleInv, MinerInv, TearAt, [Next]_vars, tdPos > 0, tdPos' > tdPos,
                    NEW n \in Nodes, n = stoppables[tdPos]
             PROVE  LeftStopped(n)
  OBVIOUS
<1>a. /\ pc \in [Goroutines -> Labels] /\ on \in [Goroutines -> Nodes \cup {NoNode}]
      /\ runtime \in [Nodes -> 0 .. MaxSpawn] /\ tdPos \in Nat
      /\ signalled \in [Nodes -> SUBSET Incarnations]
      /\ Exclusive /\ AllExited /\ Holding /\ NoNode \notin Nodes
  BY NodesAssumption DEF HandleInv, StrayInv, TypeInv, TypeOK
<1> USE <1>a, GoroutineAssumption
<1>1. CASE TearStop
  <2>1. /\ pc[Main] = "tear" /\ StopNode(Main, n, "tear", "tearreap")
        /\ pc'[Main] = "tear" /\ stage' = stage
    BY <1>1 DEF TearStop
  <2>2. ~ Exited /\ MutexFree(n)
    BY <2>1 DEF Exited, StopNode
  <2>3. n \in Miners => runtime[n] = 0
    BY <2>1 DEF StopNode, Goto
  <2>4. ASSUME NEW i \in Incarnations, stage[n][i] \in Alive, i \notin signalled[n]
        PROVE  i \in signalled'[n]
    <3>1. runtime[n] = i
      BY <2>2, <2>4, LooseOnes
    <3>2. signalled' = [signalled EXCEPT ![n] = @ \cup {i}]
      BY <2>1, <3>1 DEF StopNode, Interrupt, Incarnations
    <3> QED
      BY <3>2
  <2>5. signalled[n] \subseteq signalled'[n]
    BY <2>1 DEF StopNode, Interrupt
  <2>6. ~ Loose(n)'
    BY <2>1, <2>4, <2>5 DEF Loose
  <2>7. ASSUME n \in Miners, NEW i \in Incarnations PROVE stage'[n][i] \notin Alive
    <3>1. LoneAt(n) /\ ~ Held(n, BusyLabels)
      BY <2>2, <2>7 DEF MinerInv, Held, MutexFree
    <3> QED
      BY <2>1, <2>3, <2>7, <3>1 DEF LoneAt, Incarnations
  <2> QED
    BY <2>6, <2>7 DEF LeftStopped
<1>2. CASE TearReaped
  <2>1. /\ pc[Main] = "tearreap" /\ on[Main] = n /\ stage[n][runtime[n]] = "gone"
        /\ UNCHANGED <<stage, signalled>>
    BY <1>2 DEF TearReaped, TearAt, procVars
  <2>2. ~ Exited
    BY <2>1 DEF Exited
  <2>3. \A t \in Goroutines : on[t] = n => t = Main
    BY <2>1 DEF Exclusive
  <2>4. ASSUME NEW i \in Incarnations, stage[n][i] \in Alive, i \notin signalled[n]
        PROVE  FALSE
    <3>1. Owned(n, i)
      BY <2>2, <2>4 DEF HandleInv, StrayInv, NoStrayProcess
    <3>2. runtime[n] = i
      BY <2>1, <2>3, <3>1 DEF Owned, StartLabels
    <3> QED
      BY <2>1, <2>4, <3>2 DEF Alive, Listening
  <2>5. ~ Loose(n)'
    BY <2>1, <2>4 DEF Loose
  <2>6. ASSUME n \in Miners, NEW i \in Incarnations PROVE stage'[n][i] \notin Alive
    <3>1. LoneAt(n) /\ ~ Held(n, BusyLabels)
      BY <2>1, <2>2, <2>3, <2>6 DEF MinerInv, Held, BusyLabels, StartLabels
    <3> QED
      BY <2>1, <3>1 DEF LoneAt, Alive, Listening
  <2> QED
    BY <2>5, <2>6 DEF LeftStopped
<1>3. CASE TearDown
  BY <1>3 DEF TearDown
\* No other step moves TearDown.
<1>4. ASSUME tdPos' = tdPos PROVE FALSE
  BY <1>4
<1> USE <1>4 DEF vars, harnessVars
<1>5. ASSUME NEW t \in Goroutines,
             \/ Spawn(t) \/ SpawnFails(t) \/ AwaitLog(t) \/ StartUp(t) \/ FirstRun(t)
             \/ AwaitTls(t) \/ Dial(t)
      PROVE  FALSE
  BY <1>5 DEF Spawn, SpawnFails, AwaitLog, StartUp, FirstRun, AwaitTls, Dial
<1>6. ASSUME NEW t \in Goroutines,
             \/ AwaitStarted(t) \/ OpenWallet(t) \/ OpenWalletLost(t) \/ AwaitActive(t)
             \/ GetInfo(t) \/ StartReaped(t) \/ StopReaped(t)
      PROVE  FALSE
  BY <1>6 DEF AwaitStarted, OpenWallet, OpenWalletLost, AwaitActive, GetInfo,
     StartReaped, StopReaped
<1>7. ASSUME NEW t \in Goroutines, StartFails(t) \/ StartBreaks(t) PROVE FALSE
  BY <1>7 DEF StartFails, StartBreaks, Abort
<1>8. CASE TearClean \/ TearEnd \/ Exit
  BY <1>8 DEF TearClean, TearEnd, Exit
<1>9. ASSUME NEW t \in Goroutines, NEW m \in Nodes,
             NewNode(t, m) \/ StartCall(t, m) \/ StopCall(t, m)
      PROVE  FALSE
  BY <1>9 DEF NewNode, StartCall, StopCall
<1>10. CASE Environment \/ UNCHANGED vars
  BY <1>10 DEF Environment, Serve, Activate, Die, CtxKill, Gone, Tick
<1> QED
  BY <1>1, <1>2, <1>3, <1>5, <1>6, <1>7, <1>8, <1>9, <1>10
  DEF Next, Call, CallStep, StartStep, TearStep

\* TearDown leaves no stoppable with a process that was not told to stop, and no
\* miner with a process, however many goroutines start and stop the nodes while
\* it goes through them.
THEOREM TearDownStops == Spec => TearDownStopsEach
<1>1. Init => TearAt
  BY GoroutineAssumption DEF Init, TearAt
<1>2. HandleInv /\ MinerInv /\ TearAt /\ [Next]_vars =>
        [tdPos > 0 /\ tdPos' > tdPos =>
           \A n \in Nodes : n = stoppables[tdPos] =>
             /\ ~ Loose(n)'
             /\ n \in Miners => \A i \in Incarnations : stage'[n][i] \notin Alive]_vars
  BY LeavesStopped DEF LeftStopped
<1> QED
  BY <1>1, <1>2, TearAtStep, MinerInvInit, MinerInvStep, HandleInvInit, HandleInvStep,
     PTL DEF Spec, TearDownStopsEach
=============================================================================
