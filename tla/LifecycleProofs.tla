--------------------------- MODULE LifecycleProofs ---------------------------
(***************************************************************************)
(* Theorems about Lifecycle, for any sets of miners, lnd nodes, cln nodes  *)
(* and goroutines and any bound on the incarnations.                       *)
(***************************************************************************)
EXTENDS Lifecycle, SequenceTheorems, TLAPS

\* A goroutine holds a node's mutex exactly inside Start, Stop or the wait of
\* TearDown for a miner.
Holding ==
  \A t \in Goroutines : on[t] # NoNode <=> pc[t] \in StartLabels \cup ReapLabels

\* Past cmd.Start there is an incarnation.
Begun ==
  \A t \in Goroutines :
    pc[t] \in (StartLabels \ {"spawn"}) \cup {"reap"} => spawned[on[t]] > 0

\* While TearDown runs it is at some stoppable, or past the last.
AtStoppable == TearingDown => tdPos > 0

TypeInv == TypeOK /\ Holding /\ Begun /\ AtStoppable

LEMMA TypeInvInit == Init => TypeInv
<1> SUFFICES ASSUME Init PROVE TypeInv
  OBVIOUS
<1> USE DEF Init
<1>1. TypeOK
  <2>1. stoppables \in Seq(Nodes)
    OBVIOUS
  <2>2. pc \in [Goroutines -> Labels] /\ on \in [Goroutines -> Nodes \cup {NoNode}]
    BY DEF Labels, RestLabels
  <2>3. stage \in [Nodes -> [Incarnations -> {"unborn", "gone"} \cup Alive]]
    OBVIOUS
  <2>4. isInitialized \in [Nodes -> BOOLEAN]
    OBVIOUS
  <2>5. /\ peer \in [Goroutines -> 0 .. MaxSpawn]
        /\ runtime \in [Nodes -> 0 .. MaxSpawn]
        /\ spawned \in [Nodes -> 0 .. MaxSpawn]
        /\ timesStarted \in [Nodes -> Nat]
        /\ tdPos \in Nat
    BY BoundsAssumption
  <2>6. /\ expired \in BOOLEAN /\ cancelled \in BOOLEAN /\ failed \in BOOLEAN
        /\ signalled \in [Nodes -> SUBSET Incarnations]
        /\ announced \in [Nodes -> SUBSET Incarnations]
        /\ disk \in [Nodes -> SUBSET {"cert", "wallet"}]
    OBVIOUS
  <2> QED
    BY <2>1, <2>2, <2>3, <2>4, <2>5, <2>6 DEF TypeOK
<1>2. Holding /\ Begun /\ AtStoppable
  BY GoroutineAssumption
  DEF Holding, Begun, AtStoppable, TearingDown, TearLabels, StartLabels, ReapLabels
<1> QED
  BY <1>1, <1>2 DEF TypeInv

\* Moving one incarnation to another stage, or sending it SIGINT, is typed.
LEMMA StageType ==
  ASSUME TypeOK, NEW n \in Nodes, NEW i \in Incarnations,
         NEW x \in {"unborn", "gone"} \cup Alive
  PROVE  [stage EXCEPT ![n][i] = x]
           \in [Nodes -> [Incarnations -> {"unborn", "gone"} \cup Alive]]
  BY DEF TypeOK

LEMMA AddElement ==
  ASSUME NEW S, NEW T, NEW f \in [S -> SUBSET T], NEW s \in S, NEW x \in T
  PROVE  [f EXCEPT ![s] = @ \cup {x}] \in [S -> SUBSET T]
  OBVIOUS

LEMMA InterruptType ==
  ASSUME TypeOK, NEW n \in Nodes, NEW i \in Incarnations, Interrupt(n, i)
  PROVE  signalled' \in [Nodes -> SUBSET Incarnations]
  BY DEF TypeOK, Interrupt

\* Stop signals the incarnation of a runtime that is not nil.
LEMMA StopType ==
  ASSUME TypeOK, NEW n \in Nodes, NEW t, NEW done, NEW waiting,
         StopNode(t, n, done, waiting)
  PROVE  signalled' \in [Nodes -> SUBSET Incarnations]
<1>1. CASE runtime[n] = 0
  BY <1>1 DEF StopNode, TypeOK
<1>2. CASE runtime[n] # 0
  <2>1. runtime[n] \in Incarnations /\ Interrupt(n, runtime[n])
    BY <1>2, BoundsAssumption DEF StopNode, TypeOK, Incarnations
  <2> QED
    BY <2>1, InterruptType
<1> QED
  BY <1>1, <1>2

\* A goroutine past cmd.Start holds a node that has an incarnation.
LEMMA Holder ==
  ASSUME TypeInv, NEW t \in Goroutines,
         pc[t] \in (StartLabels \ {"spawn"}) \cup {"reap"}
  PROVE  on[t] \in Nodes /\ Current(on[t]) \in Incarnations
<1>1. on[t] \in Nodes
  BY DEF TypeInv, TypeOK, Holding, ReapLabels
<1>2. spawned[on[t]] \in 0 .. MaxSpawn /\ spawned[on[t]] > 0
  BY <1>1 DEF TypeInv, TypeOK, Begun
<1> QED
  BY <1>1, <1>2, BoundsAssumption DEF Current, Incarnations

\* Every value n.runtime is set to is typed.
LEMMA RuntimeType ==
  ASSUME TypeOK, NEW n \in Nodes, NEW i \in 0 .. MaxSpawn,
         runtime' = [runtime EXCEPT ![n] = i] \/ runtime' = runtime
  PROVE  runtime' \in [Nodes -> 0 .. MaxSpawn]
  BY DEF TypeOK

LEMMA TypeInvStep == TypeInv /\ [Next]_vars => TypeInv'
<1> SUFFICES ASSUME TypeInv, [Next]_vars PROVE TypeInv'
  OBVIOUS
<1> USE BoundsAssumption, GoroutineAssumption, NodesAssumption
<1> USE DEF TypeInv, TypeOK, Holding, Begun, AtStoppable, TearingDown, TearLabels,
            StartLabels, ReapLabels, RestLabels, Labels, vars, harnessVars,
            callVars, nodeVars, procVars, Goto, Lock, Unlock, Fatalf, Interrupt,
            Current, Incarnations
<1>1. ASSUME NEW t \in Goroutines, Spawn(t) PROVE TypeInv'
  <2> DEFINE n == on[t]
             i == spawned[n] + 1
  <2>1. n \in Nodes /\ i \in Incarnations
    BY <1>1 DEF Spawn
  <2>2. stage' = [stage EXCEPT ![n][i] = "boot"] /\ "boot" \in Alive
    BY <1>1 DEF Spawn, Alive
  <2>3. stage' \in [Nodes -> [Incarnations -> {"unborn", "gone"} \cup Alive]]
    BY <2>1, <2>2, StageType
  <2>4. spawned' \in [Nodes -> 0 .. MaxSpawn]
    BY <1>1, <2>1 DEF Spawn
  <2>5. TypeOK'
    BY <1>1, <2>3, <2>4 DEF Spawn
  <2>6. Holding' /\ Begun' /\ AtStoppable'
    BY <1>1, <2>1 DEF Spawn
  <2> QED
    BY <2>5, <2>6
<1>2. ASSUME NEW t \in Goroutines, SpawnFails(t) PROVE TypeInv'
  <2>1. CASE Fatalf(t)
    BY <1>2, <2>1 DEF SpawnFails
  <2>2. CASE pc' = [u \in Goroutines |-> "exit"]
    BY <1>2, <2>2 DEF SpawnFails
  <2> QED
    BY <1>2, <2>1, <2>2 DEF SpawnFails
<1>3. ASSUME NEW t \in Goroutines, AwaitLog(t) PROVE TypeInv'
  <2> DEFINE n == on[t]
  <2>1. n \in Nodes /\ pc[t] = "log" /\ spawned[n] \in Incarnations
    <3>1. pc[t] = "log"
      BY <1>3 DEF AwaitLog
    <3> QED
      BY <3>1, Holder
  <2>2. timesStarted' \in [Nodes -> Nat]
    BY <1>3 DEF AwaitLog
  <2>3. /\ Goto(t, "startup") \/ Goto(t, "info")
        /\ UNCHANGED <<on, runtime, spawned, tdPos>>
    BY <1>3 DEF AwaitLog
  <2>4. /\ pc' \in [Goroutines -> Labels]
        /\ on' \in [Goroutines -> Nodes \cup {NoNode}]
        /\ Holding' /\ Begun' /\ AtStoppable'
    <3>1. pc' \in [Goroutines -> Labels] /\ on' \in [Goroutines -> Nodes \cup {NoNode}]
      BY <2>1, <2>3
    <3>2. Holding'
      BY <2>1, <2>3
    <3>3. Begun'
      BY <2>1, <2>3
    <3>4. AtStoppable'
      BY <2>1, <2>3
    <3> QED
      BY <3>1, <3>2, <3>3, <3>4
  <2>5. TypeOK'
    BY <1>3, <2>2, <2>4 DEF AwaitLog
  <2> QED
    BY <2>4, <2>5
<1>29. ASSUME NEW t \in Goroutines, StartUp(t) PROVE TypeInv'
  <2> DEFINE n == on[t]
  <2>1. n \in Nodes /\ pc[t] = "startup" /\ spawned[n] \in Incarnations
    <3>1. pc[t] = "startup"
      BY <1>29 DEF StartUp
    <3> QED
      BY <3>1, Holder
  <2>2. runtime' \in [Nodes -> 0 .. MaxSpawn]
    BY <1>29, <2>1 DEF StartUp
  <2>3. /\ \/ Goto(t, "idle") /\ Unlock(t)
           \/ Goto(t, "first") /\ UNCHANGED on
        /\ UNCHANGED <<spawned, tdPos>>
    BY <1>29 DEF StartUp
  <2>4. /\ pc' \in [Goroutines -> Labels]
        /\ on' \in [Goroutines -> Nodes \cup {NoNode}]
        /\ Holding' /\ Begun' /\ AtStoppable'
    <3>1. pc' \in [Goroutines -> Labels] /\ on' \in [Goroutines -> Nodes \cup {NoNode}]
      BY <2>1, <2>3
    <3>2. Holding'
      BY <2>1, <2>3
    <3>3. Begun'
      BY <2>1, <2>3
    <3>4. AtStoppable'
      BY <2>1, <2>3
    <3> QED
      BY <3>1, <3>2, <3>3, <3>4
  <2>5. TypeOK'
    BY <1>29, <2>2, <2>4 DEF StartUp
  <2> QED
    BY <2>4, <2>5
<1>4. ASSUME NEW t \in Goroutines, FirstRun(t) PROVE TypeInv'
  BY <1>4 DEF FirstRun
<1>5. ASSUME NEW t \in Goroutines, AwaitTls(t) PROVE TypeInv'
  BY <1>5 DEF AwaitTls
<1>6. ASSUME NEW t \in Goroutines, Dial(t) PROVE TypeInv'
  <2>1. /\ pc[t] = "dial" /\ pc' = [pc EXCEPT ![t] = "started"]
        /\ UNCHANGED <<on, spawned, tdPos>>
    BY <1>6 DEF Dial
  <2>2. peer' \in [Goroutines -> 0 .. MaxSpawn]
    BY <1>6 DEF Dial
  <2>3. TypeOK'
    BY <1>6, <2>1, <2>2 DEF Dial
  <2>4. Holding' /\ Begun' /\ AtStoppable'
    BY <2>1
  <2> QED
    BY <2>3, <2>4
<1>7. ASSUME NEW t \in Goroutines, AwaitStarted(t) PROVE TypeInv'
  BY <1>7 DEF AwaitStarted
<1>8. ASSUME NEW t \in Goroutines, OpenWallet(t) PROVE TypeInv'
  <2> DEFINE n == on[t]
  <2>1. n \in Nodes
    BY <1>8 DEF OpenWallet
  <2>2. PICK j \in Incarnations :
          /\ stage' = [stage EXCEPT ![n][j] = "open"]
          /\ peer' = [peer EXCEPT ![t] = j]
    BY <1>8 DEF OpenWallet
  <2>3. stage' \in [Nodes -> [Incarnations -> {"unborn", "gone"} \cup Alive]]
    BY <2>1, <2>2, StageType DEF Alive, Listening
  <2>4. /\ peer' \in [Goroutines -> 0 .. MaxSpawn]
        /\ disk' \in [Nodes -> SUBSET {"cert", "wallet"}]
        /\ isInitialized' \in [Nodes -> BOOLEAN]
    BY <1>8, <2>1, <2>2 DEF OpenWallet
  <2>5. TypeOK'
    BY <1>8, <2>3, <2>4 DEF OpenWallet
  <2>6. Holding' /\ Begun' /\ AtStoppable'
    BY <1>8 DEF OpenWallet
  <2> QED
    BY <2>5, <2>6
<1>9. ASSUME NEW t \in Goroutines, OpenWalletLost(t) PROVE TypeInv'
  <2> DEFINE n == on[t]
  <2>1. n \in Nodes /\ Current(n) \in Incarnations
    <3>1. pc[t] = "wallet"
      BY <1>9 DEF OpenWalletLost
    <3> QED
      BY <3>1, Holder
  <2>2. \E j \in Incarnations : stage' = [stage EXCEPT ![n][j] = "open"]
    BY <1>9 DEF OpenWalletLost
  <2>3. stage' \in [Nodes -> [Incarnations -> {"unborn", "gone"} \cup Alive]]
    BY <2>1, <2>2, StageType DEF Alive, Listening
  <2>4. signalled' \in [Nodes -> SUBSET Incarnations]
    BY <1>9, <2>1, InterruptType DEF OpenWalletLost
  <2>5. disk' \in [Nodes -> SUBSET {"cert", "wallet"}]
    BY <1>9, <2>1 DEF OpenWalletLost
  <2>6. TypeOK'
    BY <1>9, <2>3, <2>4, <2>5 DEF OpenWalletLost
  <2>7. Holding' /\ Begun' /\ AtStoppable'
    BY <1>9 DEF OpenWalletLost
  <2> QED
    BY <2>6, <2>7
<1>10. ASSUME NEW t \in Goroutines, AwaitActive(t) PROVE TypeInv'
  BY <1>10 DEF AwaitActive
<1>11. ASSUME NEW t \in Goroutines, GetInfo(t) PROVE TypeInv'
  BY <1>11 DEF GetInfo
<1>12. ASSUME NEW t \in Goroutines, StartFails(t) \/ StartBreaks(t) PROVE TypeInv'
  <2> DEFINE n == on[t]
  <2>1. n \in Nodes /\ Current(n) \in Incarnations
    BY <1>12 DEF StartFails, StartBreaks, GivesUp, ReadFails, Abort
  <2>2. signalled' \in [Nodes -> SUBSET Incarnations]
    BY <1>12, <2>1, InterruptType DEF StartFails, StartBreaks, Abort
  <2>3. \/ Goto(t, "reap") /\ UNCHANGED <<on, failed, tdPos, spawned>>
        \/ Fatalf(t) /\ UNCHANGED <<tdPos, spawned>>
    BY <1>12 DEF StartFails, StartBreaks, Abort
  <2>4. \/ runtime' = [runtime EXCEPT ![n] = 0]
        \/ runtime' = runtime
    BY <1>12 DEF StartFails, StartBreaks, Abort
  <2>5. runtime' \in [Nodes -> 0 .. MaxSpawn]
    <3>1. 0 \in 0 .. MaxSpawn
      BY BoundsAssumption
    <3> QED
      BY <2>1, <2>4, <3>1, RuntimeType
  <2>6. pc[t] \in StartLabels \ {"spawn"}
    BY <1>12 DEF StartFails, StartBreaks, GivesUp, ReadFails, Abort
  <2>7. CASE Goto(t, "reap") /\ UNCHANGED <<on, failed, tdPos, spawned>>
    BY <1>12, <2>1, <2>2, <2>5, <2>6, <2>7 DEF StartFails, StartBreaks, Abort
  <2>8. CASE Fatalf(t) /\ UNCHANGED <<tdPos, spawned>>
    BY <1>12, <2>1, <2>2, <2>5, <2>6, <2>8 DEF StartFails, StartBreaks, Abort
  <2> QED
    BY <2>3, <2>7, <2>8
<1>13. ASSUME NEW t \in Goroutines, StartReaped(t) PROVE TypeInv'
  BY <1>13 DEF StartReaped
<1>14. ASSUME NEW t \in Goroutines, StopReaped(t) PROVE TypeInv'
  BY <1>14 DEF StopReaped
<1>15. CASE TearStop
  <2> DEFINE n == stoppables[tdPos]
  <2>1. n \in Nodes /\ pc[Main] = "tear" /\ on[Main] = NoNode /\ tdPos > 0
    <3>1. pc[Main] = "tear" /\ tdPos > 0 /\ tdPos <= Len(stoppables)
      BY <1>15 DEF TearStop
    <3>2. on[Main] = NoNode
      BY <3>1
    <3> QED
      BY <3>1, <3>2, ElementOfSeq
  <2>2. signalled' \in [Nodes -> SUBSET Incarnations]
    BY <1>15, <2>1, StopType DEF TearStop
  <2>3. \/ Goto(Main, "tear") /\ UNCHANGED on
        \/ Goto(Main, "tearreap") /\ Lock(Main, n)
    BY <1>15 DEF TearStop, StopNode
  <2>4. runtime' \in [Nodes -> 0 .. MaxSpawn]
    <3>1. runtime' = [runtime EXCEPT ![n] = 0] \/ runtime' = runtime
      BY <1>15 DEF TearStop, StopNode
    <3>2. 0 \in 0 .. MaxSpawn
      BY BoundsAssumption
    <3> QED
      BY <2>1, <3>1, <3>2, RuntimeType
  <2>5. tdPos' \in Nat /\ tdPos' > 0
    BY <1>15, <2>1 DEF TearStop
  <2>6. /\ pc' \in [Goroutines -> Labels]
        /\ on' \in [Goroutines -> Nodes \cup {NoNode}]
        /\ Holding'
    BY <2>1, <2>3
  <2>7. Begun'
    <3>1. UNCHANGED spawned
      BY <1>15 DEF TearStop
    <3> QED
      BY <2>1, <2>3, <3>1
  <2>8. TypeOK'
    BY <1>15, <2>2, <2>4, <2>5, <2>6 DEF TearStop
  <2> QED
    BY <2>5, <2>6, <2>7, <2>8
<1>16. CASE TearReaped
  BY <1>16 DEF TearReaped
<1>17. CASE TearClean
  BY <1>17 DEF TearClean
<1>18. CASE TearEnd
  BY <1>18 DEF TearEnd
<1>19. CASE TearDown
  BY <1>19 DEF TearDown
<1>20. ASSUME NEW t \in Goroutines, NEW n \in Nodes, NewNode(t, n) PROVE TypeInv'
  BY <1>20 DEF NewNode
<1>21. ASSUME NEW t \in Goroutines, NEW n \in Nodes, StartCall(t, n) PROVE TypeInv'
  <2>1. CASE runtime[n] # 0
    BY <1>21, <2>1 DEF StartCall
  <2>2. CASE runtime[n] = 0
    <3>1. pc[t] = "idle" /\ Goto(t, "spawn") /\ Lock(t, n)
      BY <1>21, <2>2 DEF StartCall
    <3>2. UNCHANGED <<peer, harnessVars, nodeVars, procVars>>
      BY <1>21, <2>2 DEF StartCall
    <3>3. TypeOK' /\ Holding'
      BY <3>1, <3>2
    <3>4. Begun' /\ AtStoppable'
      BY <3>1, <3>2
    <3> QED
      BY <3>3, <3>4
  <2> QED
    BY <2>1, <2>2
<1>22. ASSUME NEW t \in Goroutines, NEW n \in Nodes, StopCall(t, n) PROVE TypeInv'
  <2>1. signalled' \in [Nodes -> SUBSET Incarnations]
    BY <1>22, StopType DEF StopCall
  <2>2. \/ Goto(t, "idle") /\ UNCHANGED on
        \/ Goto(t, "stopreap") /\ Lock(t, n)
    BY <1>22 DEF StopCall, StopNode
  <2>3. runtime' \in [Nodes -> 0 .. MaxSpawn]
    <3>1. runtime' = [runtime EXCEPT ![n] = 0] \/ runtime' = runtime
      BY <1>22 DEF StopCall, StopNode
    <3>2. 0 \in 0 .. MaxSpawn
      BY BoundsAssumption
    <3> QED
      BY <3>1, <3>2, RuntimeType
  <2>4. pc[t] = "idle" /\ UNCHANGED <<tdPos, spawned>>
    BY <1>22 DEF StopCall
  <2>5. /\ pc' \in [Goroutines -> Labels]
        /\ on' \in [Goroutines -> Nodes \cup {NoNode}]
        /\ Holding'
    <3>1. CASE Goto(t, "idle") /\ UNCHANGED on
      BY <3>1, <2>4
    <3>2. CASE Goto(t, "stopreap") /\ Lock(t, n)
      BY <3>2, <2>4
    <3> QED
      BY <2>2, <3>1, <3>2
  <2>6. Begun' /\ AtStoppable'
    <3>1. Begun'
      <4>1. CASE Goto(t, "idle") /\ UNCHANGED on
        BY <4>1, <2>4
      <4>2. CASE Goto(t, "stopreap") /\ Lock(t, n)
        BY <4>2, <2>4
      <4> QED
        BY <2>2, <4>1, <4>2
    <3>2. AtStoppable'
      <4>1. \E x \in {"idle", "stopreap"} : pc' = [pc EXCEPT ![t] = x]
        BY <2>2
      <4> QED
        BY <2>4, <4>1
    <3> QED
      BY <3>1, <3>2
  <2>7. TypeOK'
    BY <1>22, <2>1, <2>3, <2>5 DEF StopCall
  <2> QED
    BY <2>5, <2>6, <2>7
<1>23. ASSUME NEW n \in Nodes, NEW i \in Incarnations, Serve(n, i) PROVE TypeInv'
  <2>1. PICK x \in Alive : stage' = [stage EXCEPT ![n][i] = x]
    BY <1>23 DEF Serve, Alive, Listening
  <2>2. stage' \in [Nodes -> [Incarnations -> {"unborn", "gone"} \cup Alive]]
    BY <2>1, StageType
  <2>3. announced' \in [Nodes -> SUBSET Incarnations]
    <3>1. \/ announced' = [announced EXCEPT ![n] = @ \cup {i}]
          \/ announced' = announced
      BY <1>23 DEF Serve
    <3>2. [announced EXCEPT ![n] = @ \cup {i}] \in [Nodes -> SUBSET Incarnations]
      BY AddElement, Zenon
    <3> QED
      BY <3>1, <3>2
  <2>6. disk' \in [Nodes -> SUBSET {"cert", "wallet"}]
    <3>1. \/ disk' = [disk EXCEPT ![n] = @ \cup {"cert"}]
          \/ disk' = disk
      BY <1>23 DEF Serve
    <3>2. [disk EXCEPT ![n] = @ \cup {"cert"}] \in [Nodes -> SUBSET {"cert", "wallet"}]
      BY AddElement, Zenon
    <3> QED
      BY <3>1, <3>2
  <2>4. TypeOK'
    BY <1>23, <2>2, <2>3, <2>6 DEF Serve
  <2>5. Holding' /\ Begun' /\ AtStoppable'
    BY <1>23 DEF Serve
  <2> QED
    BY <2>4, <2>5
<1>24. ASSUME NEW n \in Nodes, NEW i \in Incarnations, Activate(n, i) PROVE TypeInv'
  BY <1>24 DEF Activate, Alive, Listening
<1>25. ASSUME NEW n \in Nodes, NEW i \in Incarnations, Die(n, i) PROVE TypeInv'
  BY <1>25 DEF Die, Gone, Alive
<1>26. ASSUME NEW n \in Nodes, NEW i \in Incarnations, CtxKill(n, i) PROVE TypeInv'
  BY <1>26 DEF CtxKill, Gone, Alive
<1>27. CASE Tick
  BY <1>27 DEF Tick
<1>28. CASE UNCHANGED vars
  BY <1>28
<1>30. CASE Exit
  BY <1>30 DEF Exit
<1> QED
  BY <1>1, <1>2, <1>3, <1>4, <1>5, <1>6, <1>7, <1>8, <1>9, <1>10, <1>11, <1>12,
     <1>13, <1>14, <1>15, <1>16, <1>17, <1>18, <1>19, <1>20, <1>21, <1>22, <1>23,
     <1>24, <1>25, <1>26, <1>27, <1>28, <1>29, <1>30
  DEF Next, Call, CallStep, StartStep, TearStep, Environment

\* Type correctness of every reachable state, with the discipline of the
\* mutexes (Holding) it rests on.
THEOREM TypeCorrect == Spec => []TypeOK
<1>1. TypeInv => TypeOK
  BY DEF TypeInv
<1> QED
  BY <1>1, TypeInvInit, TypeInvStep, PTL DEF Spec

-----------------------------------------------------------------------------
\* At most one goroutine holds a node's mutex.
Exclusive ==
  \A t, u \in Goroutines : on[t] = on[u] /\ on[t] # NoNode => t = u

\* Incarnations beyond the last one spawned do not exist yet.
Unborn ==
  \A n \in Nodes : \A i \in Incarnations : i > spawned[n] => stage[n][i] = "unborn"

\* A runtime is nil or the last incarnation spawned; inside
\* initializeFirstRun it is the latter.
RuntimeLatest ==
  /\ \A n \in Nodes : runtime[n] \in {0, spawned[n]}
  /\ \A t \in Goroutines : pc[t] = "first" => runtime[on[t]] = spawned[on[t]]

\* Before cmd.Start the node has no runtime, and what is left of its earlier
\* incarnations was sent SIGINT.
SpawnClean ==
  \A t \in Goroutines : pc[t] = "spawn" =>
    /\ runtime[on[t]] = 0
    /\ ~ Exited => \A i \in Incarnations :
                     stage[on[t]][i] \in Alive => i \in signalled[on[t]]

StrayInv ==
  TypeInv /\ Exclusive /\ Unborn /\ RuntimeLatest /\ SpawnClean /\ NoStrayProcess

LEMMA StrayInvInit == Init => StrayInv
<1> SUFFICES ASSUME Init PROVE StrayInv
  OBVIOUS
<1>1. TypeInv
  BY TypeInvInit
<1>2. Exclusive /\ Unborn /\ RuntimeLatest /\ SpawnClean /\ NoStrayProcess
  BY DEF Init, Exclusive, Unborn, RuntimeLatest, SpawnClean, NoStrayProcess,
         Alive, Listening
<1> QED
  BY <1>1, <1>2 DEF StrayInv

\* Locking a mutex that is free and unlocking one keep the holder unique.
LEMMA MutexKept ==
  ASSUME on \in [Goroutines -> Nodes \cup {NoNode}], Exclusive, NEW t \in Goroutines,
         \/ on' = on
         \/ on' = [on EXCEPT ![t] = NoNode]
         \/ \E n \in Nodes : MutexFree(n) /\ on' = [on EXCEPT ![t] = n]
  PROVE  Exclusive'
<1>1. CASE on' = on
  BY <1>1 DEF Exclusive
<1>2. CASE on' = [on EXCEPT ![t] = NoNode]
  BY <1>2 DEF Exclusive
<1>3. ASSUME NEW n \in Nodes, MutexFree(n), on' = [on EXCEPT ![t] = n]
      PROVE  Exclusive'
  BY <1>3 DEF Exclusive, MutexFree
<1> QED
  BY <1>1, <1>2, <1>3

\* The ways Stop goes on once it has the mutex.
LEMMA StopCases ==
  ASSUME NEW t, NEW n, NEW done, NEW waiting, StopNode(t, n, done, waiting)
  PROVE  /\ MutexFree(n)
         /\ \/ /\ runtime[n] = 0 /\ Goto(t, done)
               /\ UNCHANGED <<on, runtime, signalled>>
            \/ /\ runtime[n] # 0 /\ Interrupt(n, runtime[n])
               /\ Goto(t, waiting) /\ Lock(t, n) /\ UNCHANGED runtime
            \/ /\ runtime[n] # 0 /\ Interrupt(n, runtime[n])
               /\ Goto(t, done) /\ UNCHANGED on
               /\ runtime' = [runtime EXCEPT ![n] = 0]
  BY DEF StopNode

\* TearDown is at a node whenever it stops one, and holds no other.
LEMMA TearStopNode ==
  ASSUME TypeInv, TearStop
  PROVE  stoppables[tdPos] \in Nodes /\ on[Main] = NoNode
<1>1. pc[Main] = "tear" /\ tdPos \in Nat /\ tdPos > 0 /\ tdPos <= Len(stoppables)
  BY DEF TypeInv, TypeOK, TearStop, AtStoppable, TearingDown, TearLabels
<1>2. stoppables[tdPos] \in Nodes
  BY <1>1, ElementOfSeq DEF TypeInv, TypeOK
<1>3. on[Main] = NoNode
  BY <1>1, GoroutineAssumption DEF TypeInv, Holding, StartLabels, ReapLabels
<1> QED
  BY <1>2, <1>3

LEMMA StrayInvStep == StrayInv /\ [Next]_vars => StrayInv'
<1> SUFFICES ASSUME StrayInv, [Next]_vars PROVE StrayInv'
  OBVIOUS
<1>0. TypeInv /\ TypeInv'
  BY TypeInvStep DEF StrayInv
<1>a. /\ pc \in [Goroutines -> Labels]
      /\ on \in [Goroutines -> Nodes \cup {NoNode}]
      /\ runtime \in [Nodes -> 0 .. MaxSpawn]
      /\ spawned \in [Nodes -> 0 .. MaxSpawn]
      /\ stage \in [Nodes -> [Incarnations -> {"unborn", "gone"} \cup Alive]]
      /\ signalled \in [Nodes -> SUBSET Incarnations]
      /\ NoNode \notin Nodes
      /\ Holding
  BY <1>0, NodesAssumption DEF TypeInv, TypeOK
<1> USE <1>0, <1>a, BoundsAssumption, GoroutineAssumption
<1> USE DEF StrayInv, Exclusive, Unborn, RuntimeLatest, SpawnClean, NoStrayProcess,
            Owned, Exited, MutexFree, Holding, TearingDown, TearLabels,
            StartLabels, ReapLabels, vars, harnessVars,
            callVars, nodeVars, procVars, Goto, Lock, Unlock, Fatalf, Interrupt,
            Current, Incarnations, Alive, Listening
<1>1. ASSUME NEW t \in Goroutines, Spawn(t) PROVE StrayInv'
  <2>1. Exclusive'
    BY <1>1 DEF Spawn
  <2>2. Unborn'
    BY <1>1 DEF Spawn
  <2>3. RuntimeLatest'
    BY <1>1 DEF Spawn
  <2>4. SpawnClean'
    BY <1>1 DEF Spawn
  <2>5. NoStrayProcess'
    BY <1>1 DEF Spawn
  <2> QED
    BY <2>1, <2>2, <2>3, <2>4, <2>5
<1>2. ASSUME NEW t \in Goroutines, SpawnFails(t) PROVE StrayInv'
  <2>1. CASE Fatalf(t)
    <3>1. /\ pc' = [pc EXCEPT ![t] = pc'[t]] /\ pc'[t] \in {"unwind", "dead"}
          /\ on' = [on EXCEPT ![t] = NoNode]
          /\ pc[t] = "spawn"
      BY <1>2, <2>1 DEF SpawnFails
    <3>2. UNCHANGED <<runtime, spawned, stage, signalled>>
      BY <1>2 DEF SpawnFails
    <3>3. Exclusive' /\ Unborn' /\ RuntimeLatest'
      BY <3>1, <3>2
    <3>4. SpawnClean'
      BY <3>1, <3>2
    <3>5. NoStrayProcess'
      <4> SUFFICES ASSUME ~ Exited', NEW m \in Nodes, NEW j \in Incarnations,
                          stage'[m][j] \in Alive, j \notin signalled'[m]
                   PROVE  Owned(m, j)'
        OBVIOUS
      <4>1. ~ Exited
        BY <3>1
      <4>2. Owned(m, j)
        BY <3>2, <4>1
      <4>3. runtime[m] = j \/ on[t] # m
        BY <3>1, <3>2, <4>1
      <4>4. CASE runtime[m] = j
        BY <3>2, <4>4
      <4>5. CASE runtime[m] # j
        <5>0. spawned'[m] = j
          BY <3>2, <4>2, <4>5
        <5>1. PICK u \in Goroutines : on[u] = m /\ pc[u] \in StartLabels
          BY <4>2, <4>5
        <5>2. u # t
          BY <4>3, <4>5, <5>1
        <5>3. on'[u] = m /\ pc'[u] \in StartLabels
          BY <3>1, <5>1, <5>2
        <5>4. \E v \in Goroutines : on'[v] = m /\ pc'[v] \in StartLabels
          BY <5>3
        <5> QED
          BY <5>0, <5>4
      <4> QED
        BY <4>4, <4>5
    <3> QED
      BY <3>3, <3>4, <3>5
  <2>2. CASE /\ pc' = [u \in Goroutines |-> "exit"]
             /\ on' = [u \in Goroutines |-> NoNode]
    <3>1. UNCHANGED <<runtime, spawned, stage, signalled>>
      BY <1>2 DEF SpawnFails
    <3> QED
      BY <2>2, <3>1
  <2> QED
    BY <1>2, <2>1, <2>2 DEF SpawnFails
<1>3. ASSUME NEW t \in Goroutines, AwaitLog(t) PROVE StrayInv'
  <2> DEFINE n == on[t]
  <2>0. pc[t] = "log" /\ UNCHANGED <<on, runtime, spawned, stage, signalled>>
    BY <1>3 DEF AwaitLog
  <2>1. /\ n \in Nodes /\ pc[t] = "log"
        /\ \E x \in {"startup", "info"} : pc' = [pc EXCEPT ![t] = x]
        /\ UNCHANGED <<on, runtime, spawned, stage, signalled>>
    <3>1. n \in Nodes
      BY <2>0
    <3>2. \E x \in {"startup", "info"} : pc' = [pc EXCEPT ![t] = x]
      BY <1>3 DEF AwaitLog
    <3> QED
      BY <2>0, <3>1, <3>2
  <2>2. Exclusive' /\ Unborn'
    BY <2>1
  <2>3. RuntimeLatest'
    BY <2>1
  <2>4. SpawnClean'
    BY <2>1
  <2>5. NoStrayProcess'
    <3> SUFFICES ASSUME ~ Exited', NEW m \in Nodes, NEW j \in Incarnations,
                        stage'[m][j] \in Alive, j \notin signalled'[m]
                 PROVE  Owned(m, j)'
      OBVIOUS
    <3>1. Owned(m, j)
      BY <2>1
    <3> QED
      BY <2>1, <3>1
  <2> QED
    BY <2>2, <2>3, <2>4, <2>5
<1>29. ASSUME NEW t \in Goroutines, StartUp(t) PROVE StrayInv'
  <2> DEFINE n == on[t]
  <2>1. n \in Nodes /\ pc[t] = "startup" /\ UNCHANGED <<spawned, stage, signalled>>
    BY <1>29 DEF StartUp
  <2>2. \/ /\ Goto(t, "idle") /\ Unlock(t)
           /\ runtime' = [runtime EXCEPT ![n] = spawned[n]]
        \/ /\ Goto(t, "first") /\ UNCHANGED on
           /\ runtime' = [runtime EXCEPT ![n] = spawned[n]]
    BY <1>29 DEF StartUp
  <2>3. Exclusive' /\ Unborn'
    BY <2>1, <2>2
  <2>4. RuntimeLatest'
    <3>0. runtime' = [runtime EXCEPT ![n] = spawned[n]]
      BY <2>2
    <3>1. \A m \in Nodes : runtime'[m] \in {0, spawned'[m]}
      BY <2>1, <3>0
    <3>2. \A u \in Goroutines : pc'[u] = "first" =>
            on'[u] = on[u] /\ (u = t \/ pc[u] = "first")
      BY <2>2
    <3>3. \A u \in Goroutines : pc'[u] = "first" => on[u] \in Nodes
      BY <2>1, <3>2
    <3>4. \A u \in Goroutines : pc'[u] = "first" => runtime'[on'[u]] = spawned'[on'[u]]
      BY <2>1, <3>0, <3>2, <3>3
    <3> QED
      BY <3>1, <3>4
  <2>5. SpawnClean'
    BY <2>1, <2>2
  <2>6. NoStrayProcess'
    <3> SUFFICES ASSUME ~ Exited', NEW m \in Nodes, NEW j \in Incarnations,
                        stage'[m][j] \in Alive, j \notin signalled'[m]
                 PROVE  Owned(m, j)'
      OBVIOUS
    <3>1. Owned(m, j)
      <4>1. ~ Exited
        BY <2>1, <2>2
      <4>2. stage[m][j] \in Alive /\ j \notin signalled[m]
        BY <2>1, <2>2
      <4> QED
        BY <4>1, <4>2
    <3>2. CASE m = n
      BY <2>1, <2>2, <3>1, <3>2
    <3>3. CASE m # n
      BY <2>1, <2>2, <3>1, <3>3
    <3> QED
      BY <3>2, <3>3
  <2> QED
    BY <2>3, <2>4, <2>5, <2>6
<1>4. ASSUME NEW t \in Goroutines, FirstRun(t) PROVE StrayInv'
  BY <1>4 DEF FirstRun
<1>5. ASSUME NEW t \in Goroutines, AwaitTls(t) PROVE StrayInv'
  BY <1>5 DEF AwaitTls
<1>6. ASSUME NEW t \in Goroutines, Dial(t) PROVE StrayInv'
  BY <1>6 DEF Dial
<1>7. ASSUME NEW t \in Goroutines, AwaitStarted(t) PROVE StrayInv'
  BY <1>7 DEF AwaitStarted
<1>8. ASSUME NEW t \in Goroutines, OpenWallet(t) PROVE StrayInv'
  BY <1>8 DEF OpenWallet
<1>9. ASSUME NEW t \in Goroutines, OpenWalletLost(t) PROVE StrayInv'
  BY <1>9 DEF OpenWalletLost
<1>10. ASSUME NEW t \in Goroutines, AwaitActive(t) PROVE StrayInv'
  BY <1>10 DEF AwaitActive
<1>11. ASSUME NEW t \in Goroutines, GetInfo(t) PROVE StrayInv'
  BY <1>11 DEF GetInfo
<1>12. ASSUME NEW t \in Goroutines, StartFails(t) \/ StartBreaks(t) PROVE StrayInv'
  <2> DEFINE n == on[t]
  <2>1. /\ n \in Nodes /\ pc[t] \in StartLabels \ {"spawn"}
        /\ UNCHANGED <<spawned, stage>>
        /\ signalled' = [signalled EXCEPT ![n] = @ \cup {spawned[n]}]
    BY <1>12 DEF StartFails, StartBreaks, GivesUp, ReadFails, Abort
  <2>2. \/ /\ Goto(t, "reap") /\ UNCHANGED on
           /\ runtime' = [runtime EXCEPT ![n] = 0]
        \/ Fatalf(t) /\ UNCHANGED runtime
    BY <1>12 DEF StartFails, StartBreaks, Abort
  <2>3. Exclusive' /\ Unborn'
    <3>1. Exclusive'
      <4>1. on' = on \/ on' = [on EXCEPT ![t] = NoNode]
        BY <2>2
      <4> QED
        BY <4>1, MutexKept
    <3>2. Unborn'
      BY <2>1
    <3> QED
      BY <3>1, <3>2
  <2>4. RuntimeLatest'
    <3>1. \A m \in Nodes : runtime'[m] \in {0, spawned'[m]}
      <4>1. runtime' = [runtime EXCEPT ![n] = 0] \/ runtime' = runtime
        BY <2>2
      <4> QED
        BY <2>1, <4>1
    <3>2. \A u \in Goroutines : pc'[u] = "first" => runtime'[on'[u]] = spawned'[on'[u]]
      BY <2>1, <2>2
    <3> QED
      BY <3>1, <3>2
  <2>5. SpawnClean'
    BY <2>1, <2>2
  <2>6. NoStrayProcess'
    <3> SUFFICES ASSUME ~ Exited', NEW m \in Nodes, NEW j \in Incarnations,
                        stage'[m][j] \in Alive, j \notin signalled'[m]
                 PROVE  Owned(m, j)'
      OBVIOUS
    <3>1. Owned(m, j)
      BY <2>1, <2>2
    <3>2. CASE m = n
      BY <2>1, <2>2, <3>1, <3>2
    <3>3. CASE m # n
      BY <2>1, <2>2, <3>1, <3>3
    <3> QED
      BY <3>2, <3>3
  <2> QED
    BY <2>3, <2>4, <2>5, <2>6
<1>13. ASSUME NEW t \in Goroutines, StartReaped(t) PROVE StrayInv'
  BY <1>13 DEF StartReaped
<1>14. ASSUME NEW t \in Goroutines, StopReaped(t) PROVE StrayInv'
  <2>1. Exclusive'
    BY <1>14 DEF StopReaped
  <2>2. Unborn'
    BY <1>14 DEF StopReaped
  <2>3. RuntimeLatest'
    BY <1>14 DEF StopReaped
  <2>4. SpawnClean'
    BY <1>14 DEF StopReaped
  <2>5. NoStrayProcess'
    <3> SUFFICES ASSUME ~ Exited', NEW m \in Nodes, NEW j \in Incarnations,
                        stage'[m][j] \in Alive, j \notin signalled'[m]
                 PROVE  Owned(m, j)'
      OBVIOUS
    <3>1. Owned(m, j)
      BY <1>14 DEF StopReaped
    <3>2. CASE runtime[m] = j
      BY <1>14, <3>2 DEF StopReaped
    <3>3. CASE \E u \in Goroutines : on[u] = m /\ pc[u] \in StartLabels
      BY <1>14, <3>1, <3>3 DEF StopReaped
    <3> QED
      BY <3>1, <3>2, <3>3
  <2> QED
    BY <2>1, <2>2, <2>3, <2>4, <2>5
<1>15. CASE TearStop
  <2>0. PICK n \in Nodes : n = stoppables[tdPos]
    BY <1>15, TearStopNode
  <2>1. /\ n \in Nodes /\ pc[Main] = "tear" /\ on[Main] = NoNode
        /\ UNCHANGED <<spawned, stage>>
    BY <1>15, <2>0, TearStopNode DEF TearStop
  <2>2. /\ MutexFree(n)
        /\ \/ Goto(Main, "tear") /\ UNCHANGED <<on, runtime, signalled>>
           \/ /\ Interrupt(n, runtime[n]) /\ Goto(Main, "tearreap")
              /\ Lock(Main, n) /\ UNCHANGED runtime
           \/ /\ Interrupt(n, runtime[n]) /\ Goto(Main, "tear")
              /\ UNCHANGED on /\ runtime' = [runtime EXCEPT ![n] = 0]
    BY <1>15, <2>0, StopCases DEF TearStop
  <2>3. Exclusive' /\ Unborn'
    <3>1. Exclusive'
      <4>1. \/ on' = on
            \/ MutexFree(n) /\ on' = [on EXCEPT ![Main] = n]
        BY <2>2
      <4> QED
        BY <2>1, <4>1, MutexKept, SMTT(40)
    <3>2. Unborn'
      BY <2>1
    <3> QED
      BY <3>1, <3>2
  <2>4. RuntimeLatest'
    <3>1. \A m \in Nodes : runtime'[m] \in {0, spawned'[m]}
      BY <2>1, <2>2
    <3>2. \A u \in Goroutines : pc'[u] = "first" => runtime'[on'[u]] = spawned'[on'[u]]
      BY <2>1, <2>2
    <3> QED
      BY <3>1, <3>2
  <2>5. SpawnClean'
    BY <2>1, <2>2
  <2>6. NoStrayProcess'
    <3> SUFFICES ASSUME ~ Exited', NEW m \in Nodes, NEW j \in Incarnations,
                        stage'[m][j] \in Alive, j \notin signalled'[m]
                 PROVE  Owned(m, j)'
      OBVIOUS
    <3>1. Owned(m, j)
      <4>1. j \notin signalled[m]
        <5>1. \/ signalled' = signalled
              \/ signalled' = [signalled EXCEPT ![n] = @ \cup {runtime[n]}]
          BY <2>2
        <5>2. CASE m = n
          BY <5>1, <5>2
        <5>3. CASE m # n
          BY <5>1, <5>3
        <5> QED
          BY <5>2, <5>3
      <4>2. stage[m][j] \in Alive
        BY <2>1
      <4> QED
        BY <2>1, <4>1, <4>2
    <3>2. CASE m = n
      BY <2>1, <2>2, <3>1, <3>2
    <3>3. CASE m # n
      BY <2>1, <2>2, <3>1, <3>3
    <3> QED
      BY <3>2, <3>3
  <2> QED
    BY <2>3, <2>4, <2>5, <2>6
<1>16. CASE TearReaped
  <2>1. Exclusive'
    BY <1>16 DEF TearReaped
  <2>2. Unborn'
    BY <1>16 DEF TearReaped
  <2>3. RuntimeLatest'
    BY <1>16 DEF TearReaped
  <2>4. SpawnClean'
    BY <1>16 DEF TearReaped
  <2>5. NoStrayProcess'
    <3> SUFFICES ASSUME ~ Exited', NEW m \in Nodes, NEW j \in Incarnations,
                        stage'[m][j] \in Alive, j \notin signalled'[m]
                 PROVE  Owned(m, j)'
      OBVIOUS
    <3>1. Owned(m, j)
      BY <1>16 DEF TearReaped
    <3>2. CASE runtime[m] = j
      BY <1>16, <3>2 DEF TearReaped
    <3>3. CASE \E u \in Goroutines : on[u] = m /\ pc[u] \in StartLabels
      BY <1>16, <3>1, <3>3 DEF TearReaped
    <3> QED
      BY <3>1, <3>2, <3>3
  <2> QED
    BY <2>1, <2>2, <2>3, <2>4, <2>5
<1>17. CASE TearClean
  <2>1. /\ pc[Main] \in {"tear"} /\ pc' = [pc EXCEPT ![Main] = "clean"]
        /\ UNCHANGED <<on, runtime, spawned, stage, signalled>>
    BY <1>17 DEF TearClean
  <2>2. Exclusive' /\ Unborn' /\ RuntimeLatest' /\ SpawnClean'
    BY <2>1
  <2>3. NoStrayProcess'
    <3> SUFFICES ASSUME NEW m \in Nodes, NEW j \in Incarnations,
                        stage'[m][j] \in Alive, j \notin signalled'[m]
                 PROVE  Owned(m, j)'
      OBVIOUS
    <3>1. Owned(m, j)
      BY <2>1
    <3> QED
      BY <2>1, <3>1
  <2> QED
    BY <2>2, <2>3
<1>18. CASE TearEnd
  <2>1. /\ pc[Main] \in {"clean"} /\ pc' = [pc EXCEPT ![Main] = "over"]
        /\ UNCHANGED <<on, runtime, spawned, stage, signalled>>
    BY <1>18 DEF TearEnd
  <2>2. Exclusive' /\ Unborn' /\ RuntimeLatest' /\ SpawnClean'
    BY <2>1
  <2>3. NoStrayProcess'
    <3> SUFFICES ASSUME NEW m \in Nodes, NEW j \in Incarnations,
                        stage'[m][j] \in Alive, j \notin signalled'[m]
                 PROVE  Owned(m, j)'
      OBVIOUS
    <3>1. Owned(m, j)
      BY <2>1
    <3> QED
      BY <2>1, <3>1
  <2> QED
    BY <2>2, <2>3
<1>19. CASE TearDown
  <2>1. /\ pc[Main] \in {"idle", "unwind"} /\ pc' = [pc EXCEPT ![Main] = "tear"]
        /\ UNCHANGED <<on, runtime, spawned, stage, signalled>>
    BY <1>19 DEF TearDown
  <2>2. Exclusive' /\ Unborn' /\ RuntimeLatest' /\ SpawnClean'
    BY <2>1
  <2>3. NoStrayProcess'
    <3> SUFFICES ASSUME NEW m \in Nodes, NEW j \in Incarnations,
                        stage'[m][j] \in Alive, j \notin signalled'[m]
                 PROVE  Owned(m, j)'
      OBVIOUS
    <3>1. Owned(m, j)
      BY <2>1
    <3> QED
      BY <2>1, <3>1
  <2> QED
    BY <2>2, <2>3
<1>20. ASSUME NEW t \in Goroutines, NEW n \in Nodes, NewNode(t, n) PROVE StrayInv'
  BY <1>20 DEF NewNode
<1>21. ASSUME NEW t \in Goroutines, NEW n \in Nodes, StartCall(t, n) PROVE StrayInv'
  <2>1. CASE runtime[n] # 0
    BY <1>21, <2>1 DEF StartCall
  <2>2. CASE runtime[n] = 0
    <3>1. /\ pc[t] = "idle" /\ Goto(t, "spawn") /\ Lock(t, n)
          /\ UNCHANGED <<runtime, spawned, stage, signalled>>
      BY <1>21, <2>2 DEF StartCall
    <3>2. Exclusive' /\ Unborn' /\ RuntimeLatest'
      BY <3>1
    <3>3. SpawnClean'
      <4> SUFFICES ASSUME NEW u \in Goroutines, pc'[u] = "spawn"
                   PROVE  /\ runtime'[on'[u]] = 0
                          /\ ~ Exited' => \A j \in Incarnations :
                               stage'[on'[u]][j] \in Alive => j \in signalled'[on'[u]]
        OBVIOUS
      <4>1. CASE u = t
        <5>1. on'[u] = n /\ MutexFree(n)
          BY <3>1, <4>1
        <5>2. ~ Exited' => ~ Exited
          BY <3>1
        <5>3. ASSUME ~ Exited, NEW j \in Incarnations, stage[n][j] \in Alive
              PROVE  j \in signalled[n]
          <6>1. runtime[n] # j
            BY <2>2
          <6>2. j \notin signalled[n] => Owned(n, j)
            BY <5>3
          <6> QED
            BY <5>1, <6>1, <6>2
        <5> QED
          BY <2>2, <3>1, <5>1, <5>2, <5>3
      <4>2. CASE u # t
        BY <3>1, <4>2
      <4> QED
        BY <4>1, <4>2
    <3>4. NoStrayProcess'
      <4> SUFFICES ASSUME ~ Exited', NEW m \in Nodes, NEW j \in Incarnations,
                          stage'[m][j] \in Alive, j \notin signalled'[m]
                   PROVE  Owned(m, j)'
        OBVIOUS
      <4>1. Owned(m, j)
        BY <3>1
      <4> QED
        BY <3>1, <4>1
    <3> QED
      BY <3>2, <3>3, <3>4
  <2> QED
    BY <2>1, <2>2
<1>22. ASSUME NEW t \in Goroutines, NEW n \in Nodes, StopCall(t, n) PROVE StrayInv'
  <2>1. pc[t] = "idle" /\ on[t] = NoNode /\ UNCHANGED <<spawned, stage>>
    BY <1>22 DEF StopCall
  <2>2. /\ MutexFree(n)
        /\ \/ Goto(t, "idle") /\ UNCHANGED <<on, runtime, signalled>>
           \/ /\ Interrupt(n, runtime[n]) /\ Goto(t, "stopreap")
              /\ Lock(t, n) /\ UNCHANGED runtime
           \/ /\ Interrupt(n, runtime[n]) /\ Goto(t, "idle")
              /\ UNCHANGED on /\ runtime' = [runtime EXCEPT ![n] = 0]
    BY <1>22, StopCases DEF StopCall
  <2>3. Exclusive' /\ Unborn'
    <3>1. Exclusive'
      <4>1. \/ on' = on
            \/ MutexFree(n) /\ on' = [on EXCEPT ![t] = n]
        BY <2>2
      <4> QED
        BY <4>1, MutexKept
    <3>2. Unborn'
      BY <2>1
    <3> QED
      BY <3>1, <3>2
  <2>4. RuntimeLatest'
    BY <2>1, <2>2
  <2>5. SpawnClean'
    BY <2>1, <2>2
  <2>6. NoStrayProcess'
    <3> SUFFICES ASSUME ~ Exited', NEW m \in Nodes, NEW j \in Incarnations,
                        stage'[m][j] \in Alive, j \notin signalled'[m]
                 PROVE  Owned(m, j)'
      OBVIOUS
    <3>1. Owned(m, j)
      <4>1. ~ Exited
        BY <2>1, <2>2
      <4>2. stage[m][j] \in Alive
        BY <2>1
      <4>3. j \notin signalled[m]
        <5>1. signalled' = signalled \/ Interrupt(n, runtime[n])
          BY <2>2
        <5>2. signalled[m] \subseteq signalled'[m]
          <6>1. CASE m = n
            BY <5>1, <6>1
          <6>2. CASE m # n
            BY <5>1, <6>2
          <6> QED
            BY <6>1, <6>2
        <5> QED
          BY <5>2
      <4> QED
        BY <4>1, <4>2, <4>3
    <3>2. CASE m = n
      BY <2>1, <2>2, <3>1, <3>2
    <3>3. CASE m # n
      BY <2>1, <2>2, <3>1, <3>3
    <3> QED
      BY <3>2, <3>3
  <2> QED
    BY <2>3, <2>4, <2>5, <2>6
<1>23. ASSUME NEW n \in Nodes, NEW i \in Incarnations, Serve(n, i) PROVE StrayInv'
  <2>1. PICK x \in Alive : stage' = [stage EXCEPT ![n][i] = x]
    BY <1>23 DEF Serve
  <2>2. stage[n][i] = "boot" /\ UNCHANGED <<pc, on, runtime, spawned, signalled>>
    BY <1>23 DEF Serve
  <2>3. Exclusive' /\ RuntimeLatest'
    BY <2>2
  <2>4. Unborn'
    BY <2>1, <2>2
  <2>5. SpawnClean'
    BY <2>1, <2>2
  <2>6. NoStrayProcess'
    BY <2>1, <2>2
  <2> QED
    BY <2>3, <2>4, <2>5, <2>6
<1>24. ASSUME NEW n \in Nodes, NEW i \in Incarnations, Activate(n, i) PROVE StrayInv'
  BY <1>24 DEF Activate
<1>25. ASSUME NEW n \in Nodes, NEW i \in Incarnations, Die(n, i) PROVE StrayInv'
  BY <1>25 DEF Die, Gone
<1>26. ASSUME NEW n \in Nodes, NEW i \in Incarnations, CtxKill(n, i) PROVE StrayInv'
  BY <1>26 DEF CtxKill, Gone
<1>27. CASE Tick
  BY <1>27 DEF Tick
<1>28. CASE UNCHANGED vars
  BY <1>28
<1>30. CASE Exit
  <2>1. /\ pc' = [u \in Goroutines |-> "exit"] /\ on' = [u \in Goroutines |-> NoNode]
        /\ UNCHANGED <<runtime, spawned, stage, signalled>>
    BY <1>30 DEF Exit
  <2> QED
    BY <2>1
<1> HIDE DEF StrayInv
<1> QED
  BY <1>1, <1>2, <1>3, <1>4, <1>5, <1>6, <1>7, <1>8, <1>9, <1>10, <1>11, <1>12,
     <1>13, <1>14, <1>15, <1>16, <1>17, <1>18, <1>19, <1>20, <1>21, <1>22, <1>23,
     <1>24, <1>25, <1>26, <1>27, <1>28, <1>29, <1>30
  DEF Next, Call, CallStep, StartStep, TearStep, Environment

\* No error path of Start leaks a daemon, for any number of nodes, goroutines
\* and restarts: every process alive that was not sent SIGINT can be stopped.
THEOREM NoStray == Spec => []NoStrayProcess
<1>1. StrayInv => NoStrayProcess
  BY DEF StrayInv
<1> QED
  BY <1>1, StrayInvInit, StrayInvStep, PTL DEF Spec

\* A node's mutex is held by one goroutine at most, and by none that is outside
\* Start, Stop and TearDown: whichever way a call ends (T.Fatalf among them), its
\* deferred Unlock has run, and TearDown and the next call can lock the node.
MutexReleased ==
  \A t \in Goroutines : on[t] # NoNode =>
    /\ pc[t] \in StartLabels \cup ReapLabels
    /\ \A u \in Goroutines \ {t} : on[u] # on[t]

\* Whichever way Start, Stop or TearDown ends, the mutex of the node is free again,
\* for any number of goroutines that compete for it.
THEOREM MutexFreed == Spec => []MutexReleased
<1>1. StrayInv => MutexReleased
  BY DEF StrayInv, TypeInv, Holding, Exclusive, MutexReleased
<1> QED
  BY <1>1, StrayInvInit, StrayInvStep, PTL DEF Spec
=============================================================================
