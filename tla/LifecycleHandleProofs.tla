------------------------ MODULE LifecycleHandleProofs ------------------------
(***************************************************************************)
(* Lifecycle implements NodeHandle, for any sets of nodes and goroutines   *)
(* and any bound on the incarnations.                                      *)
(***************************************************************************)
EXTENDS LifecycleProofs

\* os.Exit ends every goroutine.
AllExited == Exited => \A t \in Goroutines : pc[t] = "exit"

\* Only a process that was spawned is sent SIGINT.
SignalledBorn == \A n \in Nodes : \A i \in signalled[n] : i <= spawned[n]

\* Inside Start the node has no runtime, except in initializeFirstRun.
NilRuntime ==
  \A t \in Goroutines :
    pc[t] \in (StartLabels \ {"first"}) \cup {"reap"} => runtime[on[t]] = 0

\* Only a miner has an rpc.StartUp and an initializeFirstRun.
FirstIsMiner ==
  \A t \in Goroutines : pc[t] \in {"startup", "first"} => on[t] \in Miners

HandleInv == StrayInv /\ AllExited /\ SignalledBorn /\ NilRuntime /\ FirstIsMiner

-----------------------------------------------------------------------------
(* The phase of a node follows from its mutex.                             *)

\* The goroutine that holds the mutex tells the phase of the node; a node whose
\* mutex is free is on or off.
HeldPhase ==
  \A m \in Nodes, t \in Goroutines :
    ~ Exited /\ Exclusive /\ on[t] = m =>
      /\ pc[t] = "spawn" => Phase(m) = "starting"
      /\ pc[t] \in StartLabels \ {"spawn"} => Phase(m) = "launched"
      /\ pc[t] \in ReapLabels => Phase(m) = "stopping"
FreePhase ==
  \A m \in Nodes :
    ~ Exited /\ MutexFree(m) => Phase(m) = IF runtime[m] # 0 THEN "on" ELSE "off"

LEMMA Phases == HeldPhase /\ FreePhase
<1>1. HeldPhase
  <2> SUFFICES ASSUME NEW m \in Nodes, NEW t \in Goroutines,
                      ~ Exited, Exclusive, on[t] = m
               PROVE  /\ pc[t] = "spawn" => Phase(m) = "starting"
                      /\ pc[t] \in StartLabels \ {"spawn"} => Phase(m) = "launched"
                      /\ pc[t] \in ReapLabels => Phase(m) = "stopping"
    BY DEF HeldPhase
  <2>1. /\ Held(m, {"spawn"}) <=> pc[t] = "spawn"
        /\ Held(m, StartLabels \ {"spawn"}) <=> pc[t] \in StartLabels \ {"spawn"}
        /\ Held(m, ReapLabels) <=> pc[t] \in ReapLabels
        /\ ~ MutexFree(m)
    BY NodesAssumption DEF Held, Exclusive, MutexFree
  <2>2. CASE pc[t] = "spawn"
    BY <2>1, <2>2 DEF Phase, StartLabels, ReapLabels
  <2>3. CASE pc[t] \in StartLabels \ {"spawn"}
    <3>1. pc[t] \notin ReapLabels
      BY <2>3 DEF StartLabels, ReapLabels
    <3> QED
      BY <2>1, <2>3, <3>1 DEF Phase
  <2>4. CASE pc[t] \in ReapLabels
    <3>1. pc[t] \notin StartLabels /\ pc[t] # "spawn"
      BY <2>4 DEF StartLabels, ReapLabels
    <3> QED
      BY <2>1, <2>4, <3>1 DEF Phase
  <2> QED
    BY <2>2, <2>3, <2>4
<1>2. FreePhase
  <2> SUFFICES ASSUME NEW m \in Nodes, ~ Exited, MutexFree(m)
               PROVE  Phase(m) = IF runtime[m] # 0 THEN "on" ELSE "off"
    BY DEF FreePhase
  <2>1. /\ ~ Held(m, {"spawn"}) /\ ~ Held(m, StartLabels \ {"spawn"})
        /\ ~ Held(m, ReapLabels)
    BY DEF Held, MutexFree
  <2> QED
    BY <2>1 DEF Phase
<1> QED
  BY <1>1, <1>2

LEMMA PhasesNext == HeldPhase' /\ FreePhase'
  BY Phases, PTL

-----------------------------------------------------------------------------
(* The invariant.                                                          *)

LEMMA HandleInvInit == Init => HandleInv
BY StrayInvInit, GoroutineAssumption
DEF Init, HandleInv, AllExited, Exited, SignalledBorn, NilRuntime, FirstIsMiner, StartLabels

\* The parts of the invariant that are not about processes.
Rest == AllExited /\ SignalledBorn /\ NilRuntime /\ FirstIsMiner

LEMMA RestStep == HandleInv /\ [Next]_vars => Rest'
<1> SUFFICES ASSUME HandleInv, [Next]_vars PROVE Rest'
  OBVIOUS
<1>0. StrayInv /\ TypeInv /\ Exclusive /\ RuntimeLatest
  BY DEF HandleInv, StrayInv
<1>a. /\ pc \in [Goroutines -> Labels]
      /\ on \in [Goroutines -> Nodes \cup {NoNode}]
      /\ runtime \in [Nodes -> 0 .. MaxSpawn]
      /\ spawned \in [Nodes -> 0 .. MaxSpawn]
      /\ signalled \in [Nodes -> SUBSET Incarnations]
      /\ NoNode \notin Nodes /\ Holding /\ Exclusive
      /\ \A n \in Nodes : runtime[n] \in {0, spawned[n]}
      /\ Rest
  BY <1>0, NodesAssumption DEF HandleInv, Rest, TypeInv, TypeOK, RuntimeLatest
<1> USE <1>a, BoundsAssumption, GoroutineAssumption
<1> USE DEF Rest, AllExited, SignalledBorn, NilRuntime, FirstIsMiner, Exclusive, Exited, MutexFree,
            Holding, StartLabels, ReapLabels, vars, harnessVars, callVars, nodeVars,
            procVars, Goto, Lock, Unlock, Fatalf, Interrupt, Current, Incarnations
<1>1. ASSUME NEW t \in Goroutines, Spawn(t) PROVE Rest'
  BY <1>1 DEF Spawn
<1>2. ASSUME NEW t \in Goroutines, SpawnFails(t) PROVE Rest'
  BY <1>2 DEF SpawnFails
<1>3. ASSUME NEW t \in Goroutines, AwaitLog(t) PROVE Rest'
  BY <1>3 DEF AwaitLog
<1>4. ASSUME NEW t \in Goroutines, FirstRun(t) PROVE Rest'
  BY <1>4 DEF FirstRun
<1>5. ASSUME NEW t \in Goroutines, AwaitTls(t) PROVE Rest'
  BY <1>5 DEF AwaitTls
<1>6. ASSUME NEW t \in Goroutines, Dial(t) PROVE Rest'
  BY <1>6 DEF Dial
<1>7. ASSUME NEW t \in Goroutines, AwaitStarted(t) PROVE Rest'
  BY <1>7 DEF AwaitStarted
<1>8. ASSUME NEW t \in Goroutines, OpenWallet(t) PROVE Rest'
  BY <1>8 DEF OpenWallet
<1>9. ASSUME NEW t \in Goroutines, OpenWalletLost(t) PROVE Rest'
  BY <1>9 DEF OpenWalletLost
<1>10. ASSUME NEW t \in Goroutines, AwaitActive(t) PROVE Rest'
  BY <1>10 DEF AwaitActive
<1>11. ASSUME NEW t \in Goroutines, GetInfo(t) PROVE Rest'
  BY <1>11 DEF GetInfo
<1>12. ASSUME NEW t \in Goroutines, StartFails(t) \/ StartBreaks(t) PROVE Rest'
  BY <1>12 DEF StartFails, StartBreaks, GivesUp, ReadFails, Abort
<1>13. ASSUME NEW t \in Goroutines, StartReaped(t) PROVE Rest'
  BY <1>13 DEF StartReaped
<1>14. ASSUME NEW t \in Goroutines, StopReaped(t) PROVE Rest'
  BY <1>14 DEF StopReaped
<1>15. CASE TearStop
  <2>1. PICK n \in Nodes : n = stoppables[tdPos]
    BY <1>0, <1>15, TearStopNode
  <2>2. /\ pc[Main] = "tear" /\ spawned' = spawned
        /\ MutexFree(n)
        /\ \/ Goto(Main, "tear") /\ UNCHANGED <<on, runtime, signalled>>
           \/ /\ Interrupt(n, runtime[n]) /\ Goto(Main, "tearreap")
              /\ Lock(Main, n) /\ UNCHANGED runtime
           \/ /\ Interrupt(n, runtime[n]) /\ Goto(Main, "tear")
              /\ UNCHANGED on /\ runtime' = [runtime EXCEPT ![n] = 0]
    BY <1>15, <2>1, StopCases DEF TearStop
  <2>3. AllExited' /\ NilRuntime' /\ FirstIsMiner'
    BY <2>2
  <2>4. SignalledBorn'
    BY <2>2
  <2> QED
    BY <2>3, <2>4
<1>16. CASE TearReaped
  BY <1>16 DEF TearReaped
<1>17. CASE TearClean
  BY <1>17 DEF TearClean
<1>18. CASE TearEnd
  BY <1>18 DEF TearEnd
<1>19. CASE TearDown
  BY <1>19 DEF TearDown
<1>20. ASSUME NEW t \in Goroutines, NEW n \in Nodes, NewNode(t, n) PROVE Rest'
  BY <1>20 DEF NewNode
<1>21. ASSUME NEW t \in Goroutines, NEW n \in Nodes, StartCall(t, n) PROVE Rest'
  BY <1>21 DEF StartCall
<1>22. ASSUME NEW t \in Goroutines, NEW n \in Nodes, StopCall(t, n) PROVE Rest'
  <2>1. /\ pc[t] = "idle" /\ spawned' = spawned
        /\ MutexFree(n)
        /\ \/ Goto(t, "idle") /\ UNCHANGED <<on, runtime, signalled>>
           \/ /\ Interrupt(n, runtime[n]) /\ Goto(t, "stopreap")
              /\ Lock(t, n) /\ UNCHANGED runtime
           \/ /\ Interrupt(n, runtime[n]) /\ Goto(t, "idle")
              /\ UNCHANGED on /\ runtime' = [runtime EXCEPT ![n] = 0]
    BY <1>22, StopCases DEF StopCall
  <2>2. AllExited' /\ NilRuntime' /\ FirstIsMiner'
    BY <2>1
  <2>3. SignalledBorn'
    BY <2>1
  <2> QED
    BY <2>2, <2>3
<1>23. CASE Environment
  BY <1>23 DEF Environment, Serve, Activate, Die, CtxKill, Gone, Tick
<1>24. CASE UNCHANGED vars
  BY <1>24
<1>25. ASSUME NEW t \in Goroutines, StartUp(t) PROVE Rest'
  BY <1>25 DEF StartUp
<1>26. CASE Exit
  BY <1>26 DEF Exit
<1> QED
  BY <1>1, <1>2, <1>3, <1>4, <1>5, <1>6, <1>7, <1>8, <1>9, <1>10, <1>11, <1>12,
     <1>13, <1>14, <1>15, <1>16, <1>17, <1>18, <1>19, <1>20, <1>21, <1>22, <1>23,
     <1>24, <1>25, <1>26
  DEF Next, Call, CallStep, StartStep, TearStep

LEMMA HandleInvStep == HandleInv /\ [Next]_vars => HandleInv'
  BY RestStep, StrayInvStep DEF HandleInv, Rest

-----------------------------------------------------------------------------
(* The steps of a handle.                                                  *)

HStep(m) == H(m)!Next \/ UNCHANGED <<Phase(m), Loose(m)>>

\* The steps of a handle, by what they do to the phase and to the processes.
LEMMA HandleSteps ==
  ASSUME NEW m \in Nodes,
         \/ Phase(m)' = Phase(m) /\ (Loose(m)' => Loose(m))
         \/ Phase(m) = "off" /\ Phase(m)' = "starting" /\ ~ Loose(m) /\ ~ Loose(m)'
         \/ Phase(m) = "starting" /\ Phase(m)' = "launched" /\ Loose(m)'
         \/ Phase(m) = "launched" /\ Phase(m)' = "on" /\ (Loose(m)' <=> Loose(m))
         \/ /\ Phase(m) \in {"starting", "launched", "on"}
            /\ Phase(m)' \in {"off", "stopping"} /\ ~ Loose(m)'
         \/ Phase(m) = "stopping" /\ Phase(m)' = "off" /\ (Loose(m)' <=> Loose(m))
         \/ Phase(m) # "lost" /\ Phase(m)' = "lost" /\ (Loose(m)' <=> Loose(m))
  PROVE  HStep(m)
<1>1. (Loose(m) \in BOOLEAN) /\ (Loose(m)' \in BOOLEAN)
  BY DEF Loose
<1> QED
  BY <1>1 DEF HStep, H!Next, H!Start, H!Spawn, H!Crash, H!Ready, H!GiveUp, H!Stop,
     H!Stopped, H!Abandon

\* What a goroutine does to the node it works on does not concern the others.
LEMMA Apart ==
  ASSUME NEW m \in Nodes, NEW t \in Goroutines, ~ Exited, ~ Exited',
         pc \in [Goroutines -> Labels], on \in [Goroutines -> Nodes \cup {NoNode}],
         pc' = [pc EXCEPT ![t] = pc'[t]], on' = [on EXCEPT ![t] = on'[t]],
         on[t] # m, on'[t] # m, runtime'[m] = runtime[m],
         stage'[m] = stage[m], signalled'[m] = signalled[m]
  PROVE  HStep(m)
<1>1. \A u \in Goroutines : \/ on[u] # m /\ on'[u] # m
                            \/ on'[u] = on[u] /\ pc'[u] = pc[u]
  OBVIOUS
<1>2. /\ Held(m, {"spawn"})' <=> Held(m, {"spawn"})
      /\ (Held(m, StartLabels \ {"spawn"})' <=> Held(m, StartLabels \ {"spawn"}))
      /\ Held(m, ReapLabels)' <=> Held(m, ReapLabels)
      /\ MutexFree(m)' <=> MutexFree(m)
  BY <1>1 DEF Held, MutexFree, StartLabels, ReapLabels
<1>3. Phase(m)' = Phase(m)
  BY <1>2 DEF Phase
<1>4. Loose(m)' <=> Loose(m)
  BY DEF Loose
<1> QED
  BY <1>3, <1>4, HandleSteps

\* A goroutine that takes a step is not stopped by os.Exit.
LEMMA StillRunning ==
  ASSUME AllExited, pc \in [Goroutines -> Labels], NEW t \in Goroutines,
         pc[t] # "exit", pc'[t] # "exit", pc' = [pc EXCEPT ![t] = pc'[t]]
  PROVE  ~ Exited /\ ~ Exited'
BY GoroutineAssumption DEF AllExited, Exited

\* A step that concerns one node has only that node's handle to look at.
LEMMA One ==
  ASSUME NEW n \in Nodes, NEW t \in Goroutines, ~ Exited, ~ Exited',
         pc \in [Goroutines -> Labels], on \in [Goroutines -> Nodes \cup {NoNode}],
         pc' = [pc EXCEPT ![t] = pc'[t]], on' = [on EXCEPT ![t] = on'[t]],
         on[t] \in {n, NoNode}, on'[t] \in {n, NoNode},
         \A m \in Nodes \ {n} : /\ runtime'[m] = runtime[m]
                                /\ stage'[m] = stage[m]
                                /\ signalled'[m] = signalled[m],
         HStep(n)
  PROVE  \A m \in Nodes : HStep(m)
<1>1. ASSUME NEW m \in Nodes, m # n PROVE HStep(m)
  <2>1. on[t] # m /\ on'[t] # m
    BY <1>1, NodesAssumption
  <2> QED
    BY <1>1, <2>1, Apart
<1> QED
  BY <1>1

\* What still runs without a signal, by where the node is.
LEMMA LooseOnes ==
  ASSUME HandleInv, ~ Exited, NEW n \in Nodes, NEW i \in Incarnations,
         stage[n][i] \in Alive, i \notin signalled[n]
  PROVE  /\ MutexFree(n) => runtime[n] = i
         /\ \A t \in Goroutines : on[t] = n =>
              /\ pc[t] # "spawn"
              /\ pc[t] \in StartLabels \cup {"reap"} => i = spawned[n]
<1>1. Owned(n, i)
  BY DEF HandleInv, StrayInv, NoStrayProcess
<1>2. MutexFree(n) => runtime[n] = i
  BY <1>1 DEF Owned, MutexFree
<1>3. ASSUME NEW t \in Goroutines, on[t] = n PROVE pc[t] # "spawn"
  BY <1>3 DEF HandleInv, StrayInv, SpawnClean
<1>4. ASSUME NEW t \in Goroutines, on[t] = n, pc[t] \in StartLabels \cup {"reap"}
      PROVE  i = spawned[n]
  <2>1. runtime[n] \in {0, spawned[n]}
    BY DEF HandleInv, StrayInv, RuntimeLatest
  <2>2. runtime[n] = i => i = spawned[n]
    BY <2>1 DEF Incarnations
  <2> QED
    BY <1>1, <2>2 DEF Owned
<1> QED
  BY <1>2, <1>3, <1>4

-----------------------------------------------------------------------------
(* The moves of a node, by what a goroutine t does to its mutex, its       *)
(* runtime and its processes.                                              *)

\* Goroutine t takes a step that concerns no node but n.
Acts(t, n) ==
  /\ pc[t] # "exit" /\ pc'[t] # "exit"
  /\ pc' = [pc EXCEPT ![t] = pc'[t]]
  /\ on' = [on EXCEPT ![t] = on'[t]]
  /\ on[t] \in {n, NoNode} /\ on'[t] \in {n, NoNode}
  /\ \A m \in Nodes \ {n} : /\ runtime'[m] = runtime[m]
                            /\ stage'[m] = stage[m]
                            /\ signalled'[m] = signalled[m]

\* Such a step runs while the test binary does, and the handle of n decides.
LEMMA ActsOnOne ==
  ASSUME HandleInv, HandleInv', NEW t \in Goroutines, NEW n \in Nodes, Acts(t, n)
  PROVE  /\ ~ Exited /\ ~ Exited'
         /\ HStep(n) => \A m \in Nodes : HStep(m)
<1>1. /\ pc \in [Goroutines -> Labels] /\ on \in [Goroutines -> Nodes \cup {NoNode}]
      /\ AllExited
  BY DEF HandleInv, StrayInv, TypeInv, TypeOK
<1>2. ~ Exited /\ ~ Exited'
  BY <1>1, StillRunning DEF Acts
<1>3. ASSUME HStep(n) PROVE \A m \in Nodes : HStep(m)
  BY <1>1, <1>2, <1>3, One DEF Acts
<1> QED
  BY <1>2, <1>3

\* Start takes the mutex of a node that has no runtime.
LEMMA Enters ==
  ASSUME HandleInv, HandleInv', NEW t \in Goroutines, NEW n \in Nodes, Acts(t, n),
         MutexFree(n), runtime[n] = 0, on'[t] = n, pc'[t] = "spawn",
         UNCHANGED <<stage, signalled>>
  PROVE  \A m \in Nodes : HStep(m)
<1>0. ~ Exited /\ ~ Exited' /\ (HStep(n) => \A m \in Nodes : HStep(m))
  BY ActsOnOne
<1>a. /\ HeldPhase /\ FreePhase /\ HeldPhase' /\ FreePhase'
      /\ Exclusive /\ Exclusive' /\ n # NoNode
      /\ on \in [Goroutines -> Nodes \cup {NoNode}]
  BY Phases, PhasesNext, NodesAssumption DEF HandleInv, StrayInv, TypeInv, TypeOK
<1>1. Phase(n) = "off" /\ Phase(n)' = "starting"
  BY <1>0, <1>a DEF HeldPhase, FreePhase
<1>2. ~ Loose(n)
  BY <1>0, LooseOnes DEF Loose, Incarnations
<1>3. ~ Loose(n)'
  BY <1>2 DEF Loose
<1> QED
  BY <1>0, <1>1, <1>2, <1>3, HandleSteps

\* cmd.Start.
LEMMA Launches ==
  ASSUME HandleInv, HandleInv', NEW t \in Goroutines, NEW n \in Nodes, Acts(t, n),
         on[t] = n, on'[t] = n, pc[t] = "spawn", pc'[t] \in StartLabels \ {"spawn"},
         Loose(n)'
  PROVE  \A m \in Nodes : HStep(m)
<1>0. ~ Exited /\ ~ Exited' /\ (HStep(n) => \A m \in Nodes : HStep(m))
  BY ActsOnOne
<1>a. /\ HeldPhase /\ FreePhase /\ HeldPhase' /\ FreePhase'
      /\ Exclusive /\ Exclusive' /\ n # NoNode
      /\ on \in [Goroutines -> Nodes \cup {NoNode}]
  BY Phases, PhasesNext, NodesAssumption DEF HandleInv, StrayInv, TypeInv, TypeOK
<1>1. Phase(n) = "starting" /\ Phase(n)' = "launched"
  BY <1>0, <1>a DEF HeldPhase
<1> QED
  BY <1>0, <1>1, HandleSteps

\* Start goes on.
LEMMA Proceeds ==
  ASSUME HandleInv, HandleInv', NEW t \in Goroutines, NEW n \in Nodes, Acts(t, n),
         on[t] = n, on'[t] = n,
         pc[t] \in StartLabels \ {"spawn"}, pc'[t] \in StartLabels \ {"spawn"},
         Loose(n)' => Loose(n)
  PROVE  \A m \in Nodes : HStep(m)
<1>0. ~ Exited /\ ~ Exited' /\ (HStep(n) => \A m \in Nodes : HStep(m))
  BY ActsOnOne
<1>a. /\ HeldPhase /\ FreePhase /\ HeldPhase' /\ FreePhase'
      /\ Exclusive /\ Exclusive' /\ n # NoNode
      /\ on \in [Goroutines -> Nodes \cup {NoNode}]
  BY Phases, PhasesNext, NodesAssumption DEF HandleInv, StrayInv, TypeInv, TypeOK
<1>1. Phase(n) = "launched" /\ Phase(n)' = "launched"
  BY <1>0, <1>a DEF HeldPhase
<1> QED
  BY <1>0, <1>1, HandleSteps

\* Start returns.
LEMMA Succeeds ==
  ASSUME HandleInv, HandleInv', NEW t \in Goroutines, NEW n \in Nodes, Acts(t, n),
         on[t] = n, on'[t] = NoNode, pc[t] \in StartLabels \ {"spawn"},
         runtime'[n] # 0, UNCHANGED <<stage, signalled>>
  PROVE  \A m \in Nodes : HStep(m)
<1>0. ~ Exited /\ ~ Exited' /\ (HStep(n) => \A m \in Nodes : HStep(m))
  BY ActsOnOne
<1>a. /\ HeldPhase /\ FreePhase /\ HeldPhase' /\ FreePhase'
      /\ Exclusive /\ Exclusive' /\ n # NoNode
      /\ on \in [Goroutines -> Nodes \cup {NoNode}]
  BY Phases, PhasesNext, NodesAssumption DEF HandleInv, StrayInv, TypeInv, TypeOK
<1>1. MutexFree(n)'
  BY <1>a DEF MutexFree, Exclusive, Acts
<1>2. Phase(n) = "launched" /\ Phase(n)' = "on"
  BY <1>0, <1>a, <1>1 DEF HeldPhase, FreePhase
<1>3. Loose(n)' <=> Loose(n)
  BY DEF Loose
<1> QED
  BY <1>0, <1>2, <1>3, HandleSteps

\* Start gives up, at once or after waiting for the process.
LEMMA Abandons ==
  ASSUME HandleInv, HandleInv', NEW t \in Goroutines, NEW n \in Nodes, Acts(t, n),
         on[t] = n, pc[t] \in StartLabels, ~ Loose(n)',
         \/ on'[t] = NoNode /\ runtime'[n] = 0
         \/ on'[t] = n /\ pc'[t] \in ReapLabels
  PROVE  \A m \in Nodes : HStep(m)
<1>0. ~ Exited /\ ~ Exited' /\ (HStep(n) => \A m \in Nodes : HStep(m))
  BY ActsOnOne
<1>a. /\ HeldPhase /\ FreePhase /\ HeldPhase' /\ FreePhase'
      /\ Exclusive /\ Exclusive' /\ n # NoNode
      /\ on \in [Goroutines -> Nodes \cup {NoNode}]
  BY Phases, PhasesNext, NodesAssumption DEF HandleInv, StrayInv, TypeInv, TypeOK
<1>1. Phase(n) \in {"starting", "launched"}
  BY <1>0, <1>a DEF HeldPhase
<1>2. CASE on'[t] = NoNode /\ runtime'[n] = 0
  <2>1. MutexFree(n)'
    BY <1>a, <1>2 DEF MutexFree, Exclusive, Acts
  <2>2. Phase(n)' = "off"
    BY <1>0, <1>a, <1>2, <2>1 DEF FreePhase
  <2> QED
    BY <1>0, <1>1, <2>2, HandleSteps
<1>3. CASE on'[t] = n /\ pc'[t] \in ReapLabels
  <2>1. Phase(n)' = "stopping"
    BY <1>0, <1>a, <1>3 DEF HeldPhase
  <2> QED
    BY <1>0, <1>1, <2>1, HandleSteps
<1> QED
  BY <1>2, <1>3

\* Stop tells the runtime to stop, and drops it or waits for it.
LEMMA Stops ==
  ASSUME HandleInv, HandleInv', NEW t \in Goroutines, NEW n \in Nodes, Acts(t, n),
         MutexFree(n), runtime[n] # 0, ~ Loose(n)',
         \/ on'[t] = on[t] /\ runtime'[n] = 0
         \/ on'[t] = n /\ pc'[t] \in ReapLabels
  PROVE  \A m \in Nodes : HStep(m)
<1>0. ~ Exited /\ ~ Exited' /\ (HStep(n) => \A m \in Nodes : HStep(m))
  BY ActsOnOne
<1>a. /\ HeldPhase /\ FreePhase /\ HeldPhase' /\ FreePhase'
      /\ Exclusive /\ Exclusive' /\ n # NoNode
      /\ on \in [Goroutines -> Nodes \cup {NoNode}]
  BY Phases, PhasesNext, NodesAssumption DEF HandleInv, StrayInv, TypeInv, TypeOK
<1>1. Phase(n) = "on" /\ on[t] # n
  BY <1>0, <1>a DEF FreePhase, MutexFree
<1>2. CASE on'[t] = on[t] /\ runtime'[n] = 0
  <2>1. MutexFree(n)'
    <3>1. on' = on
      BY <1>a, <1>2 DEF Acts
    <3> QED
      BY <3>1 DEF MutexFree
  <2>2. Phase(n)' = "off"
    BY <1>0, <1>a, <1>2, <2>1 DEF FreePhase
  <2> QED
    BY <1>0, <1>1, <2>2, HandleSteps
<1>3. CASE on'[t] = n /\ pc'[t] \in ReapLabels
  <2>1. Phase(n)' = "stopping"
    BY <1>0, <1>a, <1>3 DEF HeldPhase
  <2> QED
    BY <1>0, <1>1, <2>1, HandleSteps
<1> QED
  BY <1>2, <1>3

\* The process was waited for.
LEMMA Reaps ==
  ASSUME HandleInv, HandleInv', NEW t \in Goroutines, NEW n \in Nodes, Acts(t, n),
         on[t] = n, pc[t] \in ReapLabels, on'[t] = NoNode, runtime'[n] = 0,
         UNCHANGED <<stage, signalled>>
  PROVE  \A m \in Nodes : HStep(m)
<1>0. ~ Exited /\ ~ Exited' /\ (HStep(n) => \A m \in Nodes : HStep(m))
  BY ActsOnOne
<1>a. /\ HeldPhase /\ FreePhase /\ HeldPhase' /\ FreePhase'
      /\ Exclusive /\ Exclusive' /\ n # NoNode
      /\ on \in [Goroutines -> Nodes \cup {NoNode}]
  BY Phases, PhasesNext, NodesAssumption DEF HandleInv, StrayInv, TypeInv, TypeOK
<1>1. MutexFree(n)'
  BY <1>a DEF MutexFree, Exclusive, Acts
<1>2. Phase(n) = "stopping" /\ Phase(n)' = "off"
  BY <1>0, <1>a, <1>1 DEF HeldPhase, FreePhase
<1>3. Loose(n)' <=> Loose(n)
  BY DEF Loose
<1> QED
  BY <1>0, <1>2, <1>3, HandleSteps

\* A step outside Start and Stop of the node.
LEMMA Idles ==
  ASSUME HandleInv, HandleInv', NEW t \in Goroutines, NEW n \in Nodes, Acts(t, n),
         on[t] = NoNode, on'[t] = NoNode, UNCHANGED <<runtime, stage, signalled>>
  PROVE  \A m \in Nodes : HStep(m)
<1>0. ~ Exited /\ ~ Exited' /\ (HStep(n) => \A m \in Nodes : HStep(m))
  BY ActsOnOne
<1>a. /\ HeldPhase /\ FreePhase /\ HeldPhase' /\ FreePhase'
      /\ Exclusive /\ Exclusive' /\ n # NoNode
      /\ on \in [Goroutines -> Nodes \cup {NoNode}]
  BY Phases, PhasesNext, NodesAssumption DEF HandleInv, StrayInv, TypeInv, TypeOK
<1>1. pc \in [Goroutines -> Labels]
  BY DEF HandleInv, StrayInv, TypeInv, TypeOK
<1>2. HStep(n)
  BY <1>0, <1>a, <1>1, Apart DEF Acts
<1> QED
  BY <1>0, <1>2

-----------------------------------------------------------------------------
(* Every step of Lifecycle is a step of every handle, or none.             *)

\* A step that leaves the goroutines alone and brings no process to life.
LEMMA Quiet ==
  ASSUME UNCHANGED <<pc, on, runtime>>,
         \A m \in Nodes : Loose(m)' => Loose(m)
  PROVE  \A m \in Nodes : HStep(m)
<1> SUFFICES ASSUME NEW m \in Nodes PROVE HStep(m)
  OBVIOUS
<1>1. /\ Held(m, {"spawn"})' <=> Held(m, {"spawn"})
      /\ Held(m, StartLabels \ {"spawn"})' <=> Held(m, StartLabels \ {"spawn"})
      /\ Held(m, ReapLabels)' <=> Held(m, ReapLabels)
      /\ MutexFree(m)' <=> MutexFree(m)
      /\ Exited' <=> Exited
  BY DEF Held, MutexFree, Exited
<1>2. Phase(m)' = Phase(m)
  BY <1>1 DEF Phase
<1> QED
  BY <1>2, HandleSteps

\* os.Exit abandons every node.
LEMMA Lost ==
  ASSUME HandleInv, ~ Exited, pc' = [u \in Goroutines |-> "exit"],
         UNCHANGED <<stage, signalled>>
  PROVE  \A m \in Nodes : HStep(m)
<1> SUFFICES ASSUME NEW m \in Nodes PROVE HStep(m)
  OBVIOUS
<1>1. Phase(m)' = "lost"
  BY GoroutineAssumption DEF Phase, Exited
<1>2. Phase(m) # "lost"
  <2>1. HeldPhase /\ FreePhase
    BY Phases
  <2>2. CASE MutexFree(m)
    BY <2>1, <2>2 DEF FreePhase
  <2>3. ASSUME NEW u \in Goroutines, on[u] = m PROVE Phase(m) # "lost"
    <3>1. pc[u] \in StartLabels \cup ReapLabels /\ Exclusive
      BY <2>3, NodesAssumption DEF HandleInv, StrayInv, TypeInv, Holding
    <3> QED
      BY <2>1, <2>3, <3>1 DEF HeldPhase
  <2> QED
    BY <2>2, <2>3 DEF MutexFree
<1>3. Loose(m)' <=> Loose(m)
  BY DEF Loose
<1> QED
  BY <1>1, <1>2, <1>3, HandleSteps

LEMMA HandleStep == HandleInv /\ [Next]_vars => \A m \in Nodes : HStep(m)
<1> SUFFICES ASSUME HandleInv, [Next]_vars PROVE \A m \in Nodes : HStep(m)
  OBVIOUS
<1>0. HandleInv /\ HandleInv'
  BY HandleInvStep
<1>a. /\ pc \in [Goroutines -> Labels]
      /\ on \in [Goroutines -> Nodes \cup {NoNode}]
      /\ runtime \in [Nodes -> 0 .. MaxSpawn]
      /\ spawned \in [Nodes -> 0 .. MaxSpawn]
      /\ stage \in [Nodes -> [Incarnations -> {"unborn", "gone"} \cup Alive]]
      /\ signalled \in [Nodes -> SUBSET Incarnations]
      /\ NoNode \notin Nodes /\ TypeInv /\ Holding /\ Begun
      /\ Exclusive /\ RuntimeLatest /\ AllExited /\ SignalledBorn /\ NilRuntime
      /\ FirstIsMiner
  BY <1>0, NodesAssumption DEF HandleInv, StrayInv, TypeInv, TypeOK
<1> USE <1>0, <1>a, BoundsAssumption, GoroutineAssumption
<1>1. ASSUME NEW t \in Goroutines, Spawn(t) PROVE \A m \in Nodes : HStep(m)
  <2>a. PICK n \in Nodes : n = on[t] /\ pc[t] = "spawn"
    BY <1>1 DEF Spawn, Holding, StartLabels, ReapLabels
  <2>b. PICK i \in Nat : i = spawned[n] + 1
    BY <2>a
  <2>1. on[t] = n /\ pc[t] = "spawn" /\ i \in Incarnations
    BY <1>1, <2>a, <2>b DEF Spawn, Incarnations
  <2>2. Acts(t, n)
    BY <1>1, <2>1 DEF Acts, Spawn, Goto, nodeVars
  <2>3. on'[t] = n /\ pc'[t] \in StartLabels \ {"spawn"}
    BY <1>1, <2>1 DEF Spawn, Goto, StartLabels
  <2>4. i \notin signalled'[n] /\ stage'[n][i] \in Alive
    BY <1>1, <2>1, <2>b DEF Spawn, SignalledBorn, Alive, Incarnations
  <2>5. Loose(n)'
    BY <2>1, <2>4 DEF Loose
  <2> QED
    BY <2>1, <2>2, <2>3, <2>5, Launches
<1>2. ASSUME NEW t \in Goroutines, SpawnFails(t) PROVE \A m \in Nodes : HStep(m)
  <2>1. PICK n \in Nodes : n = on[t] /\ pc[t] = "spawn"
    BY <1>2 DEF SpawnFails, Holding, StartLabels, ReapLabels
  <2>2. UNCHANGED <<runtime, stage, signalled>>
    BY <1>2 DEF SpawnFails, nodeVars, procVars
  <2>3. ~ Exited
    BY <2>1 DEF AllExited
  <2>4. CASE Fatalf(t)
    <3>1. Acts(t, n) /\ on'[t] = NoNode
      BY <2>1, <2>2, <2>4 DEF Acts, Fatalf, Goto, Unlock
    <3>2. ~ Loose(n)'
      BY <2>1, <2>2, <2>3, LooseOnes DEF Loose
    <3>3. runtime'[n] = 0
      BY <2>1, <2>2 DEF HandleInv, StrayInv, SpawnClean
    <3> QED
      BY <2>1, <3>1, <3>2, <3>3, Abandons DEF StartLabels
  <2>5. CASE pc' = [u \in Goroutines |-> "exit"]
    BY <2>2, <2>3, <2>5, Lost
  <2> QED
    BY <1>2, <2>4, <2>5 DEF SpawnFails
<1>3. ASSUME NEW t \in Goroutines, AwaitLog(t) PROVE \A m \in Nodes : HStep(m)
  <2>1. PICK n \in Nodes : n = on[t] /\ pc[t] = "log"
    BY <1>3 DEF AwaitLog, Holding, StartLabels, ReapLabels
  <2>2. Acts(t, n)
    BY <1>3, <2>1 DEF Acts, AwaitLog, Goto, procVars
  <2>3. on'[t] = n /\ pc'[t] \in StartLabels \ {"spawn"}
    BY <1>3, <2>1 DEF AwaitLog, Goto, StartLabels
  <2>4. Loose(n)' => Loose(n)
    BY <1>3 DEF AwaitLog, Loose, procVars
  <2> QED
    BY <2>1, <2>2, <2>3, <2>4, Proceeds DEF StartLabels
<1>24. ASSUME NEW t \in Goroutines, StartUp(t) PROVE \A m \in Nodes : HStep(m)
  <2>1. PICK n \in Nodes : n = on[t] /\ pc[t] = "startup" /\ spawned[n] > 0
    BY <1>24 DEF StartUp, Holding, Begun, StartLabels, ReapLabels
  <2>2. Acts(t, n) /\ UNCHANGED <<stage, signalled>>
    BY <1>24, <2>1 DEF Acts, StartUp, Goto, Unlock, procVars
  <2>3. CASE on'[t] = NoNode
    <3>1. runtime'[n] # 0
      BY <1>24, <2>1, <2>3 DEF StartUp, Current, Unlock
    <3> QED
      BY <2>1, <2>2, <2>3, <3>1, Succeeds DEF StartLabels
  <2>4. CASE on'[t] # NoNode
    <3>1. on'[t] = n /\ pc'[t] \in StartLabels \ {"spawn"}
      BY <1>24, <2>1, <2>4 DEF StartUp, Goto, Unlock, StartLabels
    <3>2. Loose(n)' => Loose(n)
      BY <2>2 DEF Loose
    <3> QED
      BY <2>1, <2>2, <3>1, <3>2, Proceeds DEF StartLabels
  <2> QED
    BY <2>3, <2>4
<1>4. ASSUME NEW t \in Goroutines, FirstRun(t) PROVE \A m \in Nodes : HStep(m)
  <2>1. PICK n \in Nodes : n = on[t] /\ pc[t] = "first"
    BY <1>4 DEF FirstRun, Holding, StartLabels, ReapLabels
  <2>2. Acts(t, n)
    BY <1>4, <2>1 DEF Acts, FirstRun, Goto, Lock, Unlock, Fatalf, Interrupt, procVars,
       nodeVars, harnessVars
  <2>3. on'[t] = NoNode /\ UNCHANGED <<stage, signalled>>
    BY <1>4 DEF FirstRun, Unlock, procVars
  <2>4. runtime'[n] # 0
    BY <1>4, <2>1 DEF FirstRun, RuntimeLatest, Begun, StartLabels
  <2> QED
    BY <2>1, <2>2, <2>3, <2>4, Succeeds DEF StartLabels
<1>5. ASSUME NEW t \in Goroutines, AwaitTls(t) PROVE \A m \in Nodes : HStep(m)
  <2>1. PICK n \in Nodes : n = on[t] /\ pc[t] = "tls"
    BY <1>5 DEF AwaitTls, Holding, StartLabels, ReapLabels
  <2>2. Acts(t, n)
    BY <1>5, <2>1 DEF Acts, AwaitTls, Goto, Lock, Unlock, Fatalf, Interrupt, procVars,
       nodeVars, harnessVars
  <2>3. on'[t] = n /\ pc'[t] \in StartLabels \ {"spawn"}
    BY <1>5, <2>1 DEF AwaitTls, Goto, StartLabels
  <2>4. Loose(n)' => Loose(n)
    BY <1>5 DEF AwaitTls, Loose, procVars
  <2> QED
    BY <2>1, <2>2, <2>3, <2>4, Proceeds DEF StartLabels
<1>6. ASSUME NEW t \in Goroutines, Dial(t) PROVE \A m \in Nodes : HStep(m)
  <2>1. PICK n \in Nodes : n = on[t] /\ pc[t] = "dial"
    BY <1>6 DEF Dial, Holding, StartLabels, ReapLabels
  <2>2. Acts(t, n)
    BY <1>6, <2>1 DEF Acts, Dial, Goto, Lock, Unlock, Fatalf, Interrupt, procVars,
       nodeVars, harnessVars
  <2>3. on'[t] = n /\ pc'[t] \in StartLabels \ {"spawn"}
    BY <1>6, <2>1 DEF Dial, Goto, StartLabels
  <2>4. Loose(n)' => Loose(n)
    BY <1>6 DEF Dial, Loose, procVars
  <2> QED
    BY <2>1, <2>2, <2>3, <2>4, Proceeds DEF StartLabels
<1>7. ASSUME NEW t \in Goroutines, AwaitStarted(t) PROVE \A m \in Nodes : HStep(m)
  <2>1. PICK n \in Nodes : n = on[t] /\ pc[t] = "started"
    BY <1>7 DEF AwaitStarted, Holding, StartLabels, ReapLabels
  <2>2. Acts(t, n)
    BY <1>7, <2>1 DEF Acts, AwaitStarted, Goto, Lock, Unlock, Fatalf, Interrupt, procVars,
       nodeVars, harnessVars
  <2>3. on'[t] = n /\ pc'[t] \in StartLabels \ {"spawn"}
    BY <1>7, <2>1 DEF AwaitStarted, Goto, StartLabels
  <2>4. Loose(n)' => Loose(n)
    BY <1>7 DEF AwaitStarted, Loose, procVars
  <2> QED
    BY <2>1, <2>2, <2>3, <2>4, Proceeds DEF StartLabels
<1>8. ASSUME NEW t \in Goroutines, OpenWallet(t) PROVE \A m \in Nodes : HStep(m)
  <2>1. PICK n \in Nodes : n = on[t] /\ pc[t] = "wallet"
    BY <1>8 DEF OpenWallet, Holding, StartLabels, ReapLabels
  <2>2. Acts(t, n)
    BY <1>8, <2>1 DEF Acts, OpenWallet, Goto, Lock, Unlock, Fatalf, Interrupt, procVars,
       nodeVars, harnessVars
  <2>3. on'[t] = n /\ pc'[t] \in StartLabels \ {"spawn"}
    BY <1>8, <2>1 DEF OpenWallet, Goto, StartLabels
  <2>4. Loose(n)' => Loose(n)
    BY <1>8, <2>1 DEF OpenWallet, Loose, Alive, Listening
  <2> QED
    BY <2>1, <2>2, <2>3, <2>4, Proceeds DEF StartLabels
<1>9. ASSUME NEW t \in Goroutines, AwaitActive(t) PROVE \A m \in Nodes : HStep(m)
  <2>1. PICK n \in Nodes : n = on[t] /\ pc[t] = "active"
    BY <1>9 DEF AwaitActive, Holding, StartLabels, ReapLabels
  <2>2. Acts(t, n)
    BY <1>9, <2>1 DEF Acts, AwaitActive, Goto, Lock, Unlock, Fatalf, Interrupt, procVars,
       nodeVars, harnessVars
  <2>3. on'[t] = n /\ pc'[t] \in StartLabels \ {"spawn"}
    BY <1>9, <2>1 DEF AwaitActive, Goto, StartLabels
  <2>4. Loose(n)' => Loose(n)
    BY <1>9 DEF AwaitActive, Loose, procVars
  <2> QED
    BY <2>1, <2>2, <2>3, <2>4, Proceeds DEF StartLabels
<1>10. ASSUME NEW t \in Goroutines, OpenWalletLost(t) PROVE \A m \in Nodes : HStep(m)
  <2>1. PICK n \in Nodes : n = on[t] /\ pc[t] = "wallet"
    BY <1>10 DEF OpenWalletLost, Holding, StartLabels, ReapLabels
  <2>2. Acts(t, n)
    BY <1>10, <2>1 DEF Acts, OpenWalletLost, Goto, Lock, Unlock, Fatalf, Interrupt, procVars,
       nodeVars, harnessVars
  <2>3. on'[t] = NoNode /\ runtime'[n] = 0
    BY <1>10, <2>1 DEF OpenWalletLost, Fatalf, Unlock, nodeVars, NilRuntime, StartLabels
  <2>4. ~ Exited
    BY <2>1 DEF AllExited
  <2>5. signalled' = [signalled EXCEPT ![n] = @ \cup {spawned[n]}]
    BY <1>10, <2>1 DEF OpenWalletLost, Interrupt, Current
  <2>6. PICK j \in Incarnations : /\ stage[n][j] = "rpc"
                                  /\ stage' = [stage EXCEPT ![n][j] = "open"]
    BY <1>10, <2>1 DEF OpenWalletLost
  <2>7. ASSUME NEW i \in Incarnations, stage'[n][i] \in Alive, i \notin signalled'[n]
        PROVE  FALSE
    <3>1. stage[n][i] \in Alive /\ i \notin signalled[n] /\ i # spawned[n]
      BY <2>1, <2>5, <2>6, <2>7 DEF Alive, Listening
    <3> QED
      BY <2>1, <2>4, <3>1, LooseOnes DEF StartLabels
  <2>8. ~ Loose(n)'
    BY <2>7 DEF Loose
  <2> QED
    BY <2>1, <2>2, <2>3, <2>8, Abandons DEF StartLabels
<1>11. ASSUME NEW t \in Goroutines, GetInfo(t) PROVE \A m \in Nodes : HStep(m)
  <2>1. PICK n \in Nodes : n = on[t] /\ pc[t] = "info"
    BY <1>11 DEF GetInfo, Holding, StartLabels, ReapLabels
  <2>2. Acts(t, n)
    BY <1>11, <2>1 DEF Acts, GetInfo, Goto, Lock, Unlock, Fatalf, Interrupt, procVars,
       nodeVars, harnessVars
  <2>3. on'[t] = NoNode /\ UNCHANGED <<stage, signalled>>
    BY <1>11 DEF GetInfo, Unlock, procVars
  <2>4. runtime'[n] # 0
    BY <1>11, <2>1 DEF GetInfo, Current, Begun, StartLabels
  <2> QED
    BY <2>1, <2>2, <2>3, <2>4, Succeeds DEF StartLabels
<1>12. ASSUME NEW t \in Goroutines, StartFails(t) \/ StartBreaks(t)
       PROVE  \A m \in Nodes : HStep(m)
  <2>1. PICK n \in Nodes : n = on[t] /\ pc[t] \in StartLabels \ {"spawn"}
    BY <1>12 DEF StartFails, StartBreaks, GivesUp, ReadFails, Holding, StartLabels, ReapLabels
  <2>2. Acts(t, n)
    BY <1>12, <2>1 DEF Acts, StartFails, StartBreaks, Abort, Goto, Unlock, Fatalf, Interrupt, StartLabels
  <2>3. \/ on'[t] = NoNode /\ runtime' = runtime
        \/ on'[t] = n /\ pc'[t] \in ReapLabels
    BY <1>12, <2>1 DEF StartFails, StartBreaks, Abort, Fatalf, Unlock, Goto, ReapLabels
  <2>4. ~ Exited
    BY <2>1 DEF AllExited, StartLabels
  <2>5. /\ signalled' = [signalled EXCEPT ![n] = @ \cup {spawned[n]}]
        /\ stage' = stage
    BY <1>12, <2>1 DEF StartFails, StartBreaks, Abort, Interrupt, Current
  <2>6. ASSUME NEW i \in Incarnations, stage'[n][i] \in Alive, i \notin signalled'[n]
        PROVE  FALSE
    <3>1. stage[n][i] \in Alive /\ i \notin signalled[n] /\ i # spawned[n]
      BY <2>1, <2>5, <2>6
    <3> QED
      BY <2>1, <2>4, <3>1, LooseOnes
  <2>7. ~ Loose(n)'
    BY <2>6 DEF Loose
  <2>8. on'[t] = NoNode => runtime'[n] = 0
    <3>1. CASE n \in Miners
      BY <1>12, <2>1, <3>1 DEF StartFails, StartBreaks, Abort
    <3>2. CASE n \notin Miners
      <4>1. pc[t] # "first"
        BY <2>1, <3>2 DEF FirstIsMiner
      <4>2. runtime[n] = 0
        BY <2>1, <4>1 DEF NilRuntime
      <4> QED
        BY <1>12, <2>1, <3>2, <4>2 DEF StartFails, StartBreaks, Abort
    <3> QED
      BY <3>1, <3>2
  <2> QED
    BY <2>1, <2>2, <2>3, <2>7, <2>8, Abandons
<1>13. ASSUME NEW t \in Goroutines, StartReaped(t) PROVE \A m \in Nodes : HStep(m)
  <2>1. PICK n \in Nodes : n = on[t] /\ pc[t] = "reap"
    BY <1>13 DEF StartReaped, Holding, StartLabels, ReapLabels
  <2>2. Acts(t, n) /\ on'[t] = NoNode /\ UNCHANGED <<stage, signalled>>
    BY <1>13, <2>1 DEF Acts, StartReaped, Fatalf, Goto, Unlock, nodeVars, procVars
  <2>3. runtime'[n] = 0
    BY <1>13, <2>1 DEF StartReaped, nodeVars, NilRuntime
  <2> QED
    BY <2>1, <2>2, <2>3, Reaps DEF ReapLabels
<1>14. ASSUME NEW t \in Goroutines, StopReaped(t) PROVE \A m \in Nodes : HStep(m)
  <2>1. PICK n \in Nodes : n = on[t] /\ pc[t] = "stopreap"
    BY <1>14 DEF StopReaped, Holding, StartLabels, ReapLabels
  <2>2. Acts(t, n) /\ on'[t] = NoNode /\ UNCHANGED <<stage, signalled>>
    BY <1>14, <2>1 DEF Acts, StopReaped, Goto, Unlock, procVars
  <2>3. runtime'[n] = 0
    BY <1>14, <2>1 DEF StopReaped
  <2> QED
    BY <2>1, <2>2, <2>3, Reaps DEF ReapLabels
<1>15. ASSUME NEW t \in Goroutines, NEW n \in Nodes, NEW done, NEW waiting,
              pc[t] \in RestLabels \cup TearLabels, pc[t] # "exit", on[t] = NoNode,
              done \notin {"exit"} \cup StartLabels \cup ReapLabels,
              waiting \in ReapLabels, StopNode(t, n, done, waiting), stage' = stage
       PROVE  \A m \in Nodes : HStep(m)
  <2>1. /\ MutexFree(n) /\ pc' = [pc EXCEPT ![t] = pc'[t]] /\ pc'[t] \in {done, waiting}
        /\ \/ UNCHANGED <<on, runtime, signalled>>
           \/ /\ runtime[n] # 0 /\ Interrupt(n, runtime[n])
              /\ \/ /\ pc'[t] = waiting /\ on' = [on EXCEPT ![t] = n]
                    /\ UNCHANGED runtime
                 \/ UNCHANGED on /\ runtime' = [runtime EXCEPT ![n] = 0]
    BY <1>15, StopCases DEF Goto, Lock
  <2>2. Acts(t, n)
    BY <1>15, <2>1 DEF Acts, Interrupt, ReapLabels
  <2>3. CASE UNCHANGED <<on, runtime, signalled>>
    BY <1>15, <2>2, <2>3, Idles
  <2>4. CASE runtime[n] # 0 /\ Interrupt(n, runtime[n])
    <3>1. ~ Exited
      BY <1>15 DEF AllExited
    <3>2. ASSUME NEW i \in Incarnations, stage'[n][i] \in Alive, i \notin signalled'[n]
          PROVE  FALSE
      <4>1. stage[n][i] \in Alive /\ i \notin signalled[n] /\ i # runtime[n]
        BY <1>15, <2>4, <3>2 DEF Interrupt
      <4> QED
        BY <2>1, <3>1, <4>1, LooseOnes
    <3>3. ~ Loose(n)'
      BY <3>2 DEF Loose
    <3>4. \/ on'[t] = on[t] /\ runtime'[n] = 0
          \/ on'[t] = n /\ pc'[t] \in ReapLabels
          \/ UNCHANGED <<on, runtime, signalled>>
      BY <1>15, <2>1
    <3> QED
      BY <2>1, <2>2, <2>3, <2>4, <3>3, <3>4, Stops
  <2> QED
    BY <2>1, <2>3, <2>4
<1>16. CASE TearStop
  <2>1. /\ stoppables[tdPos] \in Nodes /\ on[Main] = NoNode /\ pc[Main] = "tear"
        /\ StopNode(Main, stoppables[tdPos], "tear", "tearreap") /\ stage' = stage
    BY <1>16, TearStopNode DEF TearStop
  <2> QED
    BY <1>15, <2>1 DEF TearLabels, StartLabels, ReapLabels
<1>17. CASE TearReaped
  <2>1. PICK n \in Nodes : n = on[Main] /\ pc[Main] = "tearreap"
    BY <1>17 DEF TearReaped, Holding, StartLabels, ReapLabels
  <2>2. Acts(Main, n) /\ on'[Main] = NoNode /\ UNCHANGED <<stage, signalled>>
    BY <1>17, <2>1 DEF Acts, TearReaped, Goto, Unlock, procVars
  <2>3. runtime'[n] = 0
    BY <1>17, <2>1 DEF TearReaped
  <2> QED
    BY <2>1, <2>2, <2>3, Reaps DEF ReapLabels
<1>18. ASSUME TearClean \/ TearEnd \/ TearDown, NEW n \in Nodes
       PROVE  \A m \in Nodes : HStep(m)
  <2>1. /\ pc[Main] \in {"tear", "clean", "idle", "unwind"}
        /\ pc'[Main] \in {"tear", "clean", "over"} /\ pc' = [pc EXCEPT ![Main] = pc'[Main]]
        /\ UNCHANGED <<on, runtime, stage, signalled>>
    BY <1>18 DEF TearClean, TearEnd, TearDown, Goto, nodeVars, procVars
  <2>2. on[Main] = NoNode
    BY <2>1 DEF Holding, StartLabels, ReapLabels
  <2>3. Acts(Main, n)
    BY <2>1, <2>2 DEF Acts
  <2> QED
    BY <2>1, <2>2, <2>3, Idles
<1>19. ASSUME NEW t \in Goroutines, NEW n \in Nodes, NewNode(t, n)
       PROVE  \A m \in Nodes : HStep(m)
  <2>1. UNCHANGED <<pc, on, runtime, stage, signalled>>
    BY <1>19 DEF NewNode, callVars, nodeVars, procVars
  <2> QED
    BY <2>1, Quiet DEF Loose
<1>20. ASSUME NEW t \in Goroutines, NEW n \in Nodes, StartCall(t, n)
       PROVE  \A m \in Nodes : HStep(m)
  <2>1. pc[t] = "idle" /\ MutexFree(n) /\ UNCHANGED <<runtime, stage, signalled>>
    BY <1>20 DEF StartCall, nodeVars, procVars
  <2>2. CASE runtime[n] # 0
    <3>1. UNCHANGED <<pc, on>>
      BY <1>20, <2>2 DEF StartCall, callVars
    <3> QED
      BY <2>1, <3>1, Quiet DEF Loose
  <2>3. CASE runtime[n] = 0
    <3>1. on[t] = NoNode
      BY <2>1 DEF Holding, StartLabels, ReapLabels
    <3>2. Acts(t, n) /\ on'[t] = n /\ pc'[t] = "spawn"
      BY <1>20, <2>1, <2>3, <3>1 DEF Acts, StartCall, Goto, Lock
    <3> QED
      BY <2>1, <2>3, <3>2, Enters
  <2> QED
    BY <2>2, <2>3
<1>21. ASSUME NEW t \in Goroutines, NEW n \in Nodes, StopCall(t, n)
       PROVE  \A m \in Nodes : HStep(m)
  <2>1. /\ pc[t] = "idle" /\ on[t] = NoNode /\ stage' = stage
        /\ StopNode(t, n, "idle", "stopreap")
    BY <1>21 DEF StopCall, Holding, StartLabels, ReapLabels
  <2> QED
    BY <1>15, <2>1 DEF RestLabels, StartLabels, ReapLabels
<1>22. ASSUME NEW n \in Nodes, NEW i \in Incarnations,
              Serve(n, i) \/ Activate(n, i) \/ Die(n, i) \/ CtxKill(n, i)
       PROVE  \A m \in Nodes : HStep(m)
  <2>1. UNCHANGED <<pc, on, runtime, signalled>>
    BY <1>22 DEF Serve, Activate, Die, CtxKill, Gone, callVars, nodeVars
  <2>2. /\ stage[n][i] \in Alive /\ stage' = [stage EXCEPT ![n][i] = stage'[n][i]]
    BY <1>22 DEF Serve, Activate, Die, CtxKill, Gone, Alive, Listening
  <2>3. \A m \in Nodes, j \in Incarnations : stage'[m][j] \in Alive => stage[m][j] \in Alive
    BY <2>2
  <2> QED
    BY <2>1, <2>3, Quiet DEF Loose
<1>23. CASE Tick \/ UNCHANGED vars
  <2>1. UNCHANGED <<pc, on, runtime, stage, signalled>>
    BY <1>23 DEF Tick, vars, callVars, nodeVars, procVars
  <2> QED
    BY <2>1, Quiet DEF Loose
<1>25. CASE Exit
  <2>1. ~ Exited
    BY <1>25 DEF Exit, Exited
  <2> QED
    BY <1>25, <2>1, Lost DEF Exit, procVars
<1> QED
  BY <1>1, <1>2, <1>3, <1>4, <1>5, <1>6, <1>7, <1>8, <1>9, <1>10, <1>11, <1>12,
     <1>13, <1>14, <1>16, <1>17, <1>18, <1>19, <1>20, <1>21, <1>22, <1>23, <1>24,
     <1>25
  DEF Next, Call, CallStep, StartStep, TearStep, Environment

\* The handle starts off.
LEMMA HandleInit == Init => \A n \in Nodes : H(n)!Init
<1> SUFFICES ASSUME Init, NEW n \in Nodes PROVE H(n)!Init
  OBVIOUS
<1>1. ~ Exited /\ MutexFree(n) /\ runtime[n] = 0
  BY GoroutineAssumption, NodesAssumption DEF Init, Exited, MutexFree
<1>2. Phase(n) = "off"
  BY <1>1, Phases DEF FreePhase
<1>3. Loose(n) = FALSE
  BY DEF Init, Loose, Alive, Listening
<1> QED
  BY <1>2, <1>3 DEF H!Init

\* Start, Stop and TearDown implement the handle of every node, for any nodes,
\* goroutines and number of restarts: no second daemon is launched beside a
\* living one, and each is told to stop before the call that gives it up
\* returns, on every error path.
THEOREM HandleKept == Spec => ImplementsHandle
<1>1. HandleInv /\ [Next]_vars
        => [\A n \in Nodes : H(n)!Next \/ UNCHANGED <<Phase(n), Loose(n)>>]_vars
  BY HandleStep DEF HStep
<1> QED
  BY <1>1, HandleInit, HandleInvInit, HandleInvStep, PTL DEF Spec, ImplementsHandle
=============================================================================
