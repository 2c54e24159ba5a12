------------------------------ MODULE Lifecycle ------------------------------
(***************************************************************************)
(* The daemons behind a test: how Start, Stop and TearDown of the harness, *)
(* the miner, the lnd nodes and the cln nodes share the operating-system   *)
(* processes they spawn.  Every node guards its own state with a mutex     *)
(* (mtx); the harness guards its list of stoppables with another one.      *)
(* Goroutines of the test call Start and Stop concurrently, the goroutine  *)
(* Main runs the deferred TearDown.  Daemons may die at any moment, the    *)
(* deadline of the harness may pass at any moment, and T.Fatalf unwinds    *)
(* the goroutine that calls it (its deferred unlocks run, and for Main the *)
(* deferred TearDown).  The test binary may exit as soon as Main is done.  *)
(*                                                                         *)
(* The i-th process spawned for a node is its incarnation i.  A process    *)
(* climbs boot -> rpc -> open -> up (lnd: gRPC server listening, wallet    *)
(* opened, SERVER_ACTIVE) or boot -> up (bitcoind, lightningd: the ready   *)
(* line is in the log), and is finally gone.                               *)
(***************************************************************************)
EXTENDS Naturals, Sequences, FiniteSets

CONSTANTS
  Miners,      \* the miners (miner.go)
  LndNodes,    \* the lnd nodes (lnd_node.go)
  ClnNodes,    \* the cln nodes (cln_node.go)
  Goroutines,  \* the goroutines of the test
  Main,        \* the goroutine that deferred TearDown
  NoNode,      \* "holds no node's mutex"
  MaxNodes,    \* bound: nodes the test creates
  MaxSpawn     \* bound: incarnations per node

Nodes == Miners \cup LndNodes \cup ClnNodes

ASSUME NodesAssumption ==
  /\ Miners \cap LndNodes = {}
  /\ Miners \cap ClnNodes = {}
  /\ LndNodes \cap ClnNodes = {}
  /\ NoNode \notin Nodes
ASSUME GoroutineAssumption == Main \in Goroutines
ASSUME BoundsAssumption == MaxNodes \in Nat /\ MaxSpawn \in Nat

VARIABLES
  stoppables,     \* the nodes registered with the harness, in order
  tdPos,          \* the stoppable TearDown is at
  expired,        \* the deadline of the harness has passed
  cancelled,      \* h.cancel() has been called
  failed,         \* T.Fatalf has been called
  pc,             \* where each goroutine is
  on,             \* the node whose mutex each goroutine holds
  peer,           \* the incarnation its state stream is connected to
  runtime,        \* n.runtime: 0 is nil, else the incarnation it holds
  isInitialized,  \* n.isInitialized (miner and lnd)
  timesStarted,   \* n.timesStarted (miner and cln)
  spawned,        \* how many processes were spawned for a node
  stage,          \* how far each incarnation has come
  signalled,      \* the incarnations that were sent SIGINT
  announced,      \* the incarnations that wrote the ready line
  disk            \* what a node's directory holds: "cert", "wallet"

harnessVars == <<stoppables, tdPos, expired, cancelled, failed>>
callVars    == <<pc, on, peer>>
nodeVars    == <<runtime, isInitialized, timesStarted>>
procVars    == <<spawned, stage, signalled, announced, disk>>
vars == <<harnessVars, callVars, nodeVars, procVars>>

Incarnations == 1 .. MaxSpawn
Listening    == {"rpc", "open", "up"}
Alive        == {"boot"} \cup Listening

StartLabels == {"spawn", "log", "startup", "tls", "dial", "started", "wallet", "active",
                "info", "first"}
ReapLabels  == {"reap", "stopreap", "tearreap"}
TearLabels  == {"tear", "tearreap", "clean"}
RestLabels  == {"idle", "unwind", "over", "dead", "exit"}
Labels == StartLabels \cup ReapLabels \cup TearLabels \cup RestLabels

\* The test binary has ended, through log.Fatalf or after its last test:
\* every goroutine is gone, the watchers of exec.CommandContext among them.
Exited == pc[Main] = "exit"
\* Main holds h.mtx exactly while it tears down.
TearingDown == pc[Main] \in TearLabels
\* n.mtx is free: no goroutine is inside a call that locked it.
MutexFree(n) == \A t \in Goroutines : on[t] # n
Registered == {stoppables[k] : k \in 1 .. Len(stoppables)}
\* h.Ctx is done: its deadline passed or TearDown cancelled it.
CtxDone == expired \/ cancelled
\* The incarnation Start is working on.
Current(n) == spawned[n]

TypeOK ==
  /\ stoppables \in Seq(Nodes)
  /\ tdPos \in Nat
  /\ expired \in BOOLEAN /\ cancelled \in BOOLEAN
  /\ failed \in BOOLEAN
  /\ pc \in [Goroutines -> Labels]
  /\ on \in [Goroutines -> Nodes \cup {NoNode}]
  /\ peer \in [Goroutines -> 0 .. MaxSpawn]
  /\ runtime \in [Nodes -> 0 .. MaxSpawn]
  /\ isInitialized \in [Nodes -> BOOLEAN]
  /\ timesStarted \in [Nodes -> Nat]
  /\ spawned \in [Nodes -> 0 .. MaxSpawn]
  /\ stage \in [Nodes -> [Incarnations -> {"unborn", "gone"} \cup Alive]]
  /\ signalled \in [Nodes -> SUBSET Incarnations]
  /\ announced \in [Nodes -> SUBSET Incarnations]
  /\ disk \in [Nodes -> SUBSET {"cert", "wallet"}]

Init ==
  /\ stoppables = <<>>
  /\ tdPos = 0
  /\ expired = FALSE /\ cancelled = FALSE
  /\ failed = FALSE
  /\ pc = [t \in Goroutines |-> "idle"]
  /\ on = [t \in Goroutines |-> NoNode]
  /\ peer = [t \in Goroutines |-> 0]
  /\ runtime = [n \in Nodes |-> 0]
  /\ isInitialized = [n \in Nodes |-> FALSE]
  /\ timesStarted = [n \in Nodes |-> 0]
  /\ spawned = [n \in Nodes |-> 0]
  /\ stage = [n \in Nodes |-> [i \in Incarnations |-> "unborn"]]
  /\ signalled = [n \in Nodes |-> {}]
  /\ announced = [n \in Nodes |-> {}]
  /\ disk = [n \in Nodes |-> {}]

-----------------------------------------------------------------------------
(* What the calls have in common.                                          *)

Goto(t, label) == pc' = [pc EXCEPT ![t] = label]
Unlock(t) == on' = [on EXCEPT ![t] = NoNode]
Lock(t, n) == MutexFree(n) /\ on' = [on EXCEPT ![t] = n]

\* Fault: the mutex is not released by a deferred Unlock.
FatalfLocked(t) ==
  /\ failed' = TRUE
  /\ Goto(t, IF t = Main THEN "unwind" ELSE "dead")
  /\ UNCHANGED on

\* T.Fatalf: the test has failed, the goroutine unwinds and unlocks; Main
\* goes on with its deferred TearDown, any other goroutine is finished.
Fatalf(t) ==
  /\ failed' = TRUE
  /\ Goto(t, IF t = Main THEN "unwind" ELSE "dead")
  /\ Unlock(t)

\* PerformCleanup on the cleanups of incarnation i: the process group is sent
\* SIGINT.  The miner's cleanup then waits for the process (label "...reap"),
\* the ones of lnd and cln return at once.
Interrupt(n, i) == signalled' = [signalled EXCEPT ![n] = @ \cup {i}]

-----------------------------------------------------------------------------
(* Constructing and starting a node.                                       *)

\* NewMiner, NewLndNode, NewClnNode: AddStoppable needs h.mtx.
NewNode(t, n) ==
  /\ pc[t] = "idle"
  /\ ~ TearingDown
  /\ n \notin Registered /\ Len(stoppables) < MaxNodes
  /\ stoppables' = Append(stoppables, n)
  /\ UNCHANGED <<tdPos, expired, cancelled, failed, callVars,
                 nodeVars, procVars>>

\* Fault: the check for a runtime is missing.
StartCallAgain(t, n) ==
  /\ pc[t] = "idle"
  /\ n \in Registered
  /\ Goto(t, "spawn") /\ Lock(t, n) /\ UNCHANGED peer
  /\ UNCHANGED <<harnessVars, nodeVars, procVars>>

\* Start takes the mutex and returns at once when the node has a runtime.
StartCall(t, n) ==
  /\ pc[t] = "idle"
  /\ n \in Registered
  /\ MutexFree(n)
  /\ IF runtime[n] # 0
       THEN UNCHANGED callVars
       ELSE Goto(t, "spawn") /\ Lock(t, n) /\ UNCHANGED peer
  /\ UNCHANGED <<harnessVars, nodeVars, procVars>>

\* cmd.Start succeeds: a new incarnation boots.  exec.CommandContext refuses
\* to start a process once the context is done.
Spawn(t) ==
  LET n == on[t]
      i == spawned[n] + 1
  IN /\ pc[t] = "spawn"
     /\ ~ CtxDone
     /\ spawned[n] < MaxSpawn
     /\ spawned' = [spawned EXCEPT ![n] = i]
     /\ stage' = [stage EXCEPT ![n][i] = "boot"]
     /\ Goto(t, IF n \in LndNodes THEN "tls" ELSE "log")
     /\ UNCHANGED <<harnessVars, on, peer, nodeVars, signalled, announced, disk>>

\* cmd.Start fails: log.Fatalf in lnd (the test binary exits, nothing deferred
\* runs), T.Fatal in the miner and in cln, and in lnd when it is the log file
\* that cannot be opened.
SpawnFails(t) ==
  /\ pc[t] = "spawn"
  /\ \/ Fatalf(t)
     \/ /\ on[t] \in LndNodes
        /\ pc' = [u \in Goroutines |-> "exit"]
        /\ on' = [u \in Goroutines |-> NoNode]
        /\ UNCHANGED failed
  /\ UNCHANGED <<stoppables, tdPos, expired, cancelled, peer, nodeVars, procVars>>

\* Fault: waitForLog is content with as many ready lines as before this start.
AwaitLogEarly(t) ==
  LET n == on[t]
  IN /\ pc[t] = "log"
     /\ Cardinality(announced[n]) >= timesStarted[n]
     /\ timesStarted' = [timesStarted EXCEPT ![n] = @ + 1]
     /\ Goto(t, IF n \in Miners THEN "startup" ELSE "info")
     /\ UNCHANGED <<harnessVars, on, peer, runtime, isInitialized, procVars>>

\* Fault: the miner does not count the start when it is not the first run.
AwaitLogUncounted(t) ==
  LET n == on[t]
  IN /\ pc[t] = "log"
     /\ Cardinality(announced[n]) > timesStarted[n]
     /\ IF isInitialized[n]
          THEN UNCHANGED timesStarted
          ELSE timesStarted' = [timesStarted EXCEPT ![n] = @ + 1]
     /\ Goto(t, IF n \in Miners THEN "startup" ELSE "info")
     /\ UNCHANGED <<harnessVars, on, peer, runtime, isInitialized, procVars>>

\* waitForLog (miner, cln) returns when the log has more ready lines than
\* starts were counted, and the start is counted.
AwaitLog(t) ==
  LET n == on[t]
  IN /\ pc[t] = "log"
     /\ Cardinality(announced[n]) > timesStarted[n]
     /\ timesStarted' = [timesStarted EXCEPT ![n] = @ + 1]
     /\ Goto(t, IF n \in Miners THEN "startup" ELSE "info")
     /\ UNCHANGED <<harnessVars, on, peer, runtime, isInitialized, procVars>>

\* rpc.StartUp of the miner asks until a bitcoind answers: it takes neither a
\* context nor the deadline and returns no error.  Then the miner has its
\* runtime.
StartUp(t) ==
  LET n == on[t]
  IN /\ pc[t] = "startup"
     /\ \E j \in Incarnations : stage[n][j] = "up"
     /\ runtime' = [runtime EXCEPT ![n] = Current(n)]
     /\ IF isInitialized[n]
          THEN Goto(t, "idle") /\ Unlock(t)
          ELSE Goto(t, "first") /\ UNCHANGED on
     /\ UNCHANGED <<harnessVars, peer, isInitialized, timesStarted, procVars>>

\* initializeFirstRun of the miner: wallet, address and 101 blocks.
FirstRun(t) ==
  LET n == on[t]
  IN /\ pc[t] = "first"
     /\ stage[n][Current(n)] = "up"
     /\ isInitialized' = [isInitialized EXCEPT ![n] = TRUE]
     /\ Goto(t, "idle") /\ Unlock(t)
     /\ UNCHANGED <<harnessVars, peer, runtime, timesStarted, procVars>>

\* waitForTlsCert of lnd: the file of an earlier incarnation will do.
AwaitTls(t) ==
  /\ pc[t] = "tls"
  /\ "cert" \in disk[on[t]]
  /\ Goto(t, "dial")
  /\ UNCHANGED <<harnessVars, on, peer, nodeVars, procVars>>

\* grpc.DialContext with WithBlock: whichever incarnation holds the port.
Dial(t) ==
  LET n == on[t]
  IN /\ pc[t] = "dial"
     /\ \E j \in Incarnations :
          /\ stage[n][j] \in Listening
          /\ peer' = [peer EXCEPT ![t] = j]
     /\ Goto(t, "started")
     /\ UNCHANGED <<harnessVars, on, nodeVars, procVars>>

\* waitServerStarted: the stream of the peer delivered a state; the peer may
\* have died since (module WalletState).
AwaitStarted(t) ==
  /\ pc[t] = "started"
  /\ Goto(t, "wallet")
  /\ UNCHANGED <<harnessVars, on, peer, nodeVars, procVars>>

\* Fault: initWallet succeeds but is not recorded.
OpenWalletUnrecorded(t) ==
  LET n == on[t]
  IN /\ pc[t] = "wallet"
     /\ isInitialized[n] <=> "wallet" \in disk[n]
     /\ \E j \in Incarnations :
          /\ stage[n][j] = "rpc"
          /\ stage' = [stage EXCEPT ![n][j] = "open"]
          /\ peer' = [peer EXCEPT ![t] = j]
     /\ disk' = [disk EXCEPT ![n] = @ \cup {"wallet"}]
     /\ Goto(t, "active")
     /\ UNCHANGED <<harnessVars, on, nodeVars, spawned, signalled, announced>>

\* Fault: "wallet already unlocked" is taken for success.
OpenWalletLenient(t) ==
  LET n == on[t]
  IN /\ pc[t] = "wallet"
     /\ \E j \in Incarnations :
          /\ stage[n][j] \in Listening
          /\ stage' = [stage EXCEPT ![n][j] = IF @ = "rpc" THEN "open" ELSE @]
          /\ peer' = [peer EXCEPT ![t] = j]
     /\ disk' = [disk EXCEPT ![n] = @ \cup {"wallet"}]
     /\ isInitialized' = [isInitialized EXCEPT ![n] = TRUE]
     /\ Goto(t, "active")
     /\ UNCHANGED <<harnessVars, on, runtime, timesStarted, spawned,
                    signalled, announced>>

\* unlockWallet or initWallet, served by the incarnation that holds the port
\* while its wallet is closed; waitServerActive then subscribes to it.
OpenWallet(t) ==
  LET n == on[t]
  IN /\ pc[t] = "wallet"
     /\ isInitialized[n] <=> "wallet" \in disk[n]
     /\ \E j \in Incarnations :
          /\ stage[n][j] = "rpc"
          /\ stage' = [stage EXCEPT ![n][j] = "open"]
          /\ peer' = [peer EXCEPT ![t] = j]
     /\ disk' = [disk EXCEPT ![n] = @ \cup {"wallet"}]
     /\ isInitialized' = [isInitialized EXCEPT ![n] = TRUE]
     /\ Goto(t, "active")
     /\ UNCHANGED <<harnessVars, on, runtime, timesStarted, spawned,
                    signalled, announced>>

\* unlockWallet or initWallet took effect but returned an error (the reply was
\* lost, or the key could not be derived): isInitialized stays what it was.
OpenWalletLost(t) ==
  LET n == on[t]
  IN /\ pc[t] = "wallet"
     /\ isInitialized[n] <=> "wallet" \in disk[n]
     /\ \E j \in Incarnations :
          /\ stage[n][j] = "rpc"
          /\ stage' = [stage EXCEPT ![n][j] = "open"]
     /\ disk' = [disk EXCEPT ![n] = @ \cup {"wallet"}]
     /\ Interrupt(n, Current(n))
     /\ Fatalf(t)
     /\ UNCHANGED <<stoppables, tdPos, expired, cancelled, peer,
                    nodeVars, spawned, announced>>

\* waitServerActive: the stream of the peer delivered SERVER_ACTIVE, even if
\* the peer has died since (module WalletState).
AwaitActive(t) ==
  /\ pc[t] = "active"
  /\ peer[t] \in announced[on[t]]
  /\ Goto(t, "info")
  /\ UNCHANGED <<harnessVars, on, peer, nodeVars, procVars>>

\* The last steps of Start in lnd and cln: credentials, grpc.Dial and GetInfo
\* on whichever incarnation holds the port; then the node has its runtime.
GetInfo(t) ==
  LET n == on[t]
  IN /\ pc[t] = "info"
     /\ \E j \in Incarnations : stage[n][j] = "up"
     /\ runtime' = [runtime EXCEPT ![n] = Current(n)]
     /\ Goto(t, "idle") /\ Unlock(t)
     /\ UNCHANGED <<harnessVars, peer, isInitialized, timesStarted, procVars>>

\* Fault: waitForLog does not look at the deadline.
GivesUpBlind(t) ==
  \/ pc[t] \in {"first", "wallet", "info"}
  \/ pc[t] \in {"started", "active"} /\ stage[on[t]][peer[t]] \notin Alive
  \/ pc[t] \in {"tls", "started", "active"} /\ expired
  \/ pc[t] = "dial" /\ CtxDone

\* When Start gives up: an RPC fails, at the latest when its timeout or the
\* context ends it, the stream to the peer broke before it was subscribed to,
\* or the wait ran into the deadline.  waitForLog, waitForTlsCert and
\* waitServerState look at the deadline, dialling at the context; rpc.StartUp
\* of the miner never gives up.
GivesUp(t) ==
  \/ pc[t] \in {"first", "wallet", "info"}
  \/ pc[t] \in {"started", "active"} /\ stage[on[t]][peer[t]] \notin Alive
  \/ pc[t] \in {"log", "tls", "started", "active"} /\ expired
  \/ pc[t] = "dial" /\ CtxDone

\* What ends a wait on a file before the deadline: the log cannot be opened or
\* read, or the certificate that was parsed a moment ago cannot be read.
ReadFails(t) ==
  \/ pc[t] = "log"
  \/ pc[t] = "tls" /\ "cert" \in disk[on[t]]

\* Fault: lnd and cln give up without running the cleanups.
AbortLeaking(t) ==
  LET n == on[t]
  IN /\ IF n \in Miners
          THEN /\ runtime' = [runtime EXCEPT ![n] = 0]
               /\ Goto(t, "reap")
               /\ Interrupt(n, Current(n))
               /\ UNCHANGED <<on, failed>>
          ELSE Fatalf(t) /\ UNCHANGED <<runtime, signalled>>
     /\ UNCHANGED <<stoppables, tdPos, expired, cancelled, peer,
                    isInitialized, timesStarted, spawned, stage, announced, disk>>

\* PerformCleanup, then T.Fatalf; the miner drops its runtime first and waits
\* for its process in between.
Abort(t) ==
  LET n == on[t]
  IN /\ Interrupt(n, Current(n))
     /\ IF n \in Miners
          THEN /\ runtime' = [runtime EXCEPT ![n] = 0]
               /\ Goto(t, "reap")
               /\ UNCHANGED <<on, failed>>
          ELSE Fatalf(t) /\ UNCHANGED runtime
     /\ UNCHANGED <<stoppables, tdPos, expired, cancelled, peer,
                    isInitialized, timesStarted, spawned, stage, announced, disk>>

StartFails(t) == GivesUp(t) /\ Abort(t)
StartBreaks(t) == ReadFails(t) /\ Abort(t)

\* proc.Wait of the miner's cleanup returns inside a failing Start.
StartReaped(t) ==
  LET n == on[t]
  IN /\ pc[t] = "reap"
     /\ stage[n][Current(n)] = "gone"
     /\ Fatalf(t)
     /\ UNCHANGED <<stoppables, tdPos, expired, cancelled, peer,
                    nodeVars, procVars>>

-----------------------------------------------------------------------------
(* Stopping a node and tearing the harness down.                           *)

\* Fault: the check for a nil runtime is missing.
StopNodeUnchecked(t, n, done, waiting) ==
  /\ MutexFree(n)
  /\ Interrupt(n, runtime[n])
  /\ IF n \in Miners
       THEN Goto(t, waiting) /\ Lock(t, n) /\ UNCHANGED runtime
       ELSE /\ Goto(t, done)
            /\ runtime' = [runtime EXCEPT ![n] = 0]
            /\ UNCHANGED on

\* Stop of n inside the call that goroutine t is in, once n.mtx is free: a
\* no-op without a runtime; otherwise PerformCleanup and n.runtime = nil.  The
\* miner keeps runtime and mutex until its process is reaped (label waiting).
StopNode(t, n, done, waiting) ==
  /\ MutexFree(n)
  /\ IF runtime[n] = 0
       THEN Goto(t, done) /\ UNCHANGED <<on, runtime, signalled>>
       ELSE /\ Interrupt(n, runtime[n])
            /\ IF n \in Miners
                 THEN Goto(t, waiting) /\ Lock(t, n) /\ UNCHANGED runtime
                 ELSE /\ Goto(t, done)
                      /\ runtime' = [runtime EXCEPT ![n] = 0]
                      /\ UNCHANGED on

StopCall(t, n) ==
  /\ pc[t] = "idle"
  /\ n \in Registered
  /\ StopNode(t, n, "idle", "stopreap")
  /\ UNCHANGED <<harnessVars, peer, isInitialized, timesStarted, spawned,
                 stage, announced, disk>>

\* Fault: the miner's cleanup does not wait for the process.
StopReapedAtOnce(t) ==
  LET n == on[t]
  IN /\ pc[t] = "stopreap"
     /\ runtime' = [runtime EXCEPT ![n] = 0]
     /\ Goto(t, "idle") /\ Unlock(t)
     /\ UNCHANGED <<harnessVars, peer, isInitialized, timesStarted, procVars>>

\* proc.Wait of the miner's cleanup returns inside Stop.
StopReaped(t) ==
  LET n == on[t]
  IN /\ pc[t] = "stopreap"
     /\ stage[n][runtime[n]] = "gone"
     /\ runtime' = [runtime EXCEPT ![n] = 0]
     /\ Goto(t, "idle") /\ Unlock(t)
     /\ UNCHANGED <<harnessVars, peer, isInitialized, timesStarted, procVars>>

\* TearDown starts: the test function returned or unwinds after T.Fatalf.
TearDown ==
  /\ pc[Main] \in {"idle", "unwind"}
  /\ Goto(Main, "tear")
  /\ tdPos' = 1
  /\ UNCHANGED <<stoppables, expired, cancelled, failed, on, peer,
                 nodeVars, procVars>>

\* Fault: TearDown passes over a node whose mutex is held.
TearStopSkips ==
  /\ pc[Main] = "tear"
  /\ tdPos <= Len(stoppables)
  /\ \/ StopNode(Main, stoppables[tdPos], "tear", "tearreap")
     \/ /\ ~ MutexFree(stoppables[tdPos])
        /\ UNCHANGED <<pc, on, runtime, signalled>>
  /\ tdPos' = IF pc'[Main] = "tear" THEN tdPos + 1 ELSE tdPos
  /\ UNCHANGED <<stoppables, expired, cancelled, failed, peer,
                 isInitialized, timesStarted, spawned, stage, announced, disk>>

\* The loop over the stoppables: the next one is stopped.
TearStop ==
  /\ pc[Main] = "tear"
  /\ tdPos <= Len(stoppables)
  /\ StopNode(Main, stoppables[tdPos], "tear", "tearreap")
  /\ tdPos' = IF pc'[Main] = "tear" THEN tdPos + 1 ELSE tdPos
  /\ UNCHANGED <<stoppables, expired, cancelled, failed, peer,
                 isInitialized, timesStarted, spawned, stage, announced, disk>>

TearReaped ==
  LET n == on[Main]
  IN /\ pc[Main] = "tearreap"
     /\ stage[n][runtime[n]] = "gone"
     /\ runtime' = [runtime EXCEPT ![n] = 0]
     /\ Goto(Main, "tear") /\ Unlock(Main)
     /\ tdPos' = tdPos + 1
     /\ UNCHANGED <<stoppables, expired, cancelled, failed, peer,
                    isInitialized, timesStarted, procVars>>

\* All stoppables are stopped: logs are dumped, h.cleanup() runs (module
\* HarnessCleanup).
TearClean ==
  /\ pc[Main] = "tear"
  /\ tdPos > Len(stoppables)
  /\ Goto(Main, "clean")
  /\ UNCHANGED <<harnessVars, on, peer, nodeVars, procVars>>

\* h.cancel(), and h.mtx is released.
TearEnd ==
  /\ pc[Main] = "clean"
  /\ cancelled' = TRUE
  /\ Goto(Main, "over")
  /\ UNCHANGED <<stoppables, tdPos, expired, failed, on, peer,
                 nodeVars, procVars>>

\* TearDown was the last thing the test binary did: it exits without waiting
\* for the goroutines that are still there.
Exit ==
  /\ pc[Main] = "over"
  /\ pc' = [u \in Goroutines |-> "exit"]
  /\ on' = [u \in Goroutines |-> NoNode]
  /\ UNCHANGED <<harnessVars, peer, nodeVars, procVars>>

-----------------------------------------------------------------------------
(* The environment: daemons, the operating system and the clock.           *)

\* A booting daemon gets hold of its directory and port, which another
\* incarnation that is still alive would refuse it.
Serve(n, i) ==
  /\ stage[n][i] = "boot"
  /\ \A j \in Incarnations \ {i} : stage[n][j] \notin Alive
  /\ IF n \in LndNodes
       THEN /\ stage' = [stage EXCEPT ![n][i] = "rpc"]
            /\ disk' = [disk EXCEPT ![n] = @ \cup {"cert"}]
            /\ UNCHANGED announced
       ELSE /\ stage' = [stage EXCEPT ![n][i] = "up"]
            /\ announced' = [announced EXCEPT ![n] = @ \cup {i}]
            /\ UNCHANGED disk
  /\ UNCHANGED <<harnessVars, callVars, nodeVars, spawned, signalled>>

\* lnd reaches SERVER_ACTIVE after its wallet was opened.
Activate(n, i) ==
  /\ stage[n][i] = "open"
  /\ stage' = [stage EXCEPT ![n][i] = "up"]
  /\ announced' = [announced EXCEPT ![n] = @ \cup {i}]
  /\ UNCHANGED <<harnessVars, callVars, nodeVars, spawned, signalled, disk>>

Gone(n, i) ==
  /\ stage[n][i] \in Alive
  /\ stage' = [stage EXCEPT ![n][i] = "gone"]
  /\ UNCHANGED <<harnessVars, callVars, nodeVars, spawned, signalled,
                 announced, disk>>

\* A process crashes, obeys SIGINT, or is refused its directory or port.
Die(n, i) == Gone(n, i)

\* Fault: the process is started with exec.Command, without the context.
CtxKillUnbound(n, i) == FALSE /\ Gone(n, i)

\* exec.CommandContext kills the process once the context is done; its
\* watching goroutine needs the test binary.
CtxKill(n, i) == ~ Exited /\ CtxDone /\ Gone(n, i)

Tick ==
  /\ ~ expired
  /\ expired' = TRUE
  /\ UNCHANGED <<stoppables, tdPos, cancelled, failed, callVars,
                 nodeVars, procVars>>

-----------------------------------------------------------------------------

\* The steps of a goroutine inside a call it has made.
StartStep(t) ==
  \/ Spawn(t) \/ SpawnFails(t)
  \/ AwaitLog(t) \/ StartUp(t) \/ FirstRun(t)
  \/ AwaitTls(t) \/ Dial(t) \/ AwaitStarted(t)
  \/ OpenWallet(t) \/ OpenWalletLost(t) \/ AwaitActive(t)
  \/ GetInfo(t) \/ StartFails(t) \/ StartReaped(t)
TearStep == TearStop \/ TearReaped \/ TearClean \/ TearEnd
CallStep(t) == StartStep(t) \/ StopReaped(t) \/ (t = Main /\ TearStep)

\* The calls the test chooses to make.
Call(t) ==
  \/ \E n \in Nodes : NewNode(t, n) \/ StartCall(t, n) \/ StopCall(t, n)
  \/ t = Main /\ TearDown

Environment ==
  \/ \E n \in Nodes, i \in Incarnations :
       Serve(n, i) \/ Activate(n, i) \/ Die(n, i) \/ CtxKill(n, i)
  \/ Tick

Next ==
  \/ \E t \in Goroutines : Call(t) \/ CallStep(t) \/ StartBreaks(t)
  \/ Exit \/ Environment

Spec == Init /\ [][Next]_vars

\* Goroutines inside a call keep running, a blocked Lock is served in turn
\* (sync.Mutex is starvation free), the clock reaches the deadline and, as long
\* as the test binary lives, the watchers of exec.CommandContext run.  Daemons
\* owe nothing, no file has to become unreadable, and the test binary need
\* neither exit nor stay.
Fairness ==
  /\ \A t \in Goroutines : WF_vars(CallStep(t))
  /\ SF_vars(TearStop)
  /\ WF_vars(pc[Main] = "unwind" /\ TearDown)
  /\ WF_vars(Tick)
  /\ \A n \in Nodes, i \in Incarnations : WF_vars(CtxKill(n, i))

FairSpec == Spec /\ Fairness

-----------------------------------------------------------------------------
(* Properties.                                                             *)

\* Every process that is alive and was not sent SIGINT is somebody's: it is
\* the one n.runtime holds, so Stop will find it, or a Start that still holds
\* n.mtx is waiting for it.  No error path of the three Start functions
\* (PerformCleanup before each Fatalf) leaks a daemon.
Owned(n, i) ==
  \/ runtime[n] = i
  \/ i = spawned[n] /\ \E t \in Goroutines : on[t] = n /\ pc[t] \in StartLabels
NoStrayProcess ==
  ~ Exited => \A n \in Nodes : \A i \in Incarnations :
    stage[n][i] \in Alive /\ i \notin signalled[n] => Owned(n, i)

\* What a caller of Start and Stop may rely on (module NodeHandle), read off
\* the mutexes, the runtime and the processes.
Held(n, labels) == \E t \in Goroutines : on[t] = n /\ pc[t] \in labels
Phase(n) ==
  CASE Exited -> "lost"
    [] ~ Exited /\ Held(n, {"spawn"}) -> "starting"
    [] ~ Exited /\ Held(n, StartLabels \ {"spawn"}) -> "launched"
    [] ~ Exited /\ Held(n, ReapLabels) -> "stopping"
    [] ~ Exited /\ MutexFree(n) /\ runtime[n] # 0 -> "on"
    [] OTHER -> "off"
Loose(n) == \E i \in Incarnations : stage[n][i] \in Alive /\ i \notin signalled[n]
H(n) == INSTANCE NodeHandle WITH phase <- Phase(n), loose <- Loose(n)

\* Start, Stop and TearDown of every node implement the handle: no second
\* daemon is launched beside a living one, none comes into being outside a
\* Start, and each is told to stop before the call that gives it up returns,
\* on every interleaving and every error path.  (This is H(n)!Spec for every
\* node, with the quantifier inside the box.)
ImplementsHandle ==
  /\ \A n \in Nodes : H(n)!Init
  /\ [][\A n \in Nodes : H(n)!Next \/ UNCHANGED <<Phase(n), Loose(n)>>]_vars

\* A node whose Start returned holds its latest incarnation, and that very
\* incarnation (not a leftover of the one before, which lnd and cln do not
\* wait for in Stop) had become ready: it wrote its ready line or reported
\* SERVER_ACTIVE.  For lnd and cln only while the test has not failed: after a
\* failed initWallet another goroutine's Start can initialise and adopt the old
\* lnd, and after a wait that ended early the ready line of an old lightningd
\* is still uncounted, so that the next Start returns on it.
StartedWasReady ==
  \A n \in Nodes :
    runtime[n] # 0 =>
      /\ runtime[n] = spawned[n]
      /\ runtime[n] \in announced[n] \/ (n \notin Miners /\ failed)

\* The log never has fewer ready lines than timesStarted counts, or the next
\* waitForLog would wait for one too many; and it has exactly as many, or the
\* next one would return on an old line, unless a Start is waiting for its line
\* or giving its process up, the test has failed or the test binary is gone.
LogInStep ==
  \A n \in Nodes \ LndNodes :
    /\ timesStarted[n] <= Cardinality(announced[n])
    /\ \/ Cardinality(announced[n]) = timesStarted[n]
       \/ failed \/ Exited
       \/ \E t \in Goroutines : on[t] = n /\ pc[t] \in {"log", "reap"}

\* While the test has not failed, isInitialized says whether lnd has a wallet
\* on disk: a restart unlocks exactly when there is something to unlock.
WalletInStep ==
  \A n \in LndNodes :
    /\ isInitialized[n] => "wallet" \in disk[n]
    /\ ~ failed => ("wallet" \in disk[n] => isInitialized[n])

\* A miner that is neither started nor inside a call has no process left: its
\* Stop and its failing Start wait for bitcoind, so that a restart finds the
\* data directory unlocked.
MinerLeavesNothing ==
  ~ Exited => \A n \in Miners :
    runtime[n] = 0 /\ MutexFree(n) =>
      \A i \in Incarnations : stage[n][i] \notin Alive

\* Whenever TearDown goes on to the next stoppable, the node it leaves has no
\* process that was not told to stop, and a miner has no process at all: also
\* when another goroutine was inside a Start of that node when TearDown came to
\* it, for TearDown waits for the mutex.
TearDownStopsEach ==
  [][tdPos > 0 /\ tdPos' > tdPos =>
       \A n \in Nodes : n = stoppables[tdPos] =>
         /\ ~ Loose(n)'
         /\ n \in Miners => \A i \in Incarnations : stage'[n][i] \notin Alive]_vars

\* A Start of a miner asks a bitcoind that is gone for an answer.
Hung(t) ==
  /\ pc[t] = "startup"
  /\ \A i \in Incarnations : stage[on[t]][i] # "up"

InStartOrStop(t) == pc[t] \in StartLabels \cup {"reap", "stopreap"}

\* Every Start and every Stop ends, whatever the daemons do: each wait is cut
\* off by the deadline, directly or because the context kills the process.
\* The exception is rpc.StartUp, when bitcoind dies after its ready line and
\* before it answered.
CallsReturn ==
  \A t \in Goroutines : InStartOrStop(t) ~> ~ InStartOrStop(t) \/ Hung(t)

\* The same without the exception: what the deadline that basic_test.go gives
\* the harness is there for.
CallsCutOff == \A t \in Goroutines : InStartOrStop(t) ~> ~ InStartOrStop(t)

\* TearDown ends, even when a Start on another goroutine holds a mutex it
\* needs or a bitcoind does not react to SIGINT, unless that Start is the one
\* that rpc.StartUp keeps for ever.
TearDownReturns ==
  TearingDown ~> pc[Main] = "over" \/ Exited \/ \E t \in Goroutines : Hung(t)

\* No process outlives a completed TearDown for long if the test binary goes on
\* (with other tests), not even one that another goroutine started after
\* TearDown had already stopped its node.  TearDown does not wait for it: a test
\* binary that exits takes the watchers with it.
NothingOutlivesTearDown ==
  pc[Main] = "over" ~>
    \/ Exited
    \/ \A n \in Nodes : \A i \in Incarnations : stage[n][i] \notin Alive

\* No process outlives a test binary that ends before TearDown is over, through
\* log.Fatalf: what the deferred TearDown of basic_test.go is there for.
NothingOutlivesTest ==
  Exited /\ ~ cancelled ~>
    \A n \in Nodes : \A i \in Incarnations : stage[n][i] \notin Alive
=============================================================================
