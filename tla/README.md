# Verification of lntest

lntest is a Go test framework: it starts bitcoind, lnd and Core Lightning (cln)
daemons as processes of the operating system, wires them into a network of
Lightning nodes, and offers a test the operations it needs (fund a node, open a
channel, wait for it, pay). The daemons are somebody else's code; what lntest has
to get right is the *lifetime* of those processes, the *waits* for what they do
asynchronously, and the *cleaning up*, all of it against a deadline and against
daemons that die when they please. This directory holds TLA+ specifications of
those parts, their TLC configurations, and proofs checked by TLAPS.

Line numbers refer to the Go files in `src/`; the map from every definition to
the lines it models is in `PROJECT.json`.

## 1. Inventory

| Component | State | Operations | Modelled in |
|---|---|---|---|
| TestHarness, lifetime (`harness.go`, `cleanup.go`) | `stoppables` under `h.mtx`, `Ctx` with its deadline and `cancel` | `NewTestHarness`, `AddStoppable`, `TearDown`, `PerformCleanup` | Lifecycle, NodeHandle |
| TestHarness, files (`harness.go` 144-222) | registered logs, cleanables, `preserveLogs`, `preserveState`, the test directory | `cleanup` | HarnessCleanup |
| Miner (`miner.go`) | `runtime`, `isInitialized`, `timesStarted` under `m.mtx` | `NewMiner`, `Start`, `Stop` | Lifecycle, NodeHandle |
| LndNode (`lnd_node.go`) | `runtime`, `isInitialized` under `n.mtx`; wallet and TLS certificate on disk | `NewLndNode`, `Start`, `Stop` | Lifecycle, NodeHandle |
| ClnNode (`cln_node.go`) | `runtime`, `timesStarted` under `n.mtx` | `NewClnNode`, `Start`, `Stop` | Lifecycle, NodeHandle |
| Wallet state stream (`lnd_node.go` 756-808) | a receiving goroutine and two channels for each wait | `waitServerStarted`, `waitServerActive` | WalletState, LndWait |
| Log tailing (`waitForLog`, twice) | position in a growing file, matches counted | `waitForLog` | LogTail, LogWait |
| Output of the daemons (`cln_node.go` 126-190) | two pipes, their scanning goroutines, the goroutine of `cmd.Wait` | inside `Start` | ClnOutput |
| Channel readiness (`channel.go`, both nodes) | `ChannelInfo.FundingTxId`, shared by both ends | `OpenChannel`, `WaitForChannelReady`, `WaitForSync`, `MineBlocks` | ChannelReady (partly) |
| Invoices and payments | none of its own; invoice and payment live in the daemons | `CreateBolt11Invoice`, `Pay`, `GetRoute`, `PayViaRoute`, `GetInvoice` | Payments, PaymentPromise (partly) |
| On-chain funds | none of its own | `Fund`, `SendToAddress`, `GetNewAddress`, `ConnectPeer` | Payments, Conversions (partly) |
| Channel details and short channel ids (`lightning_node.go`) | pure functions | conversions, `GetChannels` | Conversions (partly) |
| Ports, binaries, flags (`test_common.go`) | the ports of the host, the deadline | `GetPort`, `getTimeoutSeconds` | WalletState, Conversions (partly) |
| Node features, custom messages | - | copies of one reply or request | not modelled |
| Macaroons, generated gRPC stubs | - | - | not modelled |

**How they interact.** A test constructs nodes (`New...` registers the node with
the harness under `h.mtx`), starts and stops them, possibly from several
goroutines, and defers `TearDown`. `TearDown` keeps `h.mtx` while it calls `Stop`
of each node, and `Stop` needs the node's own mutex, which a `Start` on another
goroutine may hold for as long as its waits take. Every process is started with
`exec.CommandContext(h.Ctx)`, so the deadline and `h.cancel` kill it; the same
deadline also ends the polling loops. `T.Fatalf` unwinds the goroutine that calls
it (the deferred unlocks run, on the test's own goroutine the deferred `TearDown`
as well); `log.Fatalf` ends the program with nothing deferred. The two ends of a
channel share one `ChannelInfo`. Everything else a test asks of a node is one or more
requests to its daemon, which goes on with what it was asked whatever becomes of the call.

**What is hard.** Concurrent `Start`, `Stop` and `TearDown`; a new incarnation of a
daemon that is started while the old one, signalled but not waited for, still
holds directory and port; a dozen error returns in `Start`, each of which must undo
what was begun; what the node remembers about its daemon (`isInitialized`,
`timesStarted`) against what is on disk; a log that is read while it is written;
two reads of a daemon that do not belong together; a deadline that strikes between
any two steps; file operations of the cleanup that fail one by one; a stream that breaks,
or says its last word, when nobody listens any more; a port that somebody else takes
before the daemon does; a payment that goes on after the call that asked for it has
returned an error. `PROJECT.json`
lists every such hazard at its line, with the properties that cover it.

**What makes each component correct.**

- *Lifetime*: no process is ever leaked (each is in `n.runtime`, or in the hands of
  a `Start`, or was signalled); `Start` returns only with a ready incarnation of its
  own; memory and disk agree; every call and `TearDown` end; `TearDown` passes no node
  whose daemon was not told to stop.
- *Log tailing*: returns only when there is a new ready line, and does when there is.
- *Wallet state stream*: gets on only on the word of the node's own daemon, misses no
  state while the stream stands, leaves no goroutine behind.
- *Output*: emptying the pipes never holds the daemon up; the scanners end with it.
- *Payments*: a result is true and not early, also after timeouts and retries; routes,
  amounts and timeouts survive the forms they are converted to and from.
- *Channel readiness*: returns only when both ends can use the channel, and returns
  unless the deadline passes; `WaitForSync` does not return behind the chain.
- *Cleanup*: whatever fails, the rest is still done; logs that are to be kept are kept.

## 2. Modules

### Lifecycle

State: the variables of the Go structs (`stoppables`, `runtime`, `isInitialized`,
`timesStarted`), for each goroutine where it is (`pc`) and the node whose mutex it
holds (`on`), and the processes. The *i*-th process spawned for a node is its
incarnation *i*; `runtime[n] = i` says that `n.runtime` holds it, 0 is nil. A
process goes through `boot`, `rpc`, `open`, `up` (lnd: gRPC serves, wallet opened,
`SERVER_ACTIVE`) or `boot`, `up` (bitcoind, lightningd), and is `gone` in the end.

`Start` takes one action per point at which another goroutine or the daemon can
come in between:

| Action | Code |
|---|---|
| `StartCall` | lock, nil check |
| `Spawn`, `SpawnFails` | `cmd.Start` and its failure, `log.Fatalf` for lnd |
| `AwaitLog`, `StartUp`, `FirstRun` | `waitForLog`; the miner's `rpc.StartUp`, which nothing cuts off, and `initializeFirstRun` |
| `AwaitTls`, `Dial`, `AwaitStarted`, `OpenWallet`, `OpenWalletLost`, `AwaitActive` | lnd's certificate, connection, wallet state, `initWallet` or `unlockWallet`, which may take effect and still return an error |
| `GetInfo` | the last steps of lnd and cln; sets `n.runtime` |
| `StartFails`, `StartBreaks`, `StartReaped` | any error return (`GivesUp`: a wait that is over, a request that fails; `ReadFails`: a log or a certificate that cannot be read): `PerformCleanup`, then `T.Fatalf` (`Abort`) |

`StopNode` is `Stop` with the caller's labels, used by `StopCall` and by the loop of
`TearDown` (`TearStop`). After `TearDown` the test binary may `Exit`, with every goroutine,
since `h.cancel()` is the last thing it does. The miner's cleanup waits for its process (`...Reaped`
actions), those of lnd and cln return at once: `<-done` is only reached when there
is no process. Unix and the daemons are the environment: `Serve` (a booting daemon
gets directory and port once no other incarnation is alive), `Activate`, `Die` (at any
moment, for any reason), `CtxKill`, `Tick`.

`Dial`, `OpenWallet` and `GetInfo` speak to *whichever incarnation holds the port*,
never to "the" process of this start: that the code gets its own incarnation is a
property (`StartedWasReady`), not an assumption. `AwaitStarted` and `AwaitActive` look at
what the stream of that incarnation has delivered, which it may have done just before
it died; what the two waits really do is in `WalletState`.

- `NoStrayProcess`: a living process that was not sent SIGINT is the one in
  `n.runtime`, or the goroutine that holds the mutex is still starting it.
- `TearDownStopsEach`: `TearDown` leaves no stoppable while a process of it is alive that
  was not told to stop, and no miner while it has a process at all: also when another
  goroutine was inside `Start` of that node.
- `StartedWasReady`: a runtime is the latest incarnation, and that one had become
  ready. For lnd and cln this is claimed until the test has failed. Once `initWallet` has
  failed on one goroutine, the `Start` of another can reach the old lnd, which still
  serves, initialise and adopt it. Once a wait for the log of cln has ended early, by a read error
  or at the deadline, the old lightningd may still write the ready line that was not
  counted, and the next `Start` returns on it. A miner is safe from this, because
  its failing `Start` waits for the process to end and because `rpc.StartUp` asks the
  daemon itself.
- `WalletInStep`: `isInitialized` says whether there is a wallet on disk, as long as
  the test has not failed.
- `LogInStep`: `timesStarted` never exceeds the ready lines in the log; it equals them
  when no `Start` is waiting for a line, as long as the test has not failed.
- `MinerLeavesNothing`: a stopped miner has no process left.
- `CallsReturn`, `TearDownReturns`: every `Start`, `Stop` and `TearDown` ends, whatever the
  daemons do, with one exception: `Hung`, a miner whose `rpc.StartUp` asks a
  bitcoind that is gone. `CallsCutOff` is the first without the exception and fails, see the findings.
- `NothingOutlivesTearDown`: if the test binary goes on after `TearDown` no process does.
  `TearDown` waits for no process after `h.cancel()`; a binary that exits at once takes
  the watchers with it, and then only the SIGINT they were sent ends the daemons.
- `ImplementsHandle`: every node is a `NodeHandle`, see below.
- `NothingOutlivesTest`: fails, see the findings.

### NodeHandle

What a caller relies on, for one node and whatever its kind, in two variables: the
`phase` (off, starting, launched, on, stopping, or lost when `log.Fatalf` has ended the
program) and whether a living daemon of the node is `loose`, not told to stop. A daemon
comes into being only inside a `Start`, never beside a loose one, and is told to stop
before the call that gives it up returns. In `Lifecycle`, `Phase(n)` is computed from
`pc`, `on` and `runtime`, and `Loose(n)` from the processes and the signals sent; the
mutexes, the incarnations and all the waits are hidden.

### WalletState and LndWait

`Start` of lnd from the dial to `waitServerActive`. Each of the two waits subscribes to the
wallet states and starts a goroutine that receives them; it reports through `errChan`
(capacity 1) and by closing `done`; `Start` selects between the two and the timer.
`Subscribe`, `Recv`, `RecvError`, `SelectError`, `SelectDone` and `SelectTimeout` are these
statements, one for each point where the goroutines can interleave. `GetPort` has closed its
listener long before lnd binds the port (`test_common.go:49`), so the daemons of other
nodes may hold it; they speak the same protocol, and the connection reconnects by
itself. What keeps them apart is the certificate, read from the node's own directory:
`Peers`.

- `ImplementsLndWait`: the two waits do what `Lifecycle` takes for granted: `Start` gets
  past a wait only when its own daemon has reached that state, and opens no other wallet.
- `NothingMissed`: while the stream stands, a state that ends the wait is on its way to a
  receiver that still listens, or `done` is closed.
- `ReceiversEnd`: no goroutine is left behind, also when the stream breaks after the wait
  has ended and nobody reads `errChan` any more.
- `StartEnds`: the deadline ends `Start` although the loop goes on after an error.
- `TypeOK` says of `errChan` that its capacity is never exceeded.

### LogTail, LogWait and ClnOutput

`LogTail` is `waitForLog` down to `ReadString`: a line is a sequence of pieces (the
phrase is two of them), and when the daemon's write becomes visible in pieces the
reader gets a fragment at the end of the file, looks for the phrase in it and
forgets it. `LogWait` is the contract `Lifecycle`'s `AwaitLog` builds on: nil is
returned only when the log has more ready lines than `timesStarted`.
`ImplementsLogWait` is the refinement, for lines written whole or torn.
`ReadyIsFound` and `CountsConsumed` are claimed for lines written whole only: of a torn
ready line the code can see both halves and recognise neither. `WaitIsCutOff`: the deadline
ends both loops.

`ClnOutput` extends `LogTail` with the other half of cln's `Start`: stdout and stderr are pipes
that scanner goroutines empty while a third one calls `cmd.Wait`, which closes them. The
daemon writes its log and its output one after the other, so a pipe nobody empties
keeps the ready line from being written. `DaemonNotHeldUp`: it is held up for good only by a
line above `bufio.MaxScanTokenSize`, after which `Scan` returns false and the goroutine returns while the
daemon goes on writing. `ScannersEnd`: the
scanners end with the daemon, even if a plugin keeps the pipe open. `OutputTypeOK` says
besides the types that the read end is closed only when the daemon is gone. (The miner's
output is discarded, lnd's goes to a file.)

### ChannelReady

`OpenChannel`, then `ChannelInfo.WaitForChannelReady` a number of times: the end
`from`, then the end `to`, each an lnd or a cln node (chosen in `Init`). The chain is
abstracted to what the polls tell apart: whether the funding transaction is
confirmed, whether a daemon is behind the tip, whether it has seen the confirmation
and its peer's `channel_ready`. `FundingTxId` is abstracted to its byte order, because
that is what the code changes: `ClnNode.WaitForChannelReady` reverses the shared
slice in place at every poll. `ListChannels` and `PendingChannels` of lnd are two
actions, as are the two reads of `WaitForSync`; other goroutines mine in between.

- `ReadyOnBothEnds`: the call returns only when both daemons have locked the channel in.
- `SyncCatchesUp`: `WaitForSync` returns with the daemon at the tip although it compares
  two heights read at different times (the second one is the chain's, which only grows).
- `EndBecomesReady`: the wait for each end comes to an end when nobody fails, unless a
  cln node polled before an lnd node.
- `EndsAfterDeadline`: the deadline ends every wait.
- `BecomesReady`, `NoPanic`: fail, see the findings.

### HarnessCleanup

`h.cleanup` with one action per operation on the file system. `faults` is a set of
operations, chosen in `Init`, each of which may fail whenever it is tried. Where an
operation depends on an earlier one (`Rename` of a directory that was never made,
`Mkdir` of one that `RemoveAll` left behind) it fails by itself. When `MkdirTemp` has failed, the logs
are "moved back" from the relative path `logs`; `ownLogs` is the directory of that name which
the working directory may have.

- `StateKept`: with `preserveState` nothing is moved, deleted or called.
- `CleanedUp`: otherwise every cleanable was called, state of a node is left only where
  the deletion of the test directory may fail, and a temporary directory only where its own,
  deferred deletion may.
- `LogsPreserved`: with `preserveLogs` every log that could be copied is in place at
  the end, whatever fails except making or moving a directory; nor is the working
  directory's own `logs` then taken for the saved ones.
- `Completes`: `TearDown` cancels the context in the end.
- `LogsSaved`, which is `LogsPreserved` without its exception, fails: see the findings.

### Conversions

Pure operators, without variables: a channel id as number, string and three fields; the
delay cut to 16 bits; the amount in satoshi as the decimal string bitcoind takes; the time
left in whole seconds. Widths are constants (a shift is a product or a quotient, a
conversion to a narrower type a remainder), so that TLC works at small widths and the
proofs hold at any. Powers of ten and the reading of a fraction are recursive functions, not operators,
which the prover could not look into.

### Payments and PaymentPromise

One test, two nodes of either kind, one invoice: `Fund`, `CreateBolt11Invoice`, then `Pay`, or
`GetRoute` and `PayViaRoute`, the latter as often as `MaxTries`; another goroutine calls
`GetInvoice` meanwhile. `invoice`, `payment` and `htlc` live in the daemons. A timeout ends
a call, never the payment: `PayViaRoute` returns an error while the HTLC is under way, the
test calls it again (`Retry`) and is answered with the payment it already made. cln works
with a timeout in whole seconds and retries by itself (`ClnRetries`), lnd until the context
ends. A request may also fail at any time (`RequestFails`). `reply` is what the daemon's reply said of the
payment a result was made of: complete, but for cln's `Pay`, which takes any status
(`PayReplyUnread`). `Told` is a result that stands for a payment made: each of lnd, each of
`PayViaRoute`, and of cln's `Pay` where the unread status was complete. `Found` is a route as the daemon reports it, `HopOf` its conversion to a `Hop`, `Requested`
the conversion back.

- `ImplementsPromise`: `PaymentPromise` allows such a result only after the payee was paid, and an answer of `GetInvoice` only if it was so when
  it was given.
- `ResultIsTrue`: the payment is then complete, and the result names what was received, spent,
  and the payee. Of the other results of cln's `Pay` nothing of the kind is true: see section 4.
- `RouteKept`: `PayViaRoute` asks for the hops `GetRoute` found, as long as the delays fit.
- `FundedExactly`: the amount arrives to the satoshi.
- `GivesUpInTime`, `CallsEnd`: cln gives up before the harness does and less than a second
  before; no call stays. A call that ends in a nil dereference (`Panic`, see section 4) has ended.

Definitions with a comment that begins `Fault:` are not part of any specification.
Each is the definition below it with one plausible mistake; replacing the
one by the other must violate a property. `PROJECT.json` lists them as mutants.

## 3. Runs

| Run | Bounds | Shows |
|---|---|---|
| `lifecycle_all` | any two of a miner, an lnd and a cln node; 2 goroutines; 1 incarnation each; with fairness | no error path leaks a daemon, with `TearDown` going on at the same time; each node `TearDown` passes was told to stop; calls, `TearDown` and processes end |
| `lifecycle_one` | one node of any kind; 2 goroutines; 3 incarnations | restarts: what survives from one incarnation to the next; the node is a `NodeHandle` |
| `lifecycle_exit` | a miner and an lnd node; 1 goroutine | violation of `NothingOutlivesTest` |
| `lifecycle_startup` | a miner; 1 goroutine; 1 incarnation | violation of `CallsCutOff` |
| `wallet_state` | the node's daemon and a rival on its port | the two waits keep their contract, miss nothing and leave no goroutine |
| `cln_output` | second start; 1 earlier ready line, 3 new lines, whole or torn; 3 lines of output into a pipe that takes one | `waitForLog` keeps its contract while the output is read |
| `ready` | all four pairs of kinds, 2 calls, 2 blocks mined by others | channel readiness |
| `ready_mixed` | all pairs, 1 call | violation of `BecomesReady` |
| `ready_panic` | all pairs, 1 call | violation of `NoPanic` |
| `cleanup_faults` | 2 logs, 2 cleanables, any of the 2048 sets of faults, with and without `logs` in the working directory | cleanup whatever fails |
| `cleanup_save` | only saving the logs fails | violation of `LogsSaved` |
| `payments` | both kinds on both sides, 1 or 3 hops, heights 2 and 20 with delays below 8, 1.5 seconds, 2 tries | results, answers, routes, amounts and timeouts |

**Why these bounds are enough.** Nodes share nothing but the harness, so the interplay with
`TearDown` needs an element of its list it has passed and one it has not: two nodes,
of any kinds (`MaxNodes` bounds how many of the three are constructed). Two goroutines are the
test's own, which tears down, and another one that is inside a call meanwhile; a third
would only wait for the same mutexes. Three incarnations are the one that is being
started, an old one that still serves and one that is already gone; with one node, since
another one only adds interleavings. One rival is enough in `WalletState`, as a port has one
holder; a second would be turned away like the first. In `cln_output` an earlier ready line
tells `timesStarted` from its successor, three new lines leave room for one in
between and a torn one, and a pipe that takes one line is full as soon as it holds
any. In `ChannelReady` the parity of cln's polls matters, and the second call
starts from either. In `HarnessCleanup` two elements are a first and a last one. In
`Payments` one hop and three are the route without and with forwarding nodes, where the
last two amounts differ from the first; the heights lie on either side of what `Hop.Delay` holds;
a deadline of an odd number of half seconds has a rest that is cut off; the funds are
0.05, 1.00, 2.05 and 3.50 at two decimal places: fractions with a leading zero, of zeros
and without. The proofs of section 5 do without bounds for the
properties they state.

`CHECK_DEADLOCK FALSE` is set everywhere because these systems stop: a test ends, a
call returns. That nothing stops too early is what the liveness properties say.

**Fairness.** `Lifecycle`: a goroutine inside a call keeps running (weak fairness of
`CallStep`); a `Lock` that is tried again and again is granted in the end (strong
fairness of `TearStop`: `sync.Mutex` hands the lock to a waiter after a millisecond,
so others cannot overtake it for ever); an unwinding test function runs its deferred `TearDown`; the clock
reaches the deadline; the goroutine of `exec.CommandContext` that kills the process
runs as long as the test binary lives. Daemons owe nothing, not even an answer: `CallsReturn` holds by the deadline
alone. No file has to become unreadable (`StartBreaks`), the test is never obliged to call
anything, and its binary neither to exit nor to live on. `ChannelReady`: the test keeps
running, daemons catch up with the chain and deliver `channel_ready`; without these two a wait for a
channel can only end at the deadline, and whether it ends earlier is the
question. The clock owes nothing there. `WalletState`: `Start` and the receiving goroutines
run, the clock reaches the deadline; daemons owe nothing, not even to bind the port.
`ClnOutput`: the reader of the log, the scanner and the goroutine of `cmd.Wait` run, and a write
to a pipe that has room is carried out; the daemon, its plugin and the clock owe
nothing. `Payments`: a request whose payment is complete, or that has run out of time, returns, and
the clock runs; no request has to fail or to be answered earlier, and daemons, routes and the goroutine that asks owe nothing. `HarnessCleanup`: the
code keeps running.

## 4. Findings

1. `src/lnd_node.go:157` (`lifecycle_exit`): when `cmd.Start` of lnd fails, `log.Fatalf`
   ends the program. The deferred `TearDown`, which the tests rely on to stop every
   node (`src/basic_test.go:12`), does not run and the watchers of
   `exec.CommandContext` end too; a bitcoind that was started keeps running, or an lnd that
   has not obeyed its SIGINT.
2. `src/miner.go:154` (`lifecycle_startup`): `rpc.StartUp` is given neither the context nor
   the deadline, and returns no error. When bitcoind ends between its ready line and
   its first answer, `Start` never returns, keeps `m.mtx`, and `TearDown` waits for it: the
   deadline of `src/basic_test.go:10` does not bound the test. (What `StartUp` does is the
   library's; modelled is how the source uses it.)
3. `src/cln_node.go:482` (`ready_mixed`): `reverseBytes(channel.FundingTxId[:])` works
   on the shared slice. After an odd number of polls by cln, lnd looks for a
   transaction that does not exist and polls until the deadline. Between two cln
   nodes it costs a polling interval; between lnd (first) and cln it happens to work
   once.
4. `src/lnd_node.go:365` and `src/cln_node.go:371` (`ready_panic`): `WaitForSync` drops
   the error of `GetInfo`; whatever made it fail, the nil answer is dereferenced and the test
   ends in a panic. One cause is always ahead: its context ends at the deadline, where "timed
   out waiting" was meant to be said.
5. `src/harness.go:188` (`cleanup_save`): when the logs cannot be moved to the temporary
   directory, which is the case whenever that is on another file system, the
   cleanup goes on and deletes them, under a comment that says "Save the logs from
   being deleted."

**Seen while modelling, not backed by a run.** Three are in the models, and each is visible in
one expression of the source:

- `harness.go:216`: when `MkdirTemp` fails, `tempDir` is empty and "Move back the preserved
  logs" takes the directory `logs` of the working directory, if there is one, into the test
  directory (`RestoreLogs`).
- `cln_node.go:564`: `ClnNode.Pay` makes a `PayResult` of every reply and never reads its
  status, which may be pending or failed (`cln/node.pb.go:1082`); the result looks like that of
  a payment that was made, and `Pay` has no error to return (`PayReplyUnread`).
- `cln_node.go:704`: `ClnNode.GetInvoice` dereferences the amount received, which the reply
  carries only when the invoice is paid: the test dies when it asks for an open one, although the
  answer has a field to say so (`lightning_node.go:113`). `LndNode.Pay` and `PayViaRoute`
  (`lnd_node.go:557`, 624) do the same with `PaymentRoute` of an answer that carries a
  `payment_error` (`GetInvoice`, `PaymentError`).

The others are left out of the models, because no document says what the value should be or
no second state depends on it: `LocalSpendableMsat` subtracts a reserve in
millisatoshi from a balance in satoshi (`lnd_node.go:726`); `mapFeatures` numbers the bits from
the first byte of a big-endian vector (`cln_node.go:758`); `ExpiresAt` is
a point in time for cln, for lnd it is `Expiry`, a duration (`lnd_node.go:657`); lnd's `PayViaRoute` sends no totals
(`lnd_node.go:599`); `Hop.Delay` and `Hop.AmountMsat` do not mean the same for lnd and cln, so
that a route can only be used with the kind of node that found it; the flags read in
`test_common.go:95-125` are pointers that are never nil, so that the search of the path
behind them is not reached; `GetTestRootDir` tests `err != nil` the wrong way
round (`test_common.go:66`).

## 5. Proofs

All theorems hold for every value of the constants that satisfies the named
assumptions of the module (`NodesAssumption`: the kinds are disjoint and `NoNode` is
none of them; `GoroutineAssumption`: `Main` is a goroutine; the rest say that bounds
are natural numbers).

**LifecycleProofs.** `TypeCorrect` (`TypeOK`) needs
`TypeInv == TypeOK /\ Holding /\ Begun /\ AtStoppable`. `TypeOK` is not inductive: it
says nothing of `on[t]` when `Spawn` uses it as a node. `Holding` says that a goroutine
holds a mutex exactly inside `Start`, `Stop` or the wait of `TearDown`; `Begun`, that past
`cmd.Start` there is an incarnation; `AtStoppable`, that `TearDown` is at an element of
its list.
`NoStray` (`NoStrayProcess`) needs in addition `Exclusive` (one holder per mutex),
`Unborn` (no process beyond the last one spawned), `RuntimeLatest` (a runtime is nil or
the latest incarnation) and `SpawnClean` (before `cmd.Start` the runtime is nil and what
lives of the node was signalled). The argument: a process is born in the hands of the
goroutine that holds the mutex; only that goroutine can end its `Start`, by signalling
it or by storing it in `runtime`; a runtime is dropped only by code that signals; and a
new incarnation is spawned only when `SpawnClean` holds, so the old one is not lost by
counting on. `MutexKept` and `StopCases` are the lemmas the steps share. `MutexFreed`
follows from `Holding` and `Exclusive`: a goroutine outside `Start`, `Stop` and `TearDown` holds no
node's mutex, and no two hold the same (`MutexReleased`), so that whichever way a call ends, the
next one can lock the node.

**LifecycleHandleProofs.** `HandleKept` (`ImplementsHandle`): every step of `Lifecycle` is, for each
node, a step of `NodeHandle` or a stutter. It needs `HandleInv`: `StrayInv`, the invariant of
`NoStray`, with `AllExited` (`log.Fatalf` leaves no goroutine behind), `SignalledBorn` (only
what was spawned is signalled), `NilRuntime` (no runtime while a `Start` has yet to set it) and
`FirstIsMiner`. Both ways out of the binary, `log.Fatalf` and `Exit`, lead to the phase "lost" (lemma
`Lost`). `HeldPhase` and `FreePhase` say what `Phase(n)` is, from the label of the
goroutine that holds the node's mutex, or from the runtime when nobody does; `Enters`,
`Launches`, `Proceeds`, `Succeeds`, `Abandons`, `Stops`, `Reaps`, `Idles` and `Quiet` are the ways in
which an action can move one node and leave the others, and the proof assigns each
action of `Next` to one of them.

**LifecycleRestartProofs**, what the next `Start` finds. `WalletKept` (`WalletInStep`): `initWallet` is
the only step that makes a wallet, and the mutex keeps `isInitialized` from being read
before it is set. `MinerLeft` (`MinerLeavesNothing`) from `MinerInv`: a living process
of a miner is the one in the runtime, or the last one spawned while a call holds the mutex
(`LoneAt`), because its cleanup waits. `LogKept` (`LogInStep`) from `NeverAhead`, which holds always, and
`LogInv`, which holds until the test has failed (`failed` never goes back: `FailedStays`): while a `Start` waits for the
log, every ready line but that of the last incarnation was counted (`Awaited`), otherwise
all were (`Counted`), and no earlier incarnation boots any more to write
another; it counts elements of finite sets, hence `FiniteSetTheorems`. `ReadyWhenStarted` (`StartedWasReady`) from
`StartInv`: for lnd, every incarnation before the last had become ready (`AllReady`), so
that a closed wallet can only be that of the last one, which is therefore the one `OpenWallet`
reaches; for lightningd, `LogInv` says that the new line `waitForLog` found is that of the last
incarnation; for bitcoind, also after a failure, `MinerInv` says that only the last one is alive to
answer `rpc.StartUp`, and `UpInv` that it has written its line. `TearDownStops` (`TearDownStopsEach`): the
mutex that `TearStop` takes is free, hence no `Start` has hold of a process (`NoStray`), and what
the runtime held was just signalled; a miner's process is gone by `MinerInv`.

**ChannelReadyProofs.** `TypeCorrect` (`TypeOK`, with `Counting`: a round is counted only
while one is left). `SyncCaughtUp` (`SyncCatchesUp`) from `ChainInv`: no daemon sees more
than the chain, one that is not behind has seen the confirmation, and an answer of
`GetInfo` that still is the chain's height comes from a daemon that is not behind.
`Ready` (`ReadyOnBothEnds`) from `Waited`: an end that was waited for stays locked in
while the other one is waited for.

**HarnessCleanupProofs.** `TypeCorrect` (`TypeOK`, with `InLoop`: the index stays inside the
loop the code is in). `LogsAreKept` (`LogsPreserved`) from `LogsOnTheirWay`, which says for
every point of `h.cleanup` where the logs are, that there is a directory to put them
back into, and that the files up to the index were copied or skipped, and from `OwnInv`: the
move back comes only after a temporary directory was made. `StateIsKept` (`StateKept`) and
`AllCleanedUp` (`CleanedUp`) from `StateInv` and `CleanInv`, which say at which label what has been moved,
called and deleted.

**WalletStateProofs.** `TypeCorrect` (`TypeOK`) needs `Fresh`: before a wait subscribes its
`errChan` is empty and its receiver does not exist, so that the one error the receiver sends
finds room. `WaitsForOwnDaemon` (`ImplementsLndWait`) from `ReportInv`: whatever a stream delivers, or
a closed `done` stands for, its daemon has reached; the state of a daemon never goes back,
so that a late report is still true. `StatesAreNotMissed` (`NothingMissed`) with `Listening`: while the
stream stands, a receiver that has ended has closed `done`.

**ClnOutputProofs**, for any `TimesStarted`, any earlier log and a pipe of any capacity. Every step of
`ClnOutput` is a step of `LogTail` or leaves it alone (`OutputIsTail`), so what is proved of
`waitForLog` holds next to the pipes. The log grows while it is read; the arguments are about the part
before `pos`, which no longer changes (`LogGrows`). `OutputLogWaitKept` (`ImplementsLogWait`) from
`CountInv`: what the reader has counted is no more than the occurrences of the phrase before `pos`, and
a line that matches adds one (`ReadFindsMore`). It needs no whole lines: a fragment that contains
the phrase is in the log, too. `OutputEveryLineCounted` (`CountsConsumed`) does need them, hence `LineInv`: nothing
is half written, a ready line is complete (`WholeLines`), and the reader stands between two lines;
then one `ReadString` consumes at most one ready line (`OneReadyLine`).
`OutputNoneOverlooked` concludes that, of whole lines, `waitForLog` goes on only while the log it has read to its end
holds too few ready lines (`NoneOverlooked`): a ready line has as many second halves as first ones.
`OutputTypeCorrect` (`OutputTypeOK`) from `TailInv` and `PipeInv`.

**PaymentsProofs**, first the conversions. `IntRoundTrip` and `StringRoundTrip`: a channel id survives the
way through a number and a string, at any widths; `Euclid` is the fact about quotient and remainder
they need, and `ScidOfEveryInt` says that every number below the product of the widths is a channel
id. `AmountRoundTrip`: `ParseAmount(FormatAmount(sat)) = sat` for every `sat` and any
number of decimal places. Powers of ten and the value of a decimal fraction are recursive functions, and the
library's induction theorems cannot be instantiated here; the proof does the induction with sets instead:
a set of numbers that holds 0 and with *k* also *k + 1* holds all up to *n* (`UpTo`, from
`Least`), and `Recursion` shows in this way that the function a recursive definition chooses exists.
`Padded` says that the digits with their leading zeros are those of `Expansion`, `ReadSoFar` what has been read
after *k* of them.

Then the payments. `ResultsAreTrue` (`ResultIsTrue`), about results that are `Told`, from `PayInv`: the amount received is
that of a paid invoice (`InvoiceInv`), an HTLC on its way back means a paid one (`HtlcInv`), and
so does a complete payment, with which the total was spent (`SpentInv`) and which nothing undoes. `ReplyInv` keeps the results of cln's `Pay` apart from those of `PayViaRoute`: a test that
has a result makes no other call. `ClnGivesUpInTime`
(`GivesUpInTime`) is arithmetic of `TimeoutSeconds`. `RoutesAreKept` (`RouteKept`) rests on the round trips
of channel ids and on `RouteInv`: from `GetRoute` on, `route` is the found one. `FundsArrive` (`FundedExactly`)
is `AmountRoundTrip` at the one step that moves funds. `TypeCorrect` (`TypeOK`) collects these invariants with
`ShapeInv`; that cln's timer fits follows from `TimeInv`. `PromiseKept` is the
refinement of `PaymentPromise`.

**Only model-checked.** Every liveness property, since the prover handles neither
fairness nor `ENABLED`: that something ends, is found or is answered. Of some of them the
safety part is proved: `MutexReleased` for `TearDownReturns` and `NoneOverlooked` for `ReadyIsFound`. Every
invariant, action property and refinement that a passing run checks has its theorem.

## 6. Not modelled

- Within the modelled parts: a process id that is used again before the signal is sent;
  panics on other goroutines; log files registered under one name; `dumpLogs`, which
  prints; what else a test binary that goes on after `TearDown` does to a second harness; reads of
  `n.runtime` without the mutex by the RPC methods (they are listed as a hazard). The
  short channel id `WaitForChannelReady` returns is left out of `ChannelReady`, as is a
  node that is restarted during the wait. A rival on the port is modelled for lnd only.
  Hashes, preimages, descriptions and times of an invoice are left out of `Payments`.
- Single requests (`SendToAddress` of the nodes, `GetNewAddress`, `ConnectPeer`, `GetChannels`, features,
  custom messages): no state, and nothing to interleave with beyond what the daemon does.
  A model would copy one reply.
- Macaroon metadata, look-ups of flags and binaries: no behaviour.
- The files `src/cln/*.pb.go`, `src/lnd/*.pb.go` and their gRPC stubs, some 57,000 of the 60,000 lines of
  Go here, are written by protoc: message structs, accessors and client stubs
  without control of their own. A definition that claimed to model them would translate
  nothing; only the few messages and enumerations whose values the models use are
  mapped. Of the hand-written code, about 2,200 lines without blanks and comments, the models
  cover somewhat more than half; the rest is command lines, reading replies into structs,
  and messages for the log.

## 7. Plan

Done: `Lifecycle` with `NodeHandle`, `WalletState` with `LndWait`, `LogTail` and `ClnOutput` with `LogWait`,
`ChannelReady`, `HarnessCleanup`, `Conversions`, `Payments` with `PaymentPromise`, and the theorems of
section 5. What is left, in this order:

1. A node that is stopped and started during `WaitForChannelReady`: `ChannelReady` over `NodeHandle`
   instead of a daemon that always answers, with the channel id each end returns.
2. The order of the three requests inside lnd's `CreateBolt11Invoice`, which looks up what it added,
   against a concurrent payment.
