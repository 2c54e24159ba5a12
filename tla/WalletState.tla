----------------------------- MODULE WalletState -----------------------------
(***************************************************************************)
(* LndNode.Start from the dial to waitServerActive.  Each of the two waits *)
(* subscribes to the wallet states of lnd and leaves the stream to a       *)
(* receiving goroutine of its own, which reports on the channels errChan   *)
(* (capacity 1) and done; Start selects between them and the deadline.     *)
(*                                                                         *)
(* The port was reserved by GetPort, which closes its listener before lnd  *)
(* is started, so another daemon may hold it by then: an lnd of another    *)
(* node, say, that serves the very same methods.  Start dials with the     *)
(* certificate in the node's own directory, and the connection reconnects  *)
(* by itself to whoever holds the port.                                    *)
(***************************************************************************)
EXTENDS Naturals, Sequences

CONSTANTS
  Own,     \* the daemon this Start has launched
  Others   \* the daemons of other nodes that may take its port

Daemons == {Own} \cup Others

ASSUME OwnAssumption == Own \notin Others

VARIABLES
  holder,    \* the daemon that holds the port, {} or a singleton
  alive,     \* the daemons that run
  state,     \* the wallet state each daemon has come to
  pc,        \* where Start is
  inbox,     \* states on their way to each receiver
  source,    \* the daemon each stream comes from
  intact,    \* the streams that are not broken
  receiver,  \* each receiving goroutine
  errChan,   \* what errChan of each wait holds
  closed,    \* the waits whose done channel is closed
  expired,   \* the deadline of the harness, and of its context, has passed
  foreign    \* Start has opened the wallet of another daemon

daemonVars == <<holder, alive, state>>
streamVars == <<inbox, source, intact, receiver, errChan, closed>>
vars == <<daemonVars, pc, streamVars, expired, foreign>>

Waits == {"started", "active"}

WalletStates == {"WAITING_TO_START", "NON_EXISTING", "LOCKED", "UNLOCKED",
                 "RPC_ACTIVE", "SERVER_ACTIVE"}
Unopened == {"NON_EXISTING", "LOCKED"}

\* Where Start is: about to subscribe, in the select loop, or in between.
SubscribeTo == [w \in Waits |-> IF w = "started" THEN "sub1" ELSE "sub2"]
Selecting   == [w \in Waits |-> IF w = "started" THEN "select1" ELSE "select2"]
After       == [w \in Waits |-> IF w = "started" THEN "wallet" ELSE "up"]
Labels == {"dial", "sub1", "select1", "wallet", "sub2", "select2", "up", "failed"}
Ended  == pc \in {"up", "failed"}

\* With errChan never above its capacity no send on it can block.
TypeOK ==
  /\ holder \in {{}} \cup {{d} : d \in Daemons}
  /\ alive \subseteq Daemons
  /\ state \in [Daemons -> WalletStates]
  /\ pc \in Labels
  /\ inbox \in [Waits -> Seq(WalletStates)]
  /\ source \in [Waits -> Daemons]
  /\ intact \subseteq Waits
  /\ receiver \in [Waits -> {"none", "recv", "ended"}]
  /\ errChan \in [Waits -> 0 .. 1]
  /\ closed \subseteq Waits
  /\ expired \in BOOLEAN /\ foreign \in BOOLEAN

\* Another daemon may already be at work.
Init ==
  /\ holder = {}
  /\ alive = Daemons
  /\ state \in [Daemons -> {"WAITING_TO_START", "LOCKED", "SERVER_ACTIVE"}]
  /\ state[Own] = "WAITING_TO_START"
  /\ pc = "dial"
  /\ inbox = [w \in Waits |-> <<>>]
  /\ source = [w \in Waits |-> Own]
  /\ intact = {}
  /\ receiver = [w \in Waits |-> "none"]
  /\ errChan = [w \in Waits |-> 0]
  /\ closed = {}
  /\ expired = FALSE /\ foreign = FALSE

-----------------------------------------------------------------------------
(* The connection.                                                         *)

\* Fault: the certificate is not checked.
PeersAny == holder

\* The daemons the connection can reach: the holder of the port, provided it
\* shows the certificate that waitForTlsCert found in the node's directory.
Peers == holder \cap {Own}

\* grpc.DialContext with WithBlock.
Dial ==
  /\ pc = "dial"
  /\ Peers # {}
  /\ pc' = "sub1"
  /\ UNCHANGED <<daemonVars, streamVars, expired, foreign>>

\* Start gives up; the deferred tmpConn.Close ends the streams.
GiveUp ==
  /\ pc' = "failed"
  /\ intact' = {}
  /\ UNCHANGED <<daemonVars, inbox, source, receiver, errChan, closed>>

\* The context is done while dialling; a request fails, because nobody it
\* trusts answers, with the context, or by itself.
RequestFails ==
  /\ \/ pc = "dial" /\ expired
     \/ pc \in {"sub1", "wallet", "sub2"}
  /\ GiveUp
  /\ UNCHANGED <<expired, foreign>>

-----------------------------------------------------------------------------
(* waitServerState.                                                        *)

\* SubscribeState: the daemon sends its state at once and then every change.
\* The receiving goroutine starts.
Subscribe(w) ==
  /\ pc = SubscribeTo[w] /\ ~ expired
  /\ \E d \in Peers :
       /\ source' = [source EXCEPT ![w] = d]
       /\ inbox' = [inbox EXCEPT ![w] = <<state[d]>>]
  /\ intact' = intact \cup {w}
  /\ receiver' = [receiver EXCEPT ![w] = "recv"]
  /\ pc' = Selecting[w]
  /\ UNCHANGED <<daemonVars, errChan, closed, expired, foreign>>

\* Fault: the predicates are met by the states next to theirs.
PredEarly(w, s) ==
  IF w = "started" THEN s # "WAITING_TO_START" ELSE s \in {"RPC_ACTIVE", "SERVER_ACTIVE"}

\* The predicates of waitServerStarted and waitServerActive.
Pred(w, s) == IF w = "started" THEN s # "WAITING_TO_START" ELSE s = "SERVER_ACTIVE"

\* Fault: the goroutine is done after the first state.
RecvOnce(w) ==
  /\ receiver[w] = "recv"
  /\ inbox[w] # <<>>
  /\ inbox' = [inbox EXCEPT ![w] = Tail(@)]
  /\ closed' = IF Pred(w, Head(inbox[w])) THEN closed \cup {w} ELSE closed
  /\ receiver' = [receiver EXCEPT ![w] = "ended"]
  /\ UNCHANGED <<daemonVars, pc, source, intact, errChan, expired, foreign>>

\* client.Recv returns a state.
Recv(w) ==
  /\ receiver[w] = "recv"
  /\ inbox[w] # <<>>
  /\ inbox' = [inbox EXCEPT ![w] = Tail(@)]
  /\ IF Pred(w, Head(inbox[w]))
       THEN closed' = closed \cup {w} /\ receiver' = [receiver EXCEPT ![w] = "ended"]
       ELSE UNCHANGED <<closed, receiver>>
  /\ UNCHANGED <<daemonVars, pc, source, intact, errChan, expired, foreign>>

\* Fault: errChan has no buffer, so that sending needs the select.
RecvErrorUnbuffered(w) ==
  /\ receiver[w] = "recv"
  /\ w \notin intact
  /\ pc = Selecting[w]
  /\ receiver' = [receiver EXCEPT ![w] = "ended"]
  /\ UNCHANGED <<daemonVars, pc, inbox, source, intact, errChan, closed,
                 expired, foreign>>

\* Fault: the goroutine does not return after an error.
RecvErrorAgain(w) ==
  /\ receiver[w] = "recv"
  /\ w \notin intact
  /\ errChan' = [errChan EXCEPT ![w] = @ + 1]
  /\ UNCHANGED <<daemonVars, pc, inbox, source, intact, receiver, closed,
                 expired, foreign>>

\* client.Recv fails, states that had arrived may be lost; the error is sent.
RecvError(w) ==
  /\ receiver[w] = "recv"
  /\ w \notin intact
  /\ errChan' = [errChan EXCEPT ![w] = @ + 1]
  /\ receiver' = [receiver EXCEPT ![w] = "ended"]
  /\ UNCHANGED <<daemonVars, pc, inbox, source, intact, closed, expired, foreign>>

\* select: the error is noted, the loop goes round.
SelectError(w) ==
  /\ pc = Selecting[w]
  /\ errChan[w] = 1
  /\ errChan' = [errChan EXCEPT ![w] = 0]
  /\ UNCHANGED <<daemonVars, pc, inbox, source, intact, receiver, closed,
                 expired, foreign>>

\* select: done.  After waitServerActive the temporary connection is only
\* closed when Start returns, which is taken to be at once.
SelectDone(w) ==
  /\ pc = Selecting[w]
  /\ w \in closed
  /\ pc' = After[w]
  /\ intact' = IF w = "active" THEN {} ELSE intact
  /\ UNCHANGED <<daemonVars, inbox, source, receiver, errChan, closed,
                 expired, foreign>>

\* Fault: the timer is not among the cases once an error has been noted.
SelectTimeoutOnce(w) ==
  /\ pc = Selecting[w]
  /\ expired
  /\ receiver[w] = "recv"
  /\ GiveUp
  /\ UNCHANGED <<expired, foreign>>

\* select: the timer.
SelectTimeout(w) ==
  /\ pc = Selecting[w]
  /\ expired
  /\ GiveUp
  /\ UNCHANGED <<expired, foreign>>

-----------------------------------------------------------------------------
(* The wallet, and the daemons.                                            *)

\* A daemon changes its wallet state and tells the streams it serves.
Become(d, s) ==
  /\ state' = [state EXCEPT ![d] = s]
  /\ inbox' = [w \in Waits |->
                 IF w \in intact /\ source[w] = d THEN Append(inbox[w], s)
                                                 ELSE inbox[w]]

\* unlockWallet or initWallet: served, and yet it may fail, when the reply is
\* lost or the key cannot be derived.
OpenWallet ==
  /\ pc = "wallet"
  /\ \E d \in Peers :
       /\ state[d] \in Unopened
       /\ Become(d, "UNLOCKED")
       /\ foreign' = (foreign \/ d # Own)
  /\ \/ pc' = "sub2" /\ UNCHANGED intact
     \/ pc' = "failed" /\ intact' = {}
  /\ UNCHANGED <<holder, alive, source, receiver, errChan, closed, expired>>

\* A daemon takes the port; one that finds it taken ends.
Bind(d) ==
  /\ d \in alive /\ d \notin holder
  /\ IF holder = {}
       THEN holder' = {d} /\ UNCHANGED alive
       ELSE alive' = alive \ {d} /\ UNCHANGED holder
  /\ UNCHANGED <<state, pc, streamVars, expired, foreign>>

\* lnd makes its way to the closed wallet, and on from the opened one.  The
\* wallets of the others are opened by the calls of their own nodes.
Progress(d) ==
  /\ d \in alive /\ d \in holder
  /\ \E s \in WalletStates :
       /\ \/ state[d] = "WAITING_TO_START" /\ s \in Unopened
          \/ state[d] = "UNLOCKED" /\ s = "RPC_ACTIVE"
          \/ state[d] = "RPC_ACTIVE" /\ s = "SERVER_ACTIVE"
       /\ Become(d, s)
  /\ UNCHANGED <<holder, alive, pc, source, intact, receiver, errChan, closed,
                 expired, foreign>>

\* A daemon dies, its streams break.
Die(d) ==
  /\ d \in alive
  /\ alive' = alive \ {d}
  /\ holder' = holder \ {d}
  /\ intact' = {w \in intact : source[w] # d}
  /\ UNCHANGED <<state, pc, inbox, source, receiver, errChan, closed,
                 expired, foreign>>

\* The deadline passes; the context ends the streams.
Tick ==
  /\ ~ expired
  /\ expired' = TRUE
  /\ intact' = {}
  /\ UNCHANGED <<daemonVars, pc, inbox, source, receiver, errChan, closed, foreign>>

-----------------------------------------------------------------------------

Select(w) == SelectError(w) \/ SelectDone(w) \/ SelectTimeout(w)
Receive(w) == Recv(w) \/ RecvError(w)
Start ==
  \/ Dial \/ RequestFails \/ OpenWallet
  \/ \E w \in Waits : Subscribe(w) \/ Select(w)

Next ==
  \/ Start
  \/ \E w \in Waits : Receive(w)
  \/ \E d \in Daemons : Bind(d) \/ Progress(d) \/ Die(d)
  \/ Tick

Spec == Init /\ [][Next]_vars

\* Goroutines run, the clock reaches the deadline.  Daemons owe nothing.
Fairness == WF_vars(Start) /\ WF_vars(Tick) /\ \A w \in Waits : WF_vars(Receive(w))

FairSpec == Spec /\ Fairness

-----------------------------------------------------------------------------
(* Properties.                                                             *)

\* Start gets past its waits only on the word of its own daemon and opens only
\* the wallet of that one, although another may hold the port, a receiver may
\* report late and a stream may break at any moment.
Rank(s) ==
  CASE s = "WAITING_TO_START" -> 0
    [] s \in Unopened -> 1
    [] s = "UNLOCKED" -> 2
    [] s = "RPC_ACTIVE" -> 3
    [] s = "SERVER_ACTIVE" -> 4
At ==
  CASE pc \in {"dial", "sub1", "select1"} -> "starting"
    [] pc = "wallet" -> "started"
    [] pc \in {"sub2", "select2"} -> "opened"
    [] pc = "up" -> "active"
    [] pc = "failed" -> "failed"
Expected == INSTANCE LndWait WITH reached <- Rank(state[Own]), at <- At
ImplementsLndWait == Expected!Spec

\* No receiving goroutine is left behind, whichever way its wait ended: the
\* error of a stream that nobody waits for any more fits into errChan.
ReceiversEnd == \A w \in Waits : receiver[w] = "recv" ~> receiver[w] = "ended"

\* Start comes to an end, also when the stream broke and can say nothing more.
StartEnds == <>Ended

\* While the stream stands, a state that ends the wait is not missed: it is on
\* its way to a receiver that still listens, or done is closed.  Start can only
\* fail to see it when the stream breaks or the deadline passes.
NothingMissed ==
  \A w \in Waits :
    pc = Selecting[w] /\ w \in intact /\ Pred(w, state[source[w]]) =>
      \/ w \in closed
      \/ /\ receiver[w] = "recv"
         /\ \E k \in 1 .. Len(inbox[w]) : Pred(w, inbox[w][k])
=============================================================================
