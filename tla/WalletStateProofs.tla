-------------------------- MODULE WalletStateProofs --------------------------
(***************************************************************************)
(* Proofs about module WalletState, for any number of other daemons that   *)
(* may take the port.                                                      *)
(***************************************************************************)
EXTENDS WalletState, TLAPS

USE OwnAssumption

-----------------------------------------------------------------------------
(* Types.  An error is sent at most once, because the receiving goroutine  *)
(* ends with it, and no goroutine is started twice.                        *)

Fresh ==
  /\ pc \in {"dial", "sub1"} => receiver["started"] = "none"
  /\ pc \in {"dial", "sub1", "select1", "wallet", "sub2"} => receiver["active"] = "none"
  /\ \A w \in Waits : receiver[w] # "ended" => errChan[w] = 0

TypeInv == TypeOK /\ Fresh

LEMMA TypesInit == Init => TypeInv
<1> SUFFICES ASSUME Init PROVE TypeInv
  OBVIOUS
<1>1. state \in [Daemons -> WalletStates]
  BY DEF Init, WalletStates
<1>2. inbox \in [Waits -> Seq(WalletStates)]
  <2>1. <<>> \in Seq(WalletStates)
    OBVIOUS
  <2> QED BY <2>1 DEF Init
<1>3. source \in [Waits -> Daemons]
  BY DEF Init, Daemons
<1>4. Fresh
  BY DEF Init, Fresh, Waits
<1>5. holder \in {{}} \cup {{d} : d \in Daemons}
  BY DEF Init
<1>6. /\ receiver \in [Waits -> {"none", "recv", "ended"}]
      /\ errChan \in [Waits -> 0 .. 1]
  BY DEF Init
<1>7. alive \subseteq Daemons /\ intact \subseteq Waits /\ closed \subseteq Waits
  BY DEF Init
<1> QED
  BY <1>1, <1>2, <1>3, <1>4, <1>5, <1>6, <1>7 DEF Init, TypeInv, TypeOK, Labels

\* Become keeps the types of what it changes.
LEMMA BecomeTypes ==
  ASSUME TypeInv, NEW d \in Daemons, NEW s \in WalletStates, Become(d, s)
  PROVE  state' \in [Daemons -> WalletStates] /\ inbox' \in [Waits -> Seq(WalletStates)]
<1>1. state' \in [Daemons -> WalletStates]
  BY DEF Become, TypeInv, TypeOK
<1>2. \A w \in Waits : inbox[w] \in Seq(WalletStates)
                       /\ Append(inbox[w], s) \in Seq(WalletStates)
  BY DEF TypeInv, TypeOK
<1>3. inbox' \in [Waits -> Seq(WalletStates)]
  BY <1>2 DEF Become
<1> QED BY <1>1, <1>3

LEMMA PeersAreDaemons == Peers \subseteq {Own} /\ Own \in Daemons
BY DEF Peers, Daemons

LEMMA TypesStep == TypeInv /\ [Next]_vars => TypeInv'
<1> SUFFICES ASSUME TypeInv, [Next]_vars PROVE TypeInv'
  OBVIOUS
<1> USE DEF TypeInv, TypeOK, Fresh, Labels
<1>1. CASE Dial \/ RequestFails \/ UNCHANGED vars
  BY <1>1 DEF Dial, RequestFails, GiveUp, vars, daemonVars, streamVars
<1>2. ASSUME NEW w \in Waits, Subscribe(w) PROVE TypeInv'
  <2>1. source' \in [Waits -> Daemons] /\ inbox' \in [Waits -> Seq(WalletStates)]
    BY <1>2, PeersAreDaemons DEF Subscribe, Waits
  <2>2. receiver[w] = "none" /\ errChan[w] = 0
    BY <1>2 DEF Subscribe, SubscribeTo, Waits
  <2> QED BY <1>2, <2>1, <2>2 DEF Subscribe, SubscribeTo, Selecting, daemonVars, Waits
<1>3. ASSUME NEW w \in Waits, SelectError(w) PROVE TypeInv'
  BY <1>3 DEF SelectError, daemonVars
<1>4. ASSUME NEW w \in Waits, SelectDone(w) PROVE TypeInv'
  BY <1>4 DEF SelectDone, Selecting, After, daemonVars, Waits
<1>5. ASSUME NEW w \in Waits, SelectTimeout(w) PROVE TypeInv'
  BY <1>5 DEF SelectTimeout, GiveUp, daemonVars
<1>6. CASE OpenWallet
  <2>1. PICK d \in Peers : Become(d, "UNLOCKED") /\ foreign' = (foreign \/ d # Own)
    BY <1>6 DEF OpenWallet
  <2>2. state' \in [Daemons -> WalletStates] /\ inbox' \in [Waits -> Seq(WalletStates)]
    BY <2>1, BecomeTypes, PeersAreDaemons DEF WalletStates
  <2>3. foreign' \in BOOLEAN
    BY <2>1
  <2> HIDE DEF Fresh
  <2>4. TypeOK'
    BY <1>6, <2>2, <2>3 DEF OpenWallet
  <2> QED BY <1>6, <2>4 DEF OpenWallet, Fresh
<1>7. ASSUME NEW w \in Waits, Recv(w) PROVE TypeInv'
  <2>1. inbox' \in [Waits -> Seq(WalletStates)]
    <3>1. inbox[w] \in Seq(WalletStates) /\ inbox[w] # <<>>
      BY <1>7 DEF Recv
    <3>2. Tail(inbox[w]) \in Seq(WalletStates)
      BY <3>1
    <3> QED BY <1>7, <3>2 DEF Recv
  <2> QED BY <1>7, <2>1 DEF Recv, daemonVars, Waits
<1>8. ASSUME NEW w \in Waits, RecvError(w) PROVE TypeInv'
  BY <1>8 DEF RecvError, daemonVars, Waits
<1>9. ASSUME NEW d \in Daemons, Bind(d) PROVE TypeInv'
  BY <1>9 DEF Bind, streamVars
<1>10. ASSUME NEW d \in Daemons, Progress(d) PROVE TypeInv'
  <2>1. state' \in [Daemons -> WalletStates] /\ inbox' \in [Waits -> Seq(WalletStates)]
    BY <1>10, BecomeTypes DEF Progress
  <2> QED BY <1>10, <2>1 DEF Progress
<1>11. ASSUME NEW d \in Daemons, Die(d) PROVE TypeInv'
  BY <1>11 DEF Die
<1>12. CASE Tick
  BY <1>12 DEF Tick, daemonVars
<1> QED
  BY <1>1, <1>2, <1>3, <1>4, <1>5, <1>6, <1>7, <1>8, <1>9, <1>10, <1>11, <1>12
  DEF Next, Start, Select, Receive

\* waitServerState: errChan never holds more than it has room for, so that no
\* receiving goroutine blocks on it.
THEOREM TypeCorrect == Spec => []TypeOK
<1>1. TypeInv => TypeOK
  BY DEF TypeInv
<1> QED
  BY <1>1, TypesInit, TypesStep, PTL DEF Spec

-----------------------------------------------------------------------------
(* What Start knows of its daemon.  Streams come from no other daemon, no  *)
(* state on its way is one the daemon has not come to yet, and a closed    *)
(* done channel says something that stays true.                            *)

Reported(w) ==
  /\ \A k \in 1 .. Len(inbox[w]) : Rank(inbox[w][k]) <= Rank(state[Own])
  /\ w \in closed => Pred(w, state[Own])

ReportInv ==
  /\ foreign = FALSE
  /\ \A w \in Waits : source[w] = Own /\ Reported(w)

LEMMA RankType == \A s \in WalletStates : Rank(s) \in 0 .. 4
BY DEF WalletStates, Rank, Unopened

\* A predicate that held for a state holds for those after it.
LEMMA PredStays ==
  \A w \in Waits, s, t \in WalletStates :
    Pred(w, s) /\ Rank(s) <= Rank(t) => Pred(w, t)
BY DEF WalletStates, Rank, Unopened, Pred, Waits

LEMMA ReportInit == Init => ReportInv
BY DEF Init, ReportInv, Reported, Waits

\* The own daemon's new state, appended to what its streams still carry.
LEMMA BecomeReported ==
  ASSUME TypeInv, ReportInv, NEW d \in Daemons, NEW s \in WalletStates, Become(d, s),
         d = Own => Rank(state[Own]) <= Rank(s),
         UNCHANGED closed
  PROVE  \A w \in Waits : Reported(w)'
<1> SUFFICES ASSUME NEW w \in Waits PROVE Reported(w)'
  OBVIOUS
<1>1. /\ Own \in Daemons
      /\ state[Own] \in WalletStates
      /\ state'[Own] = IF d = Own THEN s ELSE state[Own]
      /\ inbox[w] \in Seq(WalletStates)
      /\ source[w] = Own
      /\ Reported(w)
  BY DEF Become, Daemons, TypeInv, TypeOK, ReportInv
<1>2. /\ Rank(state[Own]) \in 0 .. 4 /\ Rank(s) \in 0 .. 4
      /\ Rank(state[Own]) <= Rank(state'[Own])
      /\ state'[Own] \in WalletStates
  BY <1>1, RankType
<1>3. \A k \in 1 .. Len(inbox[w]) : Rank(inbox[w][k]) \in 0 .. 4
                                    /\ Rank(inbox[w][k]) <= Rank(state'[Own])
  <2> SUFFICES ASSUME NEW k \in 1 .. Len(inbox[w])
               PROVE  Rank(inbox[w][k]) \in 0 .. 4 /\ Rank(inbox[w][k]) <= Rank(state'[Own])
    OBVIOUS
  <2>1. inbox[w][k] \in WalletStates
    BY <1>1
  <2>2. Rank(inbox[w][k]) \in 0 .. 4 /\ Rank(inbox[w][k]) <= Rank(state[Own])
    BY <1>1, <2>1, RankType DEF Reported
  <2>3. Rank(state'[Own]) \in 0 .. 4
    BY <1>2, RankType
  <2> QED BY <1>2, <2>2, <2>3
<1>4. w \in closed => Pred(w, state'[Own])
  BY <1>1, <1>2, PredStays DEF Reported
<1>5. CASE inbox'[w] = inbox[w]
  BY <1>3, <1>4, <1>5 DEF Reported
<1>6. CASE inbox'[w] = Append(inbox[w], s) /\ d = Own
  <2>1. /\ Len(inbox'[w]) = Len(inbox[w]) + 1
        /\ \A k \in 1 .. Len(inbox[w]) : inbox'[w][k] = inbox[w][k]
        /\ inbox'[w][Len(inbox[w]) + 1] = s
    BY <1>1, <1>6
  <2>2. Len(inbox[w]) \in Nat
    BY <1>1
  <2>3. \A k \in 1 .. Len(inbox'[w]) : Rank(inbox'[w][k]) <= Rank(state'[Own])
    BY <1>1, <1>2, <1>3, <1>6, <2>1, <2>2
  <2> QED BY <1>4, <2>3 DEF Reported
<1> QED BY <1>1, <1>5, <1>6 DEF Become, TypeInv, TypeOK

\* The states a daemon comes to by itself are further on.
LEMMA ProgressRank ==
  ASSUME NEW d \in Daemons, Progress(d)
  PROVE  \E s \in WalletStates :
           Become(d, s) /\ Rank(state[d]) # 1 /\ Rank(s) = Rank(state[d]) + 1
BY DEF Progress, Rank, Unopened, WalletStates

LEMMA ReportStep == TypeInv /\ ReportInv /\ [Next]_vars => ReportInv'
<1> SUFFICES ASSUME TypeInv, ReportInv, [Next]_vars PROVE ReportInv'
  OBVIOUS
<1>1. CASE UNCHANGED <<state, foreign, source, inbox, closed>>
  BY <1>1 DEF ReportInv, Reported
<1>2. ASSUME NEW w \in Waits, Subscribe(w) PROVE ReportInv'
  <2>1. /\ source' = [source EXCEPT ![w] = Own]
        /\ inbox' = [inbox EXCEPT ![w] = <<state[Own]>>]
        /\ UNCHANGED <<state, closed, foreign>>
    BY <1>2, PeersAreDaemons DEF Subscribe, daemonVars
  <2>2. Rank(state[Own]) \in 0 .. 4
    BY RankType, PeersAreDaemons DEF TypeInv, TypeOK
  <2>3. Reported(w)'
    BY <2>1, <2>2 DEF Reported, ReportInv, TypeInv, TypeOK
  <2>4. \A v \in Waits \ {w} : Reported(v)'
    BY <2>1 DEF Reported, ReportInv, TypeInv, TypeOK
  <2> QED BY <2>1, <2>3, <2>4 DEF ReportInv, TypeInv, TypeOK
<1>3. ASSUME NEW w \in Waits, Recv(w) PROVE ReportInv'
  <2>1. /\ inbox[w] \in Seq(WalletStates) /\ inbox[w] # <<>>
        /\ inbox' = [inbox EXCEPT ![w] = Tail(inbox[w])]
        /\ UNCHANGED <<state, source, foreign>>
        /\ closed' = closed \/ (closed' = closed \cup {w} /\ Pred(w, Head(inbox[w])))
    BY <1>3 DEF Recv, TypeInv, TypeOK, daemonVars
  <2>2. /\ Len(Tail(inbox[w])) = Len(inbox[w]) - 1 /\ Len(inbox[w]) \in Nat \ {0}
        /\ \A k \in 1 .. Len(inbox[w]) - 1 : Tail(inbox[w])[k] = inbox[w][k + 1]
        /\ Head(inbox[w]) = inbox[w][1] /\ Head(inbox[w]) \in WalletStates
    BY <2>1
  <2>3. /\ state[Own] \in WalletStates /\ Reported(w)
    BY PeersAreDaemons DEF TypeInv, TypeOK, ReportInv
  <2>4. Rank(Head(inbox[w])) <= Rank(state[Own])
    BY <2>2, <2>3 DEF Reported
  <2>5. w \in closed' => Pred(w, state[Own])
    BY <2>1, <2>2, <2>3, <2>4, PredStays DEF Reported
  <2>6. \A k \in 1 .. Len(Tail(inbox[w])) : Rank(Tail(inbox[w])[k]) <= Rank(state[Own])
    BY <2>2, <2>3 DEF Reported
  <2>7. Reported(w)'
    BY <2>1, <2>5, <2>6 DEF Reported, TypeInv, TypeOK
  <2>8. \A v \in Waits \ {w} : Reported(v)'
    BY <2>1 DEF Reported, ReportInv, TypeInv, TypeOK
  <2> QED BY <2>1, <2>7, <2>8 DEF ReportInv
<1>4. CASE OpenWallet
  <2>1. /\ Become(Own, "UNLOCKED") /\ state[Own] \in Unopened
        /\ foreign' = foreign /\ UNCHANGED <<source, closed>>
    BY <1>4, PeersAreDaemons DEF OpenWallet, TypeInv, TypeOK, ReportInv
  <2>2. "UNLOCKED" \in WalletStates /\ Rank(state[Own]) <= Rank("UNLOCKED")
    BY <2>1 DEF WalletStates, Rank, Unopened
  <2>3. \A w \in Waits : Reported(w)'
    BY <2>1, <2>2, BecomeReported, PeersAreDaemons
  <2> QED BY <2>1, <2>3 DEF ReportInv
<1>5. ASSUME NEW d \in Daemons, Progress(d) PROVE ReportInv'
  <2>1. PICK s \in WalletStates : Become(d, s) /\ Rank(s) = Rank(state[d]) + 1
    BY <1>5, ProgressRank
  <2>2. Rank(state[d]) \in 0 .. 4
    BY RankType DEF TypeInv, TypeOK
  <2>3. UNCHANGED <<source, closed, foreign>>
    BY <1>5 DEF Progress
  <2>4. \A w \in Waits : Reported(w)'
    BY <2>1, <2>2, <2>3, BecomeReported
  <2> QED BY <2>3, <2>4 DEF ReportInv
<1>6. CASE Dial \/ RequestFails \/ Tick \/ UNCHANGED vars
  BY <1>1, <1>6 DEF Dial, RequestFails, Tick, GiveUp, vars, daemonVars, streamVars
<1>7. ASSUME NEW w \in Waits, Select(w) \/ RecvError(w) PROVE ReportInv'
  BY <1>1, <1>7 DEF Select, SelectError, SelectDone, SelectTimeout, RecvError, GiveUp,
     daemonVars
<1>8. ASSUME NEW d \in Daemons, Bind(d) \/ Die(d) PROVE ReportInv'
  BY <1>1, <1>8 DEF Bind, Die, streamVars
<1> QED
  BY <1>2, <1>3, <1>4, <1>5, <1>6, <1>7, <1>8 DEF Next, Start, Receive

-----------------------------------------------------------------------------
(* The refinement of module LndWait.                                       *)

LEMMA ExpectedInit == Init => Expected!Init
<1>1. Rank("WAITING_TO_START") = 0
  BY DEF Rank, Unopened
<1> QED BY <1>1 DEF Init, Expected!Init, Expected!Waiting, At

\* The own daemon moves on as the expectation says, by itself.
LEMMA ProgressExpected ==
  ASSUME TypeInv, ReportInv, NEW d \in Daemons, Progress(d)
  PROVE  [Expected!Next]_(Expected!vars)
<1>1. PICK s \in WalletStates :
        Become(d, s) /\ Rank(state[d]) # 1 /\ Rank(s) = Rank(state[d]) + 1
  BY ProgressRank
<1>2. /\ state' = [state EXCEPT ![d] = s] /\ Own \in Daemons
      /\ UNCHANGED <<foreign, pc>>
  BY <1>1, PeersAreDaemons DEF Become, Progress
<1>3. At' = At
  BY <1>2 DEF At
<1>4. CASE d = Own
  <2>1. /\ Rank(state[Own]) \in (0 .. 3) \ {1}
        /\ Rank(state'[Own]) = Rank(state[Own]) + 1
    <3>1. Rank(state[Own]) \in 0 .. 4 /\ Rank(s) \in 0 .. 4
      BY <1>2, RankType DEF TypeInv, TypeOK
    <3>2. state'[Own] = s
      BY <1>2, <1>4 DEF TypeInv, TypeOK
    <3> QED BY <1>1, <1>4, <3>1, <3>2
  <2> QED
    BY <1>2, <1>3, <2>1 DEF Expected!Next, Expected!Advance, Expected!Waiting,
       Expected!Closed, Expected!Active
<1>5. CASE d # Own
  BY <1>2, <1>3, <1>5 DEF Expected!vars, TypeInv, TypeOK
<1> QED BY <1>4, <1>5

LEMMA ExpectedStep ==
  TypeInv /\ ReportInv /\ [Next]_vars => [Expected!Next]_(Expected!vars)
<1> SUFFICES ASSUME TypeInv, ReportInv, [Next]_vars
             PROVE  [Expected!Next]_(Expected!vars)
  OBVIOUS
<1>0. state[Own] \in WalletStates
  BY PeersAreDaemons DEF TypeInv, TypeOK
<1>1. CASE UNCHANGED <<state, foreign>> /\ At' = At
  BY <1>1 DEF Expected!vars
<1>2. CASE UNCHANGED <<state, foreign>> /\ pc # "up" /\ pc' = "failed"
  <2>1. At # "active" /\ At' = "failed"
    BY <1>2 DEF At, TypeInv, TypeOK, Labels
  <2> QED BY <1>2, <2>1 DEF Expected!Next, Expected!Fail
<1>3. ASSUME NEW w \in Waits, SelectDone(w) PROVE [Expected!Next]_(Expected!vars)
  <2>1. Pred(w, state[Own]) /\ UNCHANGED <<state, foreign>>
    BY <1>3 DEF SelectDone, ReportInv, Reported, daemonVars
  <2>2. CASE w = "started"
    <3>1. At = "starting" /\ At' = "started"
      BY <1>3, <2>2 DEF SelectDone, Selecting, After, At, Waits
    <3>2. Rank(state[Own]) # 0
      BY <1>0, <2>1, <2>2 DEF Pred, Rank, WalletStates, Unopened
    <3> QED BY <2>1, <3>1, <3>2 DEF Expected!Next, Expected!Begin, Expected!Waiting
  <2>3. CASE w = "active"
    <3>1. At = "opened" /\ At' = "active"
      BY <1>3, <2>3 DEF SelectDone, Selecting, After, At, Waits
    <3>2. Rank(state[Own]) = 4
      BY <2>1, <2>3 DEF Pred, Rank, Unopened
    <3> QED BY <2>1, <3>1, <3>2 DEF Expected!Next, Expected!Activate, Expected!Active
  <2> QED BY <2>2, <2>3 DEF Waits
<1>4. CASE OpenWallet
  <2>1. /\ state' = [state EXCEPT ![Own] = "UNLOCKED"] /\ state[Own] \in Unopened
        /\ foreign' = foreign
    BY <1>4, PeersAreDaemons DEF OpenWallet, Become, ReportInv
  <2>2. At = "started" /\ At' \in {"opened", "failed"}
    BY <1>4 DEF OpenWallet, At
  <2>3. Rank(state[Own]) = 1 /\ Rank(state'[Own]) = 2
    BY <2>1, PeersAreDaemons DEF Rank, Unopened, TypeInv, TypeOK
  <2> QED BY <2>1, <2>2, <2>3 DEF Expected!Next, Expected!Open, Expected!Closed
<1>5. ASSUME NEW d \in Daemons, Progress(d) PROVE [Expected!Next]_(Expected!vars)
  BY <1>5, ProgressExpected
<1>6. CASE RequestFails
  BY <1>2, <1>6 DEF RequestFails, GiveUp, daemonVars
<1>7. ASSUME NEW w \in Waits, SelectTimeout(w) PROVE [Expected!Next]_(Expected!vars)
  BY <1>2, <1>7 DEF SelectTimeout, GiveUp, daemonVars, Selecting, Waits
<1>8. ASSUME NEW w \in Waits, Subscribe(w) PROVE [Expected!Next]_(Expected!vars)
  <2>1. At' = At
    BY <1>8 DEF Subscribe, SubscribeTo, Selecting, At, Waits
  <2> QED BY <1>1, <1>8, <2>1 DEF Subscribe, daemonVars
<1>9. ASSUME NEW w \in Waits, Receive(w) \/ SelectError(w)
      PROVE  [Expected!Next]_(Expected!vars)
  BY <1>1, <1>9 DEF Receive, Recv, RecvError, SelectError, daemonVars, At
<1>10. CASE Dial
  BY <1>1, <1>10 DEF Dial, daemonVars, At
<1>11. ASSUME NEW d \in Daemons, Bind(d) \/ Die(d) PROVE [Expected!Next]_(Expected!vars)
  BY <1>1, <1>11 DEF Bind, Die, At
<1>12. CASE Tick \/ UNCHANGED vars
  BY <1>1, <1>12 DEF Tick, vars, daemonVars, At
<1> QED
  BY <1>3, <1>4, <1>5, <1>6, <1>7, <1>8, <1>9, <1>10, <1>11, <1>12
  DEF Next, Start, Select

\* LndNode.Start: whoever holds the port and however late a receiver reports,
\* Start gets past its waits only on the word of its own daemon, and opens the
\* wallet of no other.
THEOREM WaitsForOwnDaemon == Spec => ImplementsLndWait
<1>1. Init => Expected!Init
  BY ExpectedInit
<1>2. TypeInv /\ ReportInv /\ [Next]_vars => [Expected!Next]_(Expected!vars)
  BY ExpectedStep
<1> QED
  BY <1>1, <1>2, TypesInit, TypesStep, ReportInit, ReportStep, PTL
  DEF Spec, ImplementsLndWait, Expected!Spec

-----------------------------------------------------------------------------
(* Nothing is missed: as long as a stream stands, the wait has a receiver  *)
(* that listens or is over.                                                *)

Listening ==
  \A w \in Waits :
    pc = Selecting[w] /\ w \in intact => w \in closed \/ receiver[w] = "recv"

Missable == Listening /\ NothingMissed

LEMMA MissableInit == Init => Missable
BY DEF Init, Missable, Listening, NothingMissed

\* The new state is the last one in the inbox, the earlier ones stay.
LEMMA BecomeMissable ==
  ASSUME TypeInv, Missable, NEW d \in Daemons, NEW s \in WalletStates, Become(d, s),
         UNCHANGED <<source, receiver, closed>>,
         intact' \subseteq intact, \A w \in Waits : pc' = Selecting[w] => pc = Selecting[w]
  PROVE  Missable'
<1>1. Listening'
  BY DEF Missable, Listening
<1>2. ASSUME NEW w \in Waits, pc' = Selecting[w], w \in intact',
             Pred(w, state'[source[w]]), w \notin closed
      PROVE  receiver[w] = "recv" /\ \E k \in 1 .. Len(inbox'[w]) : Pred(w, inbox'[w][k])
  <2>1. receiver[w] = "recv" /\ pc = Selecting[w] /\ w \in intact
    BY <1>2 DEF Missable, Listening
  <2>2. inbox[w] \in Seq(WalletStates) /\ source[w] \in Daemons
    BY DEF TypeInv, TypeOK
  <2>3. CASE source[w] = d
    <3>1. inbox'[w] = Append(inbox[w], s) /\ state'[source[w]] = s
      BY <2>1, <2>2, <2>3 DEF Become, TypeInv, TypeOK
    <3>2. /\ Len(inbox'[w]) = Len(inbox[w]) + 1 /\ Len(inbox[w]) \in Nat
          /\ inbox'[w][Len(inbox[w]) + 1] = s
      BY <2>2, <3>1
    <3>3. Len(inbox[w]) + 1 \in 1 .. Len(inbox'[w])
      BY <3>2
    <3> QED BY <1>2, <2>1, <3>1, <3>2, <3>3
  <2>4. CASE source[w] # d
    <3>1. inbox'[w] = inbox[w] /\ state'[source[w]] = state[source[w]]
      BY <2>2, <2>4 DEF Become, TypeInv, TypeOK
    <3> QED BY <1>2, <2>1, <3>1 DEF Missable, NothingMissed
  <2> QED BY <2>3, <2>4
<1>3. NothingMissed'
  BY <1>2 DEF NothingMissed
<1> QED BY <1>1, <1>3 DEF Missable

LEMMA MissableStep == TypeInv /\ Missable /\ [Next]_vars => Missable'
<1> SUFFICES ASSUME TypeInv, Missable, [Next]_vars PROVE Missable'
  OBVIOUS
<1>1. CASE /\ UNCHANGED <<state, source, inbox, closed>> /\ intact' \subseteq intact
           /\ \A w \in Waits : pc' = Selecting[w] => pc = Selecting[w]
           /\ \A w \in intact : receiver'[w] = receiver[w]
  BY <1>1 DEF Missable, Listening, NothingMissed
<1>2. ASSUME NEW w \in Waits, Subscribe(w) PROVE Missable'
  <2>1. /\ receiver'[w] = "recv" /\ UNCHANGED <<state, closed>>
        /\ source'[w] = Own /\ inbox'[w] = <<state[Own]>>
    BY <1>2, PeersAreDaemons DEF Subscribe, daemonVars, TypeInv, TypeOK
  <2>2. \A v \in Waits : pc' = Selecting[v] => v = w
    BY <1>2 DEF Subscribe, Selecting, Waits
  <2>3. Len(inbox'[w]) = 1 /\ inbox'[w][1] = state[Own]
    BY <2>1
  <2>4. 1 \in 1 .. Len(inbox'[w])
    BY <2>3
  <2> QED BY <2>1, <2>2, <2>3, <2>4 DEF Missable, Listening, NothingMissed
<1>3. ASSUME NEW w \in Waits, Recv(w) PROVE Missable'
  <2>1. /\ inbox[w] \in Seq(WalletStates) /\ inbox[w] # <<>>
        /\ inbox' = [inbox EXCEPT ![w] = Tail(inbox[w])]
        /\ UNCHANGED <<state, source, pc, intact>>
    BY <1>3 DEF Recv, TypeInv, TypeOK, daemonVars
  <2>2. /\ Len(inbox'[w]) = Len(inbox[w]) - 1 /\ Len(inbox[w]) \in Nat \ {0}
        /\ \A k \in 1 .. Len(inbox[w]) - 1 : inbox'[w][k] = inbox[w][k + 1]
        /\ Head(inbox[w]) = inbox[w][1]
    BY <2>1 DEF TypeInv, TypeOK
  <2>3. \A v \in Waits \ {w} :
          inbox'[v] = inbox[v] /\ receiver'[v] = receiver[v] /\ (v \in closed' <=> v \in closed)
    BY <1>3 DEF Recv, TypeInv, TypeOK
  <2>4. CASE Pred(w, Head(inbox[w]))
    BY <1>3, <2>1, <2>3, <2>4 DEF Recv, Missable, Listening, NothingMissed
  <2>5. CASE ~ Pred(w, Head(inbox[w]))
    <3>1. UNCHANGED <<closed, receiver>>
      BY <1>3, <2>5 DEF Recv
    <3>2. ASSUME NEW k \in 1 .. Len(inbox[w]), Pred(w, inbox[w][k])
          PROVE  \E j \in 1 .. Len(inbox'[w]) : Pred(w, inbox'[w][j])
      <4>1. k # 1
        BY <2>2, <2>5, <3>2
      <4>2. k - 1 \in 1 .. Len(inbox[w]) - 1 /\ (k - 1) + 1 = k
        BY <2>2, <4>1
      <4> QED BY <2>2, <3>2, <4>2
    <3>3. Listening'
      BY <2>1, <3>1 DEF Missable, Listening
    <3>4. ASSUME NEW v \in Waits, pc' = Selecting[v], v \in intact',
                 Pred(v, state'[source'[v]]), v \notin closed'
          PROVE  /\ receiver'[v] = "recv"
                 /\ \E k \in 1 .. Len(inbox'[v]) : Pred(v, inbox'[v][k])
      <4>1. receiver[v] = "recv" /\ \E k \in 1 .. Len(inbox[v]) : Pred(v, inbox[v][k])
        BY <2>1, <3>1, <3>4 DEF Missable, NothingMissed
      <4>2. CASE v = w
        BY <3>1, <3>2, <4>1, <4>2
      <4>3. CASE v # w
        BY <2>3, <4>1, <4>3
      <4> QED BY <4>2, <4>3
    <3>5. NothingMissed'
      BY <3>4 DEF NothingMissed
    <3> QED BY <3>3, <3>5 DEF Missable
  <2> QED BY <2>4, <2>5
<1>4. CASE OpenWallet
  <2>1. PICK d \in Peers : Become(d, "UNLOCKED")
    BY <1>4 DEF OpenWallet
  <2>2. /\ UNCHANGED <<source, receiver, closed>> /\ intact' \subseteq intact
        /\ \A w \in Waits : pc' = Selecting[w] => pc = Selecting[w]
    BY <1>4 DEF OpenWallet, Selecting, Waits
  <2> QED BY <2>1, <2>2, BecomeMissable, PeersAreDaemons DEF WalletStates
<1>5. ASSUME NEW d \in Daemons, Progress(d) PROVE Missable'
  <2>1. PICK s \in WalletStates : Become(d, s)
    BY <1>5, ProgressRank
  <2> QED BY <1>5, <2>1, BecomeMissable DEF Progress
<1>6. ASSUME NEW w \in Waits, RecvError(w) PROVE Missable'
  BY <1>1, <1>6 DEF RecvError, daemonVars, TypeInv, TypeOK
<1>7. ASSUME NEW w \in Waits, Select(w) PROVE Missable'
  BY <1>1, <1>7 DEF Select, SelectError, SelectDone, SelectTimeout, GiveUp, daemonVars,
     Selecting, After, Waits
<1>8. CASE Dial \/ RequestFails \/ Tick \/ UNCHANGED vars
  BY <1>1, <1>8 DEF Dial, RequestFails, Tick, GiveUp, vars, daemonVars, streamVars,
     Selecting, Waits
<1>9. ASSUME NEW d \in Daemons, Bind(d) \/ Die(d) PROVE Missable'
  BY <1>1, <1>9 DEF Bind, Die, streamVars
<1> QED
  BY <1>2, <1>3, <1>4, <1>5, <1>6, <1>7, <1>8, <1>9 DEF Next, Start, Receive

\* waitServerState: a state that ends a wait is not missed while the stream of
\* that wait stands.
THEOREM StatesAreNotMissed == Spec => []NothingMissed
<1>1. Missable => NothingMissed
  BY DEF Missable
<1> QED
  BY <1>1, TypesInit, TypesStep, MissableInit, MissableStep, PTL DEF Spec
=============================================================================
