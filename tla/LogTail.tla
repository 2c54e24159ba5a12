------------------------------- MODULE LogTail -------------------------------
(***************************************************************************)
(* waitForLog of the miner and of cln: the log of a daemon is read line by *)
(* line while the daemon writes it, and the lines that contain the phrase  *)
(* are counted until there is one more than n.timesStarted.  At the end of *)
(* the file ReadString returns what there is of a line: the code looks for *)
(* the phrase in that fragment and forgets it.                             *)
(*                                                                         *)
(* A line is a sequence of pieces: the phrase is "phr" followed by "ase",  *)
(* "nl" ends a line.                                                       *)
(***************************************************************************)
EXTENDS Naturals, Sequences, FiniteSets

CONSTANTS
  TimesStarted,  \* n.timesStarted
  Earlier,       \* ready lines the log holds when waitForLog is called
  MaxLines       \* bound: lines the daemon writes

ASSUME TailAssumption ==
  TimesStarted \in Nat /\ Earlier \in Nat /\ MaxLines \in Nat

VARIABLES
  torn,     \* whether lines become visible in pieces
  log,      \* the contents of the file
  unwritten, \* the rest of the line the daemon is writing
  written,  \* how many lines the daemon has begun
  exists,   \* the file is there
  expired,  \* the deadline has passed
  pc,       \* where waitForLog is
  pos,      \* how much of the log the reader has consumed
  counted   \* the lines with the phrase it has seen

daemonVars == <<torn, log, unwritten, written, exists>>
readerVars == <<pc, pos, counted>>
vars == <<daemonVars, expired, readerVars>>

ReadyLine == <<"phr", "ase", "nl">>
OtherLine == <<"etc", "nl">>

\* regexp.MatchString(phrase, line).
Matches(line) ==
  \E k \in 1 .. Len(line) - 1 : line[k] = "phr" /\ line[k + 1] = "ase"

\* The ready lines of the log, complete up to the phrase.
ReadyLines ==
  Cardinality({k \in 1 .. Len(log) - 1 : log[k] = "phr" /\ log[k + 1] = "ase"})

TypeOK ==
  /\ torn \in BOOLEAN
  /\ log \in Seq({"phr", "ase", "etc", "nl"})
  /\ written \in 0 .. MaxLines
  /\ exists \in BOOLEAN /\ expired \in BOOLEAN
  /\ pc \in {"stat", "read", "found", "error"}
  /\ pos \in 0 .. Len(log)
  /\ counted \in 0 .. TimesStarted

Init ==
  /\ torn \in BOOLEAN
  /\ log = [k \in 1 .. 3 * Earlier |-> ReadyLine[1 + ((k - 1) % 3)]]
  /\ unwritten = <<>>
  /\ written = 0
  /\ exists = (Earlier > 0)
  /\ expired = FALSE
  /\ pc = "stat"
  /\ pos = 0 /\ counted = 0

-----------------------------------------------------------------------------

\* The daemon begins a line, and creates the file with the first one.
WriteLine ==
  /\ unwritten = <<>> /\ written < MaxLines
  /\ exists' = TRUE
  /\ written' = written + 1
  /\ \E line \in {ReadyLine, OtherLine} :
       IF torn
         THEN unwritten' = line /\ UNCHANGED log
         ELSE log' = log \o line /\ UNCHANGED unwritten
  /\ UNCHANGED <<torn, expired, readerVars>>

WritePiece ==
  /\ unwritten # <<>>
  /\ log' = Append(log, Head(unwritten))
  /\ unwritten' = Tail(unwritten)
  /\ UNCHANGED <<torn, written, exists, expired, readerVars>>

Tick == ~ expired /\ expired' = TRUE /\ UNCHANGED <<daemonVars, readerVars>>

\* Fault: the reader starts at the end of the file.
StatAtEnd ==
  /\ pc = "stat" /\ (exists \/ expired)
  /\ pc' = IF expired THEN "error" ELSE "read"
  /\ pos' = Len(log)
  /\ UNCHANGED <<daemonVars, expired, counted>>

\* The first loop waits for the file to appear.
Stat ==
  /\ pc = "stat" /\ (exists \/ expired)
  /\ pc' = IF expired THEN "error" ELSE "read"
  /\ UNCHANGED <<daemonVars, expired, pos, counted>>

\* reader.ReadString('\n'): up to the next end of line, or to the end of file.
NextRead ==
  LET ends == {k \in pos + 1 .. Len(log) : log[k] = "nl"}
  IN IF ends = {} THEN Len(log) ELSE CHOOSE k \in ends : \A j \in ends : k <= j

\* Fault: any ready line will do.
ReadLineAny ==
  /\ pc = "read" /\ ~ expired
  /\ pos' = NextRead
  /\ pc' = IF Matches(SubSeq(log, pos + 1, NextRead)) THEN "found" ELSE "read"
  /\ UNCHANGED <<daemonVars, expired, counted>>

\* Fault: the match is counted even by the one that returns.
ReadLineOvercounts ==
  /\ pc = "read" /\ ~ expired
  /\ pos' = NextRead
  /\ LET matches == Matches(SubSeq(log, pos + 1, NextRead))
     IN /\ pc' = IF matches /\ counted = TimesStarted THEN "found" ELSE "read"
        /\ counted' = IF matches THEN counted + 1 ELSE counted
  /\ UNCHANGED <<daemonVars, expired>>

\* One turn of the second loop.
ReadLine ==
  /\ pc = "read" /\ ~ expired
  /\ pos' = NextRead
  /\ LET matches == Matches(SubSeq(log, pos + 1, NextRead))
     IN /\ pc' = IF matches /\ counted = TimesStarted THEN "found" ELSE "read"
        /\ counted' = IF matches /\ counted # TimesStarted THEN counted + 1 ELSE counted
  /\ UNCHANGED <<daemonVars, expired>>

\* Fault: the loop does not look at the deadline.
GiveUpNever ==
  /\ pc = "read" /\ expired
  /\ pos' = NextRead
  /\ UNCHANGED <<daemonVars, expired, pc, counted>>

\* The loop ends at the deadline.
GiveUp ==
  /\ pc = "read" /\ expired
  /\ pc' = "error"
  /\ UNCHANGED <<daemonVars, expired, pos, counted>>

\* Reading fails with something else than the end of the file.
ReadError ==
  /\ pc = "read" /\ ~ expired
  /\ pc' = "error"
  /\ UNCHANGED <<daemonVars, expired, pos, counted>>

Reader == Stat \/ ReadLine \/ GiveUp

Next == WriteLine \/ WritePiece \/ Tick \/ Reader \/ ReadError

Spec == Init /\ [][Next]_vars

\* The reader keeps running; the daemon and the clock owe nothing.
FairSpec == Spec /\ WF_vars(Reader)

-----------------------------------------------------------------------------
(* Properties.                                                             *)

\* waitForLog is what AwaitLog of module Lifecycle assumes: it returns nil
\* only when the log has more ready lines than TimesStarted, also when lines
\* become visible in pieces.
Wait == INSTANCE LogWait WITH readyLines <- ReadyLines, found <- (pc = "found")
ImplementsLogWait == Wait!Spec

\* When lines are written whole, a log with enough ready lines is recognised
\* before the deadline (unless reading the file fails).
ReadyIsFound ==
  ~ torn /\ ReadyLines > TimesStarted ~> pc \in {"found", "error"} \/ expired

\* No ready line is counted twice, none that was consumed is missed.
CountsConsumed ==
  ~ torn /\ pc = "read" =>
    counted = Cardinality({k \in 1 .. pos : log[k] = "ase"})

\* waitForLog ends once the deadline has passed.
WaitIsCutOff == expired ~> pc \in {"found", "error"}
=============================================================================
