------------------------- MODULE HarnessCleanupProofs -------------------------
(***************************************************************************)
(* Proofs about module HarnessCleanup, for any number of log files and     *)
(* cleanables and any set of operations that may fail.                     *)
(***************************************************************************)
EXTENDS HarnessCleanup, TLAPS

USE CountsAssumption, MayFailAssumption

-----------------------------------------------------------------------------
(* Types.  The index k is within the loop that the program counter is in.  *)

Copying == {"open", "create", "copy"}

InLoop ==
  /\ pc = "mkdirall" => k = 1
  /\ pc \in Copying => k \in 1 .. LogFiles
  /\ pc = "cleanable" => k \in 1 .. Cleanables
  /\ k \in 1 .. 1 + LogFiles + Cleanables

TypeInv == TypeOK /\ InLoop

LEMMA TypesInit == Init => TypeInv
<1> SUFFICES ASSUME Init PROVE TypeInv
  OBVIOUS
<1>1. InLoop
  BY DEF Init, InLoop, Copying
<1>2. TypeOK
  BY <1>1 DEF Init, TypeOK, InLoop, Operations
<1> QED
  BY <1>1, <1>2 DEF TypeInv

\* Entering or continuing a loop keeps the index in range.
LEMMA LoopIndex ==
  ASSUME TypeInv
  PROVE  /\ Enter("open", LogFiles, AfterCopies) => InLoop'
         /\ Enter("cleanable", Cleanables, "removeall") => InLoop'
         /\ pc \in Copying /\ Continue("open", LogFiles, AfterCopies) => InLoop'
         /\ pc = "cleanable" /\ Continue("cleanable", Cleanables, "removeall") => InLoop'
BY DEF TypeInv, TypeOK, InLoop, Enter, Continue, AfterCopies, Copying

LEMMA TypesStep == TypeInv /\ [Next]_vars => TypeInv'
<1> SUFFICES ASSUME TypeInv, [Next]_vars PROVE TypeInv'
  OBVIOUS
<1> USE DEF TypeInv, TypeOK, Operations, options, files, Ok, Fails
<1>1. CASE MakeLogs
  <2>1. InLoop'
    <3>1. CASE preserveLogs
      BY <1>1, <3>1, LoopIndex DEF MakeLogs
    <3>2. CASE ~ preserveLogs
      BY <1>1, <3>2 DEF MakeLogs, Goto, InLoop, AfterCopies, Copying
    <3> QED
      BY <3>1, <3>2
  <2>2. TypeOK'
    BY <1>1, <2>1 DEF MakeLogs, Enter, Goto, AfterCopies, InLoop
  <2> QED
    BY <2>1, <2>2
<1>2. CASE OpenLog
  <2>1. InLoop'
    BY <1>2, LoopIndex DEF OpenLog, Goto, InLoop, Copying
  <2>2. TypeOK'
    BY <1>2, <2>1 DEF OpenLog, Goto, Continue, AfterCopies, InLoop, Copying
  <2> QED
    BY <2>1, <2>2
<1>3. CASE CreateCopy
  <2>1. InLoop'
    BY <1>3, LoopIndex DEF CreateCopy, Goto, InLoop, Copying
  <2>2. TypeOK'
    BY <1>3, <2>1 DEF CreateCopy, Goto, Continue, AfterCopies, InLoop, Copying
  <2> QED
    BY <2>1, <2>2
<1>4. CASE CopyLog
  <2>1. InLoop'
    BY <1>4, LoopIndex DEF CopyLog, Copying
  <2>2. TypeOK'
    BY <1>4, <2>1 DEF CopyLog, Continue, AfterCopies, InLoop, Copying
  <2> QED
    BY <2>1, <2>2
<1>5. CASE MakeTemp
  <2>1. InLoop'
    BY <1>5, LoopIndex DEF MakeTemp, Goto, InLoop, Copying
  <2>2. TypeOK'
    BY <1>5, <2>1 DEF MakeTemp, Goto, Enter, InLoop
  <2> QED
    BY <2>1, <2>2
<1>6. CASE SaveLogs
  <2>1. InLoop'
    BY <1>6, LoopIndex DEF SaveLogs
  <2>2. TypeOK'
    BY <1>6, <2>1 DEF SaveLogs, Enter, InLoop
  <2> QED
    BY <2>1, <2>2
<1>7. CASE Clean
  <2>1. InLoop'
    BY <1>7, LoopIndex DEF Clean
  <2>2. TypeOK'
    BY <1>7, <2>1 DEF Clean, Continue, InLoop
  <2> QED
    BY <2>1, <2>2
<1>8. CASE RemoveTestDir
  BY <1>8 DEF RemoveTestDir, AfterRemove, Goto, InLoop, Copying
<1>9. CASE MakeTestDir
  BY <1>9 DEF MakeTestDir, Goto, InLoop, Copying
<1>10. CASE RestoreLogs
  BY <1>10 DEF RestoreLogs, Restorable, Goto, InLoop, Copying
<1>11. CASE Deferred
  BY <1>11 DEF Deferred, Goto, InLoop, Copying
<1>12. CASE Cancel
  BY <1>12 DEF Cancel, Goto, InLoop, Copying
<1>13. CASE UNCHANGED vars
  BY <1>13 DEF vars, InLoop, Copying
<1> QED
  BY <1>1, <1>2, <1>3, <1>4, <1>5, <1>6, <1>7, <1>8, <1>9, <1>10, <1>11, <1>12,
     <1>13 DEF Next

\* Whatever fails, no loop of h.cleanup leaves the list it runs over.
THEOREM TypeCorrect == Spec => []TypeOK
<1>1. Spec => []TypeInv
  BY TypesInit, TypesStep, PTL DEF Spec
<1>2. TypeInv => TypeOK
  BY DEF TypeInv
<1> QED
  BY <1>1, <1>2, PTL

-----------------------------------------------------------------------------
(* Where the logs and the test directory are at every point of h.cleanup,  *)
(* when the logs are preserved and moving them does not fail.              *)

\* The index up to which the log files were dealt with.
DealtWith ==
  IF pc = "mkdirall" THEN 0 ELSE IF pc \in Copying THEN k - 1 ELSE LogFiles

\* Where the logs are; the test directory is there to put them back into.
LogsOnTheirWay ==
  /\ pc = "mkdirall" => testDir = "full"
  /\ pc \in Copying \cup {"mkdirtemp", "save"} => logsAt = "dir" /\ testDir = "full"
  /\ pc \in {"save", "cleanable", "removeall", "mkdir", "restore"} => tempDir = "made"
  /\ pc \in {"cleanable", "removeall"} => logsAt = "temp" /\ testDir = "full"
  /\ pc = "mkdir" => logsAt = "temp" /\ testDir \in {"gone", "rest"}
  /\ pc = "restore" => logsAt = "temp" /\ testDir \in {"empty", "rest"}
  /\ pc \in {"removetemp", "cancel", "done"} => logsAt = "dir" /\ testDir # "gone"
  /\ 1 .. DealtWith \subseteq copied \cup skipped

LogsInv == preserveLogs /\ faults \cap Moves = {} => LogsOnTheirWay

LEMMA LogsInit == Init => LogsInv
BY DEF Init, LogsInv, LogsOnTheirWay, DealtWith, Copying

LEMMA LogsStep == TypeInv /\ LogsInv /\ [Next]_vars => LogsInv'
<1> SUFFICES ASSUME TypeInv, LogsInv, [Next]_vars,
                    preserveLogs', (faults \cap Moves = {})'
             PROVE  LogsOnTheirWay'
  BY DEF LogsInv
<1>0. UNCHANGED options
  BY DEF Next, MakeLogs, OpenLog, CreateCopy, CopyLog, MakeTemp, SaveLogs, Clean,
         RemoveTestDir, MakeTestDir, RestoreLogs, Deferred, Cancel, vars
<1>01. LogsOnTheirWay /\ preserveLogs /\ faults \cap Moves = {}
  BY <1>0 DEF LogsInv, options
<1>02. /\ "mkdirall" \notin faults /\ "mkdirtemp" \notin faults /\ "save" \notin faults
       /\ "mkdir" \notin faults /\ "restore" \notin faults
  BY <1>01 DEF Moves
<1>03. k \in Nat /\ LogFiles \in Nat /\ InLoop
  BY DEF TypeInv, TypeOK, InLoop
<1> USE <1>01, <1>02, <1>03
    DEF LogsOnTheirWay, DealtWith, Copying, Ok, Fails, Goto, files, InLoop
<1>1. CASE MakeLogs
  <2>1. 1 .. 0 = {}
    OBVIOUS
  <2>2. CASE LogFiles > 0
    BY <1>1, <2>1, <2>2 DEF MakeLogs, Enter
  <2>3. CASE LogFiles = 0
    BY <1>1, <2>1, <2>3 DEF MakeLogs, Enter, AfterCopies
  <2> QED
    BY <2>2, <2>3
<1>2. CASE OpenLog
  BY <1>2 DEF OpenLog, Continue, AfterCopies
<1>3. CASE CreateCopy
  BY <1>3 DEF CreateCopy, Continue, AfterCopies
<1>4. CASE CopyLog
  BY <1>4 DEF CopyLog, Continue, AfterCopies
<1>5. CASE MakeTemp
  BY <1>5 DEF MakeTemp
<1>6. CASE SaveLogs
  BY <1>6 DEF SaveLogs, Enter
<1>7. CASE Clean
  BY <1>7 DEF Clean, Continue
<1>8. CASE RemoveTestDir
  BY <1>8 DEF RemoveTestDir, AfterRemove
<1>9. CASE MakeTestDir
  BY <1>9 DEF MakeTestDir
<1>10. CASE RestoreLogs
  BY <1>10 DEF RestoreLogs, Restorable
<1>11. CASE Deferred
  BY <1>11 DEF Deferred
<1>12. CASE Cancel
  BY <1>12 DEF Cancel
<1>13. CASE UNCHANGED vars
  BY <1>13 DEF vars
<1> QED
  BY <1>1, <1>2, <1>3, <1>4, <1>5, <1>6, <1>7, <1>8, <1>9, <1>10, <1>11, <1>12,
     <1>13 DEF Next

\* Logs are moved back only with preserveLogs, and then out of a temporary
\* directory that was made.
OwnInv ==
  /\ pc \in {"mkdir", "restore"} => preserveLogs
  /\ faults \cap Moves = {} => ownLogs # "moved"

LEMMA OwnInit == Init => OwnInv
BY DEF Init, OwnInv

LEMMA OwnStep == LogsInv /\ OwnInv /\ [Next]_vars => OwnInv'
<1> SUFFICES ASSUME LogsInv, OwnInv, [Next]_vars PROVE OwnInv'
  OBVIOUS
<1> USE DEF OwnInv, options, files, Goto, Enter, Continue, AfterCopies
<1>1. CASE MakeLogs \/ OpenLog \/ CreateCopy \/ CopyLog \/ MakeTemp \/ SaveLogs
  BY <1>1 DEF MakeLogs, OpenLog, CreateCopy, CopyLog, MakeTemp, SaveLogs
<1>2. CASE Clean \/ RemoveTestDir \/ MakeTestDir
  BY <1>2 DEF Clean, RemoveTestDir, AfterRemove, MakeTestDir, Ok, Fails
<1>3. CASE RestoreLogs
  <2>1. faults \cap Moves = {} => tempDir = "made"
    BY <1>3 DEF RestoreLogs, LogsInv, LogsOnTheirWay
  <2> QED BY <1>3, <2>1 DEF RestoreLogs
<1>4. CASE Deferred \/ Cancel \/ UNCHANGED vars
  BY <1>4 DEF Deferred, Cancel, vars
<1> QED
  BY <1>1, <1>2, <1>3, <1>4 DEF Next

\* Unless making or moving a directory fails: with preserveLogs every log that
\* could be opened and copied is in the logs directory after TearDown, whatever
\* cleanables, copies and the deletion do, and the working directory's own logs are
\* never taken for those that were saved.
THEOREM LogsAreKept == Spec => []LogsPreserved
<1>1. Spec => [](TypeInv /\ LogsInv /\ OwnInv)
  BY TypesInit, TypesStep, LogsInit, LogsStep, OwnInit, OwnStep, PTL DEF Spec
<1>2. TypeInv /\ LogsInv /\ OwnInv => LogsPreserved
  BY DEF TypeInv, TypeOK, LogsInv, LogsOnTheirWay, DealtWith, Copying, OwnInv,
         LogsPreserved, LogsSaved
<1> QED
  BY <1>1, <1>2, PTL

-----------------------------------------------------------------------------
(* preserveState: nothing past the copies is ever done.                    *)

StateInv ==
  preserveState =>
    /\ pc \in {"mkdirall", "open", "create", "copy", "cancel", "done"}
    /\ testDir = "full" /\ tempDir = "none" /\ cleaned = {}
    /\ copied # {} \/ pc = "copy" => logsAt = "dir"

LEMMA StateStep == TypeInv /\ StateInv /\ [Next]_vars => StateInv'
<1> SUFFICES ASSUME TypeInv, StateInv, [Next]_vars PROVE StateInv'
  OBVIOUS
<1> USE DEF StateInv, Ok, Fails, Goto, options, files
<1>1. CASE MakeLogs
  BY <1>1 DEF MakeLogs, Enter, AfterCopies
<1>2. CASE OpenLog
  BY <1>2 DEF OpenLog, Continue, AfterCopies
<1>3. CASE CreateCopy
  BY <1>3 DEF CreateCopy, Continue, AfterCopies
<1>4. CASE CopyLog
  BY <1>4 DEF CopyLog, Continue, AfterCopies
<1>5. CASE MakeTemp
  BY <1>5 DEF MakeTemp
<1>6. CASE SaveLogs
  BY <1>6 DEF SaveLogs
<1>7. CASE Clean
  BY <1>7 DEF Clean
<1>8. CASE RemoveTestDir
  BY <1>8 DEF RemoveTestDir
<1>9. CASE MakeTestDir
  BY <1>9 DEF MakeTestDir
<1>10. CASE RestoreLogs
  BY <1>10 DEF RestoreLogs, Restorable
<1>11. CASE Deferred
  BY <1>11 DEF Deferred
<1>12. CASE Cancel
  BY <1>12 DEF Cancel
<1>13. CASE UNCHANGED vars
  BY <1>13 DEF vars
<1> QED
  BY <1>1, <1>2, <1>3, <1>4, <1>5, <1>6, <1>7, <1>8, <1>9, <1>10, <1>11, <1>12,
     <1>13 DEF Next

\* preserveState keeps the state of the nodes and the copied logs, for any
\* number of log files and cleanables and whatever fails.
THEOREM StateIsKept == Spec => []StateKept
<1>1. Init => StateInv
  BY DEF Init, StateInv
<1>2. StateInv => StateKept
  BY DEF StateInv, StateKept
<1> QED
  BY <1>1, <1>2, StateStep, TypesInit, TypesStep, PTL DEF Spec

-----------------------------------------------------------------------------
(* Without preserveState everything is cleaned up.                         *)

\* The index up to which the cleanables were called.
Called ==
  IF pc \in Copying \cup {"mkdirall", "mkdirtemp", "save"} THEN 0
  ELSE IF pc = "cleanable" THEN k - 1 ELSE Cleanables

CleanInv ==
  ~ preserveState =>
    /\ 1 .. Called \subseteq cleaned
    /\ pc \in {"mkdir", "restore"} => preserveLogs
    /\ pc \in {"mkdir", "restore", "removetemp", "cancel", "done"} =>
         /\ testDir = "empty" => preserveLogs
         /\ testDir \in {"gone", "empty"} \/ (testDir = "rest" /\ "removeall" \in faults)
    /\ pc \in {"cancel", "done"} => (tempDir = "made" => "removetemp" \in faults)

LEMMA CleanStep == TypeInv /\ CleanInv /\ [Next]_vars => CleanInv'
<1> SUFFICES ASSUME TypeInv, CleanInv, [Next]_vars PROVE CleanInv'
  OBVIOUS
<1>0. k \in Nat /\ Cleanables \in Nat /\ InLoop /\ 1 .. 0 = {}
  BY DEF TypeInv, TypeOK, InLoop
<1> USE <1>0 DEF CleanInv, Called, Copying, InLoop, Ok, Fails, Goto, options, files
<1>1. CASE MakeLogs
  BY <1>1 DEF MakeLogs, Enter, AfterCopies
<1>2. CASE OpenLog
  BY <1>2 DEF OpenLog, Continue, AfterCopies
<1>3. CASE CreateCopy
  BY <1>3 DEF CreateCopy, Continue, AfterCopies
<1>4. CASE CopyLog
  BY <1>4 DEF CopyLog, Continue, AfterCopies
<1>5. CASE MakeTemp
  BY <1>5 DEF MakeTemp, Enter
<1>6. CASE SaveLogs
  BY <1>6 DEF SaveLogs, Enter
<1>7. CASE Clean
  BY <1>7 DEF Clean, Continue
<1>8. CASE RemoveTestDir
  BY <1>8 DEF RemoveTestDir, AfterRemove
<1>9. CASE MakeTestDir
  BY <1>9 DEF MakeTestDir
<1>10. CASE RestoreLogs
  BY <1>10 DEF RestoreLogs, Restorable
<1>11. CASE Deferred
  BY <1>11 DEF Deferred
<1>12. CASE Cancel
  BY <1>12 DEF Cancel
<1>13. CASE UNCHANGED vars
  BY <1>13 DEF vars
<1> QED
  BY <1>1, <1>2, <1>3, <1>4, <1>5, <1>6, <1>7, <1>8, <1>9, <1>10, <1>11, <1>12,
     <1>13 DEF Next

\* Without preserveState every cleanable is called, no state of a node is left
\* unless the deletion of the test directory may fail, and no temporary directory
\* unless its own deletion may, whatever else fails.
THEOREM AllCleanedUp == Spec => []CleanedUp
<1>1. Init => CleanInv
  BY DEF Init, CleanInv, Called
<1>2. TypeInv /\ CleanInv => CleanedUp
  BY DEF TypeInv, TypeOK, CleanInv, Called, Copying, CleanedUp
<1> QED
  BY <1>1, <1>2, CleanStep, TypesInit, TypesStep, PTL DEF Spec
===============================================================================
