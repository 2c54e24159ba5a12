---------------------------- MODULE HarnessCleanup ----------------------------
(***************************************************************************)
(* What TearDown does once every node was told to stop: h.cleanup copies   *)
(* the registered log files into the logs directory of the harness         *)
(* (preserveLogs), saves that directory from the deletion of the test      *)
(* directory, runs the cleanables, deletes the test directory unless       *)
(* preserveState, and puts the logs back; then h.cancel ends the context.  *)
(* Every operation on the file system may fail; the code logs the error    *)
(* and goes on.                                                            *)
(***************************************************************************)
EXTENDS Naturals

CONSTANTS
  LogFiles,    \* how many log files were registered, under distinct names
  Cleanables,  \* how many cleanables were added
  MayFail      \* the operations whose failure is considered

Operations == {"mkdirall", "open", "create", "copy", "mkdirtemp", "save",
               "cleanable", "removeall", "mkdir", "restore", "removetemp"}

ASSUME CountsAssumption == LogFiles \in Nat /\ Cleanables \in Nat
ASSUME MayFailAssumption == MayFail \subseteq Operations

VARIABLES
  pc,             \* the operation h.cleanup comes to next
  k,              \* the log file or the cleanable it is at
  faults,         \* the operations that may fail in this behaviour
  preserveLogs,   \* the options of the harness
  preserveState,
  testDir,        \* h.Dir with the state of the nodes: "full", "rest" of it, "empty", "gone"
  logsAt,         \* where the logs directory is: "dir", "temp", "nowhere"
  copied,         \* the log files with a whole copy in the logs directory
  skipped,        \* those that could not be opened or copied (a history variable)
  tempDir,        \* the temporary directory: "none", "made", "removed"
  ownLogs,        \* a "logs" directory of the working directory: "none", "there",
                  \* "moved" into the test directory
  cleaned,        \* the cleanables that were called
  cancelled       \* h.cancel was called

options == <<faults, preserveLogs, preserveState>>
files == <<testDir, logsAt, copied, skipped, tempDir, ownLogs>>
vars == <<pc, k, options, files, cleaned, cancelled>>

TypeOK ==
  /\ pc \in Operations \cup {"cancel", "done"}
  /\ faults \subseteq MayFail
  /\ k \in 1 .. 1 + LogFiles + Cleanables
  /\ preserveLogs \in BOOLEAN /\ preserveState \in BOOLEAN
  /\ testDir \in {"full", "rest", "empty", "gone"}
  /\ logsAt \in {"dir", "temp", "nowhere"}
  /\ copied \subseteq 1 .. LogFiles /\ skipped \subseteq 1 .. LogFiles
  /\ tempDir \in {"none", "made", "removed"}
  /\ ownLogs \in {"none", "there", "moved"}
  /\ cleaned \subseteq 1 .. Cleanables
  /\ cancelled \in BOOLEAN

\* TearDown has stopped the nodes.
Init ==
  /\ pc = "mkdirall"
  /\ k = 1
  /\ faults \in SUBSET MayFail
  /\ preserveLogs \in BOOLEAN /\ preserveState \in BOOLEAN
  /\ testDir = "full"
  /\ logsAt = "nowhere"
  /\ copied = {} /\ skipped = {}
  /\ tempDir = "none"
  /\ ownLogs \in {"none", "there"}
  /\ cleaned = {}
  /\ cancelled = FALSE

-----------------------------------------------------------------------------

Goto(op) == pc' = op /\ UNCHANGED k
\* The first operation of a loop over n elements, or what follows the loop.
Enter(op, n, after) == k' = 1 /\ pc' = IF n > 0 THEN op ELSE after

\* Fault: the loop goes one element too far.
ContinuePastEnd(op, n, after) ==
  IF k <= n THEN k' = k + 1 /\ pc' = op ELSE k' = 1 /\ pc' = after

\* The next element of a loop over n elements, or what follows the loop.
Continue(op, n, after) ==
  IF k < n THEN k' = k + 1 /\ pc' = op ELSE k' = 1 /\ pc' = after

\* Fault: preserveState counts only along with preserveLogs.
AfterCopiesStateForgotten ==
  CASE preserveState /\ preserveLogs -> "cancel"
    [] ~ preserveState /\ preserveLogs -> "mkdirtemp"
    [] OTHER -> IF Cleanables > 0 THEN "cleanable" ELSE "removeall"

\* After the copies: with preserveState cleanup is over.
AfterCopies ==
  CASE preserveState -> "cancel"
    [] ~ preserveState /\ preserveLogs -> "mkdirtemp"
    [] OTHER -> IF Cleanables > 0 THEN "cleanable" ELSE "removeall"

\* Either branch of an operation; the failing one when it is let to fail.
Ok(op) == pc = op
Fails(op) == pc = op /\ op \in faults

\* os.MkdirAll(logsPath).
MakeLogs ==
  /\ \/ Ok("mkdirall") /\ logsAt' = "dir"
     \/ Fails("mkdirall") /\ UNCHANGED logsAt
  /\ IF preserveLogs THEN Enter("open", LogFiles, AfterCopies)
                     ELSE Goto(AfterCopies)
  /\ UNCHANGED <<options, testDir, copied, skipped, tempDir, ownLogs, cleaned, cancelled>>

\* os.Open of a log file; one that cannot be opened is skipped.
OpenLog ==
  /\ \/ Ok("open") /\ Goto("create") /\ UNCHANGED skipped
     \/ /\ Fails("open")
        /\ skipped' = skipped \cup {k}
        /\ Continue("open", LogFiles, AfterCopies)
  /\ UNCHANGED <<options, testDir, logsAt, copied, tempDir, ownLogs, cleaned, cancelled>>

\* os.Create of <name>.log in the logs directory.
CreateCopy ==
  /\ \/ /\ Ok("create") /\ logsAt = "dir"
        /\ Goto("copy")
        /\ UNCHANGED skipped
     \/ /\ Fails("create") \/ (Ok("create") /\ logsAt # "dir")
        /\ skipped' = skipped \cup {k}
        /\ Continue("open", LogFiles, AfterCopies)
  /\ UNCHANGED <<options, testDir, logsAt, copied, tempDir, ownLogs, cleaned, cancelled>>

\* Fault: a failing copy is tried again.
CopyLogRetried ==
  /\ \/ Ok("copy") /\ copied' = copied \cup {k} /\ Continue("open", LogFiles, AfterCopies)
     \/ Fails("copy") /\ Goto("open") /\ UNCHANGED copied
  /\ UNCHANGED <<options, testDir, logsAt, skipped, tempDir, ownLogs, cleaned, cancelled>>

\* io.Copy.
CopyLog ==
  /\ \/ Ok("copy") /\ copied' = copied \cup {k} /\ UNCHANGED skipped
     \/ Fails("copy") /\ skipped' = skipped \cup {k} /\ UNCHANGED copied
  /\ Continue("open", LogFiles, AfterCopies)
  /\ UNCHANGED <<options, testDir, logsAt, tempDir, ownLogs, cleaned, cancelled>>

\* os.MkdirTemp; when it fails the logs are not moved away.
MakeTemp ==
  /\ \/ Ok("mkdirtemp") /\ tempDir' = "made" /\ Goto("save")
     \/ /\ Fails("mkdirtemp") /\ UNCHANGED tempDir
        /\ Enter("cleanable", Cleanables, "removeall")
  /\ UNCHANGED <<options, testDir, logsAt, copied, skipped, ownLogs, cleaned, cancelled>>

\* os.Rename of the logs into the temporary directory.
SaveLogs ==
  /\ pc = "save"
  /\ \/ Ok("save") /\ logsAt = "dir" /\ logsAt' = "temp"
     \/ (Fails("save") \/ logsAt # "dir") /\ UNCHANGED logsAt
  /\ Enter("cleanable", Cleanables, "removeall")
  /\ UNCHANGED <<options, testDir, copied, skipped, tempDir, ownLogs, cleaned, cancelled>>

\* Fault: the first failing cleanable ends the loop.
CleanFirst ==
  /\ cleaned' = cleaned \cup {k}
  /\ \/ Ok("cleanable") /\ Continue("cleanable", Cleanables, "removeall")
     \/ Fails("cleanable") /\ Goto("removeall")
  /\ UNCHANGED <<options, files, cancelled>>

\* cleanable.Cleanup(): an error is collected and the next one is called.
Clean ==
  /\ pc = "cleanable"
  /\ cleaned' = cleaned \cup {k}
  /\ Continue("cleanable", Cleanables, "removeall")
  /\ UNCHANGED <<options, files, cancelled>>

AfterRemove == IF preserveLogs THEN "mkdir" ELSE "removetemp"

\* os.RemoveAll(h.Dir), which leaves something behind when it fails: a daemon
\* that is still stopping has made a file in it.
RemoveTestDir ==
  /\ \/ /\ Ok("removeall") /\ testDir' = "gone"
        /\ logsAt' = IF logsAt = "dir" THEN "nowhere" ELSE logsAt
     \/ /\ Fails("removeall") /\ testDir' = "rest"
        /\ logsAt' \in IF logsAt = "dir" THEN {"dir", "nowhere"} ELSE {logsAt}
  /\ Goto(AfterRemove)
  /\ UNCHANGED <<options, copied, skipped, tempDir, ownLogs, cleaned, cancelled>>

\* os.Mkdir(h.Dir), which fails when RemoveAll did.
MakeTestDir ==
  /\ pc = "mkdir"
  /\ \/ Ok("mkdir") /\ testDir = "gone" /\ testDir' = "empty"
     \/ (Fails("mkdir") \/ testDir # "gone") /\ UNCHANGED testDir
  /\ Goto("restore")
  /\ UNCHANGED <<options, logsAt, copied, skipped, tempDir, ownLogs, cleaned, cancelled>>

\* Fault: the logs are left in the temporary directory when Mkdir failed.
RestoreLogsIfEmpty ==
  /\ pc = "restore"
  /\ logsAt' = IF testDir = "empty" /\ logsAt = "temp" THEN "dir" ELSE logsAt
  /\ Goto("removetemp")
  /\ UNCHANGED <<options, testDir, copied, skipped, tempDir, ownLogs, cleaned, cancelled>>

\* What os.Rename(tempDir/logs, logsPath) finds: the saved logs or, when no
\* temporary directory could be made and tempDir is "", the working directory's own.
Restorable ==
  /\ testDir # "gone"
  /\ IF tempDir = "none" THEN ownLogs = "there" ELSE logsAt = "temp"

\* os.Rename of the logs back into the test directory; a logs directory that is
\* still there is in its way unless it is empty.
RestoreLogs ==
  /\ pc = "restore"
  /\ \/ /\ Ok("restore") /\ Restorable
        /\ logsAt = "dir" => copied = {}
        /\ logsAt' = IF logsAt = "temp" THEN "dir" ELSE logsAt
        /\ ownLogs' = IF tempDir = "none" THEN "moved" ELSE ownLogs
     \/ /\ Fails("restore") \/ ~ Restorable \/ logsAt = "dir"
        /\ UNCHANGED <<logsAt, ownLogs>>
  /\ Goto("removetemp")
  /\ UNCHANGED <<options, testDir, copied, skipped, tempDir, cleaned, cancelled>>

\* The deferred os.RemoveAll(tempDir), with whatever is in it; without a temporary
\* directory nothing was deferred.
Deferred ==
  /\ \/ /\ Ok("removetemp")
        /\ tempDir' = IF tempDir = "made" THEN "removed" ELSE tempDir
        /\ logsAt' = IF logsAt = "temp" THEN "nowhere" ELSE logsAt
     \/ /\ Fails("removetemp") /\ UNCHANGED tempDir
        /\ logsAt' \in IF logsAt = "temp" THEN {"temp", "nowhere"} ELSE {logsAt}
  /\ Goto("cancel")
  /\ UNCHANGED <<options, testDir, copied, skipped, ownLogs, cleaned, cancelled>>

\* h.cleanup has returned to TearDown: h.cancel().
Cancel ==
  /\ pc = "cancel"
  /\ cancelled' = TRUE
  /\ Goto("done")
  /\ UNCHANGED <<options, files, cleaned>>

Next ==
  \/ MakeLogs \/ OpenLog \/ CreateCopy \/ CopyLog \/ MakeTemp \/ SaveLogs
  \/ Clean \/ RemoveTestDir \/ MakeTestDir \/ RestoreLogs \/ Deferred \/ Cancel

Spec == Init /\ [][Next]_vars
FairSpec == Spec /\ WF_vars(Next)

-----------------------------------------------------------------------------
(* Properties.                                                             *)

\* preserveLogs: once TearDown is over, the logs directory holds a copy of
\* every registered log that could be opened and copied ("Save the logs from
\* being deleted").
LogsSaved ==
  pc = "done" /\ preserveLogs =>
    logsAt = "dir" /\ testDir # "gone" /\ copied \cup skipped = 1 .. LogFiles

\* The same whatever fails, except the making and the moving of directories, and
\* nothing else is taken for the saved logs that are moved back.
Moves == {"mkdirall", "mkdirtemp", "save", "mkdir", "restore"}
LogsPreserved == faults \cap Moves = {} => LogsSaved /\ ownLogs # "moved"

\* preserveState: no cleanable is called and nothing of the test directory,
\* the copied logs included, is ever moved or deleted.
StateKept ==
  preserveState =>
    /\ testDir = "full" /\ tempDir = "none" /\ cleaned = {}
    /\ copied # {} => logsAt = "dir"

\* Otherwise one failing step keeps no other from being taken: every cleanable
\* was called, no state of a node is left unless the deletion of the test
\* directory may fail, and no temporary directory unless its own deletion may.
CleanedUp ==
  pc = "done" /\ ~ preserveState =>
    /\ cleaned = 1 .. Cleanables
    /\ testDir = "empty" => preserveLogs
    /\ testDir \in {"gone", "empty"} \/ (testDir = "rest" /\ "removeall" \in faults)
    /\ tempDir = "made" => "removetemp" \in faults

\* TearDown cancels the context in the end, whatever fails.
Completes == <> cancelled
=============================================================================
