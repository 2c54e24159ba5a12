------------------------------ MODULE ClnOutput ------------------------------
(***************************************************************************)
(* waitForLog of cln next to the other thing Start of cln sets up: the     *)
(* daemon's stdout and stderr are pipes, each emptied by a goroutine with  *)
(* a bufio.Scanner, and a third goroutine closes them when cmd.Wait        *)
(* returns.  The daemon writes its log and its output one after the other, *)
(* so a full pipe holds up the ready line that waitForLog waits for.  The  *)
(* two pipes behave alike; one is modelled.  (The miner's output is        *)
(* discarded and lnd's goes to a file: for the miner LogTail is all.)      *)
(***************************************************************************)
EXTENDS LogTail

CONSTANTS
  Capacity,  \* lines the pipe takes
  MaxPrints  \* bound: lines the daemon writes to the pipe

ASSUME PipeAssumption == Capacity \in Nat \ {0} /\ MaxPrints \in Nat

VARIABLES
  pipe,      \* the lines in the pipe
  printing,  \* the line the daemon is writing to the pipe: none or one
  prints,    \* how many lines it has begun to write there
  running,   \* the daemon runs
  plugin,    \* a subprocess of the daemon has the pipe open, too
  readEnd,   \* the read end is open
  scanner    \* the scanning goroutine: in its loop, or returned on a line
             \* that was too long, or returned at the end of what it reads

outputVars == <<pipe, printing, prints, running, plugin, readEnd, scanner>>
allVars == <<vars, outputVars>>

\* A line above bufio.MaxScanTokenSize is "long".
Lines == {"short", "long"}

\* Nothing that is still needed was taken away: the read end is closed, and
\* done with it, only when the daemon is gone.
OutputTypeOK ==
  /\ TypeOK
  /\ pipe \in Seq(Lines) /\ Len(pipe) <= Capacity
  /\ printing \in Seq(Lines) /\ Len(printing) <= 1
  /\ prints \in 0 .. MaxPrints
  /\ running \in BOOLEAN /\ plugin \in BOOLEAN
  /\ readEnd \in BOOLEAN /\ (readEnd \/ ~ running)
  /\ scanner \in {"scan", "tooLong", "ended"}

OutputInit ==
  /\ Init
  /\ pipe = <<>> /\ printing = <<>> /\ prints = 0
  /\ running = TRUE /\ plugin \in BOOLEAN
  /\ readEnd = TRUE /\ scanner = "scan"

-----------------------------------------------------------------------------

\* The daemon turns to its log only when it is not held up at the pipe.
WriteLog ==
  /\ running /\ printing = <<>>
  /\ WriteLine \/ WritePiece
  /\ UNCHANGED outputVars

WaitForLog == (Tick \/ Reader \/ ReadError) /\ UNCHANGED outputVars

\* The daemon writes a line to the pipe, and blocks while that is full.
WriteOutput ==
  /\ running /\ printing = <<>> /\ unwritten = <<>>
  /\ prints < MaxPrints
  /\ \E line \in Lines : printing' = <<line>>
  /\ prints' = prints + 1
  /\ UNCHANGED <<vars, pipe, running, plugin, readEnd, scanner>>
PipeTakes ==
  /\ printing # <<>> /\ Len(pipe) < Capacity
  /\ pipe' = pipe \o printing
  /\ printing' = <<>>
  /\ UNCHANGED <<vars, prints, running, plugin, readEnd, scanner>>

\* Fault: if scanner.Scan() instead of for scanner.Scan().
ScanOnce ==
  /\ scanner = "scan" /\ pipe # <<>>
  /\ pipe' = Tail(pipe)
  /\ scanner' = IF Head(pipe) = "long" THEN "tooLong" ELSE "ended"
  /\ UNCHANGED <<vars, printing, prints, running, plugin, readEnd>>

\* scanner.Scan: a line is logged; on one that is too long the goroutine returns,
\* and nobody empties the pipe any more.
Scan ==
  /\ scanner = "scan" /\ pipe # <<>>
  /\ pipe' = Tail(pipe)
  /\ scanner' = IF Head(pipe) = "long" THEN "tooLong" ELSE "scan"
  /\ UNCHANGED <<vars, printing, prints, running, plugin, readEnd>>

\* The loop ends at the end of the file, once nobody can write to the pipe, or
\* when the read end was closed, whatever was still in the pipe.
ScanEnds ==
  /\ scanner = "scan"
  /\ ~ readEnd \/ (pipe = <<>> /\ ~ running /\ ~ plugin)
  /\ scanner' = "ended"
  /\ UNCHANGED <<vars, pipe, printing, prints, running, plugin, readEnd>>

DaemonDies ==
  /\ running
  /\ running' = FALSE
  /\ printing' = <<>>
  /\ UNCHANGED <<vars, pipe, prints, plugin, readEnd, scanner>>

PluginEnds ==
  /\ plugin
  /\ plugin' = FALSE
  /\ UNCHANGED <<vars, pipe, printing, prints, running, readEnd, scanner>>

\* Fault: the process is waited for with cmd.Process.Wait, as the miner's is.
ReapProcess == ~ running /\ UNCHANGED allVars

\* Fault: the pipes are closed without waiting for the process.
ReapEarly ==
  /\ readEnd
  /\ readEnd' = FALSE
  /\ UNCHANGED <<vars, pipe, printing, prints, running, plugin, scanner>>

\* cmd.Wait returns and has closed the read ends; done is closed.
Reap ==
  /\ ~ running /\ readEnd
  /\ readEnd' = FALSE
  /\ UNCHANGED <<vars, pipe, printing, prints, running, plugin, scanner>>

OutputNext ==
  \/ WriteLog \/ WaitForLog
  \/ WriteOutput \/ PipeTakes \/ Scan \/ ScanEnds
  \/ DaemonDies \/ PluginEnds \/ Reap

\* The three goroutines and waitForLog run, and so does a write to a pipe that
\* has room; daemon, plugin and clock owe nothing.
OutputSpec ==
  /\ OutputInit /\ [][OutputNext]_allVars
  /\ WF_allVars(Reader /\ UNCHANGED outputVars)
  /\ WF_allVars(Scan \/ ScanEnds) /\ WF_allVars(Reap) /\ WF_allVars(PipeTakes)

-----------------------------------------------------------------------------
(* Properties.                                                             *)

\* The daemon is not held up by its output for good, unless it wrote a line
\* that is too long for the scanner, whose goroutine has returned then.
DaemonNotHeldUp == printing # <<>> ~> printing = <<>> \/ scanner = "tooLong"

\* The scanning goroutines return when the daemon is gone, even if a plugin that
\* survives it never closes its end of the pipe.
ScannersEnd == ~ running ~> scanner # "scan"
=============================================================================
