--------------------------- MODULE ClnOutputProofs ---------------------------
(***************************************************************************)
(* Proofs about modules LogTail and ClnOutput, for any number of starts,   *)
(* any earlier log and any number of lines to come.  The log grows while   *)
(* it is read, in whole lines or in pieces; the proofs look at the part    *)
(* before pos, which no longer changes.                                    *)
(***************************************************************************)
EXTENDS ClnOutput, SequenceTheorems, FiniteSetTheorems, TLAPS

USE TailAssumption, PipeAssumption

Pieces == {"phr", "ase", "etc", "nl"}

-----------------------------------------------------------------------------
(* waitForLog next to the pipes is waitForLog: every step of ClnOutput is  *)
(* one of LogTail, or leaves it alone.                                     *)

LEMMA OutputInitIsTail == OutputInit => Init
BY DEF OutputInit

LEMMA OutputIsTail == [OutputNext]_allVars => [Next]_vars
BY DEF OutputNext, allVars, WriteLog, WaitForLog, WriteOutput, PipeTakes, Scan, ScanEnds,
       DaemonDies, PluginEnds, Reap, Next

-----------------------------------------------------------------------------
(* The types.                                                              *)

LEMMA LinesAreSeqs ==
  /\ ReadyLine \in Seq(Pieces) /\ Len(ReadyLine) = 3
  /\ ReadyLine[1] = "phr" /\ ReadyLine[2] = "ase" /\ ReadyLine[3] = "nl"
  /\ OtherLine \in Seq(Pieces) /\ Len(OtherLine) = 2
  /\ OtherLine[1] = "etc" /\ OtherLine[2] = "nl"
BY DEF ReadyLine, OtherLine, Pieces

\* What ReadString consumes: no further than the end of the log, no further
\* than the next end of line.
LEMMA NextReadDef ==
  ASSUME log \in Seq(Pieces), pos \in 0 .. Len(log)
  PROVE  /\ NextRead \in pos .. Len(log)
         /\ NextRead = Len(log) \/ (NextRead > pos /\ log[NextRead] = "nl")
         /\ \A k \in pos + 1 .. NextRead - 1 : log[k] # "nl"
<1> DEFINE ends == {k \in pos + 1 .. Len(log) : log[k] = "nl"}
<1>0. Len(log) \in Nat
  BY LenProperties
<1>1. CASE ends = {}
  <2>1. NextRead = Len(log)
    BY <1>1 DEF NextRead
  <2> QED BY <1>0, <1>1, <2>1
<1>2. CASE ends # {}
  <2>1. ends \in SUBSET Nat
    BY <1>0
  <2>2. PICK m \in ends : \A k \in ends : ~ (<<k, m>> \in OpToRel(<, Nat))
    <3> HIDE DEF ends
    <3> QED BY <1>2, <2>1, NatLessThanWellFounded, WFMin, Zenon
  <2>3. \A k \in ends : m <= k
    <3> HIDE DEF ends
    <3>1. \A k \in ends : ~ (k < m)
      BY <2>1, <2>2 DEF OpToRel
    <3> QED BY <2>1, <3>1
  <2>4. NextRead = CHOOSE k \in ends : \A j \in ends : k <= j
    BY <1>2 DEF NextRead
  <2>5. NextRead \in ends /\ \A j \in ends : NextRead <= j
    <3> HIDE DEF ends
    <3> QED BY <2>3, <2>4
  <2> QED BY <1>0, <2>5
<1> QED BY <1>1, <1>2

\* The log holds pieces, and so does the rest of a line that is being written.
TailInv == TypeOK /\ log \in Seq(Pieces) /\ unwritten \in Seq(Pieces)

LEMMA TailInit == Init => TailInv
<1> SUFFICES ASSUME Init PROVE TailInv
  OBVIOUS
<1>1. log \in Seq(Pieces)
  <2>1. \A k \in 1 .. 3 * Earlier : ReadyLine[1 + ((k - 1) % 3)] \in Pieces
    BY LinesAreSeqs DEF Pieces
  <2> QED BY <2>1 DEF Init
<1>2. unwritten \in Seq(Pieces)
  BY DEF Init
<1>3. torn \in BOOLEAN /\ exists \in BOOLEAN /\ expired \in BOOLEAN
  <2>1. (Earlier > 0) \in BOOLEAN
    BY SMT
  <2> QED BY <2>1, Zenon DEF Init
<1>4. /\ written \in 0 .. MaxLines /\ counted \in 0 .. TimesStarted
      /\ pc \in {"stat", "read", "found", "error"}
  BY DEF Init
<1>5. pos \in 0 .. Len(log)
  <2>1. Len(log) \in Nat
    BY <1>1, LenProperties
  <2> QED BY <2>1 DEF Init
<1> QED BY <1>1, <1>2, <1>3, <1>4, <1>5 DEF TailInv, TypeOK, Pieces

LEMMA TailStep == TailInv /\ [Next]_vars => TailInv'
<1> SUFFICES ASSUME TailInv, [Next]_vars PROVE TailInv'
  OBVIOUS
<1>0. /\ log \in Seq(Pieces) /\ unwritten \in Seq(Pieces)
      /\ Len(log) \in Nat /\ pos \in 0 .. Len(log)
  BY DEF TailInv, TypeOK
<1> USE DEF TailInv, TypeOK
<1>1. CASE WriteLine
  <2>1. PICK line \in {ReadyLine, OtherLine} :
          IF torn THEN unwritten' = line /\ UNCHANGED log
                  ELSE log' = log \o line /\ UNCHANGED unwritten
    BY <1>1 DEF WriteLine
  <2>2. line \in Seq(Pieces)
    BY LinesAreSeqs
  <2>3. log' \in Seq(Pieces) /\ unwritten' \in Seq(Pieces) /\ Len(log') \in Nat
        /\ Len(log') >= Len(log)
    <3>1. log \o line \in Seq(Pieces) /\ Len(log \o line) = Len(log) + Len(line)
      BY <1>0, <2>2, ConcatProperties
    <3>2. Len(line) \in Nat
      BY <2>2, LenProperties
    <3>3. CASE torn
      BY <1>0, <2>1, <2>2, <3>3
    <3>4. CASE ~ torn
      <4>1. log' = log \o line /\ unwritten' = unwritten
        BY <2>1, <3>4
      <4>2. log' \in Seq(Pieces) /\ Len(log') = Len(log) + Len(line)
        BY <3>1, <4>1, Zenon
      <4> QED BY <1>0, <3>2, <4>1, <4>2
    <3> QED BY <3>3, <3>4
  <2>4. /\ written' \in 0 .. MaxLines /\ exists' = TRUE
        /\ UNCHANGED <<torn, expired, pc, pos, counted>>
    BY <1>1 DEF WriteLine, readerVars
  <2>5. pos' \in 0 .. Len(log')
    BY <1>0, <2>3, <2>4
  <2> QED BY <2>3, <2>4, <2>5 DEF Pieces
<1>2. CASE WritePiece
  <2>1. Head(unwritten) \in Pieces /\ Tail(unwritten) \in Seq(Pieces)
    BY <1>0, <1>2, HeadTailProperties DEF WritePiece
  <2>2. /\ log' \in Seq(Pieces) /\ unwritten' \in Seq(Pieces)
        /\ Len(log') = Len(log) + 1
    BY <1>0, <1>2, <2>1 DEF WritePiece
  <2> QED BY <1>0, <1>2, <2>2 DEF WritePiece, readerVars, Pieces
<1>3. CASE ReadLine
  <2>1. NextRead \in 0 .. Len(log)
    BY <1>0, NextReadDef
  <2> QED BY <1>0, <1>3, <2>1 DEF ReadLine, daemonVars
<1>4. CASE Tick \/ Stat \/ GiveUp \/ ReadError
  BY <1>4 DEF Tick, Stat, GiveUp, ReadError, daemonVars, readerVars
<1>5. CASE UNCHANGED vars
  BY <1>5 DEF vars, daemonVars, readerVars
<1> QED
  BY <1>1, <1>2, <1>3, <1>4, <1>5 DEF Next, Reader

\* The log only grows, and it grows while the reader does nothing.
LEMMA LogGrows ==
  ASSUME TailInv, [Next]_vars
  PROVE  \/ UNCHANGED log
         \/ /\ UNCHANGED readerVars
            /\ log' \in Seq(Pieces) /\ Len(log') \in Nat /\ Len(log') >= Len(log)
            /\ \A k \in 1 .. Len(log) : log'[k] = log[k]
<1>0. log \in Seq(Pieces) /\ unwritten \in Seq(Pieces) /\ Len(log) \in Nat
  BY LenProperties DEF TailInv
<1>1. ASSUME NEW more \in Seq(Pieces), log' = log \o more
      PROVE  /\ log' \in Seq(Pieces) /\ Len(log') \in Nat /\ Len(log') >= Len(log)
             /\ \A k \in 1 .. Len(log) : log'[k] = log[k]
  <2>1. /\ log \o more \in Seq(Pieces) /\ Len(log \o more) = Len(log) + Len(more)
        /\ \A k \in 1 .. Len(log) + Len(more) :
             (log \o more)[k] = IF k <= Len(log) THEN log[k] ELSE more[k - Len(log)]
    BY <1>0, ConcatProperties
  <2>2. Len(more) \in Nat
    BY LenProperties
  <2>3. /\ log' \in Seq(Pieces) /\ Len(log') = Len(log) + Len(more)
        /\ \A k \in 1 .. Len(log) + Len(more) :
             log'[k] = IF k <= Len(log) THEN log[k] ELSE more[k - Len(log)]
    BY <1>1, <2>1, Zenon
  <2>4. \A k \in 1 .. Len(log) : k \in 1 .. Len(log) + Len(more) /\ k <= Len(log)
    BY <1>0, <2>2
  <2> QED BY <1>0, <2>2, <2>3, <2>4
<1>2. CASE WriteLine
  <2>1. PICK line \in {ReadyLine, OtherLine} :
          IF torn THEN unwritten' = line /\ UNCHANGED log
                  ELSE log' = log \o line /\ UNCHANGED unwritten
    BY <1>2 DEF WriteLine
  <2>2. line \in Seq(Pieces)
    BY LinesAreSeqs
  <2> QED BY <1>1, <1>2, <2>1, <2>2, Zenon DEF WriteLine
<1>3. CASE WritePiece
  <2>1. Head(unwritten) \in Pieces
    BY <1>0, <1>3, HeadTailProperties DEF WritePiece
  <2>2. log' = log \o <<Head(unwritten)>> /\ <<Head(unwritten)>> \in Seq(Pieces)
    BY <1>0, <1>3, <2>1 DEF WritePiece
  <2> QED BY <1>1, <1>3, <2>2 DEF WritePiece
<1>4. CASE Tick \/ Stat \/ ReadLine \/ GiveUp \/ ReadError \/ UNCHANGED vars
  BY <1>4 DEF Tick, Stat, ReadLine, GiveUp, ReadError, vars, daemonVars
<1> QED
  BY <1>2, <1>3, <1>4 DEF Next, Reader

-----------------------------------------------------------------------------
(* The refinement of LogWait, for lines written whole or in pieces: what   *)
(* the reader has counted is no more than the ready lines up to pos.       *)

ReadyUpTo(m) == {k \in 1 .. m - 1 : log[k] = "phr" /\ log[k + 1] = "ase"}

CountInv == counted <= Cardinality(ReadyUpTo(pos))

\* The number of elements of two finite sets, one within the other.
LEMMA Larger ==
  ASSUME NEW n \in Int, NEW T \in SUBSET (1 .. n), NEW S \in SUBSET T
  PROVE  /\ Cardinality(S) \in Nat /\ Cardinality(T) \in Nat
         /\ Cardinality(S) <= Cardinality(T)
         /\ S # T => Cardinality(S) < Cardinality(T)
<1>1. IsFiniteSet(1 .. n)
  BY FS_Interval
<1>2. IsFiniteSet(T)
  BY <1>1, FS_Subset
<1>3. IsFiniteSet(S) /\ Cardinality(S) <= Cardinality(T)
      /\ (Cardinality(T) = Cardinality(S) => T = S)
  BY <1>2, FS_Subset
<1>4. Cardinality(S) \in Nat /\ Cardinality(T) \in Nat
  BY <1>2, <1>3, FS_CardinalityType
<1> QED BY <1>3, <1>4

\* The line that is read contains the phrase when the log has it there.
LEMMA MatchIsInLog ==
  ASSUME TailInv
  PROVE  Matches(SubSeq(log, pos + 1, NextRead)) <=>
           \E k \in pos + 1 .. NextRead - 1 : log[k] = "phr" /\ log[k + 1] = "ase"
<1> DEFINE line == SubSeq(log, pos + 1, NextRead)
<1>0. /\ log \in Seq(Pieces) /\ Len(log) \in Nat /\ pos \in 0 .. Len(log)
      /\ NextRead \in pos .. Len(log)
  BY NextReadDef, LenProperties DEF TailInv, TypeOK
<1>1. /\ Len(line) = NextRead - pos
      /\ \A i \in 1 .. NextRead - pos : line[i] = log[pos + i]
  <2>1. \A i \in pos + 1 .. NextRead : log[i] \in Pieces
    BY <1>0, ElementOfSeq
  <2>2. /\ Len(line) = IF pos + 1 <= NextRead THEN NextRead - (pos + 1) + 1 ELSE 0
        /\ \A i \in 1 .. NextRead - (pos + 1) + 1 : line[i] = log[(pos + 1) + i - 1]
    BY <1>0, <2>1, SubSeqProperties
  <2>3. \A i \in 1 .. NextRead - pos : (pos + 1) + i - 1 = pos + i
    BY <1>0
  <2>4. NextRead - (pos + 1) + 1 = NextRead - pos
    BY <1>0
  <2> HIDE DEF line
  <2> QED BY <1>0, <2>2, <2>3, <2>4
<1> HIDE DEF line
<1>2. ASSUME NEW i \in 1 .. Len(line) - 1
      PROVE  /\ pos + i \in pos + 1 .. NextRead - 1
             /\ line[i] = log[pos + i] /\ line[i + 1] = log[(pos + i) + 1]
  <2>1. /\ pos + i \in pos + 1 .. NextRead - 1
        /\ i \in 1 .. NextRead - pos /\ i + 1 \in 1 .. NextRead - pos
        /\ pos + (i + 1) = (pos + i) + 1
    BY <1>0, <1>1
  <2> QED BY <1>1, <2>1
<1>3. ASSUME NEW k \in pos + 1 .. NextRead - 1
      PROVE  k - pos \in 1 .. Len(line) - 1 /\ pos + (k - pos) = k
  BY <1>0, <1>1
<1>4. Matches(line) <=> \E i \in 1 .. Len(line) - 1 : line[i] = "phr" /\ line[i + 1] = "ase"
  BY Zenon DEF Matches
<1>5. ASSUME Matches(line)
      PROVE  \E k \in pos + 1 .. NextRead - 1 : log[k] = "phr" /\ log[k + 1] = "ase"
  <2>1. PICK i \in 1 .. Len(line) - 1 : line[i] = "phr" /\ line[i + 1] = "ase"
    BY <1>4, <1>5
  <2> QED BY <1>2, <2>1
<1>6. ASSUME NEW k \in pos + 1 .. NextRead - 1, log[k] = "phr", log[k + 1] = "ase"
      PROVE  Matches(line)
  <2>1. /\ k - pos \in 1 .. Len(line) - 1
        /\ line[k - pos] = log[k] /\ line[(k - pos) + 1] = log[k + 1]
    BY <1>2, <1>3
  <2> QED BY <1>4, <1>6, <2>1, Zenon
<1> QED BY <1>5, <1>6, Zenon DEF line

\* Reading on finds no fewer ready lines, and more if the line matches.
LEMMA ReadFindsMore ==
  ASSUME TailInv
  PROVE  /\ Cardinality(ReadyUpTo(pos)) \in Nat
         /\ Cardinality(ReadyUpTo(NextRead)) \in Nat
         /\ Cardinality(ReadyUpTo(pos)) <= Cardinality(ReadyUpTo(NextRead))
         /\ Matches(SubSeq(log, pos + 1, NextRead)) =>
              Cardinality(ReadyUpTo(pos)) < Cardinality(ReadyUpTo(NextRead))
         /\ Cardinality(ReadyUpTo(NextRead)) <= ReadyLines /\ ReadyLines \in Nat
<1>0. /\ Len(log) \in Nat /\ pos \in 0 .. Len(log) /\ NextRead \in pos .. Len(log)
  BY NextReadDef, LenProperties DEF TailInv, TypeOK
<1>1. /\ ReadyUpTo(pos) \in SUBSET ReadyUpTo(NextRead)
      /\ ReadyUpTo(NextRead) \in SUBSET ReadyUpTo(Len(log))
      /\ ReadyUpTo(NextRead) \in SUBSET (1 .. NextRead - 1)
      /\ ReadyUpTo(Len(log)) \in SUBSET (1 .. Len(log) - 1)
  BY <1>0 DEF ReadyUpTo
<1>2. ReadyLines = Cardinality(ReadyUpTo(Len(log)))
  BY DEF ReadyLines, ReadyUpTo
<1>3. Matches(SubSeq(log, pos + 1, NextRead)) => ReadyUpTo(pos) # ReadyUpTo(NextRead)
  <2> SUFFICES ASSUME Matches(SubSeq(log, pos + 1, NextRead))
               PROVE  ReadyUpTo(pos) # ReadyUpTo(NextRead)
    OBVIOUS
  <2>1. PICK k \in pos + 1 .. NextRead - 1 : log[k] = "phr" /\ log[k + 1] = "ase"
    BY MatchIsInLog
  <2>2. k \in ReadyUpTo(NextRead) /\ k \notin ReadyUpTo(pos)
    BY <1>0, <2>1 DEF ReadyUpTo
  <2> QED BY <2>2
<1>4. NextRead - 1 \in Int /\ Len(log) - 1 \in Int
  BY <1>0
<1>5. /\ Cardinality(ReadyUpTo(pos)) \in Nat /\ Cardinality(ReadyUpTo(NextRead)) \in Nat
      /\ Cardinality(ReadyUpTo(pos)) <= Cardinality(ReadyUpTo(NextRead))
      /\ ReadyUpTo(pos) # ReadyUpTo(NextRead) =>
           Cardinality(ReadyUpTo(pos)) < Cardinality(ReadyUpTo(NextRead))
  BY <1>1, <1>4, Larger
<1>6. /\ Cardinality(ReadyUpTo(Len(log))) \in Nat
      /\ Cardinality(ReadyUpTo(NextRead)) <= Cardinality(ReadyUpTo(Len(log)))
  BY <1>1, <1>4, Larger
<1> QED BY <1>2, <1>3, <1>5, <1>6, Zenon

LEMMA CountInit == Init => CountInv
<1> SUFFICES ASSUME Init PROVE CountInv
  OBVIOUS
<1>1. ReadyUpTo(pos) = {} /\ counted = 0
  BY DEF Init, ReadyUpTo
<1> QED BY <1>1, FS_EmptySet DEF CountInv

LEMMA CountStep == TailInv /\ CountInv /\ [Next]_vars => CountInv'
<1> SUFFICES ASSUME TailInv, CountInv, [Next]_vars PROVE CountInv'
  OBVIOUS
<1>0. Len(log) \in Nat /\ pos \in 0 .. Len(log) /\ counted \in Nat
  BY LenProperties DEF TailInv, TypeOK
<1>1. CASE UNCHANGED readerVars /\ Len(log') >= Len(log) /\ \A k \in 1 .. Len(log) : log'[k] = log[k]
  <2>1. ReadyUpTo(pos)' = ReadyUpTo(pos)
    BY <1>0, <1>1 DEF ReadyUpTo, readerVars
  <2> QED BY <1>1, <2>1 DEF CountInv, readerVars
<1>2. CASE UNCHANGED <<log, pos, counted>>
  BY <1>2 DEF CountInv, ReadyUpTo
<1>3. CASE ReadLine
  <2>1. UNCHANGED log /\ pos' = NextRead
    BY <1>3 DEF ReadLine, daemonVars
  <2>2. ReadyUpTo(pos)' = ReadyUpTo(NextRead)
    BY <2>1 DEF ReadyUpTo
  <2>3. CASE Matches(SubSeq(log, pos + 1, NextRead))
    <3>1. counted' \in {counted, counted + 1}
      BY <1>3 DEF ReadLine
    <3> QED BY <1>0, <2>2, <2>3, <3>1, ReadFindsMore DEF CountInv
  <2>4. CASE ~ Matches(SubSeq(log, pos + 1, NextRead))
    <3>1. counted' = counted
      BY <1>3, <2>4 DEF ReadLine
    <3> QED BY <1>0, <2>2, <3>1, ReadFindsMore DEF CountInv
  <2> QED BY <2>3, <2>4
<1>4. CASE Tick \/ Stat \/ GiveUp \/ ReadError \/ UNCHANGED vars
  BY <1>2, <1>4 DEF Tick, Stat, GiveUp, ReadError, vars, daemonVars, readerVars
<1>5. CASE WriteLine \/ WritePiece
  <2>1. UNCHANGED readerVars
    BY <1>5 DEF WriteLine, WritePiece
  <2> QED BY <1>1, <1>2, <2>1, LogGrows DEF readerVars
<1> QED
  BY <1>3, <1>4, <1>5 DEF Next, Reader

LEMMA WaitInit == Init => Wait!Init
<1> SUFFICES ASSUME Init PROVE Wait!Init
  OBVIOUS
<1>1. TailInv
  BY TailInit
<1>2. ReadyLines \in Nat /\ (pc = "found") = FALSE
  BY <1>1, ReadFindsMore DEF Init
<1> QED BY <1>2 DEF Wait!Init

\* Every step is one of module LogWait, or a stutter: the log grows by a ready
\* line, or waitForLog returns when there is one more than was counted.
LEMMA WaitStep == TailInv /\ CountInv /\ [Next]_vars => [Wait!Next]_(Wait!vars)
<1> SUFFICES ASSUME TailInv, CountInv, [Next]_vars
             PROVE  [Wait!Next]_(Wait!vars)
  OBVIOUS
<1> USE DEF Wait!Next, Wait!vars
<1>0. Len(log) \in Nat /\ pos \in 0 .. Len(log) /\ counted \in Nat
  BY LenProperties DEF TailInv, TypeOK
<1>1. CASE UNCHANGED <<log, pc>>
  BY <1>1 DEF ReadyLines
<1>2. CASE WriteLine \/ WritePiece
  <2>1. UNCHANGED readerVars
    BY <1>2 DEF WriteLine, WritePiece
  <2>2. CASE UNCHANGED log
    BY <1>1, <2>1, <2>2 DEF readerVars
  <2>3. CASE /\ Len(log') \in Nat /\ Len(log') >= Len(log)
             /\ \A k \in 1 .. Len(log) : log'[k] = log[k]
    <3>1. ReadyLines = Cardinality(ReadyUpTo(Len(log)))
      BY DEF ReadyLines, ReadyUpTo
    <3>2. ReadyLines' = Cardinality(ReadyUpTo(Len(log))')
      BY DEF ReadyLines, ReadyUpTo
    <3>3. /\ ReadyUpTo(Len(log)) \in SUBSET (ReadyUpTo(Len(log))')
          /\ ReadyUpTo(Len(log))' \in SUBSET (1 .. Len(log') - 1)
      BY <1>0, <2>3 DEF ReadyUpTo
    <3>4. Len(log') - 1 \in Int
      BY <2>3
    <3>5. /\ ReadyLines \in Nat /\ ReadyLines' \in Nat
          /\ ReadyLines <= ReadyLines'
      BY <3>1, <3>2, <3>3, <3>4, Larger
    <3>6. ReadyLines' = ReadyLines \/ ReadyLines' > ReadyLines
      BY <3>5
    <3> QED BY <2>1, <3>6 DEF Wait!Announce, readerVars
  <2> QED BY <2>1, <2>2, <2>3, LogGrows
<1>3. CASE ReadLine
  <2>1. UNCHANGED log /\ pc = "read"
    BY <1>3 DEF ReadLine, daemonVars
  <2>2. ReadyLines' = ReadyLines
    BY <2>1 DEF ReadyLines
  <2>3. CASE pc' = "found"
    <3>1. Matches(SubSeq(log, pos + 1, NextRead)) /\ counted = TimesStarted
      BY <1>3, <2>3 DEF ReadLine
    <3>2. ReadyLines > TimesStarted
      BY <1>0, <3>1, ReadFindsMore DEF CountInv
    <3> QED BY <2>2, <2>3, <3>2 DEF Wait!Return
  <2>4. CASE pc' # "found"
    BY <2>1, <2>2, <2>4
  <2> QED BY <2>3, <2>4
<1>4. CASE Stat \/ GiveUp \/ ReadError
  <2>1. UNCHANGED log /\ pc # "found" /\ pc' # "found"
    BY <1>4 DEF Stat, GiveUp, ReadError, daemonVars
  <2> QED BY <2>1 DEF ReadyLines
<1>5. CASE Tick \/ UNCHANGED vars
  BY <1>1, <1>5 DEF Tick, vars, daemonVars, readerVars
<1> QED
  BY <1>2, <1>3, <1>4, <1>5 DEF Next, Reader

\* miner.go and cln_node.go waitForLog: it returns nil only when the log has
\* more ready lines than n.timesStarted, whatever the daemon writes meanwhile
\* and in however many pieces; that is what AwaitLog of Lifecycle builds on.
THEOREM LogWaitKept == Spec => ImplementsLogWait
<1>1. TailInv /\ CountInv /\ [Next]_vars => [Wait!Next]_(Wait!vars)
  BY WaitStep
<1> QED
  BY <1>1, WaitInit, TailInit, TailStep, CountInit, CountStep, PTL
     DEF Spec, ImplementsLogWait, Wait!Spec

\* The same next to the pipes of cln and the goroutines that empty them.
THEOREM OutputLogWaitKept == OutputSpec => ImplementsLogWait
<1>1. OutputInit => Init
  BY OutputInitIsTail
<1>2. [OutputNext]_allVars => [Next]_vars
  BY OutputIsTail
<1>3. OutputSpec => Spec
  BY <1>1, <1>2, PTL DEF OutputSpec, Spec
<1> QED
  BY <1>3, LogWaitKept, PTL

-----------------------------------------------------------------------------
(* Lines written whole.  Every line of the log is complete, a ready line   *)
(* has one "ase", before its end, and the reader stands between two lines. *)

WholeLines ==
  \A k \in 1 .. Len(log) :
    /\ log[k] # "nl" => k < Len(log)
    /\ log[k] = "ase" => k > 1 /\ log[k - 1] = "phr" /\ log[k + 1] = "nl"

LineInv ==
  ~ torn =>
    /\ unwritten = <<>> /\ WholeLines
    /\ pos = 0 \/ log[pos] = "nl"
    /\ pc = "stat" => pos = 0 /\ counted = 0
    /\ CountsConsumed

Consumed(m) == {k \in 1 .. m : log[k] = "ase"}

LEMMA WholeInit == Init => WholeLines
<1> SUFFICES ASSUME Init PROVE WholeLines
  OBVIOUS
<1>1. Len(log) = 3 * Earlier
  BY DEF Init
<1>2. \A k \in 1 .. 3 * Earlier : log[k] = ReadyLine[1 + ((k - 1) % 3)]
  BY DEF Init
<1> SUFFICES ASSUME NEW k \in 1 .. 3 * Earlier
             PROVE  /\ log[k] # "nl" => k < 3 * Earlier
                    /\ log[k] = "ase" => k > 1 /\ log[k - 1] = "phr" /\ log[k + 1] = "nl"
  BY <1>1 DEF WholeLines
<1>3. CASE (k - 1) % 3 = 0
  <2>1. log[k] = "phr" /\ k < 3 * Earlier
    BY <1>2, <1>3, LinesAreSeqs
  <2> QED BY <2>1
<1>4. CASE (k - 1) % 3 = 1
  <2>1. /\ k > 1 /\ k < 3 * Earlier
        /\ ((k - 1) - 1) % 3 = 0 /\ ((k + 1) - 1) % 3 = 2
    BY <1>4
  <2>2. log[k - 1] = "phr" /\ log[k + 1] = "nl"
    BY <1>2, <2>1, LinesAreSeqs
  <2> QED BY <2>1, <2>2
<1>5. CASE (k - 1) % 3 = 2
  <2>1. log[k] = "nl"
    BY <1>2, <1>5, LinesAreSeqs
  <2> QED BY <2>1
<1>6. (k - 1) % 3 \in 0 .. 2
  OBVIOUS
<1> QED BY <1>3, <1>4, <1>5, <1>6

LEMMA LineInit == Init => LineInv
BY WholeInit DEF Init, LineInv, CountsConsumed

\* A whole line keeps the log whole.
LEMMA WholeKept ==
  ASSUME TailInv, WholeLines, NEW line \in {ReadyLine, OtherLine}, log' = log \o line
  PROVE  WholeLines'
<1>0. log \in Seq(Pieces) /\ Len(log) \in Nat
  BY LenProperties DEF TailInv
<1>1. line \in Seq(Pieces) /\ Len(line) \in 2 .. 3
  BY LinesAreSeqs
<1>2. ASSUME NEW j \in 1 .. Len(line)
      PROVE  /\ line[j] # "nl" => j < Len(line)
             /\ line[j] = "ase" => j > 1 /\ line[j - 1] = "phr" /\ line[j + 1] = "nl"
  <2>1. CASE line = ReadyLine
    <3>1. /\ Len(line) = 3 /\ line[1] = "phr" /\ line[2] = "ase" /\ line[3] = "nl"
      BY <2>1, LinesAreSeqs
    <3>2. j = 1 \/ j = 2 \/ j = 3
      BY <3>1
    <3> QED BY <3>1, <3>2
  <2>2. CASE line = OtherLine
    <3>1. Len(line) = 2 /\ line[1] = "etc" /\ line[2] = "nl"
      BY <2>2, LinesAreSeqs
    <3>2. j = 1 \/ j = 2
      BY <3>1
    <3> QED BY <3>1, <3>2
  <2> QED BY <2>1, <2>2
<1>3. /\ Len(log') = Len(log) + Len(line)
      /\ \A k \in 1 .. Len(log) + Len(line) :
           log'[k] = IF k <= Len(log) THEN log[k] ELSE line[k - Len(log)]
  <2>1. /\ Len(log \o line) = Len(log) + Len(line)
        /\ \A k \in 1 .. Len(log) + Len(line) :
             (log \o line)[k] = IF k <= Len(log) THEN log[k] ELSE line[k - Len(log)]
    BY <1>0, <1>1, ConcatProperties
  <2> QED BY <2>1, Zenon
<1> DEFINE n == Len(log)
           m == Len(line)
           new == log'
<1> SUFFICES ASSUME NEW k \in 1 .. n + m
             PROVE  /\ new[k] # "nl" => k < n + m
                    /\ new[k] = "ase" => k > 1 /\ new[k - 1] = "phr" /\ new[k + 1] = "nl"
  BY <1>3 DEF WholeLines
<1>4. /\ n \in Nat /\ m \in 2 .. 3
      /\ \A i \in 1 .. n : new[i] = log[i]
      /\ \A j \in 1 .. m : new[n + j] = line[j]
  <2>1. \A j \in 1 .. m : n + j \in 1 .. n + m /\ ~ (n + j <= n) /\ (n + j) - n = j
    BY <1>0, <1>1
  <2>2. \A i \in 1 .. n : i \in 1 .. n + m /\ i <= n
    BY <1>0, <1>1
  <2> QED BY <1>0, <1>1, <1>3, <2>1, <2>2
<1> HIDE DEF new, n, m
<1>5. CASE k \in 1 .. n
  <2>1. /\ log[k] # "nl" => k < n
        /\ log[k] = "ase" => k > 1 /\ log[k - 1] = "phr" /\ log[k + 1] = "nl"
    BY <1>5 DEF WholeLines, n
  <2>2. new[k] = log[k] /\ k < n + m
    BY <1>4, <1>5
  <2>3. k > 1 => k - 1 \in 1 .. n
    BY <1>4, <1>5
  <2>4. k < n => k + 1 \in 1 .. n
    BY <1>4, <1>5
  <2> QED BY <1>4, <2>1, <2>2, <2>3, <2>4
<1>6. CASE k \notin 1 .. n
  <2>1. k - n \in 1 .. m /\ n + (k - n) = k
    BY <1>4, <1>6
  <2> DEFINE j == k - n
  <2>2. /\ line[j] # "nl" => j < m
        /\ line[j] = "ase" => j > 1 /\ line[j - 1] = "phr" /\ line[j + 1] = "nl"
    BY <1>2, <2>1 DEF m
  <2>3. new[k] = line[j]
    BY <1>4, <2>1
  <2>4. j > 1 => j - 1 \in 1 .. m /\ n + (j - 1) = k - 1
    BY <1>4, <2>1
  <2>5. j < m => j + 1 \in 1 .. m /\ n + (j + 1) = k + 1
    BY <1>4, <2>1
  <2>6. j < m => k < n + m
    BY <1>4, <2>1
  <2>7. j > 1 => k > 1
    BY <1>4, <2>1
  <2> HIDE DEF j
  <2> QED BY <1>4, <2>2, <2>3, <2>4, <2>5, <2>6, <2>7
<1> QED BY <1>5, <1>6

\* What one ReadString consumes of whole lines is at most one ready line, and the
\* reader stands between two lines again.
LEMMA OneReadyLine ==
  ASSUME TailInv, WholeLines, pos = 0 \/ log[pos] = "nl"
  PROVE  /\ NextRead = 0 \/ log[NextRead] = "nl"
         /\ Cardinality(Consumed(pos)) \in Nat
         /\ Cardinality(Consumed(NextRead)) =
              IF Matches(SubSeq(log, pos + 1, NextRead))
                THEN Cardinality(Consumed(pos)) + 1 ELSE Cardinality(Consumed(pos))
<1> DEFINE n == NextRead
<1>0. /\ Len(log) \in Nat /\ pos \in 0 .. Len(log) /\ n \in pos .. Len(log)
      /\ n = Len(log) \/ (n > pos /\ log[n] = "nl")
      /\ \A k \in pos + 1 .. n - 1 : log[k] # "nl"
  BY NextReadDef, LenProperties DEF TailInv, TypeOK
<1>m. Matches(SubSeq(log, pos + 1, n)) <=>
        \E k \in pos + 1 .. n - 1 : log[k] = "phr" /\ log[k + 1] = "ase"
  BY MatchIsInLog
<1> HIDE DEF n
<1>1. n = 0 \/ log[n] = "nl"
  BY <1>0 DEF WholeLines
\* A ready line that is consumed ends where the reader stops.
<1>2. ASSUME NEW k \in pos + 1 .. n, log[k] = "ase"
      PROVE  k = n - 1 /\ k - 1 \in pos + 1 .. n - 1 /\ log[k - 1] = "phr"
  <2>1. /\ k \in 1 .. Len(log) /\ k < Len(log) /\ k > 1
        /\ log[k - 1] = "phr" /\ log[k + 1] = "nl"
    BY <1>0, <1>2 DEF WholeLines
  <2>2. k # n
    BY <1>0, <1>1, <1>2
  <2>3. ~ (k + 1 \in pos + 1 .. n - 1)
    BY <1>0, <2>1
  <2>4. k = n - 1
    BY <1>0, <2>2, <2>3
  <2>5. k - 1 # pos
    BY <1>0, <2>1
  <2> QED BY <1>0, <2>1, <2>4, <2>5
<1>3. IsFiniteSet(Consumed(pos)) /\ Cardinality(Consumed(pos)) \in Nat
  <2>1. Consumed(pos) \in SUBSET (1 .. pos) /\ pos \in Int
    BY <1>0 DEF Consumed
  <2>2. IsFiniteSet(1 .. pos)
    BY <2>1, FS_Interval
  <2>3. IsFiniteSet(Consumed(pos))
    BY <2>1, <2>2, FS_Subset
  <2> QED BY <2>3, FS_CardinalityType
<1>4. CASE \E k \in pos + 1 .. n - 1 : log[k] = "phr" /\ log[k + 1] = "ase"
  <2>1. PICK k \in pos + 1 .. n - 1 : log[k] = "phr" /\ log[k + 1] = "ase"
    BY <1>4
  <2>2. k + 1 \in pos + 1 .. n /\ n - 1 = k + 1
    BY <1>0, <1>2, <2>1
  <2>3. Consumed(n) = Consumed(pos) \cup {n - 1}
    <3>1. ASSUME NEW i \in Consumed(n) PROVE i \in Consumed(pos) \cup {n - 1}
      <4>1. i \in 1 .. n /\ log[i] = "ase"
        BY DEF Consumed
      <4>2. CASE i \in pos + 1 .. n
        BY <1>2, <4>1, <4>2
      <4>3. CASE i \notin pos + 1 .. n
        BY <1>0, <4>1, <4>3 DEF Consumed
      <4> QED BY <4>2, <4>3
    <3>2. ASSUME NEW i \in Consumed(pos) PROVE i \in Consumed(n)
      BY <1>0 DEF Consumed
    <3>3. n - 1 \in Consumed(n)
      BY <1>0, <2>1, <2>2 DEF Consumed
    <3> QED BY <3>1, <3>2, <3>3
  <2>4. n - 1 \notin Consumed(pos)
    BY <1>0, <2>2 DEF Consumed
  <2>5. Cardinality(Consumed(pos) \cup {n - 1}) = Cardinality(Consumed(pos)) + 1
    BY <1>3, <2>4, FS_AddElement
  <2> QED BY <1>1, <1>3, <1>4, <1>m, <2>3, <2>5, Zenon DEF n
<1>5. CASE ~ \E k \in pos + 1 .. n - 1 : log[k] = "phr" /\ log[k + 1] = "ase"
  <2>1. \A i \in pos + 1 .. n : log[i] # "ase"
    <3> SUFFICES ASSUME NEW i \in pos + 1 .. n, log[i] = "ase" PROVE FALSE
      OBVIOUS
    <3>1. i - 1 \in pos + 1 .. n - 1 /\ log[i - 1] = "phr" /\ (i - 1) + 1 = i
      BY <1>0, <1>2
    <3> QED BY <1>5, <3>1
  <2>2. Consumed(n) = Consumed(pos)
    BY <1>0, <2>1 DEF Consumed
  <2> QED BY <1>1, <1>3, <1>5, <1>m, <2>2, Zenon DEF n
<1> QED BY <1>4, <1>5

LEMMA LineStep == TailInv /\ LineInv /\ [Next]_vars => LineInv'
<1> SUFFICES ASSUME TailInv, LineInv, [Next]_vars, ~ torn' PROVE LineInv'
  BY DEF LineInv
<1>0. torn' = torn
  BY DEF Next, Reader, WriteLine, WritePiece, Tick, Stat, ReadLine, GiveUp, ReadError,
         vars, daemonVars
<1>i. /\ unwritten = <<>> /\ WholeLines /\ (pos = 0 \/ log[pos] = "nl")
      /\ (pc = "stat" => pos = 0 /\ counted = 0)
      /\ (pc = "read" => counted = Cardinality(Consumed(pos)))
  BY <1>0 DEF LineInv, CountsConsumed, Consumed
<1>t. Len(log) \in Nat /\ pos \in 0 .. Len(log)
  BY LenProperties DEF TailInv, TypeOK
<1> SUFFICES /\ unwritten' = <<>> /\ WholeLines' /\ (pos' = 0 \/ log'[pos'] = "nl")
             /\ (pc' = "stat" => pos' = 0 /\ counted' = 0)
             /\ (pc' = "read" => counted' = Cardinality(Consumed(pos)'))
  BY DEF LineInv, CountsConsumed, Consumed
<1>1. CASE WriteLine
  <2>0. ~ torn
    BY <1>0
  <2>1. PICK line \in {ReadyLine, OtherLine} : log' = log \o line /\ unwritten' = unwritten
    BY <1>1, <2>0, Zenon DEF WriteLine
  <2>2. WholeLines'
    BY <1>i, <2>1, WholeKept
  <2>3. UNCHANGED readerVars
    BY <1>1 DEF WriteLine
  <2>4. \A k \in 1 .. Len(log) : log'[k] = log[k]
    <3>1. CASE UNCHANGED log
      BY <3>1
    <3> QED BY <3>1, LogGrows
  <2>5. Consumed(pos)' = Consumed(pos)
    BY <1>t, <2>3, <2>4 DEF Consumed, readerVars
  <2>6. pos = 0 \/ log'[pos] = log[pos]
    BY <1>t, <2>4
  <2> QED BY <1>i, <2>1, <2>2, <2>3, <2>5, <2>6 DEF readerVars
<1>2. CASE WritePiece
  BY <1>2, <1>i DEF WritePiece
<1>3. CASE Stat
  <2>1. UNCHANGED <<log, unwritten, pos, counted>> /\ pos = 0 /\ counted = 0 /\ pc' # "stat"
    BY <1>3, <1>i DEF Stat, daemonVars
  <2>2. Consumed(pos)' = {} /\ WholeLines'
    BY <1>i, <2>1 DEF Consumed, WholeLines
  <2> QED BY <1>i, <2>1, <2>2, FS_EmptySet
<1>4. CASE ReadLine
  <2>1. /\ UNCHANGED <<log, unwritten>> /\ pos' = NextRead /\ pc = "read"
        /\ pc' = IF Matches(SubSeq(log, pos + 1, NextRead)) /\ counted = TimesStarted
                   THEN "found" ELSE "read"
        /\ counted' = IF Matches(SubSeq(log, pos + 1, NextRead)) /\ counted # TimesStarted
                        THEN counted + 1 ELSE counted
    BY <1>4 DEF ReadLine, daemonVars
  <2>2. /\ NextRead = 0 \/ log[NextRead] = "nl"
        /\ Cardinality(Consumed(NextRead)) =
             IF Matches(SubSeq(log, pos + 1, NextRead))
               THEN Cardinality(Consumed(pos)) + 1 ELSE Cardinality(Consumed(pos))
    BY <1>i, OneReadyLine
  <2>3. Consumed(pos)' = Consumed(NextRead) /\ WholeLines'
    BY <1>i, <2>1 DEF Consumed, WholeLines
  <2>4. pc' = "read" => counted' = Cardinality(Consumed(NextRead))
    BY <1>i, <2>1, <2>2
  <2> QED BY <1>i, <2>1, <2>2, <2>3, <2>4
<1>5. CASE Tick \/ GiveUp \/ ReadError \/ UNCHANGED vars
  <2>1. UNCHANGED <<log, unwritten, pos, counted>> /\ pc' \in {pc, "error"}
    BY <1>5 DEF Tick, GiveUp, ReadError, vars, daemonVars, readerVars
  <2>2. Consumed(pos)' = Consumed(pos) /\ WholeLines'
    BY <1>i, <2>1 DEF Consumed, WholeLines
  <2> QED BY <1>i, <2>1, <2>2
<1> QED
  BY <1>1, <1>2, <1>3, <1>4, <1>5 DEF Next, Reader

\* miner.go and cln_node.go waitForLog: of lines that are written whole, none
\* that was consumed is missed and none is counted twice.
THEOREM EveryLineCounted == Spec => []CountsConsumed
<1>1. LineInv => CountsConsumed
  BY DEF LineInv, CountsConsumed
<1> QED
  BY <1>1, TailInit, TailStep, LineInit, LineStep, PTL DEF Spec

\* The same next to the pipes.
THEOREM OutputEveryLineCounted == OutputSpec => []CountsConsumed
<1>1. OutputSpec => Spec
  BY OutputInitIsTail, OutputIsTail, PTL DEF OutputSpec, Spec
<1> QED
  BY <1>1, EveryLineCounted, PTL

\* A ready line of the log has its second half one piece further.
LEMMA ReadyAreConsumed ==
  ASSUME TailInv, pos = Len(log)
  PROVE  ReadyLines <= Cardinality(Consumed(pos))
<1> DEFINE next == [k \in ReadyUpTo(pos) |-> k + 1]
<1>0. pos \in Nat
  BY LenProperties DEF TailInv, TypeOK
<1>1. ReadyLines = Cardinality(ReadyUpTo(pos))
  BY DEF ReadyLines, ReadyUpTo
<1>2. next \in Injection(ReadyUpTo(pos), Consumed(pos))
  <2>1. ReadyUpTo(pos) \in SUBSET Nat
    BY <1>0 DEF ReadyUpTo
  <2>2. \A k \in ReadyUpTo(pos) : k + 1 \in Consumed(pos)
    BY <1>0 DEF ReadyUpTo, Consumed
  <2>3. next \in [ReadyUpTo(pos) -> Consumed(pos)]
    BY <2>2
  <2>4. \A j, k \in ReadyUpTo(pos) : next[j] = next[k] => j = k
    BY <2>1
  <2> QED BY <2>3, <2>4 DEF Injection, IsInjective
<1>3. IsFiniteSet(Consumed(pos))
  <2>1. Consumed(pos) \in SUBSET (1 .. pos) /\ IsFiniteSet(1 .. pos)
    BY <1>0, FS_Interval DEF Consumed
  <2> QED BY <2>1, FS_Subset
<1> HIDE DEF next
<1>4. Cardinality(ReadyUpTo(pos)) <= Cardinality(Consumed(pos))
  BY <1>2, <1>3, FS_Injection
<1> QED BY <1>1, <1>4

\* As long as waitForLog goes on, the log it has read to the end has too few
\* ready lines for it to return: of lines written whole it overlooks none.
NoneOverlooked ==
  ~ torn /\ pc = "read" /\ pos = Len(log) => ReadyLines <= TimesStarted

\* Of whole lines, waitForLog goes on only while the log it read to its end has too few ready
\* lines, for any number of earlier starts.
THEOREM OutputNoneOverlooked == OutputSpec => []NoneOverlooked
<1>1. TailInv /\ LineInv => NoneOverlooked
  <2> SUFFICES ASSUME TailInv, LineInv, ~ torn, pc = "read", pos = Len(log)
               PROVE  ReadyLines <= TimesStarted
    BY DEF NoneOverlooked
  <2>1. counted = Cardinality(Consumed(pos)) /\ counted \in 0 .. TimesStarted
    BY DEF LineInv, CountsConsumed, Consumed, TailInv, TypeOK
  <2>2. ReadyLines <= Cardinality(Consumed(pos))
    BY ReadyAreConsumed
  <2>3. ReadyLines \in Nat
    BY ReadFindsMore
  <2> QED BY <2>1, <2>2, <2>3
<1>2. OutputSpec => Spec
  BY OutputInitIsTail, OutputIsTail, PTL DEF OutputSpec, Spec
<1> QED
  BY <1>1, <1>2, TailInit, TailStep, LineInit, LineStep, PTL DEF Spec

-----------------------------------------------------------------------------
(* The pipes.                                                              *)

PipeInv ==
  /\ pipe \in Seq(Lines) /\ Len(pipe) <= Capacity
  /\ printing \in Seq(Lines) /\ Len(printing) <= 1
  /\ prints \in 0 .. MaxPrints
  /\ running \in BOOLEAN /\ plugin \in BOOLEAN
  /\ readEnd \in BOOLEAN /\ (readEnd \/ ~ running)
  /\ scanner \in {"scan", "tooLong", "ended"}

LEMMA PipeInit == OutputInit => PipeInv
<1> SUFFICES ASSUME OutputInit PROVE PipeInv
  OBVIOUS
<1>1. /\ pipe = <<>> /\ printing = <<>> /\ prints = 0 /\ running = TRUE
      /\ plugin \in BOOLEAN /\ readEnd = TRUE /\ scanner = "scan"
  BY DEF OutputInit
<1>2. <<>> \in Seq(Lines) /\ Len(<<>>) = 0
  OBVIOUS
<1> QED BY <1>1, <1>2 DEF PipeInv

LEMMA PipeStep == PipeInv /\ [OutputNext]_allVars => PipeInv'
<1> SUFFICES ASSUME PipeInv, [OutputNext]_allVars PROVE PipeInv'
  OBVIOUS
<1> USE DEF PipeInv
<1>1. CASE UNCHANGED outputVars
  BY <1>1 DEF outputVars
<1>2. CASE WriteOutput
  <2>1. PICK line \in Lines : printing' = <<line>>
    BY <1>2 DEF WriteOutput
  <2>2. printing' \in Seq(Lines) /\ Len(printing') = 1
    BY <2>1
  <2> QED BY <1>2, <2>2 DEF WriteOutput
<1>3. CASE PipeTakes
  <2>1. pipe \o printing \in Seq(Lines) /\ Len(pipe \o printing) = Len(pipe) + Len(printing)
    BY ConcatProperties
  <2>2. Len(pipe) \in Nat /\ Len(printing) \in Nat
    BY LenProperties
  <2>3. pipe' \in Seq(Lines) /\ Len(pipe') <= Capacity
    BY <1>3, <2>1, <2>2 DEF PipeTakes
  <2>4. printing' \in Seq(Lines) /\ Len(printing') <= 1
    BY <1>3 DEF PipeTakes
  <2> QED BY <1>3, <2>3, <2>4 DEF PipeTakes
<1>4. CASE Scan
  <2>1. Tail(pipe) \in Seq(Lines) /\ Len(Tail(pipe)) = Len(pipe) - 1 /\ Len(pipe) \in Nat
    BY <1>4, HeadTailProperties, LenProperties DEF Scan
  <2>2. pipe' \in Seq(Lines) /\ Len(pipe') <= Capacity
    BY <1>4, <2>1 DEF Scan
  <2> QED BY <1>4, <2>2 DEF Scan
<1>5. CASE DaemonDies
  <2>1. printing' \in Seq(Lines) /\ Len(printing') <= 1
    BY <1>5 DEF DaemonDies
  <2> QED BY <1>5, <2>1 DEF DaemonDies
<1>6. CASE ScanEnds
  BY <1>6 DEF ScanEnds
<1>7. CASE PluginEnds
  BY <1>7 DEF PluginEnds
<1>8. CASE Reap
  BY <1>8 DEF Reap
<1>9. CASE WriteLog \/ WaitForLog \/ UNCHANGED allVars
  BY <1>1, <1>9 DEF WriteLog, WaitForLog, allVars
<1> QED
  BY <1>2, <1>3, <1>4, <1>5, <1>6, <1>7, <1>8, <1>9 DEF OutputNext

\* cln_node.go Start: for a pipe of any size, neither the pipe nor the log leaves
\* its type, and the read end is closed only when the daemon is gone.
THEOREM OutputTypeCorrect == OutputSpec => []OutputTypeOK
<1>1. TailInv /\ PipeInv => OutputTypeOK
  BY DEF TailInv, PipeInv, OutputTypeOK
<1>2. OutputInit => TailInv /\ PipeInv
  BY OutputInitIsTail, TailInit, PipeInit
<1>3. TailInv /\ PipeInv /\ [OutputNext]_allVars => TailInv' /\ PipeInv'
  BY OutputIsTail, TailStep, PipeStep
<1> QED
  BY <1>1, <1>2, <1>3, PTL DEF OutputSpec
=============================================================================
