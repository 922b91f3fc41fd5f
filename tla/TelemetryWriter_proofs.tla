------------------------ MODULE TelemetryWriter_proofs ------------------------
(***************************************************************************)
(* Theorems about TelemetryWriter for every queue limit, flush interval    *)
(* and number of events.                                                   *)
(***************************************************************************)
EXTENDS TelemetryWriter, SequenceTheorems, TLAPS

USE DEF Events

\* The types, together with the count of the events, which bounds the drops.
LEMMA TypeAndDrops == Spec => [](TypeOK /\ DropsCounted)
<1> USE TelemetryWriterAssumption DEF TelemetryWriterAssumption, TypeOK, WorkerStates
<1>1. Init => TypeOK
  <2>1. <<>> \in Seq(Events)
    OBVIOUS
  <2>2. Init => Len(queue) <= MaxQueue
    BY EmptySeq DEF Init
  <2>3. Init => /\ closing \in {"open", "joining", "closed", "exited"}
                /\ stopFlag \in BOOLEAN /\ joined \in BOOLEAN
                /\ wpc \in WorkerStates
    BY DEF Init
  <2>4. Init => /\ issued \in 0 .. MaxEvents /\ dropped \in 0 .. MaxEvents
                /\ unflushed \in 0 .. FlushInterval
    BY DEF Init
  <2>5. QED
    BY <2>1, <2>2, <2>3, <2>4 DEF Init
<1>2. TypeOK /\ DropsCounted /\ [Next]_vars => TypeOK' /\ DropsCounted'
  <2> SUFFICES ASSUME TypeOK, DropsCounted, [Next]_vars PROVE TypeOK' /\ DropsCounted'
    OBVIOUS
  <2> USE DEF DropsCounted
  <2>1. CASE Write
    <3>1. issued' \in Events
      BY <2>1 DEF Write
    <3>2. CASE Full
      <4>1. UNCHANGED <<queue, accepted, closeVars, workerVars>> /\ dropped' = dropped + 1
        BY <2>1, <3>2 DEF Write
      <4>2. Len(accepted) \in Nat
        OBVIOUS
      <4>3. QED
        BY <2>1, <4>1, <4>2 DEF Write, closeVars, workerVars
    <3>3. CASE ~ Full
      <4>1. /\ queue' = Append(queue, issued') /\ accepted' = Append(accepted, issued')
            /\ UNCHANGED <<dropped, closeVars, workerVars>>
        BY <2>1, <3>3 DEF Write
      <4>2. /\ queue' \in Seq(Events) /\ accepted' \in Seq(Events)
            /\ Len(queue') = Len(queue) + 1 /\ Len(accepted') = Len(accepted) + 1
        BY <3>1, <4>1, AppendProperties
      <4>3. MaxQueue > 0 => Len(queue') <= MaxQueue
        BY <3>3, <4>2, LenProperties DEF Full
      <4>4. QED
        BY <2>1, <4>1, <4>2, <4>3 DEF Write, closeVars, workerVars
    <3>4. QED
      BY <3>2, <3>3
  <2>2. CASE Close \/ JoinReturns \/ JoinTimesOut \/ Exit
    BY <2>2 DEF Close, JoinReturns, JoinTimesOut, Exit, producerVars, workerVars
  <2>3. CASE CheckStop \/ CheckEmpty
    BY <2>3 DEF CheckStop, CheckEmpty, WorkerStep, Goto, closeVars
  <2>4. CASE Get
    <3>1. Head(queue) \in Events /\ Tail(queue) \in Seq(Events) /\ Len(Tail(queue)) <= Len(queue)
      BY <2>4, HeadTailProperties, LenProperties DEF Get
    <3>2. <<Head(queue)>> \in Seq(Events)
      BY <3>1
    <3>3. QED
      BY <2>4, <3>1, <3>2, LenProperties DEF Get, WorkerStep, Goto, closeVars
  <2>5. CASE GetTimesOut \/ FinalFlush
    <3>1. disk \o buf \in Seq(Events) /\ <<>> \in Seq(Events)
      BY ConcatProperties
    <3>2. disk' \in Seq(Events) /\ buf' \in Seq(Events) /\ unflushed' \in 0 .. FlushInterval
      <4>1. CASE GetTimesOut /\ FlushDue
        <5>1. disk' = disk \o buf /\ buf' = <<>> /\ unflushed' = 0
          BY <4>1 DEF GetTimesOut, Flush
        <5>2. QED
          BY <3>1, <5>1
      <4>2. CASE GetTimesOut /\ ~ FlushDue
        BY <4>2 DEF GetTimesOut
      <4>3. CASE FinalFlush
        BY <3>1, <4>3 DEF FinalFlush, Flush
      <4>4. QED
        BY <2>5, <4>1, <4>2, <4>3
    <3>3. /\ UNCHANGED <<queue, hand, issued, dropped, accepted, closing, stopFlag, joined>>
          /\ wpc' \in WorkerStates
      BY <2>5 DEF GetTimesOut, FinalFlush, WorkerStep, Goto, closeVars
    <3>4. QED
      BY <3>2, <3>3
  <2>6. CASE WriteLine
    <3>1. buf \o hand \in Seq(Events) /\ <<>> \in Seq(Events)
      BY ConcatProperties
    <3>2. disk \o (buf \o hand) \in Seq(Events)
      BY <3>1, ConcatProperties
    <3>3. disk' \in Seq(Events) /\ buf' \in Seq(Events) /\ unflushed' \in 0 .. FlushInterval
      <4>1. CASE Flush(buf \o hand)
        BY <2>6, <3>1, <3>2, <4>1 DEF WriteLine, Flush
      <4>2. CASE ~ Flush(buf \o hand)
        BY <2>6, <3>1, <4>2 DEF WriteLine
      <4>3. QED
        BY <4>1, <4>2
    <3>4. /\ UNCHANGED <<queue, issued, dropped, accepted, closing, stopFlag, joined>>
          /\ hand' = <<>> /\ wpc' \in WorkerStates
      BY <2>6 DEF WriteLine, WorkerStep, Goto, closeVars
    <3>5. QED
      BY <3>1, <3>3, <3>4
  <2>7. CASE WorkerDies
    <3>1. disk \o buf \in Seq(Events) /\ <<>> \in Seq(Events)
      BY ConcatProperties
    <3>2. QED
      BY <2>7, <3>1 DEF WorkerDies, Flush, WorkerStep, Goto, closeVars
  <2>8. CASE Clock
    BY <2>8 DEF Clock, producerVars, closeVars
  <2>9. CASE UNCHANGED vars
    BY <2>9 DEF vars, producerVars, closeVars, workerVars
  <2>10. QED
    BY <2>1, <2>2, <2>3, <2>4, <2>5, <2>6, <2>7, <2>8, <2>9 DEF Next, Worker
<1>3. Init => DropsCounted
  BY EmptySeq DEF Init, DropsCounted
<1>4. QED
  BY <1>1, <1>2, <1>3, PTL DEF Spec

\* Every reachable state is well typed, and the queue never exceeds its limit.
THEOREM TypeCorrect == Spec => []TypeOK
BY TypeAndDrops, PTL

\* Every issued event is accepted or counted as dropped.
THEOREM DropsAreCounted == Spec => []DropsCounted
BY TypeAndDrops, PTL

-----------------------------------------------------------------------------
\* A worker past its last look at the queue has left nothing in it.
LEMMA DrainInvariant == Spec => []DrainInv
<1>1. Init => DrainInv
  BY DEF Init, DrainInv
<1>2. TypeOK /\ DrainInv /\ [Next]_vars => DrainInv'
  <2> SUFFICES ASSUME TypeOK, DrainInv, [Next]_vars PROVE DrainInv'
    OBVIOUS
  <2> USE DEF DrainInv
  <2>1. CASE Write
    BY <2>1 DEF Write, closeVars, workerVars
  <2>2. CASE Close \/ JoinReturns \/ JoinTimesOut \/ Exit
    BY <2>2 DEF Close, JoinReturns, JoinTimesOut, Exit, producerVars, workerVars
  <2>3. CASE CheckStop \/ CheckEmpty
    BY <2>3 DEF CheckStop, CheckEmpty, Look, WorkerStep, Goto, closeVars
  <2>4. CASE Get
    BY <2>4 DEF Get, WorkerStep, Goto, closeVars
  <2>5. CASE GetTimesOut \/ WriteLine
    BY <2>5 DEF GetTimesOut, WriteLine, WorkerStep, Goto, closeVars
  <2>6. CASE WorkerDies \/ FinalFlush
    BY <2>6 DEF WorkerDies, FinalFlush, Flush, WorkerStep, Goto, closeVars
  <2>7. CASE Clock
    BY <2>7 DEF Clock, producerVars, closeVars
  <2>8. CASE UNCHANGED vars
    BY <2>8 DEF vars, producerVars, closeVars, workerVars
  <2>9. QED
    BY <2>1, <2>2, <2>3, <2>4, <2>5, <2>6, <2>7, <2>8 DEF Next, Worker
<1>3. QED
  BY <1>1, <1>2, TypeCorrect, PTL DEF Spec

\* A nonempty sequence is its head followed by its tail.
LEMMA HeadThenTail ==
  ASSUME NEW S, NEW s \in Seq(S), s # <<>>
  PROVE  <<Head(s)>> \in Seq(S) /\ s = <<Head(s)>> \o Tail(s)
<1>1. Len(s) \in Nat \ {0} /\ Head(s) = s[1] /\ Head(s) \in S
  BY EmptySeq, HeadTailProperties
<1>2. SubSeq(s, 1, Len(s)) = <<s[1]>> \o SubSeq(s, 2, Len(s))
  BY <1>1, SubSeqRecursiveFirst
<1>3. SubSeq(s, 1, Len(s)) = s /\ SubSeq(s, 2, Len(s)) = Tail(s)
  BY SubSeqFull, TailIsSubSeq
<1>4. QED
  BY <1>1, <1>2, <1>3

\* No accepted event is lost, duplicated or overtaken on its way to the disk.
THEOREM EventsKeepOrder == Spec => []EventsInOrder
<1>1. Init => EventsInOrder
  BY ConcatEmptySeq, EmptySeq DEF Init, EventsInOrder
<1>2. TypeOK /\ DrainInv /\ EventsInOrder /\ [Next]_vars => EventsInOrder'
  <2> SUFFICES ASSUME TypeOK, DrainInv, EventsInOrder, [Next]_vars PROVE EventsInOrder'
    OBVIOUS
  <2> DEFINE X == (disk \o buf) \o hand
  <2>1. disk \o buf \in Seq(Events) /\ X \in Seq(Events)
    BY ConcatProperties DEF TypeOK
  <2>a. queue \in Seq(Events)
    BY DEF TypeOK
  <2> HIDE DEF X
  <2>2. CASE Write
    <3>1. UNCHANGED <<disk, buf, hand>>
      BY <2>2 DEF Write, workerVars
    <3>2. CASE Full
      BY <2>2, <3>1, <3>2 DEF Write, EventsInOrder
    <3>3. CASE ~ Full
      <4>1. issued' \in Events /\ <<issued'>> \in Seq(Events)
        <5>1. issued' \in Events
          BY <2>2, TelemetryWriterAssumption DEF Write, TypeOK, TelemetryWriterAssumption
        <5>2. QED
          BY <5>1
      <4>2. queue' = Append(queue, issued') /\ accepted' = Append(accepted, issued')
        BY <2>2, <3>3 DEF Write
      <4>3. queue' = queue \o <<issued'>> /\ accepted' = accepted \o <<issued'>>
        BY <4>1, <4>2, AppendIsConcat DEF TypeOK
      <4>4. (X \o queue) \o <<issued'>> = X \o (queue \o <<issued'>>)
        BY <2>1, <2>a, <4>1, ConcatAssociative
      <4>5. QED
        BY <3>1, <4>3, <4>4 DEF X, EventsInOrder
    <3>4. QED
      BY <3>2, <3>3
  <2>3. CASE Get
    <3>1. hand = <<>> /\ queue # <<>> /\ hand' = <<Head(queue)>> /\ queue' = Tail(queue)
      BY <2>3 DEF Get, DrainInv
    <3>2. UNCHANGED <<disk, buf, accepted>>
      BY <2>3 DEF Get, WorkerStep
    <3>3. /\ queue = <<Head(queue)>> \o Tail(queue)
          /\ <<Head(queue)>> \in Seq(Events) /\ Tail(queue) \in Seq(Events)
      BY <3>1, HeadThenTail, HeadTailProperties DEF TypeOK
    <3>4. X = disk \o buf
      BY <2>1, <3>1, ConcatEmptySeq DEF X
    <3>5. (X \o <<Head(queue)>>) \o Tail(queue) = X \o (<<Head(queue)>> \o Tail(queue))
      BY <2>1, <3>3, ConcatAssociative
    <3>6. QED
      BY <3>1, <3>2, <3>3, <3>4, <3>5 DEF X, EventsInOrder
  <2>4. ASSUME Flush(buf), UNCHANGED <<hand, queue, accepted>> PROVE EventsInOrder'
    <3>a. disk \o buf \in Seq(Events)
      BY ConcatProperties DEF TypeOK
    <3>1. (disk \o buf) \o <<>> = disk \o buf
      BY <3>a, ConcatEmptySeq
    <3>2. QED
      BY <2>4, <3>1 DEF Flush, EventsInOrder
  <2>5. ASSUME UNCHANGED <<disk, buf, hand, queue, accepted>> PROVE EventsInOrder'
    BY <2>5 DEF EventsInOrder
  <2>6. CASE GetTimesOut \/ WorkerDies \/ FinalFlush
    <3>1. UNCHANGED <<hand, queue, accepted>>
      BY <2>6 DEF GetTimesOut, WorkerDies, FinalFlush, WorkerStep
    <3>2. Flush(buf) \/ UNCHANGED <<disk, buf>>
      BY <2>6 DEF GetTimesOut, WorkerDies, FinalFlush
    <3>3. QED
      BY <2>4, <2>5, <3>1, <3>2
  <2>7. CASE WriteLine
    <3>1. hand' = <<>> /\ UNCHANGED <<queue, accepted>>
      BY <2>7 DEF WriteLine, WorkerStep
    <3>2. /\ ((disk \o (buf \o hand)) \o <<>>) \o queue = ((disk \o buf) \o hand) \o queue
          /\ (((disk \o (buf \o hand)) \o <<>>) \o <<>>) \o queue = ((disk \o buf) \o hand) \o queue
      <4>a. disk \in Seq(Events) /\ buf \in Seq(Events) /\ hand \in Seq(Events)
        BY DEF TypeOK
      <4>1. disk \o (buf \o hand) = X
        BY <4>a, ConcatAssociative DEF X
      <4>2. X \o <<>> = X
        BY <2>1, ConcatEmptySeq
      <4>3. QED
        BY <4>1, <4>2 DEF X
    <3>3. CASE Flush(buf \o hand)
      BY <3>1, <3>2, <3>3 DEF Flush, EventsInOrder
    <3>4. CASE buf' = buf \o hand /\ disk' = disk
      BY <3>1, <3>2, <3>4 DEF EventsInOrder
    <3>5. QED
      BY <2>7, <3>3, <3>4 DEF WriteLine
  <2>8. CASE \/ Close \/ JoinReturns \/ JoinTimesOut \/ Exit
             \/ CheckStop \/ CheckEmpty \/ Clock
    <3>1. UNCHANGED <<disk, buf, hand, queue, accepted>>
      BY <2>8 DEF Close, JoinReturns, JoinTimesOut, Exit, CheckStop, CheckEmpty, Clock,
         WorkerStep, producerVars, workerVars
    <3>2. QED
      BY <2>5, <3>1
  <2>9. CASE UNCHANGED vars
    BY <2>5, <2>9 DEF vars, producerVars, workerVars
  <2>10. QED
    BY <2>2, <2>3, <2>6, <2>7, <2>8, <2>9 DEF Next, Worker
<1>3. QED
  BY <1>1, <1>2, TypeCorrect, DrainInvariant, PTL DEF Spec

\* A close that saw the worker end has every accepted event on disk.
THEOREM JoinedCloseCompletes == Spec => []JoinedCloseIsComplete
<1>1. TypeOK /\ DrainInv /\ EventsInOrder => JoinedCloseIsComplete
  <2> SUFFICES ASSUME TypeOK, DrainInv, EventsInOrder, wpc = "ended" PROVE disk = accepted
    BY DEF JoinedCloseIsComplete
  <2>1. buf = <<>> /\ hand = <<>> /\ queue = <<>>
    BY DEF DrainInv
  <2>2. QED
    BY <2>1, ConcatEmptySeq DEF EventsInOrder, TypeOK
<1>2. QED
  BY <1>1, TypeCorrect, DrainInvariant, EventsKeepOrder, PTL

=============================================================================
