---------------------------- MODULE TelemetryWriter ----------------------------
(***************************************************************************)
(* TelemetryWriter (telemetry/writer.py): the control loop puts events in  *)
(* a bounded queue and a daemon thread writes them to telemetry.jsonl.     *)
(* The two run as preemptive threads, so each read of the stop flag and of *)
(* the queue is a step of its own.  main.py closes the writer at the end   *)
(* of the run and then leaves the interpreter, which kills the thread.     *)
(*                                                                         *)
(* Events are numbered in the order they are issued.                       *)
(***************************************************************************)
EXTENDS Integers, Sequences

CONSTANTS
  MaxQueue,       \* settings.telemetry_max_queue; queue.Queue takes 0 for "no limit"
  FlushInterval,  \* settings.telemetry_flush_interval_s in clock units
  MaxEvents,      \* events issued in a run (a bound)
  CanFail         \* whether the disk, or the serialisation of an event, can fail

ASSUME TelemetryWriterAssumption ==
  /\ MaxQueue \in Nat
  /\ FlushInterval \in Nat
  /\ MaxEvents \in Nat
  /\ CanFail \in BOOLEAN

VARIABLES
  issued,    \* events the control loop wrote so far
  queue,     \* _queue
  dropped,   \* dropped_events
  closing,   \* "open", "joining", "closed", or "exited" with the interpreter
  stopFlag,  \* _stop
  wpc,       \* the worker: "check", "empty", "get", "write", "final", "ended", "dead"
  hand,      \* the event the worker took, as a sequence of at most one
  buf,       \* lines written to the file object and not yet flushed
  disk,      \* lines in telemetry.jsonl
  unflushed, \* time since last_flush, saturating at FlushInterval
  \* History variables, read by no action.
  accepted,  \* the events that entered the queue, in order
  joined     \* the join in close() returned because the thread had ended

producerVars == <<issued, queue, dropped, accepted>>
closeVars    == <<closing, stopFlag, joined>>
workerVars   == <<wpc, hand, buf, disk, unflushed>>
vars         == <<producerVars, closeVars, workerVars>>

-----------------------------------------------------------------------------
Init ==
  /\ issued = 0 /\ queue = <<>> /\ dropped = 0
  /\ closing = "open" /\ stopFlag = FALSE
  /\ wpc = "check" /\ hand = <<>> /\ buf = <<>> /\ disk = <<>> /\ unflushed = 0
  /\ accepted = <<>> /\ joined = FALSE

FullOffByOne == MaxQueue > 0 /\ Len(queue) > MaxQueue
Full == MaxQueue > 0 /\ Len(queue) >= MaxQueue

\* write(): an event is queued, or dropped when the queue is full.
WriteDropsSilently ==
  /\ closing = "open"
  /\ issued < MaxEvents
  /\ issued' = issued + 1
  /\ \/ /\ Full
        /\ UNCHANGED <<queue, accepted>>
     \/ /\ ~ Full
        /\ queue' = Append(queue, issued')
        /\ accepted' = Append(accepted, issued')
  /\ UNCHANGED <<dropped, closeVars, workerVars>>
Write ==
  /\ closing = "open"
  /\ issued < MaxEvents
  /\ issued' = issued + 1
  /\ \/ /\ Full
        /\ dropped' = dropped + 1
        /\ UNCHANGED <<queue, accepted>>
     \/ /\ ~ Full
        /\ queue' = Append(queue, issued')
        /\ accepted' = Append(accepted, issued')
        /\ UNCHANGED dropped
  /\ UNCHANGED <<closeVars, workerVars>>

\* close(): refuse further events, set the stop flag, join for two seconds.
Close ==
  /\ closing = "open"
  /\ closing' = "joining"
  /\ stopFlag' = TRUE
  /\ UNCHANGED <<producerVars, workerVars, joined>>

WorkerGone == wpc \in {"ended", "dead"}

JoinReturns ==
  /\ closing = "joining"
  /\ WorkerGone
  /\ closing' = "closed"
  /\ joined' = TRUE
  /\ UNCHANGED <<producerVars, workerVars, stopFlag>>

JoinTimesOut ==
  /\ closing = "joining"
  /\ ~ WorkerGone
  /\ closing' = "closed"
  /\ UNCHANGED <<producerVars, workerVars, stopFlag, joined>>

\* The interpreter exits: a daemon thread and its file buffer are gone.
Exit ==
  /\ closing = "closed"
  /\ closing' = "exited"
  /\ UNCHANGED <<producerVars, workerVars, stopFlag, joined>>

-----------------------------------------------------------------------------
Alive == closing # "exited"

WorkerStep == Alive /\ UNCHANGED <<issued, dropped, accepted, closeVars>>

Goto(label) == wpc' = label

\* The loop condition of the worker looks at the stop flag first, and at the
\* queue only if the flag is set.
LookSwapped(nth) == IF nth = 1 THEN queue = <<>> ELSE stopFlag
Look(nth)        == IF nth = 1 THEN stopFlag ELSE queue = <<>>

CheckStop ==
  /\ wpc = "check"
  /\ WorkerStep
  /\ Goto(IF Look(1) THEN "empty" ELSE "get")
  /\ UNCHANGED <<queue, hand, buf, disk, unflushed>>

CheckEmpty ==
  /\ wpc = "empty"
  /\ WorkerStep
  /\ Goto(IF Look(2) THEN "final" ELSE "get")
  /\ UNCHANGED <<queue, hand, buf, disk, unflushed>>

GetNewest ==
  /\ wpc = "get"
  /\ queue # <<>>
  /\ WorkerStep
  /\ hand' = <<queue[Len(queue)]>>
  /\ queue' = SubSeq(queue, 1, Len(queue) - 1)
  /\ Goto("write")
  /\ UNCHANGED <<buf, disk, unflushed>>
Get ==
  /\ wpc = "get"
  /\ queue # <<>>
  /\ WorkerStep
  /\ hand' = <<Head(queue)>>
  /\ queue' = Tail(queue)
  /\ Goto("write")
  /\ UNCHANGED <<buf, disk, unflushed>>

FlushDue == unflushed >= FlushInterval

Flush(lines) ==
  /\ disk' = disk \o lines
  /\ buf' = <<>>

\* The wait for an event ran out: flush if the interval has passed.
GetTimesOutWaits ==
  /\ wpc = "get"
  /\ queue = <<>>
  /\ WorkerStep
  /\ Goto("check")
  /\ UNCHANGED <<queue, hand, buf, disk, unflushed>>
GetTimesOut ==
  /\ wpc = "get"
  /\ queue = <<>>
  /\ WorkerStep
  /\ \/ /\ FlushDue
        /\ Flush(buf)
        /\ unflushed' = 0
     \/ /\ ~ FlushDue
        /\ UNCHANGED <<buf, disk, unflushed>>
  /\ Goto("check")
  /\ UNCHANGED <<queue, hand>>

\* The line goes to the file object, which passes lines on to the disk when its
\* buffer is full; then the worker flushes if the interval has passed.
WriteLine ==
  /\ wpc = "write"
  /\ WorkerStep
  /\ \/ /\ Flush(buf \o hand)
        /\ unflushed' = IF FlushDue THEN 0 ELSE unflushed
     \/ /\ ~ FlushDue
        /\ buf' = buf \o hand
        /\ UNCHANGED <<disk, unflushed>>
  /\ hand' = <<>>
  /\ Goto("check")
  /\ UNCHANGED queue

\* An exception of json.dumps or of the file ends the thread.  The first leaves
\* the file to be closed and so flushed; the second does not.
WorkerDies ==
  /\ CanFail
  /\ \/ wpc \in {"write", "final"}
     \/ wpc = "get" /\ queue = <<>> /\ FlushDue
  /\ WorkerStep
  /\ Flush(buf) \/ UNCHANGED <<buf, disk>>
  /\ Goto("dead")
  /\ UNCHANGED <<queue, hand, unflushed>>

FinalFlush ==
  /\ wpc = "final"
  /\ WorkerStep
  /\ Flush(buf)
  /\ Goto("ended")
  /\ UNCHANGED <<queue, hand, unflushed>>

Clock ==
  /\ Alive
  /\ unflushed < FlushInterval
  /\ unflushed' = unflushed + 1
  /\ UNCHANGED <<producerVars, closeVars, wpc, hand, buf, disk>>

Worker ==
  \/ CheckStop \/ CheckEmpty
  \/ Get \/ GetTimesOut
  \/ WriteLine \/ WorkerDies
  \/ FinalFlush

Next ==
  \/ Write
  \/ Close \/ JoinReturns \/ JoinTimesOut \/ Exit
  \/ Worker
  \/ Clock

Spec == Init /\ [][Next]_vars

\* The thread is scheduled, time passes, and a join returns.
FairSpec ==
  /\ Spec
  /\ WF_vars(Worker)
  /\ WF_vars(Clock)
  /\ WF_vars(JoinReturns \/ JoinTimesOut)

-----------------------------------------------------------------------------
(***************************************************************************)
(* Properties                                                              *)
(***************************************************************************)
Events == 1 .. MaxEvents
WorkerStates == {"check", "empty", "get", "write", "final", "ended", "dead"}

\* Each variable has its type, and the queue respects its limit.
TypeOK ==
  /\ issued \in 0 .. MaxEvents /\ dropped \in 0 .. MaxEvents
  /\ queue \in Seq(Events) /\ accepted \in Seq(Events)
  /\ MaxQueue > 0 => Len(queue) <= MaxQueue
  /\ closing \in {"open", "joining", "closed", "exited"}
  /\ stopFlag \in BOOLEAN /\ joined \in BOOLEAN
  /\ wpc \in WorkerStates
  /\ hand \in Seq(Events) /\ buf \in Seq(Events) /\ disk \in Seq(Events)
  /\ unflushed \in 0 .. FlushInterval

\* No event that entered the queue is lost, duplicated or overtaken between the
\* threads: what was accepted is on disk, in the file buffer, in the worker's
\* hand and in the queue, in this order.
EventsInOrder == accepted = disk \o buf \o hand \o queue

\* Every event that was issued is accepted or counted as dropped.
DropsCounted == issued = Len(accepted) + dropped

\* When close() has waited for the thread to end and the thread did not fail,
\* every accepted event is on disk (main.py: "Flushes telemetry").
JoinedCloseIsComplete == joined /\ wpc = "ended" => disk = accepted

\* As long as the writer is neither closed nor failing, what it accepted reaches
\* the disk.
AcceptedReachesDisk ==
  \A e \in Events :
    (\E i \in DOMAIN accepted : accepted[i] = e)
      ~> (\E i \in DOMAIN disk : disk[i] = e) \/ wpc = "dead" \/ closing = "exited"

-----------------------------------------------------------------------------
\* A worker past its last look at the queue has left nothing behind: it looked
\* after the stop flag was set, and nothing is queued after that.
DrainInv ==
  /\ wpc \in {"empty", "final", "ended"} => stopFlag
  /\ stopFlag <=> closing # "open"
  /\ wpc \in {"final", "ended"} => queue = <<>>
  /\ wpc \notin {"write", "dead"} => hand = <<>>
  /\ wpc = "ended" => buf = <<>>

=============================================================================
