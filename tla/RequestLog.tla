----------------------------- MODULE RequestLog -----------------------------
(***************************************************************************)
(* The request log: handlers put finished entries in a bounded queue, one  *)
(* goroutine writes them in batches and trims the table now and then, and  *)
(* the process that stops waits for its last write (cmd/server/main.go).   *)
(***************************************************************************)
EXTENDS Integers, Sequences, FiniteSets, Functions

CONSTANTS
    Entries,        \* the requests, each answered and recorded once
    At,             \* when each started; the log is ordered by it
    BufferSize, BatchSize, TrimEvery, MaxStored,
    DatabaseFails   \* whether a write may fail for a reason of the database's own

ASSUME RequestLogAssumption ==
    /\ IsFiniteSet(Entries)
    /\ At \in [Entries -> Nat]
    /\ {BufferSize, BatchSize, MaxStored} \subseteq Nat \ {0}
    /\ TrimEvery \in Nat \ {0, 1}
    /\ DatabaseFails \in BOOLEAN

VARIABLES
    open,       \* requests not yet recorded
    queue,      \* the channel
    batch,      \* what Run has taken from it
    stored,     \* rows of request_log
    pruned,     \* history: the rows an administrator removed by their age
    dropped, evicted, writes,
    loop,       \* where Run is
    doomed,     \* the write under way began with a context that had ended
    stage,      \* where the process is
    cut,        \* answersCut
    reported    \* what the process said when it stopped

logVars == <<open, queue, batch, stored, pruned, dropped, evicted, writes, loop, doomed, stage, cut, reported>>

Writing == {"writing", "writingDrained", "writingLast"}

RequestLogTypeOK ==
    /\ open \subseteq Entries
    /\ stored \subseteq Entries \ open /\ pruned \subseteq Entries \ open
    /\ queue \in Seq(Entries) /\ Len(queue) <= BufferSize
    /\ batch \in Seq(Entries) /\ Len(batch) <= BatchSize
    /\ dropped \in 0..Cardinality(Entries)
    /\ evicted \in 0..Cardinality(Entries)
    /\ writes \in 0..Cardinality(Entries)
    /\ loop \in {"receiving", "draining", "returned"} \cup Writing
    /\ {doomed, cut} \subseteq BOOLEAN
    /\ stage \in {"serving", "closing", "waiting", "failed", "closed"}
    /\ reported \in {"nothing", "stopped", "abandoned"}

RequestLogInit ==
    /\ open = Entries
    /\ queue = <<>> /\ batch = <<>>
    /\ stored = {} /\ pruned = {}
    /\ dropped = 0 /\ evicted = 0 /\ writes = 0
    /\ loop = "receiving" /\ doomed = FALSE
    /\ stage = "serving" /\ cut = FALSE /\ reported = "nothing"

Alive == stage # "closed"
\* The context of the background loops has ended.
Cancelled == stage \in {"waiting", "failed", "closed"}

-----------------------------------------------------------------------------
\* Record never blocks: an entry that finds the queue full is counted and gone.
Record(e) ==
    /\ Alive /\ e \in open
    /\ open' = open \ {e}
    /\ IF Len(queue) < BufferSize
       THEN queue' = Append(queue, e) /\ UNCHANGED dropped
       ELSE dropped' = dropped + 1 /\ UNCHANGED queue
    /\ UNCHANGED <<pruned, batch, stored, evicted, writes, loop, doomed, stage, cut, reported>>

\* A batch is handed to write, which counts it before its transaction begins.
BeginWrite(at) ==
    /\ loop' = at
    /\ doomed' = (at = "writing" /\ Cancelled)
    /\ writes' = writes + 1

\* An entry, while the context lives or in the choice between it and the end of the context.
Receive ==
    /\ Alive /\ loop = "receiving" /\ queue # <<>>
    /\ batch' = Append(batch, Head(queue))
    /\ queue' = Tail(queue)
    /\ IF Len(batch') >= BatchSize THEN BeginWrite("writing") ELSE UNCHANGED <<loop, doomed, writes>>
    /\ UNCHANGED <<pruned, open, stored, dropped, evicted, stage, cut, reported>>

\* A mutated form: only a full batch is written.
LogTickFull ==
    /\ Alive /\ loop = "receiving" /\ Len(batch) = BatchSize
    /\ BeginWrite("writing")
    /\ UNCHANGED <<pruned, open, queue, batch, stored, dropped, evicted, stage, cut, reported>>

LogTick ==
    /\ Alive /\ loop = "receiving" /\ batch # <<>>
    /\ BeginWrite("writing")
    /\ UNCHANGED <<pruned, open, queue, batch, stored, dropped, evicted, stage, cut, reported>>

\* The context has ended: what the queue still holds is taken, then the last batch is written.
BeginDrain ==
    /\ Alive /\ loop = "receiving" /\ Cancelled
    /\ loop' = "draining"
    /\ UNCHANGED <<pruned, open, queue, batch, stored, dropped, evicted, writes, doomed, stage, cut, reported>>

DrainOne ==
    /\ Alive /\ loop = "draining" /\ queue # <<>>
    /\ batch' = Append(batch, Head(queue))
    /\ queue' = Tail(queue)
    /\ IF Len(batch') >= BatchSize THEN BeginWrite("writingDrained") ELSE UNCHANGED <<loop, doomed, writes>>
    /\ UNCHANGED <<pruned, open, stored, dropped, evicted, stage, cut, reported>>

DrainEnd ==
    /\ Alive /\ loop = "draining" /\ queue = <<>>
    /\ IF batch = <<>> THEN loop' = "returned" /\ UNCHANGED <<doomed, writes>> ELSE BeginWrite("writingLast")
    /\ UNCHANGED <<pruned, open, queue, batch, stored, dropped, evicted, stage, cut, reported>>

AfterWrite == [w \in Writing |-> CASE w = "writing" -> "receiving"
                                   [] w = "writingDrained" -> "draining"
                                   [] w = "writingLast" -> "returned"][loop]

Newer(rows, e) == {f \in rows : At[f] > At[e]}
\* A mutated form: the boundary row's own moment is kept.
BeyondStrictly(rows) ==
    {e \in rows : \E boundary \in rows :
        /\ At[e] < At[boundary]
        /\ Cardinality(Newer(rows, boundary)) <= MaxStored
        /\ Cardinality({f \in rows : At[f] >= At[boundary]}) > MaxStored}

\* The rows up to the moment of the first row beyond the newest MaxStored.
Beyond(rows) ==
    {e \in rows : \E boundary \in rows :
        /\ At[e] <= At[boundary]
        /\ Cardinality(Newer(rows, boundary)) <= MaxStored
        /\ Cardinality({f \in rows : At[f] >= At[boundary]}) > MaxStored}
\* The batch and, at the first of TrimEvery writes, the trim, in one transaction.
WriteSucceeds ==
    /\ Alive /\ loop \in Writing /\ ~doomed
    /\ LET rows == stored \cup Range(batch)
           gone == IF writes % TrimEvery = 1 THEN Beyond(rows) ELSE {}
       IN  /\ stored' = rows \ gone
           /\ evicted' = evicted + Cardinality(gone)
    /\ batch' = <<>>
    /\ loop' = AfterWrite
    /\ UNCHANGED <<pruned, open, queue, dropped, writes, doomed, stage, cut, reported>>

\* The database fails, or the context has ended before or during a write that uses it.
WriteFails ==
    /\ Alive /\ loop \in Writing
    /\ DatabaseFails \/ (loop = "writing" /\ Cancelled)
    /\ dropped' = dropped + Len(batch)
    /\ batch' = <<>>
    /\ loop' = AfterWrite
    /\ UNCHANGED <<pruned, open, queue, stored, evicted, writes, doomed, stage, cut, reported>>

Run == Receive \/ LogTick \/ BeginDrain \/ DrainOne \/ DrainEnd \/ WriteSucceeds \/ WriteFails

-----------------------------------------------------------------------------
\* Prune, at an administrator's word: the rows from before some moment, counted by
\* the security log and by neither of the counters.
PruneEntries ==
    /\ Alive
    /\ \E last \in stored :
          LET old == {e \in stored : At[e] <= At[last]}
          IN  stored' = stored \ old /\ pruned' = pruned \cup old
    /\ UNCHANGED <<open, queue, batch, dropped, evicted, writes, loop, doomed, stage, cut, reported>>

-----------------------------------------------------------------------------
(* The process: a signal, a grace for open answers, the end of the loops.  *)

Signal ==
    /\ stage = "serving"
    /\ stage' = "closing"
    /\ UNCHANGED <<pruned, open, queue, batch, stored, dropped, evicted, writes, loop, doomed, cut, reported>>

\* A listener fails: the loops are stopped with requests still being answered.
ServeFails ==
    /\ stage = "serving"
    /\ stage' = "failed"
    /\ UNCHANGED <<pruned, open, queue, batch, stored, dropped, evicted, writes, loop, doomed, cut, reported>>

\* A mutated form: the loops are stopped while handlers still run.
StopBackgroundFirst ==
    /\ stage = "closing"
    /\ cut' \in BOOLEAN
    /\ stage' = "waiting"
    /\ UNCHANGED <<pruned, open, queue, batch, stored, dropped, evicted, writes, loop, doomed, reported>>

\* Every handler has returned, or the deadline passed; either way the loops are told to stop.
StopBackground ==
    /\ stage = "closing"
    /\ cut' \in {c \in BOOLEAN : open # {} => c}
    /\ stage' = "waiting"
    /\ UNCHANGED <<pruned, open, queue, batch, stored, dropped, evicted, writes, loop, doomed, reported>>

\* The loops have returned, or their grace is over; then the database closes and the process ends.
CloseDatabase ==
    /\ stage \in {"waiting", "failed"}
    /\ \E inTime \in {b \in BOOLEAN : b => loop = "returned"} :
          reported' = IF stage = "failed" THEN "nothing"
                      ELSE IF inTime /\ ~cut THEN "stopped" ELSE "abandoned"
    /\ stage' = "closed"
    /\ UNCHANGED <<pruned, open, queue, batch, stored, dropped, evicted, writes, loop, doomed, cut>>

RequestLogNext ==
    \/ \E e \in Entries : Record(e)
    \/ Run
    \/ PruneEntries
    \/ Signal
    \/ ServeFails
    \/ StopBackground
    \/ CloseDatabase

\* The loop goes on, and the wait for it at the end is bounded.
RequestLogFairness == WF_logVars(Run) /\ WF_logVars(CloseDatabase)

RequestLogSpec == RequestLogInit /\ [][RequestLogNext]_logVars /\ RequestLogFairness

-----------------------------------------------------------------------------
(* A gap in the log is counted: what was recorded is in the table, on its  *)
(* way there, was removed by an administrator, or is in one of the two     *)
(* counters an administrator sees.                                         *)
GapsCounted ==
    Cardinality((Entries \ open) \ (stored \cup pruned \cup Range(queue) \cup Range(batch))) = dropped + evicted

(* A trim takes the oldest and happens when it is due: what it leaves is   *)
(* newer than all it took (a request that is logged late, with an older    *)
(* moment, may go in the transaction that brought it), and a write that    *)
(* trims leaves the table within the ceiling.                              *)
TrimIsExact ==
    [][/\ evicted' > evicted => \A gone \in stored \ stored', kept \in stored' : At[gone] < At[kept]
       /\ (writes % TrimEvery = 1 /\ loop \in Writing /\ loop' # loop /\ stored' # stored)
            => Cardinality(stored') <= MaxStored]_logVars

(* "stopped" is only said when nothing waits to be written any more: no    *)
(* handler can record, and the queue and the batch are empty (main.go).    *)
StoppedIsDrained == reported = "stopped" => open = {} /\ queue = <<>> /\ batch = <<>>

(* What waits in the queue or the batch is written or counted in the end,  *)
(* however few entries follow it.                                          *)
Flushed == (queue \o batch # <<>>) ~> (queue \o batch = <<>> \/ stage = "closed")

(* No entry is lost without a count of it, and none is left behind by an   *)
(* orderly stop.                                                           *)
EntriesAccounted == RequestLogTypeOK /\ GapsCounted /\ StoppedIsDrained
=============================================================================
