----------------------------- MODULE LogStream -----------------------------
(***************************************************************************)
(* The log of one execution, written while it runs and read by a polling   *)
(* client: executionLogSink and ExecutionHandler.Logs on the server, the   *)
(* loop of LogViewer in the browser.                                       *)
(*                                                                         *)
(* A chunk is its sequence number and its size.  The sink numbers chunks,  *)
(* appends them and rolls the oldest off when the log is over its limit;   *)
(* the page a client is served is put together from four statements, and   *)
(* the sink may write between any two of them.                             *)
(***************************************************************************)
EXTENDS LogViewer

CONSTANTS
    Limit,     \* executionLogSink.limitBytes; 0 is no limit
    Size,      \* bound: the sizes a chunk may have
    MaxFaults  \* bound: failed statements, lost answers and crashes

ASSUME LogAssumption ==
    Limit \in Nat /\ Size \subseteq Nat \ {0} /\ MaxFaults \in Nat

VARIABLES
    seq,       \* executionLogSink.seq
    retained,  \* executionLogSink.retained
    stored,    \* the sequence numbers in execution_logs
    size,      \* the size of each chunk written
    writer,    \* the goroutine of the execution: its next step
    finished,  \* whether finished_at is set
    up,        \* whether the server is running
    faults,
    written,   \* history: every chunk that was ever in the table
    blind      \* history: a statement whose error Logs ignores has failed

sinkVars == <<seq, retained, stored, size, written>>
serverVars == <<sinkVars, writer, finished, up>>
clientVars == <<client, viewVars, page, blind>>
vars == <<serverVars, clientVars, faults>>

TypeOK ==
    /\ ViewerTypeOK
    /\ seq \in 0..MaxChunks /\ retained \in Nat
    /\ stored \subseteq Chunk /\ written \subseteq Chunk
    /\ size \in [Chunk -> Size \cup {0}]
    /\ writer \in {"run", "trim", "done"}
    /\ finished \in BOOLEAN /\ up \in BOOLEAN /\ blind \in BOOLEAN
    /\ faults \in 0..MaxFaults

Init ==
    /\ ViewerInit
    /\ seq = 0 /\ retained = 0 /\ stored = {} /\ written = {}
    /\ size = [n \in Chunk |-> 0]
    /\ writer = "run" /\ finished = FALSE /\ up = TRUE /\ faults = 0
    /\ blind = FALSE

Fault == faults < MaxFaults /\ faults' = faults + 1

-----------------------------------------------------------------------------
(* The sink.  WriteChunk holds its mutex to the end of trim, so there is   *)
(* one writer at a time.                                                   *)
WriteChunk(n) ==
    /\ up /\ writer = "run" /\ seq < MaxChunks
    /\ seq' = seq + 1
    /\ size' = [size EXCEPT ![seq + 1] = n]
    /\ \/ /\ stored' = stored \cup {seq + 1} /\ written' = written \cup {seq + 1}
          /\ retained' = retained + n
          /\ writer' = "trim" /\ UNCHANGED faults
       \/ Fault /\ UNCHANGED <<stored, written, retained, writer>>
    /\ UNCHANGED <<finished, up, clientVars>>

NothingToTrim == Limit = 0 \/ retained <= Limit \/ Oldest(stored) = seq

(* Mutant: the chunk is dropped and still counted.                         *)
TrimUncounted ==
    /\ up /\ writer = "trim" /\ ~NothingToTrim
    /\ stored' = stored \ {Oldest(stored)}
    /\ UNCHANGED <<seq, retained, size, written, writer, finished, up, clientVars, faults>>

Trim ==
    /\ up /\ writer = "trim" /\ ~NothingToTrim
    /\ stored' = stored \ {Oldest(stored)}
    /\ retained' = retained - size[Oldest(stored)]
    /\ UNCHANGED <<seq, size, written, writer, finished, up, clientVars, faults>>

(* Done, or a SELECT or DELETE that fails: the log stays as long as it is. *)
TrimEnds ==
    /\ up /\ writer = "trim"
    /\ IF NothingToTrim THEN UNCHANGED faults ELSE Fault
    /\ writer' = "run"
    /\ UNCHANGED <<sinkVars, finished, up, clientVars>>

(* The command has ended and its output is sealed: the final status is the *)
(* last thing written.  It is only logged when that fails.                 *)
End ==
    /\ up /\ writer = "run"
    /\ writer' = "done"
    /\ \/ finished' = TRUE /\ UNCHANGED faults
       \/ Fault /\ UNCHANGED finished
    /\ UNCHANGED <<sinkVars, up, clientVars>>

(* The process dies, and with it the request it was serving.               *)
Crash ==
    /\ up /\ Fault
    /\ up' = FALSE /\ writer' = "done"
    /\ client' = IF client \in Serving THEN "lost" ELSE client
    /\ UNCHANGED <<sinkVars, finished, viewVars, page, blind>>

(* The startup sweep finishes what the last process left unfinished.       *)
Restart ==
    /\ ~up /\ up' = TRUE /\ finished' = TRUE
    /\ UNCHANGED <<sinkVars, writer, clientVars, faults>>

-----------------------------------------------------------------------------
(* One poll: ExecutionHandler.Logs statement by statement, then what the   *)
(* view makes of the answer.                                               *)
Poll ==
    /\ up /\ client = "wait"
    /\ client' = "status" /\ page' = NewPage
    /\ UNCHANGED <<serverVars, viewVars, blind, faults>>

Serve(here, next) == up /\ client = here /\ client' = next
OnlyPage == UNCHANGED <<serverVars, viewVars>>

ReadStatus ==
    /\ Serve("status", "chunks")
    /\ page' = [page EXCEPT !.finished = finished]
    /\ OnlyPage /\ UNCHANGED <<blind, faults>>

ReadChunks ==
    /\ Serve("chunks", "oldest")
    /\ page' = [page EXCEPT !.chunks = NextPage(stored)]
    /\ OnlyPage /\ UNCHANGED <<blind, faults>>

(* The errors of the last two statements are ignored: a zero value stands. *)
ReadOldest ==
    /\ Serve("oldest", "more")
    /\ \/ /\ page' = [page EXCEPT !.oldest = Oldest(stored)]
          /\ UNCHANGED <<blind, faults>>
       \/ Fault /\ blind' = TRUE /\ UNCHANGED page
    /\ OnlyPage

ReadMore ==
    /\ Serve("more", "answer")
    /\ \/ /\ page' = [page EXCEPT !.more = \E n \in stored : n > NextSeq]
          /\ UNCHANGED <<blind, faults>>
       \/ Fault /\ blind' = TRUE /\ UNCHANGED page
    /\ OnlyPage

Shown == Answer /\ UNCHANGED <<serverVars, blind, faults>>

(* Once all is read the view fetches the record of the execution; a fetch  *)
(* that fails counts as a failed poll.                                     *)
FetchFails ==
    /\ client = "answer" /\ AfterAnswer = "stopped" /\ Fault
    /\ Show /\ Missed(1)
    /\ UNCHANGED <<serverVars, page, blind>>

(* A poll that finds no server or loses it, or that fails on the server or *)
(* on the way.                                                             *)
PollFails ==
    /\ \/ client = "wait" /\ ~up /\ UNCHANGED faults
       \/ client = "lost" /\ UNCHANGED faults
       \/ client \in Serving \cup {"answer"} /\ Fault
    /\ MissPoll
    /\ UNCHANGED <<serverVars, blind>>

-----------------------------------------------------------------------------
SinkStep == Trim \/ TrimEnds \/ End
ClientStep ==
    Poll \/ ReadStatus \/ ReadChunks \/ ReadOldest \/ ReadMore
    \/ Shown \/ FetchFails \/ PollFails

Next ==
    \/ \E n \in Size : WriteChunk(n)
    \/ SinkStep \/ Crash \/ Restart
    \/ ClientStep

Spec == Init /\ [][Next]_vars

-----------------------------------------------------------------------------
(* A client that was shown something is never shown later output with an   *)
(* unmarked hole before it: the sink may roll chunks off between any two   *)
(* statements of a poll, and the page still gives the hole away (comment   *)
(* at execution.go:79).                                                    *)
HolesAreShown ==
    ~blind => \A m \in written :
        (m < cursor /\ m \notin seen /\ \E n \in seen : n < m) => gap

(* A client stops polling only when nothing more can come and everything   *)
(* the table holds has been shown, the mark of a cancellation and the rest *)
(* of a backlog longer than a page included.                               *)
StopsComplete ==
    client = "stopped" /\ ~blind => writer = "done" /\ stored \subseteq seen

StoredSize == MapThenSumSet(LAMBDA n : size[n], stored)

(* The sink's running count is what the table really holds, whatever fails *)
(* on the way, and the newest chunk is never rolled off; while nothing     *)
(* fails, a log at rest is within its limit or one chunk.                  *)
RetainedAgrees ==
    /\ retained = StoredSize
    /\ written # {} => Max(written) \in stored
    /\ writer # "trim" /\ faults = 0 /\ Limit > 0 =>
           StoredSize <= Limit \/ Cardinality(stored) = 1

=============================================================================
