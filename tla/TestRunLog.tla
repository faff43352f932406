----------------------------- MODULE TestRunLog -----------------------------
(***************************************************************************)
(* The log of one script test run: testRun in testrun.go, kept in memory   *)
(* and served under one mutex, and the LogViewer that follows it.  The     *)
(* run is forgotten a while after it finished, or when the process dies.   *)
(***************************************************************************)
EXTENDS LogViewer

CONSTANTS
    Limit,       \* testRun.limitBytes; 0 is no limit
    MaxRecords,  \* maxTestRunChunks
    Size,        \* bound: the sizes a chunk may have
    MaxFaults    \* bound: polls that fail on the way

ASSUME RunLogAssumption ==
    /\ Limit \in Nat /\ MaxRecords \in Nat \ {0}
    /\ Size \subseteq Nat \ {0} /\ MaxFaults \in Nat

VARIABLES
    chunks,  \* testRun.chunks: the sequence numbers retained
    seq,     \* testRun.seq
    size,    \* the size of each chunk
    runner,  \* the goroutine of the run: its next step
    status,  \* testRun.status; finishedAt is set when it is not "running"
    known,   \* whether the registry still has the run
    faults

runVars == <<chunks, seq, size, runner, status, known>>
vars == <<runVars, client, viewVars, page, faults>>

Ended == {"success", "failed", "timeout", "canceled"}

Init ==
    /\ ViewerInit
    /\ chunks = {} /\ seq = 0 /\ size = [n \in Chunk |-> 0]
    /\ runner = "run" /\ status = "running" /\ known = TRUE /\ faults = 0

-----------------------------------------------------------------------------
Bytes(log, sizes) == MapThenSumSet(LAMBDA n : sizes[n], log)

(* Mutant: one chunk over the limit empties the log.                       *)
FitsAlways(log, sizes) ==
    /\ Limit > 0 => Bytes(log, sizes) <= Limit
    /\ Cardinality(log) <= MaxRecords

Fits(log, sizes) ==
    /\ Limit > 0 /\ Cardinality(log) > 1 => Bytes(log, sizes) <= Limit
    /\ Cardinality(log) <= MaxRecords

(* WriteChunk: what is appended stays, and of what was there the longest   *)
(* tail that still fits.                                                   *)
Append(n) ==
    /\ seq < MaxChunks /\ seq' = seq + 1
    /\ size' = [size EXCEPT ![seq + 1] = n]
    /\ LET all == chunks \cup {seq + 1}
           tails == {{m \in all : m >= first} : first \in all \cup {seq + 2}}
       IN  chunks' = CHOOSE t \in tails :
                        /\ Fits(t, size')
                        /\ \A u \in tails : Fits(u, size') => u \subseteq t

WriteChunk(n) ==
    /\ runner = "run" /\ seq < MaxChunks - 1  \* room is left for the mark
    /\ Append(n)
    /\ UNCHANGED <<runner, status, known, client, viewVars, page, faults>>

(* Mutant: the status is there before the log explains it.                 *)
MarkLate(outcome) ==
    /\ runner = "run"
    /\ status' = outcome
    /\ IF status = "running"
       THEN UNCHANGED <<runner, chunks, seq, size>>
       ELSE runner' = "done" /\ \E n \in Size : Append(n)
    /\ UNCHANGED <<known, client, viewVars, page, faults>>

(* The last word on how the run ended, a panic included: a chunk of its    *)
(* own, unless it succeeded or failed without a reason.                    *)
Mark(outcome) ==
    /\ runner = "run" /\ runner' = outcome
    /\ \/ \E n \in Size : Append(n)
       \/ outcome \in {"success", "failed"} /\ UNCHANGED <<chunks, seq, size>>
    /\ UNCHANGED <<status, known, client, viewVars, page, faults>>

FinishRun ==
    /\ runner \in Ended
    /\ status' = runner /\ runner' = "done"
    /\ UNCHANGED <<chunks, seq, size, known, client, viewVars, page, faults>>

(* TestRunRegistry.sweep, long after the run finished.                     *)
Sweep ==
    /\ known /\ status # "running"
    /\ known' = FALSE
    /\ UNCHANGED <<chunks, seq, size, runner, status, client, viewVars, page, faults>>

(* The process ends, and the run with it; the next one knows nothing of it.*)
Crash ==
    /\ known /\ known' = FALSE
    /\ runner' = "done"
    /\ UNCHANGED <<chunks, seq, size, status, client, viewVars, page, faults>>

-----------------------------------------------------------------------------
(* testRun.page, under the mutex, for the cursor the client sends.         *)
Page ==
    LET sent == NextPage(chunks)
    IN  [finished |-> status # "running", chunks |-> sent,
         oldest |-> Oldest(chunks), more |-> Unread(chunks) # sent]

Poll ==
    /\ known /\ client = "wait"
    /\ client' = "answer" /\ page' = Page
    /\ UNCHANGED <<runVars, viewVars, faults>>

Shown == Answer /\ UNCHANGED <<runVars, faults>>

(* A run that is forgotten is not found; any other poll may fail too.      *)
PollFails ==
    /\ client \in {"wait", "answer"}
    /\ \/ client = "wait" /\ ~known /\ UNCHANGED faults
       \/ faults < MaxFaults /\ faults' = faults + 1
    /\ MissPoll
    /\ UNCHANGED runVars

ClientStep == Poll \/ Shown \/ PollFails

Next ==
    \/ \E n \in Size : WriteChunk(n)
    \/ \E outcome \in Ended : Mark(outcome)
    \/ FinishRun \/ Sweep \/ Crash
    \/ ClientStep

Spec == Init /\ [][Next]_vars

-----------------------------------------------------------------------------
(* Nothing is appended once the outcome is recorded (testrun.go:132): a    *)
(* client that stopped on that status has seen all there will ever be, the *)
(* reason of a failure included, however the log was rolled off.           *)
StopsComplete ==
    client = "stopped" => status # "running" /\ chunks \subseteq seen

(* Output a client missed between two chunks it was shown is marked, and   *)
(* since a page is put together under the mutex it is marked only then.    *)
GapMeansHole ==
    gap = (\E m \in 1..seq : m < cursor /\ m \notin seen /\ \E n \in seen : n < m)

(* The log is never longer than both caps allow, and never without the     *)
(* newest chunk, though that one alone be over the limit.                  *)
NewestWithinCaps ==
    /\ seq > 0 => seq \in chunks
    /\ Cardinality(chunks) <= MaxRecords
    /\ Limit = 0 \/ Bytes(chunks, size) <= Limit \/ Cardinality(chunks) = 1

-----------------------------------------------------------------------------
(* Whoever watches a run that finished, or that was forgotten, is told so  *)
(* in the end: the button does not stay dead (ScriptEdit.tsx:292).  The    *)
(* browser keeps polling and the server answers, no more is assumed.       *)
ViewerStops == (status # "running" \/ ~known) ~> client \in {"stopped", "failed"}
=============================================================================
