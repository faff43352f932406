----------------------------- MODULE LogViewer -----------------------------
(***************************************************************************)
(* The polling loop of LogStreamView in the browser, which follows one log *)
(* whose chunks are numbered from 1, and the shape of the page it is       *)
(* served.  Executions and script test runs serve the same page, each in   *)
(* its own way: LogStream and TestRunLog.                                  *)
(***************************************************************************)
EXTENDS Integers, FiniteSets, FiniteSetsExt

CONSTANTS
    PageSize,   \* maxLogChunksPerResponse
    MaxMisses,  \* MAX_CONSECUTIVE_FAILURES
    MaxChunks   \* bound: chunks that are written

ASSUME ViewerAssumption ==
    PageSize \in Nat \ {0} /\ MaxMisses \in Nat \ {0} /\ MaxChunks \in Nat

VARIABLES
    client,  \* the loop: its next step, or the server's for it
    cursor,  \* cursor.current
    seen,    \* the chunks shown
    gap,     \* whether a gap is shown
    misses,  \* consecutiveFailures
    page     \* the answer, as far as it is put together

viewVars == <<cursor, seen, gap, misses>>

Chunk == 1..MaxChunks

(* The statements an answer for an execution is put together from.         *)
Serving == {"status", "chunks", "oldest", "more"}

ViewerTypeOK ==
    /\ client \in Serving \cup {"wait", "lost", "answer", "stopped", "failed"}
    /\ cursor \in 0..MaxChunks /\ seen \subseteq Chunk
    /\ gap \in BOOLEAN /\ misses \in 0..MaxMisses
    /\ page \in [finished : BOOLEAN, chunks : SUBSET Chunk, oldest : 0..MaxChunks,
                 more : BOOLEAN]

NewPage == [finished |-> FALSE, chunks |-> {}, oldest |-> 0, more |-> FALSE]

ViewerInit ==
    client = "wait" /\ cursor = 0 /\ seen = {} /\ gap = FALSE /\ misses = 0 /\ page = NewPage

-----------------------------------------------------------------------------
(* What the server sends of a log: the unread chunks, oldest first, as     *)
(* many as fit on a page.                                                  *)
Unread(log) == {n \in log : n > cursor}
NextPage(log) ==
    {n \in Unread(log) : Cardinality({m \in Unread(log) : m < n}) < PageSize}
Oldest(log) == IF log = {} THEN 0 ELSE Min(log)

(* Mutant: the page does not move the cursor.                              *)
NextSeqStuck == cursor

NextSeq == IF page.chunks = {} THEN cursor ELSE Max(page.chunks)

-----------------------------------------------------------------------------
(* Mutant: a gap is looked for above what was just read.                   *)
HeadRolledOffLate == NextSeq > 0 /\ page.oldest > NextSeq + 1

(* Mutant: the chunk right after the cursor is a gap already.              *)
HeadRolledOffSoon == cursor > 0 /\ page.oldest > cursor

(* The head rolled off before it was read.                                 *)
HeadRolledOff == cursor > 0 /\ page.oldest > cursor + 1

(* Mutant: a finished source is taken for a read one.                      *)
AfterAnswerFinished == IF page.finished THEN "stopped" ELSE "wait"

AfterAnswer == IF page.more \/ ~page.finished THEN "wait" ELSE "stopped"

Show ==
    /\ gap' = (gap \/ HeadRolledOff)
    /\ cursor' = NextSeq /\ seen' = seen \cup page.chunks

Answer ==
    /\ client = "answer" /\ client' = AfterAnswer
    /\ Show /\ misses' = 0
    /\ UNCHANGED page

Missed(count) ==
    /\ misses' = count
    /\ client' = IF count >= MaxMisses THEN "failed" ELSE "wait"

MissPoll == Missed(misses + 1) /\ UNCHANGED <<cursor, seen, gap, page>>
=============================================================================
