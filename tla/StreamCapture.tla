---------------------------- MODULE StreamCapture ----------------------------
(***************************************************************************)
(* streamCapture in logsink.go with tailbuffer.go: what a command writes,  *)
(* cut into reads wherever the pipe happened to fill, becomes the chunks   *)
(* of the log and the two aggregates of the result.  Every operation runs  *)
(* under the mutex, so each is one action of the modules that use them.    *)
(*                                                                         *)
(* A byte is named for its part in a rune: "a" is a rune of its own,       *)
(* "two", "three" and "four" begin a rune of that many bytes, "cont"       *)
(* continues one, "bad" begins nothing valid, and "repl" begins U+FFFD.    *)
(***************************************************************************)
EXTENDS Integers, Sequences, SequencesExt, FiniteSetsExt

CONSTANT TailBytes  \* ExecOptions.TailBytes; 0 is no limit

ASSUME TailAssumption == TailBytes \in Nat

VARIABLES
    log,      \* what the sink was given of each stream, its chunks in a row
    tail,     \* streamCapture.stdout and .stderr
    pending,  \* bytes of a rune that a read cut in half
    sealed

captureVars == <<log, tail, pending, sealed>>

Stream == {"stdout", "stderr"}

CaptureInit ==
    /\ sealed = FALSE /\ log = [s \in Stream |-> <<>>]
    /\ tail = [s \in Stream |-> <<>>] /\ pending = [s \in Stream |-> <<>>]

-----------------------------------------------------------------------------
RuneLen == [a |-> 1, two |-> 2, three |-> 3, four |-> 4, bad |-> 1, repl |-> 3, cont |-> 1]
RuneStart(byte) == byte # "cont"
Replacement == <<"repl", "cont", "cont">>

(* How many bytes at the end begin a rune whose rest is still to come.     *)
IncompleteTailLen(buf) ==
    LET starts == {back \in 1..Min({4, Len(buf)}) : RuneStart(buf[Len(buf) - back + 1])}
    IN  IF buf = <<>> \/ starts = {} THEN 0
        ELSE IF RuneLen[buf[Len(buf) - Min(starts) + 1]] > Min(starts) THEN Min(starts) ELSE 0

(* strings.ToValidUTF8: a run of bytes of no rune becomes one U+FFFD.      *)
RuneAt(text, i) ==
    /\ text[i] \notin {"cont", "bad"} /\ i + RuneLen[text[i]] - 1 <= Len(text)
    /\ \A k \in (i + 1)..(i + RuneLen[text[i]] - 1) : text[k] = "cont"
Valid(text, i) == \E k \in 1..i : RuneAt(text, k) /\ i < k + RuneLen[text[k]]
Sanitize(text) ==
    IF \A i \in DOMAIN text : Valid(text, i) THEN text
    ELSE FlattenSeq([i \in DOMAIN text |->
        IF Valid(text, i) THEN <<text[i]>>
        ELSE IF i = 1 \/ Valid(text, i - 1) THEN Replacement
        ELSE <<>>])

(* tailBuffer.Append: the last TailBytes, from the next rune on.           *)
TailAppend(kept, text) ==
    LET all == kept \o text
        cuts == {c \in (Len(all) - TailBytes)..Len(all) :
                    c = Len(all) \/ RuneStart(all[c + 1])}
    IN  IF TailBytes = 0 \/ Len(all) <= TailBytes THEN all
        ELSE SubSeq(all, Min(cuts) + 1, Len(all))

-----------------------------------------------------------------------------
(* emit: text is sanitised once for the log and the aggregate.             *)
Emit(s, text) ==
    /\ log' = [log EXCEPT ![s] = @ \o Sanitize(text)]
    /\ tail' = [tail EXCEPT ![s] = TailAppend(@, Sanitize(text))]

(* Mutant: a chunk is written whether or not the result was taken.         *)
WriteUnsealed(s, chunk) ==
    \E buf \in {pending[s] \o chunk} : \E whole \in {Len(buf) - IncompleteTailLen(buf)} :
        /\ pending' = [pending EXCEPT ![s] = SubSeq(buf, whole + 1, Len(buf))]
        /\ Emit(s, SubSeq(buf, 1, whole))
        /\ UNCHANGED sealed

(* write: nothing once sealed; the half of a rune waits for the rest.      *)
Write(s, chunk) ==
    \/ sealed /\ UNCHANGED captureVars
    \/ /\ ~sealed
       /\ \E buf \in {pending[s] \o chunk} : \E whole \in {Len(buf) - IncompleteTailLen(buf)} :
              /\ pending' = [pending EXCEPT ![s] = SubSeq(buf, whole + 1, Len(buf))]
              /\ Emit(s, SubSeq(buf, 1, whole))
       /\ UNCHANGED sealed

(* Mutant: what is left of a rune is dropped with the capture.             *)
ResultDropsLeftover ==
    /\ sealed' = TRUE /\ pending' = [s \in Stream |-> <<>>]
    /\ UNCHANGED <<log, tail>>

(* result: the halves that are left are given up on, and nothing is        *)
(* written any more.                                                       *)
Result ==
    /\ sealed' = TRUE
    /\ pending' = [s \in Stream |-> <<>>]
    /\ log' = [s \in Stream |-> log[s] \o Sanitize(pending[s])]
    /\ tail' = [s \in Stream |-> TailAppend(tail[s], Sanitize(pending[s]))]

(* LogSink.WriteChunk called by whoever ran the command.                   *)
WriteChunk(s, text) ==
    /\ log' = [log EXCEPT ![s] = @ \o text]
    /\ UNCHANGED <<tail, pending, sealed>>
=============================================================================
