----------------------------- MODULE CommandRun -----------------------------
(***************************************************************************)
(* One command from its start to its result: Executor.run, or, on a remote *)
(* host, runSSHSession; the two goroutines that read its streams, the one  *)
(* that waits for it, and the caller that marks the log of a cancelled     *)
(* one.  The command is a leader that may leave behind an heir: a process  *)
(* it started that still holds the pipes, in its group or detached from it.*)
(***************************************************************************)
EXTENDS StreamCapture

CONSTANT Text  \* what the command writes to each stream, in whole runes

ASSUME TextAssumption ==
    /\ Text \in [Stream -> Seq(DOMAIN RuneLen)]
    /\ \A s \in Stream : \A i \in DOMAIN Text[s] : Valid(Text[s], i)

VARIABLES
    site,    \* "local" or "remote"
    leader,  \* the command: "none", "alive", "exited", "reaped"
    heir,    \* "none", "group", "detached"
    fed,     \* how much of each stream was written
    given,   \* and how much of that was read
    chunk,   \* what a reader has read and not handed on
    reader,  \* each pumpStream: its next step
    waiter,  \* the goroutine that waits for the command
    main,    \* run, or runSSHSession, and its caller
    why,     \* how the command came to an end for run
    cancel,  \* ExecOptions.Cancel is closed
    late,    \* the timer has fired
    doomed,  \* the group was signalled
    line     \* the channel to a remote command: "open", "closing", "closed"

processVars == <<site, leader, heir, fed, line>>
readerVars == <<given, chunk, reader>>
controlVars == <<main, why, cancel, late, doomed>>
vars == <<captureVars, processVars, readerVars, waiter, controlVars>>

Init ==
    /\ CaptureInit
    /\ site \in {"local", "remote"} /\ leader = "none" /\ heir = "none"
    /\ fed = [s \in Stream |-> 0] /\ given = [s \in Stream |-> 0]
    /\ chunk = [s \in Stream |-> <<>>] /\ reader = [s \in Stream |-> "none"]
    /\ waiter = "none" /\ main = "start" /\ why = "none" /\ line = "open"
    /\ cancel = FALSE /\ late = FALSE /\ doomed = FALSE

-----------------------------------------------------------------------------
(* The whitelist, the interpreter, the temporary file, the pipes or the    *)
(* start itself may fail: the result says so and nothing ever ran.         *)
StartFails ==
    /\ main = "start" /\ main' = "leave" /\ why' = "failed"
    /\ UNCHANGED <<captureVars, processVars, readerVars, waiter, cancel, late, doomed>>

Begin ==
    /\ main = "start" /\ main' = "select"
    /\ leader' = "alive" /\ waiter' = "readers"
    /\ reader' = [s \in Stream |-> "read"]
    /\ UNCHANGED <<captureVars, site, heir, fed, line, given, chunk, why, cancel, late, doomed>>

(* The processes. *)
Writing == leader = "alive" \/ heir # "none"

Feed(s) ==
    /\ Writing /\ line # "closed" /\ fed[s] < Len(Text[s])
    /\ fed' = [fed EXCEPT ![s] = @ + 1]
    /\ UNCHANGED <<captureVars, site, leader, heir, line, readerVars, waiter, controlVars>>

Fork ==
    /\ leader = "alive" /\ heir = "none" /\ heir' \in {"group", "detached"}
    /\ UNCHANGED <<captureVars, site, leader, fed, line, readerVars, waiter, controlVars>>

ProcessEnds ==
    /\ \/ leader = "alive" /\ leader' = "exited" /\ UNCHANGED heir
       \/ heir # "none" /\ heir' = "none" /\ UNCHANGED leader
    /\ UNCHANGED <<captureVars, site, fed, line, readerVars, waiter, controlVars>>

(* The signal takes effect on all that is left of the group.               *)
Die ==
    /\ doomed /\ (leader = "alive" \/ heir = "group")
    /\ leader' = IF leader = "alive" THEN "exited" ELSE leader
    /\ heir' = IF heir = "group" THEN "none" ELSE heir
    /\ UNCHANGED <<captureVars, site, fed, line, readerVars, waiter, controlVars>>

(* The remote side answers the close of the channel, or the connection     *)
(* is lost.                                                                *)
Hangup ==
    /\ site = "remote" /\ leader # "none" /\ line # "closed" /\ line' = "closed"
    /\ UNCHANGED <<captureVars, site, leader, heir, fed, readerVars, waiter, controlVars>>

-----------------------------------------------------------------------------
(* pumpStream: a read takes all there is, and a chunk is handed on before  *)
(* the next read.                                                          *)
Read(s) ==
    /\ reader[s] = "read" /\ given[s] < fed[s]
    /\ reader' = [reader EXCEPT ![s] = "write"]
    /\ chunk' = [chunk EXCEPT ![s] = SubSeq(Text[s], given[s] + 1, fed[s])]
    /\ given' = [given EXCEPT ![s] = fed[s]]
    /\ UNCHANGED <<captureVars, processVars, waiter, controlVars>>

Deliver(s) ==
    /\ reader[s] = "write" /\ reader' = [reader EXCEPT ![s] = "read"]
    /\ Write(s, chunk[s]) /\ chunk' = [chunk EXCEPT ![s] = <<>>]
    /\ UNCHANGED <<processVars, given, waiter, controlVars>>

EndOfStream(s) ==
    /\ reader[s] = "read" /\ given[s] = fed[s] /\ (~Writing \/ line = "closed")
    /\ reader' = [reader EXCEPT ![s] = "done"]
    /\ UNCHANGED <<captureVars, processVars, given, chunk, waiter, controlVars>>

ReadersDone == \A s \in Stream : reader[s] = "done"

(* readers.Wait, cmd.Wait or session.Wait, the flag under killMu, done.    *)
ReadersEnded ==
    /\ waiter = "readers" /\ ReadersDone /\ waiter' = "wait"
    /\ UNCHANGED <<captureVars, processVars, readerVars, controlVars>>

Reap ==
    /\ site = "local" /\ waiter = "wait" /\ leader = "exited"
    /\ leader' = "reaped" /\ waiter' = "flag"
    /\ UNCHANGED <<captureVars, site, heir, fed, line, readerVars, controlVars>>

(* A session is over with its command, or once its channel is closed.      *)
SessionOver ==
    /\ site = "remote" /\ waiter = "wait" /\ (leader = "exited" \/ line = "closed")
    /\ waiter' = "send"
    /\ UNCHANGED <<captureVars, processVars, readerVars, controlVars>>

SetReaped ==
    /\ waiter = "flag" /\ waiter' = "send"
    /\ UNCHANGED <<captureVars, processVars, readerVars, controlVars>>

SendDone ==
    /\ waiter = "send" /\ waiter' = "sent"
    /\ UNCHANGED <<captureVars, processVars, readerVars, controlVars>>

-----------------------------------------------------------------------------
Late ==
    /\ main = "select" /\ ~late /\ late' = TRUE
    /\ UNCHANGED <<captureVars, processVars, readerVars, waiter, main, why, cancel, doomed>>

Cancel ==
    /\ main # "end" /\ ~cancel /\ cancel' = TRUE
    /\ UNCHANGED <<captureVars, processVars, readerVars, waiter, main, why, late, doomed>>

SelectDone ==
    /\ main = "select" /\ waiter = "sent" /\ main' = "seal"
    /\ why' = IF cancel THEN "cancel" ELSE "done"
    /\ UNCHANGED <<captureVars, processVars, readerVars, waiter, cancel, late, doomed>>

SelectTimeout ==
    /\ main = "select" /\ late /\ main' = "kill" /\ why' = "timeout"
    /\ UNCHANGED <<captureVars, processVars, readerVars, waiter, cancel, late, doomed>>

SelectCancel ==
    /\ main = "select" /\ cancel /\ main' = "kill" /\ why' = "cancel"
    /\ UNCHANGED <<captureVars, processVars, readerVars, waiter, cancel, late, doomed>>

(* Mutant: the group is signalled whether or not it was reaped.            *)
KillBlind ==
    /\ main = "kill" /\ main' = "seal"
    /\ doomed' = (site = "local")
    /\ line' = IF site = "remote" /\ line = "open" THEN "closing" ELSE line
    /\ UNCHANGED <<captureVars, site, leader, heir, fed, readerVars, waiter, why, cancel, late>>

(* kill, under killMu; a session is closed instead.                        *)
Kill ==
    /\ main = "kill" /\ main' = "seal"
    /\ doomed' = (site = "local" /\ waiter \notin {"send", "sent"})
    /\ line' = IF site = "remote" /\ line = "open" THEN "closing" ELSE line
    /\ UNCHANGED <<captureVars, site, leader, heir, fed, readerVars, waiter, why, cancel, late>>

(* Mutant: the readers are waited for before the result is taken.          *)
SealWaits ==
    /\ main = "seal" /\ main' = "leave"
    /\ ReadersDone /\ Result
    /\ UNCHANGED <<processVars, readerVars, waiter, why, cancel, late, doomed>>

(* abortResult or the plain result: the readers are not waited for.        *)
Seal ==
    /\ main = "seal" /\ main' = "leave"
    /\ Result
    /\ UNCHANGED <<processVars, readerVars, waiter, why, cancel, late, doomed>>

(* The result is returned; runRemote closes the connection as it does.     *)
Leave ==
    /\ main = "leave" /\ main' = IF why = "cancel" THEN "mark" ELSE "end"
    /\ line' = IF site = "remote" THEN "closed" ELSE line
    /\ UNCHANGED <<captureVars, site, leader, heir, fed, readerVars, waiter, why, cancel, late,
                   doomed>>

Mark == <<"mark">>

(* markCanceled: the caller's own chunk, past the capture.                 *)
MarkCanceled ==
    /\ main = "mark" /\ main' = "end"
    /\ WriteChunk("stderr", Mark)
    /\ UNCHANGED <<processVars, readerVars, waiter, why, cancel, late, doomed>>

-----------------------------------------------------------------------------
ReaderStep(s) == Read(s) \/ Deliver(s) \/ EndOfStream(s)
WaiterStep == ReadersEnded \/ Reap \/ SessionOver \/ SetReaped \/ SendDone
MainStep ==
    \/ SelectDone \/ SelectTimeout \/ SelectCancel
    \/ Kill \/ Seal \/ Leave \/ MarkCanceled

Next ==
    \/ StartFails \/ Begin
    \/ \E s \in Stream : Feed(s) \/ ReaderStep(s)
    \/ Fork \/ ProcessEnds \/ Die \/ Hangup
    \/ WaiterStep \/ MainStep \/ Late \/ Cancel

Spec == Init /\ [][Next]_vars

(* The goroutines of the server are scheduled, and a group that was sent   *)
(* SIGKILL dies.  No process is assumed to end by itself, and no remote    *)
(* side to answer.                                                         *)
FairSpec ==
    /\ Spec
    /\ WF_vars(MainStep) /\ WF_vars(WaiterStep) /\ WF_vars(Die)
    /\ \A s \in Stream : WF_vars(ReaderStep(s))

-----------------------------------------------------------------------------
(* What the command wrote, and not the caller.                             *)
Output(s) ==
    LET n == Len(log[s])
    IN  IF n > 0 /\ log[s][n] = "mark" THEN SubSeq(log[s], 1, n - 1) ELSE log[s]

(* What a log must show of the first n bytes of a stream that goes on, and *)
(* of one that is given up on there.                                       *)
WholeRunes(s, n) ==
    LET text == SubSeq(Text[s], 1, n)
    IN  SubSeq(text, 1, Cardinality({i \in DOMAIN text : Valid(text, i)}))
GivenUp(s, n) ==
    IF Len(WholeRunes(s, n)) = n THEN WholeRunes(s, n) ELSE WholeRunes(s, n) \o Replacement

(* The longest end of text that is no longer than the cap and begins a     *)
(* rune.                                                                   *)
IsTail(end, text) ==
    LET Start(c) == c = Len(text) \/ RuneStart(text[c + 1])
        Short(c) == TailBytes = 0 \/ Len(text) - c <= TailBytes
    IN  \E c \in 0..Len(text) :
            /\ end = SubSeq(text, c + 1, Len(text)) /\ Start(c) /\ Short(c)
            /\ \A d \in 0..(c - 1) : ~(Start(d) /\ Short(d))

(* However the pipes cut what a command writes, and however the two        *)
(* streams interleave, no rune is lost, repeated or torn                   *)
(* (logsink.go:119): the log of a stream is the whole runes handed on so   *)
(* far; once sealed, those and one replacement for a rune that never came  *)
(* whole; all that was written, if the command ran to its end.  The        *)
(* aggregate is the end of it within the cap.                              *)
TextSurvives ==
    \A s \in Stream :
        /\ ~sealed => Output(s) = WholeRunes(s, given[s] - Len(chunk[s]))
        /\ sealed => \E n \in 0..given[s] : Output(s) = GivenUp(s, n)
        /\ sealed /\ why = "done" => Output(s) = GivenUp(s, fed[s])
        /\ IsTail(tail[s], Output(s))

(* What an abandoned reader still finds in the pipes appears neither below *)
(* the mark of a cancellation nor in a result that was taken               *)
(* (webhook.go:264, logsink.go:92), and a cancelled command ends with the  *)
(* mark although its cancellation raced its exit.                          *)
NothingBelowMark ==
    [][/\ sealed => tail' = tail /\ log' \in {log, [log EXCEPT !["stderr"] = @ \o Mark]}
       /\ \A i \in DOMAIN log["stderr"] : log["stderr"][i] = "mark" => log' = log
       /\ main = "select" /\ main' # main /\ cancel => why' \in {"cancel", "timeout"}]_vars

(* A group is signalled only while its leader is not reaped, so that its   *)
(* number is nobody else's (executor.go:184); what remains is the window   *)
(* between cmd.Wait and the flag, before killMu is taken.                  *)
SignalsOwnGroup ==
    [][~doomed /\ doomed' => leader \in {"alive", "exited"} \/ waiter = "flag"]_vars

(* A timeout or a cancellation is not held up by whoever holds the pipes   *)
(* (logsink.go:35), and no reader is left behind once the command is over, *)
(* but for one whose pipe is held by a descendant that left the group.     *)
AbortReturns ==
    /\ main = "select" /\ (late \/ cancel) ~> main = "end"
    /\ main = "end" /\ why # "failed" ~> ReadersDone \/ (site = "local" /\ heir = "detached")
=============================================================================
