---------------------------- MODULE MCCommandRun ----------------------------
(* Values of the constants of CommandRun for TLC, and what the helpers of  *)
(* StreamCapture return for every text of a few bytes.                     *)
EXTENDS CommandRun

MCText == [stdout |-> <<"two", "cont", "a">>, stderr |-> <<"two", "cont">>]

Byte == {"a", "two", "three", "bad", "cont"}
Texts == UNION {[1..n -> Byte] : n \in 0..4}

(* What is held back is the beginning of a rune and nothing else is;       *)
(* foreign bytes are not held back (logsink.go:182).                       *)
ASSUME HeldBack ==
    \A text \in Texts :
        LET begun == {i \in DOMAIN text :
                         /\ RuneStart(text[i]) /\ i + RuneLen[text[i]] - 1 > Len(text)
                         /\ \A j \in (i + 1)..Len(text) : text[j] = "cont"}
        IN  begun = IF IncompleteTailLen(text) = 0 THEN {}
                    ELSE {Len(text) - IncompleteTailLen(text) + 1}

(* What is recorded is always whole runes, and whole runes are recorded as *)
(* they are.                                                               *)
ASSUME Sanitized ==
    \A text \in Texts :
        /\ \A i \in DOMAIN Sanitize(text) : Valid(Sanitize(text), i)
        /\ Sanitize(text) = text <=> \A i \in DOMAIN text : Valid(text, i)
=============================================================================
