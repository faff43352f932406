-------------------------- MODULE CommandRunProofs --------------------------
(***************************************************************************)
(* Whatever a command writes, forks and leaves behind, and however its     *)
(* streams are cut, its group is signalled only while the leader still     *)
(* holds the number of the group, nothing it wrote comes below the mark of *)
(* its cancellation or into a result that was taken, and no rune of it is  *)
(* lost, repeated or torn.                                                 *)
(***************************************************************************)
EXTENDS CommandRun, FiniteSetTheorems, SequenceTheorems, WellFoundedInduction, TLAPS

(* A reaped leader shows in the waiter, and run only ends what it started. *)
GroupInv ==
    /\ leader \in {"none", "alive", "exited", "reaped"}
    /\ leader = "reaped" => waiter \in {"flag", "send", "sent"}
    /\ main \in {"select", "kill"} => leader # "none"

-----------------------------------------------------------------------------
LEMMA GroupInit == Init => GroupInv
  BY DEF Init, GroupInv

(* Starting the command.                                                   *)
LEMMA GroupStart == GroupInv /\ (StartFails \/ Begin) => GroupInv'
  BY DEF GroupInv, StartFails, Begin, processVars, readerVars, controlVars

(* What processes do, and the connection to them.                          *)
LEMMA GroupProcess ==
    ASSUME GroupInv,
           (\E s \in Stream : Feed(s)) \/ Fork \/ ProcessEnds \/ Die \/ Hangup
    PROVE  GroupInv'
  <1>1. ASSUME NEW s \in Stream, Feed(s) PROVE GroupInv'
    BY <1>1 DEF GroupInv, Feed, readerVars, controlVars
  <1>2. CASE Fork
    BY <1>2 DEF GroupInv, Fork, readerVars, controlVars
  <1>3. CASE ProcessEnds
    BY <1>3 DEF GroupInv, ProcessEnds, readerVars, controlVars
  <1>4. CASE Die
    BY <1>4 DEF GroupInv, Die, readerVars, controlVars
  <1>5. CASE Hangup
    BY <1>5 DEF GroupInv, Hangup, readerVars, controlVars
  <1>. QED
    BY <1>1, <1>2, <1>3, <1>4, <1>5

LEMMA GroupReader ==
    ASSUME GroupInv, NEW s \in Stream, ReaderStep(s)
    PROVE  GroupInv'
  BY DEF GroupInv, ReaderStep, Read, Deliver, EndOfStream, processVars, controlVars

(* The leader is reaped by the waiter, which goes on to set the flag.      *)
LEMMA GroupWaiter == GroupInv /\ WaiterStep => GroupInv'
  BY DEF GroupInv, WaiterStep, ReadersEnded, Reap, SessionOver, SetReaped, SendDone,
         processVars, readerVars, controlVars

(* run leaves the select for the kill only with a command that was started. *)
LEMMA GroupMain ==
    ASSUME GroupInv, MainStep \/ Late \/ Cancel
    PROVE  GroupInv'
  <1>1. CASE SelectDone \/ SelectTimeout \/ SelectCancel
    BY <1>1 DEF GroupInv, SelectDone, SelectTimeout, SelectCancel, processVars
  <1>2. CASE Kill
    BY <1>2 DEF GroupInv, Kill
  <1>3. CASE Seal \/ Leave \/ MarkCanceled
    BY <1>3 DEF GroupInv, Seal, Leave, MarkCanceled, processVars
  <1>4. CASE Late \/ Cancel
    BY <1>4 DEF GroupInv, Late, Cancel, processVars
  <1>. QED
    BY <1>1, <1>2, <1>3, <1>4 DEF MainStep

LEMMA GroupStep ==
    ASSUME GroupInv, [Next]_vars
    PROVE  GroupInv'
  <1>1. CASE UNCHANGED vars
    BY <1>1 DEF GroupInv, vars, processVars, controlVars
  <1>2. CASE Next
    BY <1>2, GroupStart, GroupProcess, GroupReader, GroupWaiter, GroupMain DEF Next
  <1>. QED
    BY <1>1, <1>2

-----------------------------------------------------------------------------
(* Only the kill dooms a group, and it looks at the waiter's flag.         *)
LEMMA KillDooms ==
    ASSUME GroupInv, [Next]_vars
    PROVE  ~doomed /\ doomed' => leader \in {"alive", "exited"} \/ waiter = "flag"
  <1>1. CASE Kill
    BY <1>1 DEF GroupInv, Kill
  <1>2. CASE UNCHANGED vars
    BY <1>2 DEF vars, controlVars
  <1>3. ASSUME Next, ~Kill PROVE UNCHANGED doomed
    <2>1. ASSUME NEW s \in Stream, Feed(s) \/ ReaderStep(s) PROVE UNCHANGED doomed
      BY <2>1 DEF Feed, ReaderStep, Read, Deliver, EndOfStream, controlVars
    <2>2. CASE StartFails \/ Begin \/ Fork \/ ProcessEnds \/ Die \/ Hangup \/ Late \/ Cancel
      BY <2>2 DEF StartFails, Begin, Fork, ProcessEnds, Die, Hangup, Late, Cancel, controlVars
    <2>3. CASE WaiterStep
      BY <2>3 DEF WaiterStep, ReadersEnded, Reap, SessionOver, SetReaped, SendDone, controlVars
    <2>4. CASE MainStep
      BY <1>3, <2>4
      DEF MainStep, SelectDone, SelectTimeout, SelectCancel, Seal, Leave, MarkCanceled
    <2>. QED
      BY <1>3, <2>1, <2>2, <2>3, <2>4 DEF Next
  <1>. QED
    BY <1>1, <1>2, <1>3

(* A group is signalled only while its leader is not reaped, but for the   *)
(* window between cmd.Wait and the flag.                                   *)
THEOREM GroupIsOwn == Spec => SignalsOwnGroup
  <1>1. GroupInv /\ [Next]_vars
            => [~doomed /\ doomed' => leader \in {"alive", "exited"} \/ waiter = "flag"]_vars
    BY KillDooms
  <1>2. GroupInv /\ [Next]_vars => GroupInv'
    BY GroupStep
  <1>. QED
    BY <1>1, <1>2, GroupInit, PTL DEF Spec, SignalsOwnGroup

-----------------------------------------------------------------------------
(* Induction over the naturals, of a set.                                  *)
LEMMA NatSetInduction ==
    ASSUME NEW T, 0 \in T, \A n \in Nat : n \in T => n + 1 \in T
    PROVE  Nat \subseteq T
  <1>. SUFFICES ASSUME Nat \ T # {} PROVE FALSE
    OBVIOUS
  <1>1. IsWellFoundedOn(OpToRel(<, Nat), Nat)
    BY NatLessThanWellFounded
  <1>2. PICK x \in Nat \ T : \A y \in Nat \ T : ~(<<y, x>> \in OpToRel(<, Nat))
    BY <1>1, WFMin
  <1>3. \A y \in Nat \ T : ~(y < x)
    BY <1>2 DEF OpToRel
  <1>4. PICK y \in Nat : x = y + 1
    <2>. x # 0 /\ x - 1 \in Nat /\ x = (x - 1) + 1
      OBVIOUS
    <2>. QED OBVIOUS
  <1>. QED
    BY <1>3, <1>4

(* The recursive function FlattenSeq is defined by, which exists and       *)
(* yields sequences.                                                       *)
FlatStep(seqs, f, i) == IF i = 1 THEN seqs[i] ELSE f[i-1] \o seqs[i]
Flat(seqs) == CHOOSE f : f = [i \in 1..Len(seqs) |-> FlatStep(seqs, f, i)]

LEMMA FlattenIsFlat ==
    ASSUME NEW seqs, Len(seqs) # 0
    PROVE  FlattenSeq(seqs) = Flat(seqs)[Len(seqs)]
  BY DEF FlattenSeq, Flat, FlatStep

LEMMA FlatExists ==
    ASSUME NEW S, NEW seqs \in Seq(Seq(S))
    PROVE  \E f \in [1..Len(seqs) -> Seq(S)] :
               \A i \in 1..Len(seqs) : f[i] = FlatStep(seqs, f, i)
  <1>. DEFINE n == Len(seqs)
              Upto(f, k) == \A i \in 1..n : i <= k => f[i] = FlatStep(seqs, f, i)
              T == {k \in Nat : \E f \in [1..n -> Seq(S)] : Upto(f, k)}
  <1>. n \in Nat /\ \A i \in 1..n : seqs[i] \in Seq(S)
    BY LenProperties, ElementOfSeq
  <1>. HIDE DEF n
  <1>1. 0 \in T
    <2>. DEFINE f == [i \in 1..n |-> <<>>]
    <2>1. f \in [1..n -> Seq(S)]
      BY EmptySeq
    <2>2. Upto(f, 0)
      OBVIOUS
    <2>. HIDE DEF f, Upto
    <2>. QED BY <2>1, <2>2
  <1>2. ASSUME NEW k \in Nat, k \in T PROVE k + 1 \in T
    <2>1. PICK f \in [1..n -> Seq(S)] : Upto(f, k)
      BY <1>2
    <2>. DEFINE g == [i \in 1..n |-> IF i <= k THEN f[i] ELSE FlatStep(seqs, f, i)]
    <2>2. ASSUME NEW i \in 1..n PROVE FlatStep(seqs, f, i) \in Seq(S)
      <3>1. CASE i = 1
        BY <3>1 DEF FlatStep
      <3>2. CASE i # 1
        <4>1. i - 1 \in 1..n
          BY <3>2
        <4>. QED BY <3>2, <4>1, ConcatProperties DEF FlatStep
      <3>. QED BY <3>1, <3>2
    <2>3. g \in [1..n -> Seq(S)]
      BY <2>2
    <2>4. ASSUME NEW i \in 1..n, i <= k + 1 PROVE g[i] = FlatStep(seqs, g, i)
      <3>1. g[i] = FlatStep(seqs, f, i)
        BY <2>1, <2>4
      <3>2. i # 1 => i - 1 \in 1..n /\ g[i-1] = f[i-1]
        BY <2>4
      <3>. HIDE DEF g
      <3>. QED BY <3>1, <3>2 DEF FlatStep
    <2>. HIDE DEF g
    <2>. QED BY <2>3, <2>4
  <1>. HIDE DEF T
  <1>3. n \in T
    BY <1>1, <1>2, NatSetInduction
  <1>. QED
    BY <1>3 DEF T, n

LEMMA FlattenType ==
    ASSUME NEW S, NEW seqs \in Seq(Seq(S))
    PROVE  FlattenSeq(seqs) \in Seq(S)
  <1>. DEFINE n == Len(seqs)
              h == Flat(seqs)
              Good(f) == f = [i \in 1..n |-> FlatStep(seqs, f, i)]
  <1>. n \in Nat /\ \A i \in 1..n : seqs[i] \in Seq(S)
    BY LenProperties, ElementOfSeq
  <1>1. PICK f \in [1..Len(seqs) -> Seq(S)] : \A i \in 1..Len(seqs) : f[i] = FlatStep(seqs, f, i)
    BY FlatExists
  <1>2. Good(f)
    BY <1>1
  <1>3. Good(h)
    <2>. HIDE DEF Good
    <2>. QED BY <1>2 DEF Flat, Good
  <1>. HIDE DEF h
  <1>4. \A i \in 1..n : h[i] = FlatStep(seqs, h, i)
    BY <1>3
  <1>. HIDE DEF Good, n
  <1>. DEFINE T == {k \in Nat : \A i \in 1..n : i <= k => h[i] \in Seq(S)}
  <1>5. 0 \in T
    OBVIOUS
  <1>6. ASSUME NEW k \in Nat, k \in T PROVE k + 1 \in T
    <2>. SUFFICES ASSUME NEW i \in 1..n, i <= k + 1 PROVE h[i] \in Seq(S)
      OBVIOUS
    <2>1. CASE i = 1
      BY <1>4, <2>1 DEF FlatStep
    <2>2. CASE i # 1
      <3>1. i - 1 \in 1..n /\ h[i-1] \in Seq(S)
        BY <1>6, <2>2
      <3>. HIDE DEF T
      <3>2. h[i] = h[i-1] \o seqs[i]
        BY <1>4, <2>2 DEF FlatStep
      <3>. QED BY <3>1, <3>2, ConcatProperties
    <2>. QED BY <2>1, <2>2
  <1>. HIDE DEF T
  <1>7. n \in T
    BY <1>5, <1>6, NatSetInduction
  <1>8. CASE n = 0
    BY <1>8, EmptySeq DEF FlattenSeq, n
  <1>9. CASE n # 0
    <2>1. h[n] \in Seq(S)
      BY <1>7, <1>9 DEF T
    <2>. QED BY <1>9, <2>1, FlattenIsFlat DEF h, n
  <1>. QED
    BY <1>8, <1>9

-----------------------------------------------------------------------------
(* The helpers of streamCapture, for every text.                           *)
Byte == DOMAIN RuneLen
Bytes == Seq(Byte)

LEMMA SanitizeType ==
    ASSUME NEW text \in Bytes
    PROVE  Sanitize(text) \in Bytes
  <1>. DEFINE Piece(i) == IF Valid(text, i) THEN <<text[i]>>
                          ELSE IF i = 1 \/ Valid(text, i - 1) THEN Replacement
                          ELSE <<>>
              pieces == [i \in DOMAIN text |-> Piece(i)]
  <1>1. DOMAIN text = 1..Len(text) /\ Len(text) \in Nat
        /\ \A i \in 1..Len(text) : text[i] \in Byte
    BY LenProperties, ElementOfSeq DEF Bytes
  <1>2. Replacement \in Seq(Byte)
    BY DEF Replacement, Byte, RuneLen
  <1>3. ASSUME NEW i \in 1..Len(text) PROVE Piece(i) \in Seq(Byte)
    <2>1. <<text[i]>> \in Seq(Byte) /\ <<>> \in Seq(Byte)
      BY <1>1
    <2>. HIDE DEF Byte
    <2>. QED BY <1>2, <2>1
  <1>. HIDE DEF Piece
  <1>4. pieces \in Seq(Seq(Byte))
    <2>1. pieces \in [1..Len(text) -> Seq(Byte)]
      BY <1>1, <1>3
    <2>. HIDE DEF pieces
    <2>. QED BY <1>1, <2>1
  <1>. HIDE DEF pieces
  <1>5. FlattenSeq(pieces) \in Bytes
    BY <1>4, FlattenType DEF Bytes
  <1>6. Sanitize(text) = text \/ Sanitize(text) = FlattenSeq(pieces)
    BY DEF Sanitize, pieces, Piece
  <1>. QED
    BY <1>5, <1>6

(* The least of some numbers.                                              *)
LEMMA LeastIn ==
    ASSUME NEW S \in SUBSET Nat, S # {}
    PROVE  Min(S) \in S /\ \A y \in S : Min(S) <= y
  <1>1. IsWellFoundedOn(OpToRel(<, Nat), Nat)
    BY NatLessThanWellFounded
  <1>2. PICK x \in S : \A y \in S : ~(<<y, x>> \in OpToRel(<, Nat))
    BY <1>1, WFMin
  <1>3. \A y \in S : ~(y < x)
    BY <1>2 DEF OpToRel
  <1>4. \A y \in S : x <= y
    BY <1>3
  <1>. QED
    BY <1>4 DEF Min

LEMMA IncompleteTailRange ==
    ASSUME NEW buf \in Bytes
    PROVE  IncompleteTailLen(buf) \in 0..Len(buf)
  <1>. DEFINE n == Min({4, Len(buf)})
              starts == {back \in 1..n : RuneStart(buf[Len(buf) - back + 1])}
  <1>1. Len(buf) \in Nat /\ (buf # <<>> => Len(buf) # 0)
    BY LenProperties, EmptySeq DEF Bytes
  <1>2. n \in 0..4 /\ n <= Len(buf)
    <2>1. \E x \in {4, Len(buf)} : \A y \in {4, Len(buf)} : x <= y
      BY <1>1
    <2>2. n \in {4, Len(buf)} /\ \A y \in {4, Len(buf)} : n <= y
      BY <2>1 DEF Min
    <2>. HIDE DEF n
    <2>. QED BY <1>1, <2>2
  <1>. HIDE DEF n
  <1>3. starts \in SUBSET (1..4) /\ \A x \in starts : x \in 1..Len(buf)
    BY <1>1, <1>2
  <1>4. starts # {} => Min(starts) \in 1..Len(buf)
    <2>1. starts \in SUBSET Nat
      BY <1>3
    <2>. HIDE DEF starts
    <2>. QED BY <1>3, <2>1, LeastIn
  <1>5. IncompleteTailLen(buf) = 0 \/ (starts # {} /\ IncompleteTailLen(buf) = Min(starts))
    BY DEF IncompleteTailLen, n
  <1>. HIDE DEF starts
  <1>. QED
    BY <1>1, <1>4, <1>5

LEMMA SubSeqType ==
    ASSUME NEW text \in Bytes, NEW m \in Nat \ {0}, NEW n \in 0..Len(text)
    PROVE  SubSeq(text, m, n) \in Bytes
  <1>. \A i \in 1..Len(text) : text[i] \in Byte
    BY LenProperties, ElementOfSeq DEF Bytes
  <1>. Len(text) \in Nat
    BY LenProperties DEF Bytes
  <1>. QED
    BY SubSeqProperties DEF Bytes

LEMMA ConcatType ==
    ASSUME NEW a \in Bytes, NEW b \in Bytes
    PROVE  a \o b \in Bytes
  BY ConcatProperties DEF Bytes

-----------------------------------------------------------------------------
(* MarkInv: the result is taken on the way from the select to the return,  *)
(* before the mark of a cancellation; readers only run for a command that  *)
(* was started; and until the caller is done, what was read and recorded   *)
(* is what the command wrote, in which there is no mark.                   *)
Steps ==
    /\ main = "start" => why = "none"
    /\ main \in {"start", "select", "kill", "seal"} => ~sealed /\ why # "failed"
    /\ main \in {"leave", "mark", "end"} /\ why # "failed" => sealed
    /\ main = "mark" => why = "cancel"
    /\ main \in {"start", "select", "kill", "seal", "leave", "mark", "end"}
    /\ main = "start" \/ why = "failed" => \A s \in Stream : reader[s] = "none"

Reading ==
    /\ fed \in [Stream -> Nat] /\ given \in [Stream -> Nat]
    /\ \A s \in Stream : given[s] <= fed[s] /\ fed[s] <= Len(Text[s])

Streams == [Stream -> Bytes]
Unmarked == log \in Streams /\ pending \in Streams

MarkInv ==
    /\ Steps /\ Reading
    /\ chunk \in Streams
    /\ reader \in [Stream -> {"none", "read", "write", "done"}]
    /\ main # "end" => Unmarked

LEMMA WriteUnmarked ==
    ASSUME NEW s \in Stream, NEW text \in Bytes, Unmarked, Write(s, text)
    PROVE  Unmarked'
  <1>1. CASE sealed
    BY <1>1 DEF Write, Unmarked, captureVars
  <1>2. CASE ~sealed
    <2>. DEFINE buf == pending[s] \o text
                whole == Len(buf) - IncompleteTailLen(buf)
    <2>1. buf \in Bytes
      BY ConcatType DEF Unmarked, Streams
    <2>2. /\ pending' = [pending EXCEPT ![s] = SubSeq(buf, whole + 1, Len(buf))]
          /\ log' = [log EXCEPT ![s] = @ \o Sanitize(SubSeq(buf, 1, whole))]
      BY <1>2 DEF Write, Emit
    <2>. HIDE DEF buf
    <2>3. Len(buf) \in Nat /\ whole \in 0..Len(buf)
      BY <2>1, IncompleteTailRange, LenProperties DEF Bytes
    <2>. HIDE DEF whole
    <2>4. SubSeq(buf, whole + 1, Len(buf)) \in Bytes /\ SubSeq(buf, 1, whole) \in Bytes
      BY <2>1, <2>3, SubSeqType
    <2>5. log[s] \o Sanitize(SubSeq(buf, 1, whole)) \in Bytes
      BY <2>4, SanitizeType, ConcatType DEF Unmarked, Streams
    <2>. QED
      BY <2>2, <2>4, <2>5 DEF Unmarked, Streams
  <1>. QED
    BY <1>1, <1>2

LEMMA ResultUnmarked ==
    ASSUME Unmarked, Result
    PROVE  Unmarked'
  <1>1. ASSUME NEW s \in Stream PROVE log[s] \o Sanitize(pending[s]) \in Bytes
    BY SanitizeType, ConcatType DEF Unmarked, Streams
  <1>2. <<>> \in Bytes
    BY EmptySeq DEF Bytes
  <1>. QED
    BY <1>1, <1>2 DEF Unmarked, Streams, Result

LEMMA TextIsBytes == \A s \in Stream : Text[s] \in Bytes /\ Len(Text[s]) \in Nat
  BY TextAssumption, LenProperties DEF Bytes, Byte

LEMMA MarkInit == Init => MarkInv
  <1>. SUFFICES ASSUME Init PROVE MarkInv
    OBVIOUS
  <1>1. <<>> \in Bytes
    BY EmptySeq DEF Bytes
  <1>2. Reading
    BY TextIsBytes DEF Init, Reading
  <1>. QED
    BY <1>1, <1>2 DEF Init, CaptureInit, MarkInv, Steps, Unmarked, Streams

LEMMA MarkReader ==
    ASSUME MarkInv, NEW s \in Stream, ReaderStep(s)
    PROVE  MarkInv'
  <1>1. CASE Read(s)
    <2>1. SubSeq(Text[s], given[s] + 1, fed[s]) \in Bytes
      BY TextIsBytes, SubSeqType DEF MarkInv, Reading
    <2>2. chunk' \in Streams
      BY <1>1, <2>1 DEF Read, MarkInv, Streams
    <2>3. Reading'
      BY <1>1 DEF Read, MarkInv, Reading, processVars
    <2>4. Steps' /\ reader' \in [Stream -> {"none", "read", "write", "done"}]
      BY <1>1 DEF Read, MarkInv, Steps, captureVars, controlVars
    <2>. QED
      BY <1>1, <2>2, <2>3, <2>4 DEF Read, MarkInv, Unmarked, captureVars, controlVars
  <1>2. CASE Deliver(s)
    <2>1. Unmarked => Unmarked'
      BY <1>2, WriteUnmarked DEF Deliver, MarkInv, Streams
    <2>2. <<>> \in Bytes
      BY EmptySeq DEF Bytes
    <2>3. chunk' \in Streams
      BY <1>2, <2>2 DEF Deliver, MarkInv, Streams
    <2>4. sealed' = sealed
      BY <1>2 DEF Deliver, Write, captureVars
    <2>5. Steps' /\ Reading' /\ reader' \in [Stream -> {"none", "read", "write", "done"}]
      BY <1>2, <2>4 DEF Deliver, MarkInv, Steps, Reading, processVars, controlVars
    <2>. QED
      BY <1>2, <2>1, <2>3, <2>5 DEF Deliver, MarkInv, controlVars
  <1>3. CASE EndOfStream(s)
    <2>1. Steps' /\ Reading' /\ reader' \in [Stream -> {"none", "read", "write", "done"}]
      BY <1>3
      DEF EndOfStream, MarkInv, Steps, Reading, captureVars, processVars, controlVars
    <2>. QED
      BY <1>3, <2>1 DEF EndOfStream, MarkInv, Unmarked, captureVars, controlVars
  <1>. QED
    BY <1>1, <1>2, <1>3 DEF ReaderStep

LEMMA MarkProcess ==
    ASSUME MarkInv,
           (\E s \in Stream : Feed(s)) \/ Fork \/ ProcessEnds \/ Die \/ Hangup
    PROVE  MarkInv'
  <1>. USE DEF MarkInv, Unmarked, captureVars, readerVars, controlVars
  <1>1. ASSUME NEW s \in Stream, Feed(s) PROVE MarkInv'
    <2>1. Reading'
      BY <1>1, TextIsBytes DEF Feed, Reading
    <2>. QED BY <1>1, <2>1 DEF Feed, Steps
  <1>2. CASE Fork \/ ProcessEnds \/ Die \/ Hangup
    BY <1>2 DEF Fork, ProcessEnds, Die, Hangup, Steps, Reading
  <1>. QED
    BY <1>1, <1>2

LEMMA MarkWaiter == MarkInv /\ (WaiterStep \/ Late \/ Cancel) => MarkInv'
  BY DEF MarkInv, Steps, Reading, Unmarked, WaiterStep, ReadersEnded, Reap, SessionOver,
         SetReaped, SendDone, Late, Cancel, captureVars, processVars, readerVars, controlVars

LEMMA MarkMain ==
    ASSUME MarkInv, StartFails \/ Begin \/ MainStep
    PROVE  MarkInv'
  <1>. USE DEF MarkInv, Steps, Reading
  <1>1. CASE StartFails \/ Begin
    BY <1>1 DEF StartFails, Begin, Unmarked, captureVars, processVars, readerVars
  <1>2. CASE SelectDone \/ SelectTimeout \/ SelectCancel
    BY <1>2
    DEF SelectDone, SelectTimeout, SelectCancel, Unmarked, captureVars, processVars, readerVars
  <1>3. CASE Kill \/ Leave
    BY <1>3 DEF Kill, Leave, Unmarked, captureVars, readerVars
  <1>4. CASE Seal
    BY <1>4, ResultUnmarked DEF Seal, Result, processVars, readerVars
  <1>5. CASE MarkCanceled
    BY <1>5 DEF MarkCanceled, WriteChunk, processVars, readerVars
  <1>. QED
    BY <1>1, <1>2, <1>3, <1>4, <1>5 DEF MainStep

LEMMA MarkStep ==
    ASSUME MarkInv, [Next]_vars
    PROVE  MarkInv'
  <1>1. CASE UNCHANGED vars
    BY <1>1
    DEF MarkInv, Steps, Reading, Unmarked, vars, captureVars, processVars, readerVars, controlVars
  <1>2. CASE Next
    BY <1>2, MarkReader, MarkProcess, MarkWaiter, MarkMain DEF Next
  <1>. QED
    BY <1>1, <1>2

(* Before the caller is done there is no mark.                             *)
LEMMA MarkComesLast ==
    ASSUME MarkInv, NEW i \in DOMAIN log["stderr"], log["stderr"][i] = "mark"
    PROVE  main = "end"
  <1>. SUFFICES ASSUME main # "end" PROVE FALSE
    OBVIOUS
  <1>1. log["stderr"] \in Seq(Byte)
    BY DEF MarkInv, Unmarked, Streams, Bytes, Stream
  <1>2. log["stderr"][i] \in Byte
    BY <1>1, LenProperties, ElementOfSeq
  <1>. QED
    BY <1>2 DEF Byte, RuneLen

(* Only a reader, the result and the mark write to the log.                *)
LEMMA LogWriters ==
    ASSUME MarkInv, [Next]_vars
    PROVE  \/ UNCHANGED <<log, tail>>
           \/ ~sealed /\ main # "end"
           \/ main = "mark" /\ WriteChunk("stderr", Mark)
  <1>1. CASE UNCHANGED vars
    BY <1>1 DEF vars, captureVars
  <1>2. ASSUME NEW s \in Stream, ReaderStep(s)
        PROVE  UNCHANGED <<log, tail>> \/ (~sealed /\ main # "end")
    <2>1. CASE Read(s) \/ EndOfStream(s)
      BY <2>1 DEF Read, EndOfStream, captureVars
    <2>2. CASE Deliver(s)
      <3>1. sealed => UNCHANGED <<log, tail>>
        BY <2>2 DEF Deliver, Write, captureVars
      <3>2. reader[s] = "write"
        BY <2>2 DEF Deliver
      <3>3. main = "end" => sealed
        BY <3>2 DEF MarkInv, Steps
      <3>. QED BY <3>1, <3>3
    <2>. QED
      BY <1>2, <2>1, <2>2 DEF ReaderStep
  <1>3. CASE StartFails \/ Begin \/ Fork \/ ProcessEnds \/ Die \/ Hangup \/ Late \/ Cancel
    BY <1>3 DEF StartFails, Begin, Fork, ProcessEnds, Die, Hangup, Late, Cancel, captureVars
  <1>4. ASSUME NEW s \in Stream, Feed(s) PROVE UNCHANGED <<log, tail>>
    BY <1>4 DEF Feed, captureVars
  <1>5. CASE WaiterStep
    BY <1>5 DEF WaiterStep, ReadersEnded, Reap, SessionOver, SetReaped, SendDone, captureVars
  <1>6. CASE SelectDone \/ SelectTimeout \/ SelectCancel \/ Kill \/ Leave
    BY <1>6 DEF SelectDone, SelectTimeout, SelectCancel, Kill, Leave, captureVars
  <1>7. CASE Seal
    BY <1>7 DEF Seal, MarkInv, Steps
  <1>8. CASE MarkCanceled
    BY <1>8 DEF MarkCanceled
  <1>. QED
    BY <1>1, <1>2, <1>3, <1>4, <1>5, <1>6, <1>7, <1>8 DEF Next, MainStep

LEMMA SelectSeesCancel ==
    ASSUME [Next]_vars, main = "select", main' # main, cancel
    PROVE  why' \in {"cancel", "timeout"}
  <1>1. CASE MainStep
    BY <1>1
    DEF MainStep, SelectDone, SelectTimeout, SelectCancel, Kill, Seal, Leave, MarkCanceled
  <1>2. CASE StartFails \/ Begin
    BY <1>2 DEF StartFails, Begin
  <1>3. ASSUME [Next]_vars, ~MainStep, ~StartFails, ~Begin PROVE main' = main
    <2>1. ASSUME NEW s \in Stream, Feed(s) \/ ReaderStep(s) PROVE main' = main
      BY <2>1 DEF Feed, ReaderStep, Read, Deliver, EndOfStream, controlVars
    <2>2. CASE Fork \/ ProcessEnds \/ Die \/ Hangup \/ Late \/ Cancel
      BY <2>2 DEF Fork, ProcessEnds, Die, Hangup, Late, Cancel, controlVars
    <2>3. CASE WaiterStep
      BY <2>3 DEF WaiterStep, ReadersEnded, Reap, SessionOver, SetReaped, SendDone, controlVars
    <2>4. CASE UNCHANGED vars
      BY <2>4 DEF vars, controlVars
    <2>. QED
      BY <1>3, <2>1, <2>2, <2>3, <2>4 DEF Next
  <1>. QED
    BY <1>1, <1>2, <1>3

LEMMA NothingBelow ==
    ASSUME MarkInv, [Next]_vars
    PROVE  /\ sealed => tail' = tail /\ log' \in {log, [log EXCEPT !["stderr"] = @ \o Mark]}
           /\ \A i \in DOMAIN log["stderr"] : log["stderr"][i] = "mark" => log' = log
           /\ main = "select" /\ main' # main /\ cancel => why' \in {"cancel", "timeout"}
  <1>1. sealed => tail' = tail /\ log' \in {log, [log EXCEPT !["stderr"] = @ \o Mark]}
    BY LogWriters DEF WriteChunk
  <1>2. \A i \in DOMAIN log["stderr"] : log["stderr"][i] = "mark" => log' = log
    BY LogWriters, MarkComesLast
  <1>. QED
    BY <1>1, <1>2, SelectSeesCancel

(* Nothing a command still writes comes below the mark of a cancellation   *)
(* or into a result that was taken, and a cancellation that raced the exit *)
(* is not lost.                                                            *)
THEOREM NothingBelowMarkHolds == Spec => NothingBelowMark
  <1>1. MarkInv /\ [Next]_vars
            => [/\ sealed => tail' = tail
                             /\ log' \in {log, [log EXCEPT !["stderr"] = @ \o Mark]}
                /\ \A i \in DOMAIN log["stderr"] : log["stderr"][i] = "mark" => log' = log
                /\ main = "select" /\ main' # main /\ cancel => why' \in {"cancel", "timeout"}]_vars
    BY NothingBelow
  <1>2. MarkInv /\ [Next]_vars => MarkInv'
    BY MarkStep
  <1>. QED
    BY <1>1, <1>2, MarkInit, PTL DEF Spec, NothingBelowMark

-----------------------------------------------------------------------------
(* Pieces of a text.                                                       *)
Slice(text, a, b) == SubSeq(text, a + 1, b)

LEMMA SliceIs ==
    ASSUME NEW text \in Bytes, NEW b \in 0..Len(text), NEW a \in 0..b
    PROVE  /\ Slice(text, a, b) \in Bytes
           /\ Len(Slice(text, a, b)) = b - a
           /\ DOMAIN Slice(text, a, b) = 1..(b - a)
           /\ \A i \in 1..(b - a) : Slice(text, a, b)[i] = text[a + i]
  <1>1. Len(text) \in Nat /\ \A i \in 1..Len(text) : text[i] \in Byte
    BY LenProperties, ElementOfSeq DEF Bytes
  <1>2. /\ SubSeq(text, a + 1, b) \in Seq(Byte)
        /\ Len(SubSeq(text, a + 1, b)) = b - a
        /\ \A i \in 1..(b - a) : SubSeq(text, a + 1, b)[i] = text[a + 1 + i - 1]
    <2>1. \A i \in (a + 1)..b : text[i] \in Byte
      BY <1>1
    <2>2. /\ SubSeq(text, a + 1, b) \in Seq(Byte)
          /\ Len(SubSeq(text, a + 1, b)) = IF a + 1 <= b THEN b - (a + 1) + 1 ELSE 0
          /\ \A i \in 1..(b - (a + 1) + 1) : SubSeq(text, a + 1, b)[i] = text[a + 1 + i - 1]
      BY <1>1, <2>1, SubSeqProperties
    <2>. QED BY <1>1, <2>2
  <1>3. \A i \in 1..(b - a) : a + 1 + i - 1 = a + i
    BY <1>1
  <1>. QED
    BY <1>2, <1>3, LenProperties DEF Slice, Bytes

LEMMA SliceJoin ==
    ASSUME NEW text \in Bytes, NEW c \in 0..Len(text), NEW b \in 0..c, NEW a \in 0..b
    PROVE  Slice(text, a, b) \o Slice(text, b, c) = Slice(text, a, c)
  <1>1. Len(text) \in Nat
    BY LenProperties DEF Bytes
  <1>2. a + 1 \in 1..(Len(text) + 1) /\ b \in (a + 1 - 1)..Len(text) /\ c \in b..Len(text)
    BY <1>1
  <1>. QED
    BY <1>2, ConcatAdjacentSubSeq DEF Slice, Bytes

LEMMA SliceOfSlice ==
    ASSUME NEW text \in Bytes, NEW b \in 0..Len(text), NEW a \in 0..b,
           NEW d \in 0..(b - a), NEW c \in 0..d
    PROVE  Slice(Slice(text, a, b), c, d) = Slice(text, a + c, a + d)
  <1>. Len(text) \in Nat
    BY LenProperties DEF Bytes
  <1>. DEFINE piece == Slice(text, a, b)
  <1>1. piece \in Bytes /\ Len(piece) = b - a /\ \A i \in 1..(b - a) : piece[i] = text[a + i]
    BY SliceIs
  <1>. HIDE DEF piece
  <1>2. /\ Slice(piece, c, d) \in Bytes /\ Len(Slice(piece, c, d)) = d - c
        /\ \A i \in 1..(d - c) : Slice(piece, c, d)[i] = piece[c + i]
    <2>. d \in 0..Len(piece)
      BY <1>1
    <2>. QED BY <1>1, SliceIs
  <1>3. a + d \in 0..Len(text) /\ a + c \in 0..(a + d)
    OBVIOUS
  <1>4. /\ Slice(text, a + c, a + d) \in Bytes
        /\ Len(Slice(text, a + c, a + d)) = (a + d) - (a + c)
        /\ \A i \in 1..((a + d) - (a + c)) : Slice(text, a + c, a + d)[i] = text[a + c + i]
    BY <1>3, SliceIs
  <1>5. Len(Slice(piece, c, d)) = Len(Slice(text, a + c, a + d))
    BY <1>2, <1>4
  <1>6. ASSUME NEW i \in 1..Len(Slice(piece, c, d))
        PROVE  Slice(piece, c, d)[i] = Slice(text, a + c, a + d)[i]
    <2>1. i \in 1..(d - c) /\ c + i \in 1..(b - a) /\ i \in 1..((a + d) - (a + c))
          /\ a + (c + i) = a + c + i
      BY <1>2
    <2>2. Slice(piece, c, d)[i] = text[a + (c + i)]
      BY <1>1, <1>2, <2>1
    <2>. QED BY <1>4, <2>1, <2>2
  <1>7. Slice(piece, c, d) = Slice(text, a + c, a + d)
    BY <1>2, <1>4, <1>5, <1>6, SeqEqual DEF Bytes
  <1>. QED BY <1>7 DEF piece

LEMMA SliceWhole ==
    ASSUME NEW text \in Bytes
    PROVE  /\ Slice(text, 0, Len(text)) = text
           /\ \A a \in 0..Len(text) : Slice(text, a, a) = <<>>
  <1>1. Len(text) \in Nat
    BY LenProperties DEF Bytes
  <1>2. Slice(text, 0, Len(text)) = text
    BY <1>1, SubSeqFull DEF Slice, Bytes
  <1>3. ASSUME NEW a \in 0..Len(text) PROVE Slice(text, a, a) = <<>>
    BY <1>1, SubSeqEmpty DEF Slice
  <1>. QED BY <1>2, <1>3

-----------------------------------------------------------------------------
(* A text of whole runes; where one ends and the next begins; and the last *)
(* such place up to n.                                                     *)
Runes == {text \in Bytes : \A i \in 1..Len(text) : Valid(text, i)}
Cut(text, n) == n = Len(text) \/ RuneStart(text[n + 1])
Upto(text, n) ==
    IF Cut(text, n) THEN n
    ELSE (CHOOSE k \in 1..n : RuneAt(text, k) /\ n + 1 < k + RuneLen[text[k]]) - 1

LEMMA RuneLenType ==
    /\ \A byte \in Byte : RuneLen[byte] \in 1..4
    /\ RuneLen["cont"] = 1 /\ RuneLen["repl"] = 3 /\ "repl" \in Byte /\ "cont" \in Byte
  BY DEF Byte, RuneLen

LEMMA RunesType ==
    ASSUME NEW text \in Runes
    PROVE  /\ text \in Bytes /\ Len(text) \in Nat /\ DOMAIN text = 1..Len(text)
           /\ \A i \in 1..Len(text) : text[i] \in Byte /\ RuneLen[text[i]] \in 1..4
  BY LenProperties, ElementOfSeq, RuneLenType DEF Runes, Bytes

(* Every byte belongs to a rune, and to one alone.                         *)
LEMMA RuneOf ==
    ASSUME NEW text \in Runes, NEW i \in 1..Len(text)
    PROVE  \E k \in 1..i : /\ RuneAt(text, k) /\ i < k + RuneLen[text[k]]
                           /\ k + RuneLen[text[k]] - 1 <= Len(text)
                           /\ RuneStart(text[k])
                           /\ \A j \in (k + 1)..(k + RuneLen[text[k]] - 1) : ~RuneStart(text[j])
  <1>1. PICK k \in 1..i : RuneAt(text, k) /\ i < k + RuneLen[text[k]]
    BY DEF Runes, Valid
  <1>. QED
    BY <1>1 DEF RuneAt, RuneStart

(* A rune ends at a cut and begins at one.                                 *)
LEMMA RuneEnds ==
    ASSUME NEW text \in Runes, NEW k \in 1..Len(text), RuneAt(text, k)
    PROVE  /\ Cut(text, k - 1)
           /\ Cut(text, k + RuneLen[text[k]] - 1)
           /\ k + RuneLen[text[k]] - 1 \in k..Len(text)
  <1>. DEFINE e == k + RuneLen[text[k]] - 1
  <1>0. Len(text) \in Nat /\ RuneLen[text[k]] \in 1..4
    BY RunesType
  <1>1. e \in k..Len(text) /\ RuneStart(text[k])
        /\ \A j \in (k + 1)..e : ~RuneStart(text[j])
    BY <1>0 DEF RuneAt, RuneStart
  <1>2. Cut(text, k - 1)
    BY <1>1 DEF Cut
  <1>3. Cut(text, e)
    <2>. SUFFICES ASSUME e # Len(text), ~RuneStart(text[e + 1]) PROVE FALSE
      BY DEF Cut
    <2>. HIDE DEF e
    <2>1. e + 1 \in 1..Len(text)
      BY <1>0, <1>1
    <2>2. PICK l \in 1..(e + 1) : /\ e + 1 < l + RuneLen[text[l]]
                                  /\ RuneStart(text[l])
                                  /\ \A j \in (l + 1)..(l + RuneLen[text[l]] - 1) :
                                         ~RuneStart(text[j])
      BY <2>1, RuneOf
    <2>3. l \in 1..Len(text) /\ RuneLen[text[l]] \in 1..4
      BY <2>1, RunesType
    <2>4. l # e + 1
      BY <2>2
    <2>5. ~(l < k)
      BY <1>1, <2>2, <2>3
    <2>6. l # k
      BY <1>0, <2>2 DEF e
    <2>7. ~(k < l)
      BY <1>1, <2>2, <2>3, <2>4
    <2>. QED BY <2>5, <2>6, <2>7, <2>3
  <1>. QED
    BY <1>1, <1>2, <1>3

(* What is cut off at n is less than a rune that begins there.             *)
LEMMA UptoIs ==
    ASSUME NEW text \in Runes, NEW n \in 0..Len(text)
    PROVE  /\ Upto(text, n) \in 0..n /\ Cut(text, Upto(text, n))
           /\ \A d \in (Upto(text, n) + 1)..n : ~Cut(text, d)
  <1>0. Len(text) \in Nat
    BY RunesType
  <1>1. CASE Cut(text, n)
    BY <1>1 DEF Upto
  <1>2. CASE ~Cut(text, n)
    <2>1. n + 1 \in 1..Len(text) /\ ~RuneStart(text[n + 1])
      BY <1>0, <1>2 DEF Cut
    <2>2. \E k \in 1..(n + 1) : RuneAt(text, k) /\ n + 1 < k + RuneLen[text[k]]
                                /\ RuneStart(text[k])
      BY <2>1, RuneOf
    <2>3. \E k \in 1..n : RuneAt(text, k) /\ n + 1 < k + RuneLen[text[k]]
      BY <2>1, <2>2
    <2>. DEFINE k == CHOOSE k \in 1..n : RuneAt(text, k) /\ n + 1 < k + RuneLen[text[k]]
    <2>4. k \in 1..n /\ RuneAt(text, k) /\ n + 1 < k + RuneLen[text[k]]
      BY <2>3
    <2>5. Upto(text, n) = k - 1
      BY <1>2 DEF Upto
    <2>. HIDE DEF k
    <2>6. k \in 1..Len(text) /\ RuneLen[text[k]] \in 1..4
      BY <1>0, <2>4, RunesType
    <2>7. Cut(text, k - 1)
      BY <2>4, <2>6, RuneEnds
    <2>8. ASSUME NEW d \in k..n PROVE ~Cut(text, d)
      <3>1. d + 1 \in (k + 1)..(k + RuneLen[text[k]] - 1) /\ d # Len(text)
        BY <1>0, <2>1, <2>4, <2>6
      <3>2. text[d + 1] = "cont"
        BY <3>1, <2>4 DEF RuneAt
      <3>. QED BY <3>1, <3>2 DEF Cut, RuneStart
    <2>. QED
      BY <2>4, <2>5, <2>7, <2>8
  <1>. QED BY <1>1, <1>2

LEMMA UptoOnly ==
    ASSUME NEW text \in Runes, NEW n \in 0..Len(text), NEW v \in 0..n,
           Cut(text, v), \A d \in (v + 1)..n : ~Cut(text, d)
    PROVE  Upto(text, n) = v
  <1>. DEFINE w == Upto(text, n)
  <1>1. w \in 0..n /\ Cut(text, w) /\ \A d \in (w + 1)..n : ~Cut(text, d)
    BY UptoIs
  <1>. HIDE DEF w
  <1>2. w = v
    BY <1>1, RunesType
  <1>. QED BY <1>2 DEF w

(* Of a piece that begins at a cut, the bytes up to the last cut are those *)
(* of whole runes.                                                         *)
LEMMA ValidOfSlice ==
    ASSUME NEW text \in Runes, NEW n \in 0..Len(text), NEW a \in 0..n, Cut(text, a),
           NEW i \in 1..(n - a)
    PROVE  Valid(Slice(text, a, n), i) <=> a + i <= Upto(text, n)
  <1>. DEFINE w == Upto(text, n)
              piece == Slice(text, a, n)
  <1>0. Len(text) \in Nat /\ text \in Bytes
        /\ \A j \in 1..Len(text) : RuneLen[text[j]] \in 1..4
    BY RunesType
  <1>1. w \in 0..n /\ Cut(text, w) /\ \A d \in (w + 1)..n : ~Cut(text, d)
    BY UptoIs
  <1>2. Len(piece) = n - a /\ \A j \in 1..(n - a) : piece[j] = text[a + j]
    BY <1>0, SliceIs
  <1>. HIDE DEF w, piece
  <1>3. ASSUME a + i <= w PROVE Valid(piece, i)
    <2>1. a + i \in 1..Len(text)
      BY <1>0
    <2>2. PICK k \in 1..(a + i) : /\ RuneAt(text, k) /\ a + i < k + RuneLen[text[k]]
                                  /\ k + RuneLen[text[k]] - 1 <= Len(text)
                                  /\ RuneStart(text[k])
                                  /\ \A j \in (k + 1)..(k + RuneLen[text[k]] - 1) :
                                         ~RuneStart(text[j])
      BY <2>1, RuneOf
    <2>. DEFINE len == RuneLen[text[k]]
    <2>3. len \in 1..4 /\ k \in 1..Len(text)
      BY <1>0, <2>1
    <2>. HIDE DEF len
    <2>4. k > a
      <3>. SUFFICES ASSUME k <= a PROVE FALSE
        BY <2>3
      <3>1. a + 1 \in (k + 1)..(k + len - 1)
        BY <2>2, <2>3 DEF len
      <3>2. a # Len(text)
        BY <1>0
      <3>. QED BY <2>2, <3>1, <3>2 DEF Cut, len
    <2>5. k + len - 1 <= w
      <3>. SUFFICES ASSUME k + len - 1 > w PROVE FALSE
        BY <1>1, <2>3
      <3>1. w + 1 \in (k + 1)..(k + len - 1)
        BY <1>1, <1>3, <2>3
      <3>2. w # Len(text)
        BY <1>0, <1>1, <2>2 DEF len
      <3>. QED BY <1>1, <2>2, <3>1, <3>2 DEF Cut, len
    <2>. DEFINE h == k - a
    <2>6. h \in 1..i /\ a + h = k /\ h \in 1..(n - a)
      BY <2>3, <2>4
    <2>. HIDE DEF h
    <2>7. piece[h] = text[k]
      BY <1>2, <2>6
    <2>8. ASSUME NEW j \in (h + 1)..(h + len - 1) PROVE piece[j] = "cont"
      <3>1. j \in 1..(n - a) /\ a + j \in (k + 1)..(k + len - 1)
        BY <1>1, <2>3, <2>5, <2>6
      <3>. QED BY <1>2, <2>2, <3>1 DEF RuneStart, len
    <2>9. h + len - 1 <= Len(piece) /\ i < h + len
      <3>1. a + i < k + len /\ k \in Int /\ n \in Int /\ w \in Int /\ w <= n /\ a \in Int
        BY <1>0, <1>1, <2>2, <2>3 DEF len
      <3>2. h + len - 1 <= n - a
        BY <2>3, <2>5, <2>6, <3>1
      <3>3. i < h + len
        BY <2>3, <2>6, <3>1
      <3>. QED BY <1>2, <3>2, <3>3
    <2>10. text[k] \notin {"cont", "bad"}
      BY <2>2 DEF RuneAt
    <2>11. RuneAt(piece, h)
      BY <2>7, <2>8, <2>9, <2>10 DEF RuneAt, len
    <2>. QED BY <2>6, <2>7, <2>9, <2>11 DEF Valid, len
  <1>4. ASSUME Valid(piece, i) PROVE a + i <= w
    <2>1. PICK h \in 1..i : RuneAt(piece, h) /\ i < h + RuneLen[piece[h]]
      BY <1>4 DEF Valid
    <2>. DEFINE k == a + h
                len == RuneLen[text[k]]
    <2>2. piece[h] = text[k] /\ k \in 1..Len(text)
      BY <1>0, <1>2
    <2>. HIDE DEF k
    <2>3. len \in 1..4
      BY <1>0, <2>2
    <2>. HIDE DEF len
    <2>4. /\ text[k] \notin {"cont", "bad"} /\ h + len - 1 <= n - a /\ i < h + len
          /\ \A j \in (h + 1)..(h + len - 1) : piece[j] = "cont"
      BY <1>2, <2>1, <2>2 DEF RuneAt, len
    <2>5. k + len - 1 \in 0..n /\ a + i <= k + len - 1
      BY <2>3, <2>4 DEF k
    <2>6. \A j \in (k + 1)..(k + len - 1) : text[j] = "cont"
      <3>. SUFFICES ASSUME NEW j \in (k + 1)..(k + len - 1) PROVE text[j] = "cont"
        OBVIOUS
      <3>1. j - a \in (h + 1)..(h + len - 1) /\ j - a \in 1..(n - a) /\ a + (j - a) = j
        BY <2>3, <2>4 DEF k
      <3>. QED BY <1>2, <2>4, <3>1
    <2>7. RuneAt(text, k)
      BY <1>0, <2>3, <2>4, <2>5, <2>6 DEF RuneAt, len
    <2>8. Cut(text, k + len - 1)
      BY <2>2, <2>7, RuneEnds DEF len
    <2>9. ~(w < k + len - 1)
      BY <1>1, <2>5, <2>8
    <2>. QED BY <1>1, <2>3, <2>5, <2>9, <2>2
  <1>. QED BY <1>3, <1>4 DEF w, piece

(* What is held back of a piece that begins at a cut is what follows the   *)
(* last cut.                                                               *)
LEMMA HeldBackOf ==
    ASSUME NEW text \in Runes, NEW n \in 0..Len(text), NEW a \in 0..n, Cut(text, a)
    PROVE  IncompleteTailLen(Slice(text, a, n)) = n - Upto(text, n)
  <1>. DEFINE buf == Slice(text, a, n)
              m == Min({4, Len(buf)})
              starts == {back \in 1..m : RuneStart(buf[Len(buf) - back + 1])}
  <1>0. Len(text) \in Nat /\ text \in Bytes
        /\ \A j \in 1..Len(text) : RuneLen[text[j]] \in 1..4
    BY RunesType
  <1>1. buf \in Bytes /\ Len(buf) = n - a /\ \A j \in 1..(n - a) : buf[j] = text[a + j]
    BY <1>0, SliceIs
  <1>2. IncompleteTailLen(buf) =
            IF buf = <<>> \/ starts = {} THEN 0
            ELSE IF RuneLen[buf[Len(buf) - Min(starts) + 1]] > Min(starts)
                 THEN Min(starts) ELSE 0
    BY DEF IncompleteTailLen
  <1>. HIDE DEF buf
  <1>3. CASE a = n
    <2>1. buf = <<>>
      BY <1>0, <1>3, SliceWhole DEF buf
    <2>2. Upto(text, n) = n
      BY <1>0, <1>3 DEF Upto
    <2>. QED BY <1>0, <1>2, <2>1, <2>2 DEF buf
  <1>4. CASE a < n
    <2>0. buf # <<>>
      BY <1>0, <1>1, <1>4, EmptySeq DEF Bytes
    <2>1. n \in 1..Len(text)
      BY <1>0, <1>4
    <2>2. PICK k \in 1..n : /\ RuneAt(text, k) /\ n < k + RuneLen[text[k]]
                            /\ k + RuneLen[text[k]] - 1 <= Len(text)
                            /\ RuneStart(text[k])
                            /\ \A j \in (k + 1)..(k + RuneLen[text[k]] - 1) :
                                   ~RuneStart(text[j])
      BY <2>1, RuneOf
    <2>. DEFINE len == RuneLen[text[k]]
    <2>3. len \in 1..4 /\ k \in 1..Len(text)
      BY <1>0, <2>1
    <2>. HIDE DEF len
    <2>4. k > a
      <3>. SUFFICES ASSUME k <= a PROVE FALSE
        BY <2>3
      <3>1. a + 1 \in (k + 1)..(k + len - 1)
        BY <1>0, <1>4, <2>2, <2>3 DEF len
      <3>. QED BY <1>0, <1>4, <2>2, <3>1 DEF Cut, len
    <2>. DEFINE b == n - k + 1
    <2>5. b \in 1..(n - a) /\ b <= 4 /\ n - b + 1 = k
      BY <1>0, <2>2, <2>3, <2>4 DEF len
    <2>6. m \in {4, n - a} /\ m <= 4 /\ m <= n - a
      <3>1. \E x \in {4, n - a} : \A y \in {4, n - a} : x <= y
        BY <1>0
      <3>. QED BY <1>0, <1>1, <3>1 DEF Min
    <2>. HIDE DEF m, b
    <2>7. \A back \in 1..m : buf[Len(buf) - back + 1] = text[n - back + 1]
      <3>. SUFFICES ASSUME NEW back \in 1..m
                    PROVE  buf[Len(buf) - back + 1] = text[n - back + 1]
        OBVIOUS
      <3>1. (n - a) - back + 1 \in 1..(n - a) /\ a + ((n - a) - back + 1) = n - back + 1
        BY <1>0, <2>6
      <3>. QED BY <1>1, <3>1
    <2>8. b \in starts /\ buf[Len(buf) - b + 1] = text[k]
      <3>1. b \in 1..m
        BY <1>0, <2>5, <2>6
      <3>. QED BY <2>2, <2>5, <2>7, <3>1
    <2>9. ASSUME NEW back \in starts PROVE b <= back
      <3>. SUFFICES ASSUME back < b PROVE FALSE
        BY <1>0, <2>5, <2>6
      <3>1. back \in 1..m /\ RuneStart(text[n - back + 1])
        BY <2>7, <2>9
      <3>2. n - back + 1 \in (k + 1)..(k + len - 1)
        BY <1>0, <2>2, <2>5, <2>6, <3>1, SMTT(30) DEF len
      <3>. QED BY <2>2, <3>1, <3>2 DEF len
    <2>10. Min(starts) = b
      <3>1. starts \subseteq Int
        BY <1>0, <2>6
      <3>2. \A x \in starts : (\A y \in starts : x <= y) => x = b
        BY <2>5, <2>8, <2>9, <3>1, SMTT(30)
      <3>. HIDE DEF starts
      <3>. QED BY <2>8, <2>9, <3>2 DEF Min
    <2>. HIDE DEF starts
    <2>11. IncompleteTailLen(buf) = IF len > b THEN b ELSE 0
      BY <1>2, <2>0, <2>8, <2>10 DEF len
    <2>12. CASE len > b
      <3>1. Cut(text, k - 1)
        BY <2>2, <2>3, RuneEnds
      <3>2. ASSUME NEW d \in k..n PROVE ~Cut(text, d)
        <4>1. d + 1 \in (k + 1)..(k + len - 1) /\ d # Len(text)
          <5>1. k + len - 1 <= Len(text) /\ k \in Int /\ n \in Int /\ d \in Int
            BY <1>0, <2>2, <2>3 DEF len
          <5>2. n + 1 <= k + len - 1
            BY <1>0, <2>3, <2>5, <2>12, <5>1
          <5>. QED BY <1>0, <2>3, <5>1, <5>2
        <4>. QED BY <2>2, <4>1 DEF Cut, len
      <3>3. Upto(text, n) = k - 1
        <4>1. k - 1 \in 0..n /\ \A d \in (k - 1 + 1)..n : ~Cut(text, d)
          BY <2>1, <3>2
        <4>. QED BY <3>1, <4>1, UptoOnly
      <3>. QED BY <1>0, <2>3, <2>5, <2>11, <2>12, <3>3 DEF buf
    <2>13. CASE ~(len > b)
      <3>1. k + len - 1 = n
        BY <1>0, <2>2, <2>3, <2>5, <2>13 DEF len
      <3>2. Cut(text, n)
        BY <2>2, <2>3, <3>1, RuneEnds DEF len
      <3>3. Upto(text, n) = n
        BY <3>2 DEF Upto
      <3>. QED BY <1>0, <2>11, <2>13, <3>3 DEF buf
    <2>. QED BY <2>12, <2>13
  <1>. QED
    BY <1>0, <1>3, <1>4

-----------------------------------------------------------------------------
(* A replacement followed by nothing is a replacement.                     *)
LEMMA FlattenOne ==
    ASSUME NEW seqs \in Seq(Bytes), Len(seqs) # 0, NEW first \in Bytes,
           \A i \in 1..Len(seqs) : seqs[i] = IF i = 1 THEN first ELSE <<>>
    PROVE  FlattenSeq(seqs) = first
  <1>. DEFINE n == Len(seqs)
              h == Flat(seqs)
              Good(f) == f = [i \in 1..n |-> FlatStep(seqs, f, i)]
  <1>. n \in Nat
    BY LenProperties
  <1>1. PICK f \in [1..Len(seqs) -> Bytes] : \A i \in 1..Len(seqs) : f[i] = FlatStep(seqs, f, i)
    BY FlatExists DEF Bytes
  <1>2. Good(f)
    BY <1>1
  <1>3. Good(h)
    <2>. HIDE DEF Good
    <2>. QED BY <1>2 DEF Flat, Good
  <1>. HIDE DEF h
  <1>4. \A i \in 1..n : h[i] = FlatStep(seqs, h, i)
    BY <1>3
  <1>. HIDE DEF Good, n
  <1>. DEFINE T == {k \in Nat : \A i \in 1..n : i <= k => h[i] = first}
  <1>5. 0 \in T
    OBVIOUS
  <1>6. ASSUME NEW k \in Nat, k \in T PROVE k + 1 \in T
    <2>. SUFFICES ASSUME NEW i \in 1..n, i <= k + 1 PROVE h[i] = first
      OBVIOUS
    <2>1. CASE i = 1
      BY <1>4, <2>1 DEF FlatStep, n
    <2>2. CASE i # 1
      <3>1. i - 1 \in 1..n /\ h[i-1] = first
        BY <1>6, <2>2
      <3>. HIDE DEF T
      <3>2. h[i] = h[i-1] \o seqs[i]
        BY <1>4, <2>2 DEF FlatStep
      <3>3. seqs[i] = <<>>
        BY <2>2 DEF n
      <3>. QED BY <3>1, <3>2, <3>3, ConcatEmptySeq DEF Bytes
    <2>. QED BY <2>1, <2>2
  <1>. HIDE DEF T
  <1>7. n \in T
    BY <1>5, <1>6, NatSetInduction
  <1>8. n # 0
    BY DEF n
  <1>9. h[n] = first
    BY <1>7, <1>8 DEF T
  <1>. QED BY <1>9, <1>8, FlattenIsFlat DEF h, n

LEMMA ReplacementIs == Replacement \in Bytes /\ <<>> \in Bytes
  <1>1. <<"repl", "cont", "cont">> \in Seq(Byte)
    BY RuneLenType
  <1>. QED BY <1>1, EmptySeq DEF Bytes, Replacement

(* Whole runes are recorded as they are, and the beginning of a rune as    *)
(* one replacement.                                                        *)
LEMMA SanitizeOfSlice ==
    ASSUME NEW text \in Runes, NEW n \in 0..Len(text), NEW a \in 0..n, Cut(text, a)
    PROVE  /\ Sanitize(Slice(text, a, Upto(text, n))) = Slice(text, a, Upto(text, n))
           /\ Upto(text, n) < n => Sanitize(Slice(text, Upto(text, n), n)) = Replacement
  <1>. DEFINE w == Upto(text, n)
  <1>0. Len(text) \in Nat /\ text \in Bytes
    BY RunesType
  <1>1. w \in 0..n /\ Cut(text, w) /\ \A d \in (w + 1)..n : ~Cut(text, d)
    BY UptoIs
  <1>2. w \in a..n
    BY <1>0, <1>1
  <1>3. Upto(text, w) = w
    BY <1>1 DEF Upto
  <1>. HIDE DEF w
  <1>4. Sanitize(Slice(text, a, w)) = Slice(text, a, w)
    <2>. DEFINE piece == Slice(text, a, w)
    <2>0. w \in 0..Len(text) /\ a \in 0..w
      BY <1>0, <1>2
    <2>1. DOMAIN piece = 1..(w - a)
      BY <1>0, <2>0, SliceIs
    <2>2. ASSUME NEW i \in 1..(w - a) PROVE Valid(piece, i)
      <3>1. a + i <= w
        BY <1>0, <1>2
      <3>. QED BY <1>3, <2>0, <3>1, ValidOfSlice
    <2>. HIDE DEF piece
    <2>3. \A i \in DOMAIN piece : Valid(piece, i)
      BY <2>1, <2>2
    <2>. QED BY <2>3 DEF Sanitize, piece
  <1>5. ASSUME w < n PROVE Sanitize(Slice(text, w, n)) = Replacement
    <2>. DEFINE piece == Slice(text, w, n)
                Piece(i) == IF Valid(piece, i) THEN <<piece[i]>>
                            ELSE IF i = 1 \/ Valid(piece, i - 1) THEN Replacement
                            ELSE <<>>
                pieces == [i \in DOMAIN piece |-> Piece(i)]
    <2>1. DOMAIN piece = 1..(n - w)
      BY <1>0, <1>1, SliceIs
    <2>2. ASSUME NEW i \in 1..(n - w) PROVE ~Valid(piece, i)
      <3>1. ~(w + i <= w)
        BY <1>0, <1>1
      <3>2. Valid(piece, i) <=> w + i <= Upto(text, n)
        BY <1>1, ValidOfSlice
      <3>. QED BY <3>1, <3>2 DEF w
    <2>3. Sanitize(piece) = IF \A i \in DOMAIN piece : Valid(piece, i) THEN piece
                            ELSE FlattenSeq(pieces)
      BY DEF Sanitize
    <2>. HIDE DEF piece
    <2>4. 1 \in 1..(n - w) /\ n - w \in Nat
      BY <1>0, <1>1, <1>5
    <2>5. ASSUME NEW i \in 1..(n - w) PROVE Piece(i) = IF i = 1 THEN Replacement ELSE <<>>
      <3>1. i # 1 => i - 1 \in 1..(n - w)
        BY <2>4
      <3>. QED BY <2>2, <3>1
    <2>. HIDE DEF Piece
    <2>6. /\ pieces \in [1..(n - w) -> Bytes]
          /\ \A i \in 1..(n - w) : pieces[i] = IF i = 1 THEN Replacement ELSE <<>>
      BY <2>1, <2>5, ReplacementIs
    <2>. HIDE DEF pieces
    <2>7. pieces \in Seq(Bytes) /\ Len(pieces) = n - w
      BY <2>4, <2>6
    <2>8. FlattenSeq(pieces) = Replacement
      BY <2>4, <2>6, <2>7, FlattenOne, ReplacementIs
    <2>9. ~Valid(piece, 1) /\ 1 \in DOMAIN piece
      BY <2>1, <2>2, <2>4
    <2>10. Sanitize(piece) = Replacement
      BY <2>3, <2>8, <2>9
    <2>. QED BY <2>10 DEF piece
  <1>. QED BY <1>4, <1>5 DEF w

LEMMA SanitizeEmpty == Sanitize(<<>>) = <<>>
  BY DEF Sanitize

-----------------------------------------------------------------------------
(* What one write, and the result, make of a stream that was handed on up  *)
(* to n.                                                                   *)
LEMMA CutZero ==
    ASSUME NEW text \in Runes
    PROVE  Cut(text, 0) /\ 0 \in 0..Len(text)
  <1>0. Len(text) \in Nat
    BY RunesType
  <1>1. CASE Len(text) = 0
    BY <1>1 DEF Cut
  <1>2. CASE Len(text) # 0
    <2>1. 1 \in 1..Len(text)
      BY <1>0, <1>2
    <2>2. \E k \in 1..1 : RuneStart(text[k])
      BY <2>1, RuneOf
    <2>. QED BY <1>0, <2>2 DEF Cut
  <1>. QED BY <1>1, <1>2

Starts(text) == text # <<>> => RuneStart(text[1])

LEMMA StartsAtCut ==
    ASSUME NEW text \in Runes, NEW b \in 0..Len(text), NEW a \in 0..b, Cut(text, a)
    PROVE  Starts(Slice(text, a, b))
  <1>0. Len(text) \in Nat /\ text \in Bytes
    BY RunesType
  <1>1. CASE a = b
    BY <1>0, <1>1, SliceWhole DEF Starts
  <1>2. CASE a # b
    <2>1. 1 \in 1..(b - a) /\ a # Len(text)
      BY <1>0, <1>2
    <2>2. Slice(text, a, b)[1] = text[a + 1]
      BY <1>0, <2>1, SliceIs
    <2>. QED BY <2>1, <2>2 DEF Starts, Cut
  <1>. QED BY <1>1, <1>2

Joined(text, n, g) == Slice(text, Upto(text, n), n) \o Slice(text, n, g)
Complete(buf) == Len(buf) - IncompleteTailLen(buf)
Added(buf) == Sanitize(SubSeq(buf, 1, Complete(buf)))

LEMMA WriteKeeps ==
    ASSUME NEW text \in Runes, NEW g \in 0..Len(text), NEW n \in 0..g
    PROVE  /\ SubSeq(Joined(text, n, g), Complete(Joined(text, n, g)) + 1,
                     Len(Joined(text, n, g))) = Slice(text, Upto(text, g), g)
           /\ Slice(text, 0, Upto(text, n)) \o Added(Joined(text, n, g))
                  = Slice(text, 0, Upto(text, g))
           /\ Added(Joined(text, n, g)) \in Bytes /\ Starts(Added(Joined(text, n, g)))
  <1>. DEFINE buf == Joined(text, n, g)
              whole == Complete(buf)
              add == Added(buf)
  <1>a. buf = Slice(text, Upto(text, n), n) \o Slice(text, n, g)
    BY DEF Joined
  <1>b. whole = Len(buf) - IncompleteTailLen(buf)
    BY DEF Complete
  <1>c. add = Sanitize(SubSeq(buf, 1, whole))
    BY DEF Added
  <1>. HIDE DEF buf
  <1>. HIDE DEF whole
  <1>. HIDE DEF add
  <1>. DEFINE w == Upto(text, n)
              v == Upto(text, g)
  <1>0. Len(text) \in Nat /\ text \in Bytes /\ g \in Nat /\ n \in Nat /\ n \in 0..Len(text)
    BY RunesType
  <1>1. w \in 0..n /\ Cut(text, w) /\ v \in 0..g /\ \A d \in (v + 1)..g : ~Cut(text, d)
        /\ Cut(text, v)
    BY <1>0, UptoIs
  <1>2. IncompleteTailLen(Slice(text, w, g)) = g - v
    <2>. w \in 0..g
      BY <1>0, <1>1
    <2>. QED BY <1>1, HeldBackOf
  <1>3. Sanitize(Slice(text, w, v)) = Slice(text, w, v)
    <2>. w \in 0..g
      BY <1>0, <1>1
    <2>. QED BY <1>1, SanitizeOfSlice
  <1>. HIDE DEF w, v
  <1>4. w <= v /\ w \in 0..v /\ v \in 0..Len(text) /\ w \in 0..g /\ w \in 0..Len(text)
    BY <1>0, <1>1
  <1>5. buf = Slice(text, w, g)
    BY <1>a, <1>0, <1>1, SliceJoin DEF w
  <1>6. Len(buf) = g - w /\ buf \in Bytes
    BY <1>0, <1>4, <1>5, SliceIs
  <1>7. whole = v - w /\ whole + 1 = (v - w) + 1
    BY <1>b, <1>0, <1>1, <1>2, <1>4, <1>5, <1>6
  <1>8. SubSeq(buf, whole + 1, Len(buf)) = Slice(text, v, g)
    <2>1. g - w \in 0..(g - w) /\ v - w \in 0..(g - w) /\ w + (v - w) = v /\ w + (g - w) = g
      BY <1>0, <1>1, <1>4
    <2>2. Slice(Slice(text, w, g), v - w, g - w) = Slice(text, w + (v - w), w + (g - w))
      BY <1>0, <1>4, <2>1, SliceOfSlice
    <2>. QED BY <1>5, <1>6, <1>7, <2>1, <2>2 DEF Slice
  <1>9. SubSeq(buf, 1, whole) = Slice(text, w, v)
    <2>1. v - w \in 0..(g - w) /\ 0 \in 0..(v - w) /\ w + (v - w) = v /\ w + 0 = w
          /\ 0 + 1 = 1
      BY <1>0, <1>1, <1>4
    <2>2. Slice(Slice(text, w, g), 0, v - w) = Slice(text, w + 0, w + (v - w))
      BY <1>0, <1>4, <2>1, SliceOfSlice
    <2>3. Slice(buf, 0, whole) = Slice(text, w, v)
      BY <1>5, <1>7, <2>1, <2>2
    <2>4. Slice(buf, 0, whole) = SubSeq(buf, 1, whole)
      BY <2>1 DEF Slice
    <2>. QED BY <2>3, <2>4
  <1>10. add = Slice(text, w, v)
    BY <1>c, <1>3, <1>9
  <1>11. Slice(text, 0, w) \o add = Slice(text, 0, v)
    <2>. 0 \in 0..w
      BY <1>0, <1>1
    <2>. QED BY <1>0, <1>4, <1>10, SliceJoin
  <1>12. add \in Bytes /\ Starts(add)
    <2>1. Slice(text, w, v) \in Bytes
      BY <1>0, <1>4, SliceIs
    <2>2. Starts(Slice(text, w, v))
      BY <1>1, <1>4, StartsAtCut
    <2>. QED BY <1>10, <2>1, <2>2
  <1>. QED BY <1>8, <1>11, <1>12 DEF w, v, buf, whole, add

LEMMA ResultKeeps ==
    ASSUME NEW text \in Runes, NEW n \in 0..Len(text),
           NEW add, add = Sanitize(Slice(text, Upto(text, n), n))
    PROVE  /\ Slice(text, 0, Upto(text, n)) \o add =
                  IF Upto(text, n) = n THEN Slice(text, 0, Upto(text, n))
                  ELSE Slice(text, 0, Upto(text, n)) \o Replacement
           /\ add \in Bytes /\ Starts(add)
  <1>0. Len(text) \in Nat /\ text \in Bytes /\ n \in Nat
    BY RunesType
  <1>. DEFINE w == Upto(text, n)
  <1>1. w \in 0..n /\ Cut(text, w)
    BY UptoIs
  <1>2. w < n => add = Replacement
    BY <1>1, SanitizeOfSlice
  <1>. HIDE DEF w
  <1>3. w \in 0..Len(text) /\ 0 \in 0..w
    BY <1>0, <1>1
  <1>4. Slice(text, 0, w) \in Bytes
    BY <1>0, <1>3, SliceIs
  <1>5. CASE w = n
    <2>1. add = <<>>
      BY <1>0, <1>5, SliceWhole, SanitizeEmpty DEF w
    <2>2. Slice(text, 0, w) \o add = Slice(text, 0, w)
      BY <1>4, <2>1, ConcatEmptySeq DEF Bytes
    <2>. QED BY <1>5, <2>1, <2>2, ReplacementIs DEF Starts, w
  <1>6. CASE w # n
    <2>1. add = Replacement
      BY <1>0, <1>1, <1>2, <1>6
    <2>2. Starts(Replacement)
      BY DEF Starts, Replacement, RuneStart
    <2>. QED BY <1>6, <2>1, <2>2, ReplacementIs DEF w
  <1>. QED BY <1>5, <1>6

-----------------------------------------------------------------------------
(* The aggregate stays the end of what was recorded.                       *)
Short(text, c) == TailBytes = 0 \/ Len(text) - c <= TailBytes

LEMMA IsTailIs ==
    ASSUME NEW end, NEW text
    PROVE  IsTail(end, text) <=>
               \E c \in 0..Len(text) :
                   /\ end = Slice(text, c, Len(text)) /\ Cut(text, c) /\ Short(text, c)
                   /\ \A d \in 0..(c - 1) : ~(Cut(text, d) /\ Short(text, d))
  BY DEF IsTail, Slice, Cut, Short

LEMMA TailOfJoin ==
    ASSUME NEW kept, NEW text \in Bytes, NEW add \in Bytes, IsTail(kept, text), Starts(add)
    PROVE  IsTail(TailAppend(kept, add), text \o add)
  <1>. DEFINE full == text \o add
              N == Len(text)
              M == Len(add)
              all == kept \o add
  <1>0. TailBytes \in Nat /\ N \in Nat /\ M \in Nat
    BY TailAssumption, LenProperties DEF Bytes
  <1>1. PICK c \in 0..N : /\ kept = Slice(text, c, N) /\ Cut(text, c) /\ Short(text, c)
                          /\ \A d \in 0..(c - 1) : ~(Cut(text, d) /\ Short(text, d))
    BY IsTailIs
  <1>2. /\ full \in Bytes /\ Len(full) = N + M
        /\ \A i \in 1..(N + M) : full[i] = IF i <= N THEN text[i] ELSE add[i - N]
    BY ConcatProperties DEF Bytes
  <1>3. /\ kept \in Bytes /\ Len(kept) = N - c
        /\ \A i \in 1..(N - c) : kept[i] = text[c + i]
    <2>1. N \in 0..Len(text) /\ c \in 0..N
      BY <1>0, <1>1
    <2>. HIDE DEF N
    <2>. QED BY <1>1, <2>1, SliceIs, ZenonT(30)
  <1>4. /\ all \in Bytes /\ Len(all) = N + M - c
        /\ \A i \in 1..(N - c + M) : all[i] = IF i <= N - c THEN kept[i] ELSE add[i - (N - c)]
    <2>1. /\ all \in Bytes /\ Len(all) = Len(kept) + Len(add)
          /\ \A i \in 1..(Len(kept) + Len(add)) :
                 all[i] = IF i <= Len(kept) THEN kept[i] ELSE add[i - Len(kept)]
      BY <1>3, ConcatProperties DEF Bytes
    <2>2. Len(kept) + Len(add) = N - c + M /\ N - c + M = N + M - c
      BY <1>0, <1>3
    <2>. QED BY <1>3, <2>1, <2>2
  <1>5. M # 0 => RuneStart(add[1])
    BY EmptySeq DEF Starts, Bytes
  <1>6. TailAppend(kept, add) =
            LET cuts == {d \in (Len(all) - TailBytes)..Len(all) : Cut(all, d)}
            IN  IF TailBytes = 0 \/ Len(all) <= TailBytes THEN all
                ELSE Slice(all, Min(cuts), Len(all))
    BY DEF TailAppend, Cut, Slice
  <1>. HIDE DEF full, N, M, all
  <1>7. ASSUME NEW d \in 0..N PROVE Cut(full, d) <=> Cut(text, d)
    <2>1. CASE d < N
      <3>1. d + 1 \in 1..(N + M) /\ d + 1 <= N /\ d # N /\ d # N + M
        BY <1>0, <2>1
      <3>2. full[d + 1] = text[d + 1]
        BY <1>2, <3>1
      <3>. QED BY <1>2, <3>1, <3>2 DEF Cut, N
    <2>2. CASE d = N
      <3>1. CASE M = 0
        BY <1>0, <1>2, <2>2, <3>1 DEF Cut, N
      <3>2. CASE M # 0
        <4>1. N + 1 \in 1..(N + M) /\ ~(N + 1 <= N) /\ (N + 1) - N = 1
          BY <1>0, <3>2
        <4>2. full[N + 1] = add[1]
          BY <1>2, <4>1
        <4>. QED BY <1>5, <2>2, <3>2, <4>2 DEF Cut, N
      <3>. QED BY <3>1, <3>2
    <2>. QED BY <1>0, <2>1, <2>2
  <1>8. all = Slice(full, c, Len(full))
    <2>1. Len(full) \in 0..Len(full) /\ c \in 0..Len(full) /\ Len(full) - c = N + M - c
      BY <1>0, <1>2
    <2>2. /\ Slice(full, c, Len(full)) \in Bytes /\ Len(Slice(full, c, Len(full))) = N + M - c
          /\ \A i \in 1..(N + M - c) : Slice(full, c, Len(full))[i] = full[c + i]
      <3>1. /\ Slice(full, c, Len(full)) \in Bytes
            /\ Len(Slice(full, c, Len(full))) = Len(full) - c
            /\ \A i \in 1..(Len(full) - c) : Slice(full, c, Len(full))[i] = full[c + i]
        BY <1>2, <2>1, SliceIs
      <3>. QED BY <2>1, <3>1
    <2>3. ASSUME NEW i \in 1..(N + M - c) PROVE all[i] = Slice(full, c, Len(full))[i]
      <3>1. c + i \in 1..(N + M) /\ i \in 1..(N - c + M)
        BY <1>0
      <3>2. CASE i <= N - c
        <4>1. i \in 1..(N - c) /\ c + i <= N
          BY <1>0, <3>2
        <4>2. all[i] = text[c + i]
          BY <1>3, <1>4, <3>1, <3>2, <4>1
        <4>3. full[c + i] = text[c + i]
          BY <1>2, <3>1, <4>1
        <4>. QED BY <2>2, <4>2, <4>3
      <3>3. CASE ~(i <= N - c)
        <4>1. ~(c + i <= N) /\ c + i - N = i - (N - c)
          BY <1>0, <3>3
        <4>2. all[i] = add[i - (N - c)]
          BY <1>4, <3>1, <3>3
        <4>3. full[c + i] = add[c + i - N]
          BY <1>0, <1>2, <3>1, <4>1
        <4>. QED BY <2>2, <4>1, <4>2, <4>3
      <3>. QED BY <3>2, <3>3
    <2>. QED BY <1>4, <2>2, <2>3, SeqEqual DEF Bytes
  <1>9. CASE TailBytes = 0 \/ Len(all) <= TailBytes
    <2>1. TailAppend(kept, add) = Slice(full, c, Len(full))
      BY <1>2, <1>6, <1>8, <1>9
    <2>2. c \in 0..Len(full) /\ Cut(full, c)
      BY <1>0, <1>1, <1>2, <1>7
    <2>3. Short(full, c)
      BY <1>0, <1>2, <1>4, <1>9 DEF Short
    <2>4. ASSUME NEW d \in 0..(c - 1) PROVE ~(Cut(full, d) /\ Short(full, d))
      <3>1. d \in 0..N /\ ~(Cut(text, d) /\ Short(text, d))
        BY <1>0, <1>1
      <3>2. Short(full, d) => Short(text, d)
        BY <1>0, <1>2 DEF Short, N
      <3>. QED BY <1>7, <3>1, <3>2
    <2>. QED BY <2>1, <2>2, <2>3, <2>4, IsTailIs DEF full
  <1>10. CASE ~(TailBytes = 0 \/ Len(all) <= TailBytes)
    <2>. DEFINE L == Len(all)
                cuts == {d \in (L - TailBytes)..L : Cut(all, d)}
                m == Min(cuts)
    <2>0. L \in Nat /\ L = N + M - c /\ L > TailBytes /\ TailBytes > 0
      BY <1>0, <1>4, <1>10
    <2>1. TailAppend(kept, add) = Slice(all, m, L)
      BY <1>6, <1>10
    <2>2. L \in cuts
      BY <2>0, <1>0 DEF Cut
    <2>. HIDE DEF L
    <2>3. m \in cuts /\ \A y \in cuts : m <= y
      <3>1. cuts \subseteq Nat
        BY <1>0, <2>0
      <3>. HIDE DEF cuts
      <3>. QED BY <2>2, <3>1, LeastIn
    <2>4. /\ m \in (L - TailBytes)..L /\ Cut(all, m)
          /\ \A d \in (L - TailBytes)..(m - 1) : ~Cut(all, d)
      <3>1. m \in (L - TailBytes)..L /\ Cut(all, m)
        BY <2>3
      <3>2. ASSUME NEW d \in (L - TailBytes)..(m - 1), Cut(all, d) PROVE FALSE
        <4>1. d \in cuts /\ d < m
          <5>. HIDE DEF m
          <5>. QED BY <1>0, <2>0, <3>1, <3>2
        <4>. HIDE DEF m, cuts
        <4>. QED BY <2>0, <1>0, <2>3, <4>1, <3>1
      <3>. QED BY <3>1, <3>2
    <2>. HIDE DEF m, cuts
    <2>5. ASSUME NEW d \in 0..L PROVE Cut(all, d) <=> Cut(full, c + d)
      <3>1. Len(full) \in 0..Len(full) /\ c \in 0..Len(full) /\ Len(full) - c = N + M - c
        BY <1>0, <1>2
      <3>2. \A i \in 1..(N + M - c) : all[i] = full[c + i]
        <4>1. \A i \in 1..(Len(full) - c) : Slice(full, c, Len(full))[i] = full[c + i]
          BY <1>2, <3>1, SliceIs
        <4>. QED BY <1>8, <3>1, <4>1
      <3>3. CASE d = L
        BY <1>0, <1>2, <2>0, <3>3 DEF Cut, L
      <3>4. CASE d # L
        <4>1. d + 1 \in 1..(N + M - c) /\ c + d # N + M /\ c + (d + 1) = c + d + 1
          BY <1>0, <2>0, <3>4
        <4>2. all[d + 1] = full[c + d + 1]
          BY <3>2, <4>1
        <4>. QED BY <1>2, <3>4, <4>1, <4>2 DEF Cut, L
      <3>. QED BY <3>3, <3>4
    <2>6. c + m \in 0..Len(full) /\ m \in 0..L
      BY <1>0, <1>2, <2>0, <2>4
    <2>7. TailAppend(kept, add) = Slice(full, c + m, Len(full))
      <3>1. L \in 0..(Len(full) - c) /\ m \in 0..L /\ c \in 0..Len(full)
            /\ Len(full) \in 0..Len(full) /\ c + L = Len(full)
        BY <1>0, <1>2, <2>0, <2>6
      <3>2. Slice(Slice(full, c, Len(full)), m, L) = Slice(full, c + m, c + L)
        BY <1>2, <3>1, SliceOfSlice
      <3>. QED BY <1>2, <1>8, <2>1, <3>1, <3>2
    <2>8. Cut(full, c + m)
      BY <2>4, <2>5, <2>6
    <2>9. Short(full, c + m)
      BY <1>0, <1>2, <2>0, <2>4 DEF Short
    <2>. DEFINE e == c + m
    <2>10. \A d \in 0..(e - 1) : ~(Cut(full, d) /\ Short(full, d))
      <3>. SUFFICES ASSUME NEW d \in 0..(e - 1), Cut(full, d), Short(full, d) PROVE FALSE
        OBVIOUS
      <3>1. N + M - d <= TailBytes
        BY <1>0, <1>2, <2>0 DEF Short
      <3>2. d - c \in (L - TailBytes)..(m - 1) /\ d - c \in 0..L /\ c + (d - c) = d
        BY <1>0, <2>0, <2>4, <2>6, <3>1
      <3>3. Cut(all, d - c)
        BY <2>5, <3>2
      <3>. QED BY <2>4, <3>2, <3>3
    <2>12. e \in 0..Len(full) /\ TailAppend(kept, add) = Slice(full, e, Len(full))
           /\ Cut(full, e) /\ Short(full, e)
      BY <2>6, <2>7, <2>8, <2>9
    <2>. HIDE DEF e
    <2>13. IsTail(TailAppend(kept, add), full)
      BY <2>10, <2>12, IsTailIs
    <2>. QED BY <2>13 DEF full
  <1>. QED BY <1>9, <1>10

(* The log has no more and no less than the whole runes.                   *)
LEMMA TextIsRunes == \A s \in Stream : Text[s] \in Runes
  <1>. SUFFICES ASSUME NEW s \in Stream PROVE Text[s] \in Runes
    OBVIOUS
  <1>1. DOMAIN Text[s] = 1..Len(Text[s]) /\ Text[s] \in Bytes
    BY TextIsBytes, LenProperties DEF Bytes
  <1>. QED BY <1>1, TextAssumption DEF Runes

LEMMA WholeRunesIs ==
    ASSUME NEW s \in Stream, NEW n \in 0..Len(Text[s])
    PROVE  /\ WholeRunes(s, n) = Slice(Text[s], 0, Upto(Text[s], n))
           /\ Len(WholeRunes(s, n)) = Upto(Text[s], n)
  <1>. DEFINE text == Text[s]
              cut == SubSeq(text, 1, n)
              w == Upto(text, n)
              valid == {i \in DOMAIN cut : Valid(cut, i)}
  <1>0. text \in Runes /\ text \in Bytes /\ Len(text) \in Nat
    BY TextIsRunes, RunesType
  <1>. HIDE DEF text
  <1>1. w \in 0..n /\ Cut(text, 0) /\ 0 \in 0..n /\ n \in 0..Len(text) /\ w \in 0..Len(text)
        /\ 0 \in 0..w
    <2>1. w \in 0..n /\ Cut(text, 0) /\ n \in 0..Len(text)
      BY <1>0, UptoIs, CutZero DEF text
    <2>. HIDE DEF w
    <2>. QED BY <1>0, <2>1
  <1>2. cut = Slice(text, 0, n)
    BY DEF Slice
  <1>. HIDE DEF cut
  <1>3. DOMAIN cut = 1..n
    BY <1>0, <1>1, <1>2, SliceIs
  <1>4. ASSUME NEW i \in 1..n PROVE Valid(cut, i) <=> i <= w
    <2>1. i \in 1..(n - 0) /\ 0 + i = i
      BY <1>0
    <2>. HIDE DEF w
    <2>2. Valid(Slice(text, 0, n), i) <=> 0 + i <= Upto(text, n)
      BY <1>0, <1>1, <2>1, ValidOfSlice
    <2>. QED BY <1>2, <2>1, <2>2 DEF w
  <1>. HIDE DEF w
  <1>5. valid = 1..w
    BY <1>0, <1>1, <1>3, <1>4
  <1>6. Cardinality(valid) = w
    <2>1. Cardinality(1..w) = IF 1 > w THEN 0 ELSE w - 1 + 1
      BY <1>0, <1>1, FS_Interval
    <2>2. w \in Nat
      BY <1>0, <1>1
    <2>. HIDE DEF valid
    <2>. QED BY <1>5, <2>1, <2>2
  <1>7. WholeRunes(s, n) = SubSeq(cut, 1, w)
    BY <1>6 DEF WholeRunes, cut, text
  <1>8. SubSeq(cut, 1, w) = Slice(cut, 0, w)
    BY DEF Slice
  <1>9. Slice(cut, 0, w) = Slice(text, 0, w)
    <2>1. w \in 0..(n - 0) /\ 0 + 0 = 0 /\ 0 + w = w
      BY <1>1, <1>0
    <2>2. Slice(Slice(text, 0, n), 0, w) = Slice(text, 0 + 0, 0 + w)
      BY <1>0, <1>1, <2>1, SliceOfSlice
    <2>. QED BY <1>2, <2>1, <2>2
  <1>10. Len(Slice(text, 0, w)) = w
    <2>1. Len(Slice(text, 0, w)) = w - 0
      BY <1>0, <1>1, SliceIs
    <2>. QED BY <1>0, <1>1, <2>1
  <1>. QED BY <1>7, <1>8, <1>9, <1>10 DEF text, w

-----------------------------------------------------------------------------
(* DrainInv: a reader is done once it has read all there will be, the      *)
(* waiter goes on once both are, and only then does run end with "done".   *)
DrainInv ==
    /\ \A s \in Stream : reader[s] = "done" =>
           given[s] = fed[s] /\ (~Writing \/ line = "closed")
    /\ \A s \in Stream : reader[s] # "write" => chunk[s] = <<>>
    /\ waiter \notin {"none", "readers"} => ReadersDone
    /\ why = "done" => waiter = "sent"

(* TextInv: what was read and not handed on is the chunk of the reader;    *)
(* of what was handed on, the whole runes were recorded and the beginning  *)
(* of the next is pending.                                                 *)
Handed(s) == given[s] - Len(chunk[s])

PieceInv(s) ==
    Handed(s) \in 0..given[s] /\ chunk[s] = Slice(Text[s], Handed(s), given[s])

LogInv(s) ==
    /\ ~sealed =>
           /\ pending[s] = Slice(Text[s], Upto(Text[s], Handed(s)), Handed(s))
           /\ Output(s) = Slice(Text[s], 0, Upto(Text[s], Handed(s)))
    /\ sealed => \E n \in 0..given[s] : Output(s) = GivenUp(s, n)
    /\ sealed /\ why = "done" => Output(s) = GivenUp(s, fed[s])
    /\ IsTail(tail[s], Output(s))

TextInv ==
    /\ MarkInv /\ DrainInv
    /\ DOMAIN tail = Stream
    /\ \A s \in Stream : PieceInv(s) /\ LogInv(s)

LEMMA DrainStep ==
    ASSUME MarkInv, DrainInv, [Next]_vars
    PROVE  DrainInv'
  <1>. USE DEF DrainInv, ReadersDone, Writing
  <1>1. CASE UNCHANGED vars
    BY <1>1 DEF vars, processVars, readerVars, controlVars
  <1>2. CASE StartFails \/ Begin
    BY <1>2 DEF MarkInv, Steps, StartFails, Begin, processVars, readerVars
  <1>3. ASSUME NEW s \in Stream, Feed(s) PROVE DrainInv'
    BY <1>3 DEF MarkInv, Reading, Feed, readerVars, controlVars
  <1>4. CASE Fork \/ ProcessEnds \/ Die \/ Hangup
    BY <1>4 DEF Fork, ProcessEnds, Die, Hangup, readerVars, controlVars
  <1>5. ASSUME NEW s \in Stream, ReaderStep(s) PROVE DrainInv'
    <2>1. CASE Read(s)
      BY <2>1 DEF MarkInv, Streams, Reading, Read, processVars, controlVars
    <2>2. CASE Deliver(s)
      BY <2>2 DEF MarkInv, Streams, Deliver, processVars, controlVars
    <2>3. CASE EndOfStream(s)
      BY <2>3 DEF MarkInv, EndOfStream, processVars, controlVars
    <2>. QED BY <1>5, <2>1, <2>2, <2>3 DEF ReaderStep
  <1>6. CASE WaiterStep
    BY <1>6 DEF WaiterStep, ReadersEnded, Reap, SessionOver, SetReaped, SendDone,
                processVars, readerVars, controlVars
  <1>7. CASE SelectDone \/ SelectTimeout \/ SelectCancel \/ Late \/ Cancel
    BY <1>7 DEF SelectDone, SelectTimeout, SelectCancel, Late, Cancel, processVars, readerVars
  <1>8. CASE Kill \/ Leave
    BY <1>8 DEF Kill, Leave, readerVars
  <1>9. CASE Seal \/ MarkCanceled
    BY <1>9 DEF Seal, MarkCanceled, processVars, readerVars
  <1>. QED
    BY <1>1, <1>2, <1>3, <1>4, <1>5, <1>6, <1>7, <1>8, <1>9 DEF Next, MainStep

(* Until the caller's mark, the output is the log.                         *)
LEMMA NoMarkYet ==
    ASSUME NEW text \in Bytes, Len(text) > 0
    PROVE  text[Len(text)] # "mark"
  <1>1. Len(text) \in 1..Len(text)
    BY LenProperties DEF Bytes
  <1>2. text[Len(text)] \in Byte
    BY <1>1, ElementOfSeq DEF Bytes
  <1>. QED BY <1>2 DEF Byte, RuneLen

LEMMA OutputIsLog ==
    ASSUME Unmarked, NEW s \in Stream
    PROVE  Output(s) = log[s]
  BY NoMarkYet DEF Unmarked, Streams, Output

LEMMA TextInit == Init => TextInv
  <1>. SUFFICES ASSUME Init PROVE TextInv
    OBVIOUS
  <1>1. MarkInv
    BY MarkInit
  <1>2. DrainInv
    BY DEF Init, DrainInv
  <1>3. ASSUME NEW s \in Stream PROVE PieceInv(s) /\ LogInv(s)
    <2>0. Text[s] \in Runes /\ Text[s] \in Bytes /\ Len(Text[s]) \in Nat
      BY TextIsRunes, RunesType
    <2>1. given[s] = 0 /\ chunk[s] = <<>> /\ Len(<<>>) = 0 /\ log[s] = <<>> /\ tail[s] = <<>>
          /\ pending[s] = <<>> /\ ~sealed
      BY EmptySeq DEF Init, CaptureInit
    <2>2. Handed(s) = 0 /\ 0 \in 0..Len(Text[s])
      <3>1. Len(chunk[s]) = 0
        BY <2>1
      <3>2. given[s] = 0
        BY <2>1
      <3>. QED BY <2>0, <3>1, <3>2 DEF Handed
    <2>3. Slice(Text[s], 0, 0) = <<>>
      BY <2>0, <2>2, SliceWhole
    <2>4. Upto(Text[s], 0) = 0
      BY <2>0, CutZero DEF Upto
    <2>5. Output(s) = <<>>
      BY <2>1 DEF Output
    <2>6. IsTail(<<>>, <<>>)
      BY TailAssumption, EmptySeq, SubSeqEmpty DEF IsTail
    <2>. QED BY <2>1, <2>2, <2>3, <2>4, <2>5, <2>6 DEF PieceInv, LogInv
  <1>4. DOMAIN tail = Stream
    BY DEF Init, CaptureInit
  <1>. QED BY <1>1, <1>2, <1>3, <1>4 DEF TextInv

(* What leaves the capture and the reads alone.                            *)
LEMMA TextKept ==
    ASSUME TextInv, NEW s \in Stream,
           UNCHANGED <<captureVars, given, chunk>>,
           sealed => why' = why, sealed /\ why = "done" => fed'[s] = fed[s]
    PROVE  PieceInv(s)' /\ LogInv(s)'
  <1>1. Handed(s)' = Handed(s) /\ Output(s)' = Output(s)
    BY DEF Handed, Output, captureVars
  <1>2. sealed' = sealed /\ tail' = tail /\ pending' = pending /\ given' = given /\ chunk' = chunk
    BY DEF captureVars
  <1>3. PieceInv(s)'
    BY <1>1, <1>2 DEF TextInv, PieceInv
  <1>4. LogInv(s)
    BY DEF TextInv
  <1>5. /\ ~sealed' => /\ pending'[s] = Slice(Text[s], Upto(Text[s], Handed(s)'), Handed(s)')
                       /\ Output(s)' = Slice(Text[s], 0, Upto(Text[s], Handed(s)'))
        /\ IsTail(tail'[s], Output(s)')
    BY <1>1, <1>2, <1>4 DEF LogInv
  <1>6. sealed' => \E n \in 0..given'[s] : Output(s)' = GivenUp(s, n)
    BY <1>1, <1>2, <1>4 DEF LogInv
  <1>7. sealed' /\ why' = "done" => Output(s)' = GivenUp(s, fed'[s])
    BY <1>1, <1>2, <1>4 DEF LogInv
  <1>. QED BY <1>3, <1>5, <1>6, <1>7 DEF LogInv

LEMMA TextQuiet ==
    ASSUME TextInv, NEW s \in Stream,
           \/ UNCHANGED vars \/ StartFails \/ Begin \/ \E t \in Stream : Feed(t) \/ EndOfStream(t)
           \/ Fork \/ ProcessEnds \/ Die \/ Hangup \/ WaiterStep \/ Late \/ Cancel
           \/ SelectDone \/ SelectTimeout \/ SelectCancel \/ Kill \/ Leave
    PROVE  PieceInv(s)' /\ LogInv(s)'
  <1>. USE DEF processVars, readerVars, controlVars
  <1>0. MarkInv /\ DrainInv
    BY DEF TextInv
  <1>1. CASE UNCHANGED vars
    BY <1>1, TextKept DEF vars
  <1>2. CASE StartFails \/ Begin
    <2>1. ~sealed /\ UNCHANGED <<captureVars, given, chunk>>
      BY <1>0, <1>2 DEF MarkInv, Steps, StartFails, Begin
    <2>. QED BY <2>1, TextKept
  <1>3. ASSUME NEW t \in Stream, Feed(t) PROVE PieceInv(s)' /\ LogInv(s)'
    <2>1. UNCHANGED <<captureVars, given, chunk, why>>
      BY <1>3 DEF Feed
    <2>2. why = "done" => FALSE
      BY <1>0, <1>3 DEF DrainInv, ReadersDone, Feed
    <2>. QED BY <2>1, <2>2, TextKept
  <1>4. ASSUME NEW t \in Stream, EndOfStream(t) PROVE PieceInv(s)' /\ LogInv(s)'
    BY <1>4, TextKept DEF EndOfStream
  <1>5. CASE Fork \/ ProcessEnds \/ Die \/ Hangup
    <2>. UNCHANGED <<captureVars, given, chunk, why, fed>>
      BY <1>5 DEF Fork, ProcessEnds, Die, Hangup
    <2>. QED BY TextKept
  <1>6. CASE WaiterStep \/ Late \/ Cancel
    <2>. UNCHANGED <<captureVars, given, chunk, why, fed>>
      BY <1>6 DEF WaiterStep, ReadersEnded, Reap, SessionOver, SetReaped, SendDone, Late, Cancel
    <2>. QED BY TextKept
  <1>7. CASE SelectDone \/ SelectTimeout \/ SelectCancel
    <2>. ~sealed /\ UNCHANGED <<captureVars, given, chunk>>
      BY <1>0, <1>7 DEF MarkInv, Steps, SelectDone, SelectTimeout, SelectCancel
    <2>. QED BY TextKept
  <1>8. CASE Kill \/ Leave
    <2>. UNCHANGED <<captureVars, given, chunk, why, fed>>
      BY <1>8 DEF Kill, Leave
    <2>. QED BY TextKept
  <1>. QED
    BY <1>1, <1>2, <1>3, <1>4, <1>5, <1>6, <1>7, <1>8

(* A read hands nothing on.                                                *)
LEMMA TextRead ==
    ASSUME TextInv, NEW t \in Stream, Read(t), NEW s \in Stream
    PROVE  PieceInv(s)' /\ LogInv(s)'
  <1>0. MarkInv /\ DrainInv /\ PieceInv(s) /\ LogInv(s)
    BY DEF TextInv
  <1>1. Text[s] \in Bytes /\ Len(Text[s]) \in Nat
    BY TextIsBytes
  <1>2. given[s] \in Nat /\ fed[s] \in Nat /\ given[s] <= fed[s] /\ fed[s] <= Len(Text[s])
    BY <1>0 DEF MarkInv, Reading
  <1>3. UNCHANGED <<captureVars, why, fed>> /\ Output(s)' = Output(s)
    BY DEF Read, controlVars, processVars, captureVars, Output
  <1>4. /\ PieceInv(s)' /\ Handed(s)' = Handed(s)
        /\ given'[s] \in Nat /\ given[s] <= given'[s]
    <2>1. CASE s = t
      <3>1. chunk[s] = <<>> /\ given[s] < fed[s]
            /\ chunk'[s] = Slice(Text[s], given[s], fed[s]) /\ given'[s] = fed[s]
        BY <1>0, <2>1 DEF Read, DrainInv, MarkInv, Streams, Reading, Slice
      <3>2. Len(<<>>) = 0
        BY EmptySeq
      <3>3. Handed(s) = given[s]
        BY <1>2, <3>1, <3>2 DEF Handed
      <3>4. fed[s] \in 0..Len(Text[s]) /\ given[s] \in 0..fed[s]
        BY <1>1, <1>2
      <3>5. Len(chunk'[s]) = fed[s] - given[s]
        BY <1>1, <3>1, <3>4, SliceIs
      <3>6. Handed(s)' = given[s]
        BY <1>2, <3>1, <3>5 DEF Handed
      <3>. QED BY <1>2, <3>1, <3>3, <3>4, <3>6 DEF PieceInv
    <2>2. CASE s # t
      <3>1. chunk'[s] = chunk[s] /\ given'[s] = given[s]
        BY <1>0, <2>2 DEF Read, MarkInv, Streams, Reading
      <3>2. Handed(s)' = Handed(s)
        BY <3>1 DEF Handed
      <3>. QED BY <1>0, <1>2, <3>1, <3>2 DEF PieceInv
    <2>. QED BY <2>1, <2>2
  <1>5. /\ ~sealed' => /\ pending'[s] = Slice(Text[s], Upto(Text[s], Handed(s)'), Handed(s)')
                       /\ Output(s)' = Slice(Text[s], 0, Upto(Text[s], Handed(s)'))
        /\ IsTail(tail'[s], Output(s)')
        /\ sealed' /\ why' = "done" => Output(s)' = GivenUp(s, fed'[s])
    BY <1>0, <1>3, <1>4 DEF LogInv, captureVars
  <1>6. sealed' => \E n \in 0..given'[s] : Output(s)' = GivenUp(s, n)
    <2>. SUFFICES ASSUME sealed PROVE \E n \in 0..given'[s] : Output(s)' = GivenUp(s, n)
      BY <1>3 DEF captureVars
    <2>1. PICK n \in 0..given[s] : Output(s) = GivenUp(s, n)
      BY <1>0 DEF LogInv
    <2>2. n \in 0..given'[s]
      BY <1>2, <1>4
    <2>. QED BY <1>3, <2>1, <2>2
  <1>. QED BY <1>4, <1>5, <1>6 DEF LogInv

(* A chunk completes the rune that was pending and may begin another.      *)
LEMMA TextDeliver ==
    ASSUME TextInv, NEW t \in Stream, Deliver(t), NEW s \in Stream
    PROVE  PieceInv(s)' /\ LogInv(s)'
  <1>0. MarkInv /\ DrainInv /\ PieceInv(s) /\ LogInv(s) /\ DOMAIN tail = Stream
    BY DEF TextInv
  <1>1. Text[s] \in Runes /\ Text[s] \in Bytes /\ Len(Text[s]) \in Nat
    BY TextIsRunes, RunesType
  <1>2. given[s] \in Nat /\ given[s] \in 0..Len(Text[s])
    BY <1>0, <1>1 DEF MarkInv, Reading
  <1>3. UNCHANGED <<sealed, why, fed, given>>
    BY DEF Deliver, Write, captureVars, controlVars, processVars
  <1>4. chunk'[s] = IF s = t THEN <<>> ELSE chunk[s]
    BY <1>0 DEF Deliver, MarkInv, Streams
  <1>5. PieceInv(s)' /\ Handed(s)' = IF s = t THEN given[s] ELSE Handed(s)
    <2>1. CASE s = t
      <3>1. Handed(s)' = given[s]
        BY <1>2, <1>3, <1>4, <2>1, EmptySeq DEF Handed
      <3>2. Slice(Text[s], given[s], given[s]) = <<>>
        BY <1>1, <1>2, SliceWhole
      <3>. QED BY <1>2, <1>3, <1>4, <2>1, <3>1, <3>2 DEF PieceInv
    <2>2. CASE s # t
      <3>1. Handed(s)' = Handed(s)
        BY <1>3, <1>4, <2>2 DEF Handed
      <3>. QED BY <1>0, <1>3, <1>4, <2>2, <3>1 DEF PieceInv
    <2>. QED BY <2>1, <2>2
  <1>6. CASE sealed
    <2>1. UNCHANGED captureVars
      BY <1>6 DEF Deliver, Write
    <2>2. Output(s)' = Output(s) /\ sealed' /\ tail' = tail
      BY <1>6, <2>1 DEF captureVars, Output
    <2>. QED BY <1>0, <1>3, <1>5, <1>6, <2>2 DEF LogInv
  <1>7. CASE ~sealed
    <2>1. Unmarked
      <3>. reader[t] = "write"
        BY DEF Deliver
      <3>. main # "end"
        BY <1>0, <1>7 DEF MarkInv, Steps
      <3>. QED BY <1>0 DEF MarkInv
    <2>2. Unmarked'
      BY <1>0, <2>1, WriteUnmarked DEF Deliver, MarkInv, Streams
    <2>3. Output(s) = log[s] /\ Output(s)' = log'[s]
      BY <2>1, <2>2, OutputIsLog, NoMarkYet DEF Output, Unmarked, Streams
    <2>4. CASE s # t
      <3>1. log'[s] = log[s] /\ tail'[s] = tail[s] /\ pending'[s] = pending[s]
        BY <1>7, <2>1, <2>4, <1>0 DEF Deliver, Write, Emit, Unmarked, Streams
      <3>. QED BY <1>0, <1>3, <1>5, <1>7, <2>3, <2>4, <3>1 DEF LogInv
    <2>5. CASE s = t
      <3>. DEFINE text == Text[s]
                  g == given[s]
                  n == Handed(s)
                  buf == pending[s] \o chunk[s]
                  whole == Complete(buf)
                  add == Added(buf)
      <3>1. /\ pending'[s] = SubSeq(buf, whole + 1, Len(buf))
            /\ log'[s] = log[s] \o add
            /\ tail'[s] = TailAppend(tail[s], add)
        BY <1>7, <2>1, <2>5, <1>0
        DEF Deliver, Write, Emit, Unmarked, Streams, Complete, Added
      <3>2. text \in Runes /\ g \in 0..Len(text) /\ n \in 0..g
        BY <1>0, <1>1, <1>2 DEF PieceInv
      <3>3. buf = Slice(text, Upto(text, n), n) \o Slice(text, n, g)
        BY <1>0, <1>7 DEF LogInv, PieceInv
      <3>4. log[s] = Slice(text, 0, Upto(text, n)) /\ log[s] \in Bytes /\ IsTail(tail[s], log[s])
        BY <1>0, <1>7, <2>1, <2>3 DEF LogInv, Unmarked, Streams
      <3>. HIDE DEF text, g, n, buf
      <3>7. /\ SubSeq(buf, whole + 1, Len(buf)) = Slice(text, Upto(text, g), g)
            /\ Slice(text, 0, Upto(text, n)) \o add = Slice(text, 0, Upto(text, g))
            /\ add \in Bytes /\ Starts(add)
        <4>1. buf = Joined(text, n, g)
          BY <3>3 DEF Joined
        <4>. QED BY <3>2, <4>1, WriteKeeps
      <3>. HIDE DEF add, whole
      <3>8. IsTail(TailAppend(tail[s], add), log[s] \o add)
        BY <3>4, <3>7, TailOfJoin
      <3>9. Handed(s)' = g
        BY <1>5, <2>5 DEF g
      <3>. QED BY <1>3, <1>5, <1>7, <2>3, <3>1, <3>4, <3>7, <3>8, <3>9 DEF LogInv, text
    <2>. QED BY <2>4, <2>5
  <1>. QED BY <1>6, <1>7

(* The result gives up on the beginning of a rune that is pending; after   *)
(* the end of both streams there is nothing left to be handed on.          *)
LEMMA TextSeal ==
    ASSUME TextInv, Seal, NEW s \in Stream
    PROVE  PieceInv(s)' /\ LogInv(s)'
  <1>0. MarkInv /\ DrainInv /\ PieceInv(s) /\ LogInv(s)
    BY DEF TextInv
  <1>1. Text[s] \in Runes /\ Text[s] \in Bytes /\ Len(Text[s]) \in Nat
    BY TextIsRunes, RunesType
  <1>2. given[s] \in Nat /\ given[s] \in 0..Len(Text[s])
    BY <1>0, <1>1 DEF MarkInv, Reading
  <1>3. UNCHANGED <<why, fed, given, chunk>> /\ sealed'
    BY DEF Seal, Result, processVars, readerVars
  <1>4. PieceInv(s)' /\ Handed(s)' = Handed(s)
    <2>1. Handed(s)' = Handed(s)
      BY <1>3 DEF Handed
    <2>. QED BY <1>0, <1>3, <2>1 DEF PieceInv
  <1>5. ~sealed /\ Unmarked /\ main = "seal"
    BY <1>0 DEF Seal, MarkInv, Steps
  <1>6. Unmarked'
    BY <1>5, ResultUnmarked DEF Seal
  <1>7. Output(s) = log[s] /\ Output(s)' = log'[s]
    BY <1>5, <1>6, OutputIsLog, NoMarkYet DEF Output, Unmarked, Streams
  <1>. DEFINE text == Text[s]
              n == Handed(s)
              add == Sanitize(pending[s])
              out == log[s] \o add
  <1>8. log'[s] = out /\ tail'[s] = TailAppend(tail[s], add)
    BY DEF Seal, Result
  <1>9. n \in 0..Len(text) /\ n \in 0..given[s]
    BY <1>0, <1>1, <1>2 DEF PieceInv
  <1>10. /\ pending[s] = Slice(text, Upto(text, n), n)
         /\ log[s] = Slice(text, 0, Upto(text, n))
         /\ log[s] \in Bytes /\ IsTail(tail[s], log[s])
    BY <1>0, <1>5, <1>7 DEF LogInv, Unmarked, Streams
  <1>11. WholeRunes(s, n) = Slice(text, 0, Upto(text, n)) /\ Len(WholeRunes(s, n)) = Upto(text, n)
    BY <1>9, WholeRunesIs
  <1>12. /\ out = GivenUp(s, n) /\ add \in Bytes /\ Starts(add)
    <2>. HIDE DEF text, n
    <2>1. add = Sanitize(Slice(text, Upto(text, n), n))
      BY <1>10
    <2>. HIDE DEF add
    <2>2. /\ Slice(text, 0, Upto(text, n)) \o add =
                  IF Upto(text, n) = n THEN Slice(text, 0, Upto(text, n))
                  ELSE Slice(text, 0, Upto(text, n)) \o Replacement
          /\ add \in Bytes /\ Starts(add)
      BY <1>1, <1>9, <2>1, ResultKeeps DEF text
    <2>3. GivenUp(s, n) = IF Upto(text, n) = n THEN Slice(text, 0, Upto(text, n))
                          ELSE Slice(text, 0, Upto(text, n)) \o Replacement
      BY <1>11 DEF GivenUp
    <2>. QED BY <1>10, <2>2, <2>3
  <1>13. IsTail(TailAppend(tail[s], add), out)
    <2>. HIDE DEF add
    <2>. QED BY <1>10, <1>12, TailOfJoin
  <1>14. why = "done" => n = fed[s]
    <2>. SUFFICES ASSUME why = "done" PROVE n = fed[s]
      OBVIOUS
    <2>1. reader[s] = "done"
      BY <1>0 DEF DrainInv, ReadersDone
    <2>2. chunk[s] = <<>> /\ given[s] = fed[s]
      BY <1>0, <2>1 DEF DrainInv
    <2>3. Len(chunk[s]) = 0
      BY <2>2, EmptySeq
    <2>. QED BY <1>2, <2>2, <2>3 DEF Handed
  <1>. HIDE DEF n, add, out
  <1>15. \E k \in 0..given'[s] : Output(s)' = GivenUp(s, k)
    BY <1>3, <1>7, <1>8, <1>9, <1>12
  <1>16. why' = "done" => Output(s)' = GivenUp(s, fed'[s])
    BY <1>3, <1>7, <1>8, <1>12, <1>14
  <1>17. IsTail(tail'[s], Output(s)')
    BY <1>7, <1>8, <1>13
  <1>. QED BY <1>3, <1>4, <1>15, <1>16, <1>17 DEF LogInv

(* The caller's mark is not output.                                        *)
LEMMA TextMarked ==
    ASSUME TextInv, MarkCanceled, NEW s \in Stream
    PROVE  PieceInv(s)' /\ LogInv(s)'
  <1>0. MarkInv /\ DrainInv /\ PieceInv(s) /\ LogInv(s)
    BY DEF TextInv
  <1>1. UNCHANGED <<why, fed, given, chunk, tail, pending, sealed>>
    BY DEF MarkCanceled, WriteChunk, processVars, readerVars
  <1>2. Handed(s)' = Handed(s)
    BY <1>1 DEF Handed
  <1>3. PieceInv(s)'
    BY <1>0, <1>1, <1>2 DEF PieceInv
  <1>4. Unmarked /\ main = "mark"
    BY <1>0 DEF MarkInv, MarkCanceled
  <1>5. Output(s)' = Output(s)
    <2>1. Output(s) = log[s] /\ log[s] \in Bytes
      BY <1>4, OutputIsLog DEF Unmarked, Streams
    <2>2. CASE s = "stderr"
      <3>1. log'[s] = log[s] \o <<"mark">>
        BY <1>4, <2>2 DEF MarkCanceled, WriteChunk, Mark, Unmarked, Streams
      <3>. DEFINE all == log[s] \o <<"mark">>
                  N == Len(log[s])
                  Item == Byte \cup {"mark"}
      <3>2. log[s] \in Seq(Item) /\ <<"mark">> \in Seq(Item) /\ N \in Nat
        BY <2>1, SeqMonotonic, LenProperties DEF Bytes
      <3>3. /\ all \in Seq(Item) /\ Len(all) = N + 1 /\ all[N + 1] = "mark"
            /\ \A i \in 1..N : all[i] = log[s][i]
        <4>1. Len(<<"mark">>) = 1 /\ <<"mark">>[1] = "mark"
          OBVIOUS
        <4>2. /\ all \in Seq(Item) /\ Len(all) = Len(log[s]) + Len(<<"mark">>)
              /\ \A i \in 1..(Len(log[s]) + Len(<<"mark">>)) :
                     all[i] = IF i <= Len(log[s]) THEN log[s][i]
                              ELSE <<"mark">>[i - Len(log[s])]
          <5>. HIDE DEF Item
          <5>. QED BY <3>2, ConcatProperties
        <4>. HIDE DEF all, Item
        <4>. QED BY <3>2, <4>1, <4>2
      <3>. HIDE DEF all, Item
      <3>4. SubSeq(all, 1, N) = log[s]
        <4>1. \A i \in 1..N : all[i] \in Item
          BY <3>2, <3>3, ElementOfSeq
        <4>2. /\ SubSeq(all, 1, N) \in Seq(Item)
              /\ Len(SubSeq(all, 1, N)) = IF 1 <= N THEN N - 1 + 1 ELSE 0
              /\ \A i \in 1..(N - 1 + 1) : SubSeq(all, 1, N)[i] = all[1 + i - 1]
          BY <3>2, <4>1, SubSeqProperties
        <4>3. Len(SubSeq(all, 1, N)) = Len(log[s])
          BY <3>2, <4>2
        <4>4. \A i \in 1..Len(SubSeq(all, 1, N)) : SubSeq(all, 1, N)[i] = log[s][i]
          BY <3>2, <3>3, <4>2, <4>3
        <4>. QED BY <3>2, <4>2, <4>3, <4>4, SeqEqual
      <3>5. Output(s)' = SubSeq(all, 1, N + 1 - 1)
        BY <3>1, <3>2, <3>3 DEF Output, all
      <3>6. N + 1 - 1 = N
        BY <3>2
      <3>. QED BY <2>1, <3>4, <3>5, <3>6
    <2>3. CASE s # "stderr"
      <3>1. log'[s] = log[s]
        BY <1>4, <2>3 DEF MarkCanceled, WriteChunk, Unmarked, Streams
      <3>. QED BY <3>1 DEF Output
    <2>. QED BY <2>2, <2>3
  <1>6. LogInv(s)'
    BY <1>0, <1>1, <1>2, <1>5 DEF LogInv
  <1>. QED BY <1>3, <1>6

LEMMA TextStep ==
    ASSUME TextInv, [Next]_vars
    PROVE  TextInv'
  <1>1. MarkInv' /\ DrainInv'
    BY MarkStep, DrainStep DEF TextInv
  <1>2. DOMAIN tail' = Stream
    <2>1. ASSUME NEW t \in Stream, ReaderStep(t) PROVE DOMAIN tail' = Stream
      BY <2>1 DEF TextInv, ReaderStep, Read, Deliver, EndOfStream, Write, Emit, captureVars
    <2>2. CASE Seal
      BY <2>2 DEF Seal, Result
    <2>3. ASSUME [Next]_vars, ~Seal, \A t \in Stream : ~ReaderStep(t) PROVE tail' = tail
      <3>1. CASE UNCHANGED vars \/ StartFails \/ Begin \/ Fork \/ ProcessEnds \/ Die \/ Hangup
                 \/ Late \/ Cancel \/ WaiterStep
        BY <3>1 DEF vars, StartFails, Begin, Fork, ProcessEnds, Die, Hangup, Late, Cancel,
                    WaiterStep, ReadersEnded, Reap, SessionOver, SetReaped, SendDone, captureVars
      <3>2. ASSUME NEW t \in Stream, Feed(t) PROVE tail' = tail
        BY <3>2 DEF Feed, captureVars
      <3>3. CASE MainStep
        BY <2>3, <3>3 DEF MainStep, SelectDone, SelectTimeout, SelectCancel, Kill, Leave,
                          MarkCanceled, WriteChunk, captureVars
      <3>. QED BY <2>3, <3>1, <3>2, <3>3 DEF Next
    <2>. QED BY <2>1, <2>2, <2>3 DEF TextInv
  <1>3. ASSUME NEW s \in Stream PROVE PieceInv(s)' /\ LogInv(s)'
    <2>1. ASSUME NEW t \in Stream, Read(t) PROVE PieceInv(s)' /\ LogInv(s)'
      BY <2>1, TextRead
    <2>2. ASSUME NEW t \in Stream, Deliver(t) PROVE PieceInv(s)' /\ LogInv(s)'
      BY <2>2, TextDeliver
    <2>3. CASE Seal
      BY <2>3, TextSeal
    <2>4. CASE MarkCanceled
      BY <2>4, TextMarked
    <2>5. CASE \/ UNCHANGED vars \/ StartFails \/ Begin
               \/ \E t \in Stream : Feed(t) \/ EndOfStream(t)
               \/ Fork \/ ProcessEnds \/ Die \/ Hangup \/ WaiterStep \/ Late \/ Cancel
               \/ SelectDone \/ SelectTimeout \/ SelectCancel \/ Kill \/ Leave
      BY <2>5, TextQuiet
    <2>. QED BY <2>1, <2>2, <2>3, <2>4, <2>5 DEF Next, ReaderStep, MainStep
  <1>. QED BY <1>1, <1>2, <1>3 DEF TextInv

LEMMA TextInvSurvives == TextInv => TextSurvives
  <1>. SUFFICES ASSUME TextInv, NEW s \in Stream
                PROVE  /\ ~sealed => Output(s) = WholeRunes(s, given[s] - Len(chunk[s]))
                       /\ sealed => \E n \in 0..given[s] : Output(s) = GivenUp(s, n)
                       /\ sealed /\ why = "done" => Output(s) = GivenUp(s, fed[s])
                       /\ IsTail(tail[s], Output(s))
    BY DEF TextSurvives
  <1>1. PieceInv(s) /\ LogInv(s)
    BY DEF TextInv
  <1>2. Handed(s) \in 0..Len(Text[s])
    BY <1>1, TextIsBytes DEF TextInv, MarkInv, Reading, PieceInv
  <1>3. WholeRunes(s, Handed(s)) = Slice(Text[s], 0, Upto(Text[s], Handed(s)))
    BY <1>2, WholeRunesIs
  <1>. QED BY <1>1, <1>3 DEF LogInv, Handed

(* However the pipes cut what a command writes and the two streams         *)
(* interleave, no rune is lost, repeated or torn.                          *)
THEOREM TextSurvivesHolds == Spec => []TextSurvives
  <1>1. Init => TextInv
    BY TextInit
  <1>2. TextInv /\ [Next]_vars => TextInv'
    BY TextStep
  <1>3. TextInv => TextSurvives
    BY TextInvSurvives
  <1>. QED
    BY <1>1, <1>2, <1>3, PTL DEF Spec
=============================================================================
