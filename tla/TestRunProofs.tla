--------------------------- MODULE TestRunProofs ----------------------------
(***************************************************************************)
(* The log of a test run and the client that follows it, for any limits,   *)
(* page size, chunk sizes and faults.  A page is put together under the    *)
(* mutex, so what it leaves out between the cursor and the last chunk it   *)
(* holds is what lies before the oldest chunk it names: the client marks a *)
(* gap when there is a hole, and only then.                                *)
(*                                                                         *)
(* And the registry of these runs, for any number of slots and clients:    *)
(* the run that is evicted is the oldest that is still running.            *)
(***************************************************************************)
EXTENDS TestRunLog, TestRuns, FiniteSetTheorems, WellFoundedInduction, TLAPS

(* RunInv: the log is what was written from some chunk on, the last        *)
(* included; once a status stands nothing more is written.                 *)
Tail == \A m \in 1..seq, n \in chunks : n < m => m \in chunks

RunInv ==
    /\ seq \in 0..MaxChunks /\ chunks \in SUBSET (1..seq)
    /\ Tail
    /\ status # "running" => runner = "done"
    /\ NewestWithinCaps

(* PageInv: a page is what follows the cursor in the log as it was; what   *)
(* it passes over is older than the oldest chunk it names.                 *)
PageInv ==
    client = "answer" =>
        /\ page.oldest \in 0..seq /\ page.chunks \in SUBSET (1..seq)
        /\ \A n \in page.chunks : cursor < n
        /\ \A m \in 1..NextSeq : cursor < m => (m \in page.chunks <=> page.oldest <= m)
        /\ cursor < page.oldest => page.oldest \in page.chunks
        /\ \A m \in chunks : page.oldest <= m
        /\ page.finished /\ ~page.more =>
               status # "running" /\ \A n \in chunks : n <= NextSeq

(* ViewInv: the cursor is at the last chunk shown, and what is left below  *)
(* it was shown.                                                           *)
ViewInv ==
    /\ client \in {"wait", "answer", "stopped", "failed"} /\ gap \in BOOLEAN
    /\ cursor \in 0..seq /\ seen \in SUBSET (1..seq)
    /\ \A n \in seen : n <= cursor
    /\ cursor > 0 => cursor \in seen
    /\ \A m \in chunks : m <= cursor => m \in seen
    /\ GapMeansHole /\ StopsComplete

FollowInv == RunInv /\ PageInv /\ ViewInv

-----------------------------------------------------------------------------
(* The least and the greatest of some chunks.                              *)
LEMMA MinIn ==
    ASSUME NEW S \in SUBSET Nat, S # {}
    PROVE  Min(S) \in S /\ \A y \in S : Min(S) <= y
  <1>1. IsWellFoundedOn(OpToRel(<, Nat), Nat)
    BY NatLessThanWellFounded
  <1>2. PICK x \in S : \A y \in S : ~(<<y, x>> \in OpToRel(<, Nat))
    BY <1>1, WFMin
  <1>3. \A y \in S : ~(y < x)
    BY <1>2 DEF OpToRel
  <1>4. \A y \in S : x <= y
    BY <1>3
  <1>. QED
    BY <1>4 DEF Min

LEMMA MaxIn ==
    ASSUME NEW k \in Nat, NEW S \in SUBSET (1..k), S # {}
    PROVE  Max(S) \in S /\ \A y \in S : y <= Max(S)
  <1>. DEFINE T == {k - x : x \in S}
  <1>1. T \in SUBSET Nat /\ T # {}
    <2>1. \A x \in S : k - x \in Nat
      OBVIOUS
    <2>2. T \subseteq Nat
      BY <2>1
    <2>. QED BY <2>2
  <1>2. PICK t \in T : \A u \in T : t <= u
    BY <1>1, MinIn
  <1>3. PICK x \in S : t = k - x
    BY <1>2
  <1>4. ASSUME NEW y \in S PROVE y <= x
    <2>1. k - x <= k - y
      BY <1>2, <1>3
    <2>. QED BY <2>1
  <1>. QED
    BY <1>3, <1>4 DEF Max

(* Nothing weighs nothing.                                                 *)
LEMMA NoBytes == ASSUME NEW sizes PROVE Bytes({}, sizes) = 0
  <1>. DEFINE Body(g, s) ==
                  IF s = {} THEN 0
                  ELSE sizes[CHOOSE x \in s : TRUE] + g[s \ {CHOOSE x \in s : TRUE}]
              Good(g) == g = [s \in SUBSET {} |-> Body(g, s)]
              iter == CHOOSE g : Good(g)
              zero == [s \in SUBSET {} |-> 0]
  <1>1. Good(zero)
    <2>1. \A s \in SUBSET {} : Body(zero, s) = 0
      OBVIOUS
    <2>. HIDE DEF Body
    <2>. QED BY <2>1
  <1>2. Good(iter)
    <2>. HIDE DEF Good, zero
    <2>. QED BY <1>1
  <1>3. iter[{}] = 0
    <2>1. iter = [s \in SUBSET {} |-> Body(iter, s)]
      BY <1>2
    <2>. HIDE DEF iter
    <2>2. iter[{}] = Body(iter, {})
      BY <2>1
    <2>. QED BY <2>2
  <1>4. Bytes({}, sizes) = iter[{}]
    BY DEF Bytes, MapThenSumSet, MapThenFoldSet
  <1>. QED
    BY <1>3, <1>4

-----------------------------------------------------------------------------
(* What an append leaves: the new chunk, no chunk before one that is gone, *)
(* and no more than the caps allow.                                        *)
LEMMA RunFacts ==
    ASSUME RunInv
    PROVE  /\ seq \in Nat /\ IsFiniteSet(chunks) /\ chunks \in SUBSET Nat
           /\ \A m \in chunks : m \in Nat \ {0} /\ m <= seq
  <1>1. seq \in Nat /\ chunks \subseteq 1..seq
    BY ViewerAssumption DEF RunInv
  <1>2. IsFiniteSet(1..seq)
    BY <1>1, FS_Interval
  <1>3. IsFiniteSet(chunks)
    BY <1>1, <1>2, FS_Subset
  <1>4. \A m \in chunks : m \in Nat \ {0} /\ m <= seq
    BY <1>1
  <1>. QED
    BY <1>1, <1>3, <1>4

LEMMA AppendEffect ==
    ASSUME RunInv, NEW n, Append(n)
    PROVE  /\ seq' = seq + 1 /\ seq' \in 0..MaxChunks
           /\ seq + 1 \in chunks' /\ chunks' \in SUBSET (1..seq')
           /\ \A m \in chunks' : m \in chunks \/ m = seq + 1
           /\ Tail' /\ Fits(chunks', size')
  <1>. DEFINE all == chunks \cup {seq + 1}
              From(first) == {m \in all : m >= first}
              tails == {From(first) : first \in all \cup {seq + 2}}
              Good(t) == /\ Fits(t, size')
                         /\ \A u \in tails : Fits(u, size') => u \subseteq t
              F == {first \in all : Fits(From(first), size')}
  <1>1. seq \in 0..MaxChunks /\ seq < MaxChunks /\ seq' = seq + 1
    BY DEF RunInv, Append
  <1>2. chunks' = CHOOSE t \in tails : Good(t)
    BY DEF Append
  <1>3. seq \in Nat /\ chunks \in SUBSET (1..seq) /\ seq' \in 0..MaxChunks
    BY <1>1, ViewerAssumption, RunFacts DEF RunInv
  <1>4. all \in SUBSET (1..(seq + 1)) /\ all \in SUBSET Nat
    BY <1>3
  <1>a. \A m \in chunks : m \in Nat /\ m <= seq
    BY RunFacts
  <1>5. From(seq + 1) = {seq + 1}
    <2>1. \A m \in all : m >= seq + 1 <=> m = seq + 1
      BY <1>3, <1>a
    <2>. QED BY <2>1
  <1>6. Fits({seq + 1}, size')
    <2>1. Cardinality({seq + 1}) = 1
      BY FS_Singleton
    <2>. QED BY <2>1, RunLogAssumption DEF Fits
  <1>7. seq + 1 \in F /\ F \in SUBSET Nat
    <2>. HIDE DEF From
    <2>. QED BY <1>4, <1>5, <1>6
  <1>8. PICK f \in F : \A g \in F : f <= g
    <2>. HIDE DEF F
    <2>. QED BY <1>7, MinIn
  <1>9. f \in all /\ Fits(From(f), size') /\ f \in Nat
    <2>. HIDE DEF From
    <2>. QED BY <1>8, <1>4
  <1>10. Good(From(f))
    <2>1. ASSUME NEW g \in all, Fits(From(g), size') PROVE From(g) \subseteq From(f)
      <3>1. g \in F
        BY <2>1
      <3>2. f <= g /\ g \in Nat
        BY <3>1, <1>8, <1>4
      <3>. HIDE DEF F
      <3>. QED BY <3>2, <1>9, <1>4
    <2>2. From(seq + 2) = {}
      <3>1. \A m \in all : ~(m >= seq + 2)
        BY <1>3, <1>a
      <3>. QED BY <3>1
    <2>. HIDE DEF From, all, F
    <2>. QED BY <1>9, <2>1, <2>2
  <1>11. From(f) \in tails
    BY <1>9
  <1>12. chunks' \in tails /\ Good(chunks')
    <2>. HIDE DEF Good, tails
    <2>. QED BY <1>2, <1>10, <1>11
  <1>13. From(f) \subseteq chunks' /\ Fits(chunks', size')
    <2>. HIDE DEF From, F
    <2>. QED BY <1>9, <1>11, <1>12
  <1>14. seq + 1 \in From(f)
    <2>1. f <= seq + 1
      BY <1>9, <1>3, <1>4
    <2>. QED BY <2>1
  <1>15. PICK g \in all \cup {seq + 2} : chunks' = From(g)
    <2>. HIDE DEF From, all, F
    <2>. QED BY <1>12
  <1>16. seq + 1 \in chunks' /\ chunks' \subseteq all
    <2>1. seq + 1 \in chunks'
      <3>. HIDE DEF From
      <3>. QED BY <1>13, <1>14
    <2>. QED BY <1>15, <2>1
  <1>17. ASSUME NEW m \in 1..(seq + 1), NEW k \in chunks', k < m PROVE m \in chunks'
    <2>1. k \in all /\ k >= g
      BY <1>15, <1>17
    <2>2. m \in all
      <3>1. CASE m = seq + 1
        BY <3>1
      <3>2. CASE m # seq + 1
        <4>1. m \in 1..seq /\ k \in chunks
          BY <3>2, <2>1, <1>17, <1>3
        <4>. QED BY <4>1, <1>17 DEF RunInv, Tail
      <3>. QED BY <3>1, <3>2
    <2>3. m >= g
      <3>1. g \in Nat /\ k \in Nat /\ m \in Nat
        BY <1>3, <1>4, <2>1
      <3>. QED BY <3>1, <2>1, <1>17
    <2>. QED BY <1>15, <2>2, <2>3
  <1>18. Tail'
    <2>. HIDE DEF all, From
    <2>. QED BY <1>1, <1>17 DEF Tail
  <1>. QED
    BY <1>1, <1>3, <1>4, <1>13, <1>16, <1>18

(* What the client may rely on while the run goes on.                      *)
RunEffect ==
    /\ seq' \in Nat /\ seq <= seq'
    /\ \A m \in chunks' : m \in Nat /\ (m \in chunks \/ seq < m)
    /\ status # "running" => status' # "running" /\ UNCHANGED <<chunks, seq>>

LEMMA AppendKeeps ==
    ASSUME RunInv, NEW n, Append(n), status = "running", status' = "running"
    PROVE  RunInv' /\ RunEffect
  <1>1. /\ seq' = seq + 1 /\ seq' \in 0..MaxChunks
        /\ seq + 1 \in chunks' /\ chunks' \in SUBSET (1..seq')
        /\ \A m \in chunks' : m \in chunks \/ m = seq + 1
        /\ Tail' /\ Fits(chunks', size')
    BY AppendEffect
  <1>2. seq \in Nat
    BY RunFacts
  <1>3. Cardinality(chunks') > 1 \/ Cardinality(chunks') = 1
    <2>1. IsFiniteSet(chunks') /\ chunks' # {}
      <3>1. IsFiniteSet(1..(seq + 1))
        BY <1>2, FS_Interval
      <3>. QED BY <1>1, <3>1, FS_Subset
    <2>2. Cardinality(chunks') \in Nat /\ Cardinality(chunks') # 0
      BY <2>1, FS_CardinalityType, FS_EmptySet
    <2>. QED BY <2>2
  <1>4. NewestWithinCaps'
    BY <1>1, <1>3, RunLogAssumption DEF NewestWithinCaps, Fits
  <1>5. RunInv'
    BY <1>1, <1>4 DEF RunInv
  <1>6. RunEffect
    BY <1>1, <1>2 DEF RunEffect
  <1>. QED
    BY <1>5, <1>6

LEMMA LogKept ==
    ASSUME RunInv, UNCHANGED <<chunks, seq, size>>,
           status' # "running" => runner' = "done",
           status # "running" => status' # "running"
    PROVE  RunInv' /\ RunEffect
  <1>1. Tail' /\ NewestWithinCaps'
    BY DEF RunInv, Tail, NewestWithinCaps
  <1>. QED
    BY <1>1, RunFacts DEF RunInv, RunEffect

LEMMA RunSteps ==
    ASSUME RunInv,
           (\E n \in Size : WriteChunk(n)) \/ (\E outcome \in Ended : Mark(outcome))
               \/ FinishRun \/ Sweep \/ Crash \/ ClientStep \/ UNCHANGED vars
    PROVE  RunInv' /\ RunEffect
  <1>1. ASSUME NEW n \in Size, WriteChunk(n) PROVE RunInv' /\ RunEffect
    <2>1. Append(n) /\ status = "running" /\ status' = "running"
      BY <1>1 DEF WriteChunk, RunInv
    <2>. QED BY <2>1, AppendKeeps
  <1>2. ASSUME NEW outcome \in Ended, Mark(outcome) PROVE RunInv' /\ RunEffect
    <2>1. status = "running" /\ status' = "running"
      BY <1>2 DEF Mark, RunInv
    <2>2. ASSUME NEW n \in Size, Append(n) PROVE RunInv' /\ RunEffect
      BY <2>1, <2>2, AppendKeeps
    <2>3. CASE UNCHANGED <<chunks, seq, size>>
      BY <2>1, <2>3, LogKept
    <2>. QED BY <1>2, <2>2, <2>3 DEF Mark
  <1>3. CASE FinishRun
    <2>1. UNCHANGED <<chunks, seq, size>> /\ runner' = "done" /\ runner \in Ended /\ status' = runner
      BY <1>3 DEF FinishRun
    <2>. QED BY <2>1, LogKept DEF Ended
  <1>4. CASE Sweep \/ Crash
    <2>1. /\ UNCHANGED <<chunks, seq, size, status>>
          /\ runner' = runner \/ runner' = "done"
      BY <1>4 DEF Sweep, Crash
    <2>. QED BY <2>1, LogKept DEF RunInv
  <1>5. CASE ClientStep \/ UNCHANGED vars
    <2>1. UNCHANGED <<chunks, seq, size, status, runner>>
      BY <1>5 DEF ClientStep, Poll, Shown, PollFails, vars, runVars
    <2>. QED BY <2>1, LogKept DEF RunInv
  <1>. QED
    BY <1>1, <1>2, <1>3, <1>4, <1>5

-----------------------------------------------------------------------------
(* The client while the run goes on.                                       *)
LEMMA ViewStays ==
    ASSUME RunInv, PageInv, ViewInv, RunEffect, UNCHANGED <<client, viewVars, page>>
    PROVE  PageInv' /\ ViewInv'
  <1>. USE DEF viewVars
  <1>1. seq \in Nat /\ cursor \in Nat /\ cursor <= seq /\ seq' \in Nat /\ seq <= seq'
    BY RunFacts DEF ViewInv, RunEffect
  <1>2. 0..seq \subseteq 0..seq' /\ 1..seq \subseteq 1..seq'
    BY <1>1
  <1>3. \A m \in chunks' : m <= cursor => m \in seen
    <2>. SUFFICES ASSUME NEW m \in chunks', m <= cursor, m \notin chunks PROVE FALSE
      BY DEF ViewInv
    <2>1. seq < m /\ m \in Nat
      BY DEF RunEffect
    <2>. QED BY <1>1, <2>1
  <1>4. \A m \in 1..seq' : m < cursor => m \in 1..seq
    BY <1>1
  <1>5. GapMeansHole'
    <2>1. GapMeansHole
      BY DEF ViewInv
    <2>2. (\E m \in 1..seq' : m < cursor /\ m \notin seen /\ \E n \in seen : n < m)
          <=> (\E m \in 1..seq : m < cursor /\ m \notin seen /\ \E n \in seen : n < m)
      BY <1>2, <1>4
    <2>3. (\E m \in 1..seq' : m < cursor /\ m \notin seen /\ \E n \in seen : n < m)
          = (\E m \in 1..seq : m < cursor /\ m \notin seen /\ \E n \in seen : n < m)
      BY <2>2
    <2>. QED BY <2>1, <2>3 DEF GapMeansHole
  <1>6. StopsComplete'
    BY DEF ViewInv, StopsComplete, RunEffect
  <1>7. ViewInv'
    BY <1>2, <1>3, <1>5, <1>6 DEF ViewInv
  <1>8. ASSUME client = "answer" PROVE \A m \in chunks' : page.oldest <= m
    <2>. SUFFICES ASSUME NEW m \in chunks', m \notin chunks PROVE page.oldest <= m
      BY <1>8 DEF PageInv
    <2>1. seq < m /\ m \in Nat
      BY DEF RunEffect
    <2>2. page.oldest \in 0..seq
      BY <1>8 DEF PageInv
    <2>. QED BY <1>1, <2>1, <2>2
  <1>9. NextSeq' = NextSeq
    BY DEF NextSeq
  <1>10. PageInv'
    BY <1>2, <1>8, <1>9 DEF PageInv, RunEffect
  <1>. QED
    BY <1>7, <1>10

-----------------------------------------------------------------------------
(* What a page holds of the log.                                           *)
LEMMA PageFacts ==
    ASSUME RunInv, cursor \in Nat
    PROVE  /\ NextPage(chunks) \subseteq chunks
           /\ \A n \in NextPage(chunks) : cursor < n
           /\ \A m \in chunks, n \in NextPage(chunks) :
                  cursor < m /\ m < n => m \in NextPage(chunks)
           /\ \A m \in chunks : cursor < m /\ (\A k \in chunks : m <= k) => m \in NextPage(chunks)
  <1>1. NextPage(chunks) \subseteq chunks /\ \A n \in NextPage(chunks) : cursor < n
    BY RunFacts DEF NextPage, Unread
  <1>. DEFINE Below(k) == {j \in Unread(chunks) : j < k}
  <1>2. ASSUME NEW m \in chunks, NEW n \in NextPage(chunks), cursor < m, m < n
        PROVE  m \in NextPage(chunks)
    <2>1. m \in Unread(chunks) /\ n \in chunks /\ Cardinality(Below(n)) < PageSize
      BY <1>2, RunFacts DEF NextPage, Unread
    <2>2. Below(m) \subseteq Below(n) /\ Below(n) \subseteq chunks
      BY <1>2, <2>1, RunFacts DEF Unread
    <2>3. IsFiniteSet(Below(n)) /\ IsFiniteSet(Below(m))
      BY <2>2, RunFacts, FS_Subset
    <2>4. Cardinality(Below(m)) <= Cardinality(Below(n))
      BY <2>2, <2>3, FS_Subset
    <2>5. Cardinality(Below(m)) \in Nat /\ Cardinality(Below(n)) \in Nat
      BY <2>3, FS_CardinalityType
    <2>6. Cardinality(Below(m)) < PageSize
      BY <2>1, <2>4, <2>5, ViewerAssumption
    <2>. QED BY <2>1, <2>6 DEF NextPage
  <1>3. ASSUME NEW m \in chunks, cursor < m, \A k \in chunks : m <= k
        PROVE  m \in NextPage(chunks)
    <2>1. m \in Unread(chunks)
      BY <1>3, RunFacts DEF Unread
    <2>2. Below(m) = {}
      BY <1>3, RunFacts DEF Unread
    <2>3. Cardinality(Below(m)) < PageSize
      BY <2>2, FS_EmptySet, ViewerAssumption
    <2>. QED BY <2>1, <2>3 DEF NextPage
  <1>. QED
    BY <1>1, <1>2, <1>3

LEMMA OldestIs ==
    ASSUME RunInv
    PROVE  /\ Oldest(chunks) \in 0..seq /\ \A m \in chunks : Oldest(chunks) <= m
           /\ chunks # {} => Oldest(chunks) \in chunks
           /\ chunks = {} => Oldest(chunks) = 0
  <1>1. CASE chunks = {}
    BY <1>1, RunFacts DEF Oldest
  <1>2. CASE chunks # {}
    <2>1. Oldest(chunks) \in chunks /\ \A m \in chunks : Oldest(chunks) <= m
      BY <1>2, RunFacts, MinIn DEF Oldest
    <2>. QED BY <1>2, <2>1, RunFacts
  <1>. QED
    BY <1>1, <1>2

(* Where the cursor goes with a page.                                      *)
LEMMA LastOf ==
    ASSUME NEW k \in Nat, NEW c \in 0..k, NEW S \in SUBSET (1..k), \A n \in S : c < n,
           NEW last, last = IF S = {} THEN c ELSE Max(S)
    PROVE  /\ last \in 0..k /\ c <= last /\ \A n \in S : n <= last
           /\ last = c \/ last \in S
  <1>1. CASE S = {}
    BY <1>1
  <1>2. CASE S # {}
    <2>1. last \in S /\ \A n \in S : n <= last
      BY <1>2, MaxIn
    <2>. QED BY <2>1
  <1>. QED
    BY <1>1, <1>2

LEMMA PagePolled ==
    ASSUME RunInv, ViewInv, Poll
    PROVE  PageInv' /\ ViewInv'
  <1>. DEFINE sent == NextPage(chunks)
              old == Oldest(chunks)
              last == IF sent = {} THEN cursor ELSE Max(sent)
  <1>1. client' = "answer" /\ page' = Page /\ UNCHANGED <<chunks, seq, size, status, viewVars>>
    BY DEF Poll, runVars
  <1>2. ViewInv'
    <2>1. GapMeansHole' /\ StopsComplete'
      BY <1>1 DEF ViewInv, GapMeansHole, StopsComplete, viewVars
    <2>. QED BY <1>1, <2>1 DEF ViewInv, viewVars
  <1>3. page'.chunks = sent /\ page'.oldest = old /\ UNCHANGED cursor
    BY <1>1 DEF Page, viewVars
  <1>4. /\ page'.finished = (status # "running")
        /\ page'.more = (Unread(chunks) # sent)
    BY <1>1 DEF Page
  <1>5. NextSeq' = last
    BY <1>3 DEF NextSeq
  <1>6. seq \in Nat /\ cursor \in Nat /\ cursor \in 0..seq /\ chunks \in SUBSET (1..seq)
    BY RunFacts DEF ViewInv, RunInv
  <1>7. /\ sent \subseteq chunks /\ \A n \in sent : cursor < n
        /\ \A m \in chunks, n \in sent : cursor < m /\ m < n => m \in sent
        /\ \A m \in chunks : cursor < m /\ (\A k \in chunks : m <= k) => m \in sent
    BY <1>6, PageFacts
  <1>8. /\ old \in 0..seq /\ \A m \in chunks : old <= m
        /\ chunks # {} => old \in chunks
        /\ chunks = {} => old = 0
    BY OldestIs
  <1>9. \A n \in chunks : cursor < n => n \in Unread(chunks)
    BY <1>6 DEF Unread
  <1>. HIDE DEF sent, old
  <1>10. /\ last \in 0..seq /\ cursor <= last /\ \A n \in sent : n <= last
         /\ last = cursor \/ last \in sent
    <2>1. sent \in SUBSET (1..seq)
      BY <1>6, <1>7
    <2>. QED BY <2>1, <1>6, <1>7, LastOf, SMTT(30)
  <1>. HIDE DEF last
  <1>11. ASSUME NEW m \in 1..last, cursor < m PROVE m \in sent <=> old <= m
    <2>1. ASSUME m \in sent PROVE old <= m
      BY <2>1, <1>7, <1>8
    <2>2. ASSUME old <= m PROVE m \in sent
      <3>1. last \in sent /\ last \in chunks /\ m <= last
        BY <1>6, <1>7, <1>10, <1>11
      <3>2. old \in chunks /\ m \in 1..seq
        BY <3>1, <1>8, <1>6
      <3>3. m \in chunks
        <4>1. old < m \/ old = m
          BY <2>2, <1>8, <1>6
        <4>. QED BY <4>1, <3>2 DEF RunInv, Tail
      <3>4. m < last \/ m = last
        BY <3>1, <1>6
      <3>. QED BY <1>7, <1>11, <3>1, <3>3, <3>4
    <2>. QED BY <2>1, <2>2
  <1>12. cursor < old => old \in sent
    BY <1>6, <1>7, <1>8
  <1>13. ASSUME Unread(chunks) = sent, NEW n \in chunks PROVE n <= last
    <2>1. CASE cursor < n
      BY <2>1, <1>13, <1>9, <1>10
    <2>2. CASE ~(cursor < n)
      BY <2>2, <1>6, <1>10
    <2>. QED BY <2>1, <2>2
  <1>14. page'.finished /\ ~page'.more => status # "running" /\ \A n \in chunks : n <= last
    BY <1>4, <1>13
  <1>15. sent \in SUBSET (1..seq)
    BY <1>6, <1>7
  <1>. QED
    BY <1>1, <1>2, <1>3, <1>5, <1>7, <1>8, <1>11, <1>12, <1>14, <1>15 DEF PageInv

-----------------------------------------------------------------------------
(* What an answer shows: a hole it leaves starts right after the cursor    *)
(* and ends at the oldest chunk it names.                                  *)
LEMMA ShowView ==
    ASSUME RunInv, PageInv, ViewInv, client = "answer", Show, UNCHANGED <<chunks, seq>>
    PROVE  /\ cursor' \in 0..seq /\ seen' \in SUBSET (1..seq) /\ gap' \in BOOLEAN
           /\ \A n \in seen' : n <= cursor'
           /\ cursor' > 0 => cursor' \in seen'
           /\ \A m \in chunks : m <= cursor' => m \in seen'
           /\ GapMeansHole'
  <1>. DEFINE last == NextSeq
              old == page.oldest
              sent == page.chunks
  <1>1. /\ old \in 0..seq /\ sent \in SUBSET (1..seq)
        /\ \A n \in sent : cursor < n
        /\ \A m \in 1..last : cursor < m => (m \in sent <=> old <= m)
        /\ cursor < old => old \in sent
        /\ \A m \in chunks : old <= m
    BY DEF PageInv
  <1>2. /\ gap \in BOOLEAN /\ cursor \in 0..seq /\ seen \in SUBSET (1..seq)
        /\ \A n \in seen : n <= cursor
        /\ cursor > 0 => cursor \in seen
        /\ \A m \in chunks : m <= cursor => m \in seen
        /\ gap <=> \E m \in 1..seq : m < cursor /\ m \notin seen /\ \E n \in seen : n < m
    BY DEF ViewInv, GapMeansHole
  <1>3. seq \in Nat /\ chunks \in SUBSET (1..seq)
    BY RunFacts DEF RunInv
  <1>4. /\ last \in 0..seq /\ cursor <= last /\ \A n \in sent : n <= last
        /\ last = cursor \/ last \in sent
    <2>1. last = IF sent = {} THEN cursor ELSE Max(sent)
      BY DEF NextSeq
    <2>. HIDE DEF last, sent
    <2>. QED BY <1>1, <1>2, <1>3, <2>1, LastOf
  <1>5. cursor' = last /\ seen' = seen \cup sent /\ (gap' <=> gap \/ HeadRolledOff)
        /\ gap' \in BOOLEAN
    BY <1>2 DEF Show, HeadRolledOff
  <1>6. HeadRolledOff <=> cursor > 0 /\ old > cursor + 1
    BY DEF HeadRolledOff
  <1>. HIDE DEF last, old, sent
  <1>7. \A n \in seen' : n <= cursor'
    <2>1. \A n \in seen : n <= last
      BY <1>2, <1>3, <1>4
    <2>. QED BY <1>4, <1>5, <2>1
  <1>8. cursor' > 0 => cursor' \in seen'
    BY <1>2, <1>4, <1>5
  <1>9. ASSUME NEW m \in chunks, m <= last PROVE m \in seen \cup sent
    <2>1. CASE m <= cursor
      BY <1>2, <2>1
    <2>2. CASE ~(m <= cursor)
      <3>1. m \in 1..last /\ cursor < m /\ old <= m
        BY <1>1, <1>2, <1>3, <1>4, <1>9, <2>2
      <3>. QED BY <1>1, <3>1
    <2>. QED BY <2>1, <2>2
  <1>. DEFINE Hole(m) == m < last /\ m \notin seen \cup sent /\ \E n \in seen \cup sent : n < m
  <1>10. ASSUME gap PROVE \E m \in 1..seq : Hole(m)
    <2>1. PICK m \in 1..seq : m < cursor /\ m \notin seen /\ \E n \in seen : n < m
      BY <1>10, <1>2
    <2>2. m < last /\ m \notin sent
      BY <1>1, <1>2, <1>3, <1>4, <2>1
    <2>. QED BY <2>1, <2>2
  <1>11. ASSUME HeadRolledOff PROVE \E m \in 1..seq : Hole(m)
    <2>1. cursor \in seen /\ old \in sent /\ cursor + 1 < old /\ old <= last
      BY <1>1, <1>2, <1>3, <1>4, <1>6, <1>11
    <2>2. cursor + 1 \in 1..last /\ cursor + 1 \in 1..seq /\ cursor + 1 < last
      BY <2>1, <1>1, <1>2, <1>3, <1>4
    <2>3. cursor + 1 \notin sent
      BY <2>1, <2>2, <1>1, <1>2, <1>3
    <2>4. cursor + 1 \notin seen
      BY <1>2, <1>3
    <2>5. cursor < cursor + 1
      BY <1>2, <1>3
    <2>. QED BY <2>1, <2>2, <2>3, <2>4, <2>5
  <1>12. ASSUME NEW m \in 1..seq, Hole(m) PROVE gap \/ HeadRolledOff
    <2>1. PICK n \in seen \cup sent : n < m
      BY <1>12
    <2>2. m < last /\ m \notin seen /\ m \notin sent /\ n \in 1..seq
      BY <1>1, <1>2, <1>12
    <2>3. CASE m <= cursor
      <3>1. m # cursor /\ n \notin sent
        BY <1>1, <1>2, <1>3, <2>1, <2>2, <2>3
      <3>2. m < cursor /\ n \in seen
        BY <1>2, <1>3, <2>1, <2>3, <3>1
      <3>. QED BY <1>2, <2>1, <2>2, <3>2
    <2>4. CASE ~(m <= cursor)
      <3>1. m \in 1..last /\ cursor < m
        BY <1>2, <1>3, <1>4, <2>2, <2>4
      <3>2. m < old
        BY <1>1, <1>3, <2>2, <3>1
      <3>3. n \notin sent
        <4>. SUFFICES ASSUME n \in sent PROVE FALSE
          OBVIOUS
        <4>1. n \in 1..last /\ cursor < n
          BY <1>1, <1>4, <2>2
        <4>2. old <= n
          BY <1>1, <4>1
        <4>. QED BY <1>1, <1>3, <2>1, <2>2, <3>2, <4>2
      <3>4. cursor > 0
        <4>1. n \in seen /\ n <= cursor
          BY <1>2, <2>1, <3>3
        <4>. QED BY <4>1, <1>2, <1>3, <2>2
      <3>5. old > cursor + 1
        BY <1>1, <1>2, <1>3, <3>1, <3>2
      <3>. QED BY <1>6, <3>4, <3>5
    <2>. QED BY <2>3, <2>4
  <1>13. gap' <=> \E m \in 1..seq : Hole(m)
    BY <1>5, <1>10, <1>11, <1>12
  <1>14. GapMeansHole'
    <2>1. gap' = (\E m \in 1..seq : Hole(m))
      BY <1>5, <1>13
    <2>. QED BY <2>1, <1>5 DEF GapMeansHole
  <1>15. seen' \in SUBSET (1..seq)
    BY <1>1, <1>2, <1>5
  <1>. QED
    BY <1>4, <1>5, <1>7, <1>8, <1>9, <1>14, <1>15

LEMMA PageShown ==
    ASSUME RunInv, PageInv, ViewInv, Shown
    PROVE  PageInv' /\ ViewInv'
  <1>1. /\ client = "answer" /\ client' \in {"wait", "stopped"} /\ Show
        /\ UNCHANGED <<chunks, seq, status>>
    BY DEF Shown, Answer, AfterAnswer, runVars
  <1>2. /\ cursor' \in 0..seq /\ seen' \in SUBSET (1..seq) /\ gap' \in BOOLEAN
        /\ \A n \in seen' : n <= cursor'
        /\ cursor' > 0 => cursor' \in seen'
        /\ \A m \in chunks : m <= cursor' => m \in seen'
        /\ GapMeansHole'
    BY <1>1, ShowView
  <1>3. StopsComplete'
    <2>. SUFFICES ASSUME client' = "stopped" PROVE status # "running" /\ chunks \subseteq seen'
      BY <1>1 DEF StopsComplete
    <2>1. page.finished /\ ~page.more
      BY DEF Shown, Answer, AfterAnswer
    <2>2. status # "running" /\ \A n \in chunks : n <= NextSeq
      BY <1>1, <2>1 DEF PageInv
    <2>3. cursor' = NextSeq
      BY <1>1 DEF Show
    <2>. QED BY <1>2, <2>2, <2>3
  <1>. QED
    BY <1>1, <1>2, <1>3 DEF PageInv, ViewInv

LEMMA PageFails ==
    ASSUME RunInv, PageInv, ViewInv, PollFails
    PROVE  PageInv' /\ ViewInv'
  <1>1. client' \in {"wait", "failed"} /\ UNCHANGED <<cursor, seen, gap, chunks, seq, status>>
    BY DEF PollFails, MissPoll, Missed, runVars
  <1>2. GapMeansHole' /\ StopsComplete'
    BY <1>1 DEF ViewInv, GapMeansHole, StopsComplete
  <1>. QED
    BY <1>1, <1>2 DEF PageInv, ViewInv

-----------------------------------------------------------------------------
LEMMA FollowInit == Init => FollowInv
  <1>. SUFFICES ASSUME Init PROVE FollowInv
    OBVIOUS
  <1>1. /\ client = "wait" /\ cursor = 0 /\ seen = {} /\ gap = FALSE /\ chunks = {} /\ seq = 0
        /\ runner = "run" /\ status = "running"
    BY DEF Init, ViewerInit
  <1>2. NewestWithinCaps
    <2>1. Cardinality(chunks) = 0 /\ Bytes(chunks, size) = 0
      BY <1>1, FS_EmptySet, NoBytes
    <2>. QED BY <1>1, <2>1, RunLogAssumption DEF NewestWithinCaps
  <1>3. RunInv
    BY <1>1, <1>2, ViewerAssumption DEF RunInv, Tail
  <1>4. GapMeansHole /\ StopsComplete
    BY <1>1 DEF GapMeansHole, StopsComplete
  <1>5. ViewInv
    <2>1. cursor \in 0..seq
      BY <1>1
    <2>2. seen \in SUBSET (1..seq)
      BY <1>1
    <2>3. gap \in BOOLEAN
      BY <1>1
    <2>. QED BY <1>1, <1>4, <2>1, <2>2, <2>3 DEF ViewInv
  <1>. QED
    BY <1>1, <1>3, <1>5 DEF FollowInv, PageInv

LEMMA FollowStep ==
    ASSUME FollowInv, [Next]_vars
    PROVE  FollowInv'
  <1>1. RunInv' /\ RunEffect
    BY RunSteps DEF FollowInv, Next
  <1>2. CASE ClientStep
    <2>1. PageInv' /\ ViewInv'
      BY <1>2, PagePolled, PageShown, PageFails DEF FollowInv, ClientStep
    <2>. QED BY <1>1, <2>1 DEF FollowInv
  <1>3. CASE ~ClientStep
    <2>1. UNCHANGED <<client, viewVars, page>>
      BY <1>3 DEF Next, vars, WriteChunk, Mark, FinishRun, Sweep, Crash
    <2>. QED BY <1>1, <2>1, ViewStays DEF FollowInv
  <1>. QED
    BY <1>2, <1>3

LEMMA FollowAlways == Spec => []FollowInv
  <1>1. FollowInv /\ [Next]_vars => FollowInv'
    BY FollowStep
  <1>. QED
    BY <1>1, FollowInit, PTL DEF Spec

(* Nothing is appended once the outcome is recorded, so a client that      *)
(* stopped on it was shown every chunk that is left, for any limits.       *)
THEOREM StopsCompleteHolds == Spec => []StopsComplete
  <1>1. FollowInv => StopsComplete
    BY DEF FollowInv, ViewInv
  <1>. QED
    BY <1>1, FollowAlways, PTL

(* A gap is shown exactly when output is missing between two chunks that   *)
(* were shown, however the log rolled off between two polls.               *)
THEOREM GapMeansHoleHolds == Spec => []GapMeansHole
  <1>1. FollowInv => GapMeansHole
    BY DEF FollowInv, ViewInv
  <1>. QED
    BY <1>1, FollowAlways, PTL

(* The log keeps its newest chunk and is within both caps, but for a       *)
(* single chunk that alone is over the limit, for any caps and sizes.      *)
THEOREM NewestWithinCapsHolds == Spec => []NewestWithinCaps
  <1>1. FollowInv => NewestWithinCaps
    BY DEF FollowInv, RunInv
  <1>. QED
    BY <1>1, FollowAlways, PTL

-----------------------------------------------------------------------------
(* The registry of the runs, TestRuns, for any number of slots and of      *)
(* clients.                                                                *)
Accepted == {c \in Req : req[c] = "accepted"}

(* RegistryInv: runs start in their order, one for each request that was   *)
(* accepted; whatever is older than the victim, or than a run that was     *)
(* evicted, is over.                                                       *)
RegistryTypes ==
    /\ runs \in [RunId -> [state : {"none", "running", "finished", "swept"},
                             cancel : {"no", "client", "eviction"}]]
    /\ req \in [Req -> {"idle", "start", "evict", "cancel", "again", "accepted", "refused"}]
    /\ victim \in RunId \cup {0}

InOrder == \A r \in RunId : \A q \in RunId :
               q < r /\ runs[r].state # "none" => runs[q].state # "none"

OnePerRequest == Cardinality(RunId \ Unused) = Cardinality(Accepted)

OlderAreOver == \A r \in RunId : \A q \in RunId :
    q < r /\ (r = victim \/ runs[r].cancel = "eviction") => runs[q].state \in {"finished", "swept"}

RegistryInv == RegistryTypes /\ InOrder /\ OnePerRequest /\ OlderAreOver

(* The runs are numbered, as many as there are clients.                    *)
LEMMA RunIdIs ==
    /\ Cardinality(Req) \in Nat
    /\ RunId = 1..Cardinality(Req) /\ RunId \in SUBSET Nat /\ 0 \notin RunId
    /\ IsFiniteSet(RunId) /\ Cardinality(RunId) = Cardinality(Req)
  <1>1. Cardinality(Req) \in Nat
    BY TestRunAssumption, FS_CardinalityType
  <1>2. RunId = 1..Cardinality(Req)
    BY DEF RunId
  <1>3. IsFiniteSet(1..Cardinality(Req))
        /\ Cardinality(1..Cardinality(Req)) =
               IF 1 > Cardinality(Req) THEN 0 ELSE Cardinality(Req) - 1 + 1
    BY <1>1, FS_Interval
  <1>. QED BY <1>1, <1>2, <1>3

(* No run yet, and no client that was accepted.                           *)
LEMMA RegistryInit == RunsInit => RegistryInv
  <1>. SUFFICES ASSUME RunsInit PROVE RegistryInv
    OBVIOUS
  <1>1. runs = [r \in RunId |-> [state |-> "none", cancel |-> "no"]]
        /\ req = [c \in Req |-> "idle"] /\ victim = 0
    BY DEF RunsInit, NoRun
  <1>2. RunId \ Unused = {} /\ Accepted = {}
    BY <1>1 DEF Unused, Accepted
  <1>. QED
    BY <1>1, <1>2, RunIdIs DEF RegistryInv, RegistryTypes, InOrder, OnePerRequest, OlderAreOver

(* A run that is started is the next in order, and there is one left.      *)
LEMMA RegistryStart ==
    ASSUME RegistryInv, NEW c \in Req, req[c] # "accepted", StartRun(c)
    PROVE  RegistryInv'
  <1>. DEFINE r == Min(Unused)
  <1>0. /\ RegistryTypes /\ InOrder /\ OnePerRequest /\ OlderAreOver
        /\ Cardinality(Req) \in Nat /\ RunId \in SUBSET Nat
        /\ IsFiniteSet(RunId) /\ Cardinality(RunId) = Cardinality(Req)
        /\ Unused \in SUBSET RunId
    BY RunIdIs DEF RegistryInv, Unused
  <1>1. Unused # {}
    <2>. SUFFICES ASSUME Unused = {} PROVE FALSE
      OBVIOUS
    <2>1. Cardinality(Accepted) = Cardinality(Req)
      BY <1>0 DEF OnePerRequest
    <2>2. Accepted \subseteq Req /\ c \notin Accepted
      BY DEF Accepted
    <2>3. Cardinality(Accepted) < Cardinality(Req)
      BY <2>2, FS_Subset, <1>0, <2>1, TestRunAssumption
    <2>. QED BY <1>0, <2>1, <2>3
  <1>2. r \in Unused /\ \A q \in Unused : r <= q
    BY <1>0, <1>1, MinIn
  <1>. HIDE DEF r
  <1>3. r \in RunId /\ r \in Nat /\ runs[r].state = "none"
    BY <1>0, <1>2 DEF Unused
  <1>4. /\ runs' = [runs EXCEPT ![r] = [runs[r] EXCEPT !.state = "running"]]
        /\ req' = [req EXCEPT ![c] = "accepted"] /\ victim' = victim
    BY DEF StartRun, r
  <1>5. /\ \A q \in RunId : q # r => runs'[q] = runs[q]
        /\ runs'[r].state = "running" /\ runs'[r].cancel = runs[r].cancel
    BY <1>0, <1>3, <1>4 DEF RegistryTypes
  <1>6. RegistryTypes'
    BY <1>0, <1>3, <1>4 DEF RegistryTypes, RunId
  <1>7. \A q \in RunId : q < r => runs[q].state # "none"
    <2>. SUFFICES ASSUME NEW q \in RunId, q < r, runs[q].state = "none" PROVE FALSE
      OBVIOUS
    <2>1. q \in Unused
      BY DEF Unused
    <2>. QED BY <1>0, <1>2, <1>3, <2>1
  <1>8. InOrder'
    <2>. SUFFICES ASSUME NEW a \in RunId, NEW q \in RunId, q < a, runs'[a].state # "none"
                  PROVE  runs'[q].state # "none"
      BY DEF InOrder, RunId
    <2>. QED BY <1>0, <1>5, <1>7 DEF InOrder
  <1>9. OnePerRequest'
    <2>1. RunId \ Unused' = (RunId \ Unused) \cup {r} /\ r \notin RunId \ Unused
      BY <1>2, <1>3, <1>5 DEF Unused
    <2>2. Accepted' = Accepted \cup {c} /\ c \notin Accepted
      BY <1>0, <1>4 DEF RegistryTypes, Accepted
    <2>3. IsFiniteSet(RunId \ Unused) /\ IsFiniteSet(Accepted)
      BY <1>0, TestRunAssumption, FS_Subset DEF Accepted
    <2>4. /\ Cardinality(RunId \ Unused') = Cardinality(RunId \ Unused) + 1
          /\ Cardinality(Accepted') = Cardinality(Accepted) + 1
      BY <2>1, <2>2, <2>3, FS_AddElement
    <2>. QED BY <1>0, <2>4 DEF OnePerRequest, RunId
  <1>10. OlderAreOver'
    <2>. SUFFICES ASSUME NEW a \in RunId, NEW q \in RunId, q < a,
                         a = victim \/ runs'[a].cancel = "eviction"
                  PROVE  runs'[q].state \in {"finished", "swept"}
      BY <1>4 DEF OlderAreOver, RunId
    <2>1. runs'[a].cancel = runs[a].cancel
      BY <1>5
    <2>2. runs[q].state \in {"finished", "swept"}
      BY <1>0, <2>1 DEF OlderAreOver
    <2>. QED BY <1>3, <1>5, <2>2
  <1>. QED BY <1>6, <1>8, <1>9, <1>10 DEF RegistryInv

(* What starts no run leaves the used ones used, and in their order.       *)
LEMMA RegistryNoStart ==
    ASSUME RegistryInv, RegistryTypes', Accepted' = Accepted,
           \A r \in RunId :
               /\ runs[r].state = "none" <=> runs'[r].state = "none"
               /\ runs[r].state \in {"finished", "swept"} => runs'[r].state \in {"finished", "swept"},
           \A r \in RunId : r = victim' \/ runs'[r].cancel = "eviction" =>
               \/ r = victim \/ runs[r].cancel = "eviction"
               \/ \A q \in RunId : q < r => runs[q].state \in {"finished", "swept"}
    PROVE  RegistryInv'
  <1>1. Unused' = Unused
    BY DEF Unused, RunId
  <1>2. InOrder'
    BY DEF RegistryInv, InOrder, RunId
  <1>3. OnePerRequest'
    BY <1>1 DEF RegistryInv, OnePerRequest, RunId
  <1>4. OlderAreOver'
    <2>. SUFFICES ASSUME NEW r \in RunId, NEW q \in RunId, q < r,
                         r = victim' \/ runs'[r].cancel = "eviction"
                  PROVE  runs'[q].state \in {"finished", "swept"}
      BY DEF OlderAreOver, RunId
    <2>1. runs[q].state \in {"finished", "swept"}
      BY DEF RegistryInv, OlderAreOver
    <2>. QED BY <2>1
  <1>. QED BY <1>2, <1>3, <1>4 DEF RegistryInv

(* A request that only goes on, or is refused.                             *)
LEMMA RegistryGoto ==
    ASSUME RegistryInv, NEW c \in Req, req[c] # "accepted",
           NEW next \in {"start", "evict", "refused"}, Goto(c, next)
    PROVE  RegistryInv'
  <1>1. req' = [req EXCEPT ![c] = next] /\ runs' = runs /\ victim' = victim
    BY DEF Goto
  <1>2. RegistryTypes' /\ Accepted' = Accepted
    BY <1>1 DEF RegistryInv, RegistryTypes, Accepted, RunId
  <1>. QED BY <1>1, <1>2, RegistryNoStart

(* The victim is the oldest of the runs that were running.                 *)
LEMMA RegistryEvict ==
    ASSUME RegistryInv, NEW c \in Req, Evict(c)
    PROVE  RegistryInv'
  <1>1. CASE Running = {}
    BY <1>1, RegistryGoto DEF Evict
  <1>2. CASE Running # {}
    <2>. DEFINE old == Min(Running)
    <2>0. RegistryTypes /\ Running \in SUBSET Nat /\ Running \subseteq RunId
          /\ RunId \in SUBSET Nat
      BY RunIdIs DEF RegistryInv, Running
    <2>1. old \in Running /\ \A q \in Running : old <= q
      BY <1>2, <2>0, MinIn
    <2>2. victim' = old /\ req' = [req EXCEPT ![c] = "cancel"] /\ runs' = runs /\ req[c] = "evict"
      BY <1>2 DEF Evict, OldestRunning
    <2>. HIDE DEF old
    <2>3. RegistryTypes' /\ Accepted' = Accepted
      BY <2>0, <2>1, <2>2 DEF RegistryTypes, Accepted, RunId
    <2>4. ASSUME NEW q \in RunId, q < old PROVE runs[q].state \in {"finished", "swept"}
      <3>1. q \notin Running /\ old \in RunId /\ runs[old].state = "running"
        BY <2>0, <2>1, <2>4 DEF Running
      <3>2. runs[q].state # "none" /\ runs[q].state # "running"
        BY <2>4, <3>1 DEF RegistryInv, InOrder, Running
      <3>. QED BY <2>0, <3>2 DEF RegistryTypes
    <2>. QED BY <2>2, <2>3, <2>4, RegistryNoStart
  <1>. QED BY <1>1, <1>2

(* A run is asked to end by a client, or as the victim.                    *)
LEMMA RegistryCancel ==
    ASSUME RegistryInv, NEW r \in RunId, NEW by \in {"client", "eviction"},
           runs' = RequestCancel(r, by), by = "eviction" => r = victim,
           victim' \in {victim, 0}, 0 \notin RunId,
           Accepted' = Accepted,
           req' \in [Req -> {"idle", "start", "evict", "cancel", "again", "accepted", "refused"}]
    PROVE  RegistryInv'
  <1>1. \/ runs' = runs
        \/ runs' = [runs EXCEPT ![r] = [runs[r] EXCEPT !.cancel = by]]
    BY DEF RequestCancel
  <1>2. RegistryTypes'
    <2>1. runs' \in [RunId -> [state : {"none", "running", "finished", "swept"},
                                 cancel : {"no", "client", "eviction"}]]
      BY <1>1 DEF RegistryInv, RegistryTypes
    <2>2. victim' \in RunId \cup {0}
      BY DEF RegistryInv, RegistryTypes
    <2>. QED BY <2>1, <2>2 DEF RegistryTypes, RunId
  <1>3. \A q \in RunId :
            /\ runs'[q].state = runs[q].state
            /\ runs'[q].cancel = "eviction" => runs[q].cancel = "eviction" \/ q = victim
    <2>. SUFFICES ASSUME NEW q \in RunId
                  PROVE  /\ runs'[q].state = runs[q].state
                         /\ runs'[q].cancel = "eviction" =>
                                runs[q].cancel = "eviction" \/ q = victim
      OBVIOUS
    <2>1. CASE runs' = runs
      BY <2>1
    <2>2. CASE runs' = [runs EXCEPT ![r] = [runs[r] EXCEPT !.cancel = by]]
      <3>1. CASE q = r
        <4>1. runs'[q] = [runs[r] EXCEPT !.cancel = by]
          BY <2>2, <3>1 DEF RegistryInv, RegistryTypes
        <4>. QED BY <3>1, <4>1 DEF RegistryInv, RegistryTypes
      <3>2. CASE q # r
        BY <2>2, <3>2 DEF RegistryInv, RegistryTypes
      <3>. QED BY <3>1, <3>2
    <2>. QED BY <1>1, <2>1, <2>2
  <1>. QED BY <1>2, <1>3, RegistryNoStart

(* A run ends, and is forgotten.                                           *)
LEMMA RegistryEnd ==
    ASSUME RegistryInv, NEW r \in RunId, End(r) \/ SweepRun(r)
    PROVE  RegistryInv'
  <1>1. PICK state \in {"finished", "swept"} :
            /\ runs' = [runs EXCEPT ![r] = [runs[r] EXCEPT !.state = state]]
            /\ runs[r].state # "none"
    BY DEF End, SweepRun, Running, Expired
  <1>2. req' = req /\ victim' = victim
    BY DEF End, SweepRun
  <1>3. RegistryTypes' /\ Accepted' = Accepted
    BY <1>1, <1>2 DEF RegistryInv, RegistryTypes, Accepted, RunId
  <1>4. /\ \A q \in RunId : q # r => runs'[q] = runs[q]
        /\ runs'[r] = [runs[r] EXCEPT !.state = state]
    BY <1>1 DEF RegistryInv, RegistryTypes
  <1>5. runs'[r].state = state /\ runs'[r].cancel = runs[r].cancel
    BY <1>4 DEF RegistryInv, RegistryTypes
  <1>6. \A q \in RunId :
            /\ runs[q].state = "none" <=> runs'[q].state = "none"
            /\ runs[q].state \in {"finished", "swept"} => runs'[q].state \in {"finished", "swept"}
            /\ runs'[q].cancel = runs[q].cancel
    BY <1>1, <1>4, <1>5
  <1>. QED BY <1>2, <1>3, <1>6, RegistryNoStart

LEMMA RegistryStep ==
    ASSUME RegistryInv, [RunsNext]_runsVars
    PROVE  RegistryInv'
  <1>0. 0 \notin RunId
    BY RunIdIs
  <1>1. CASE UNCHANGED runsVars
    BY <1>1 DEF runsVars, RegistryInv, RegistryTypes, InOrder, OnePerRequest, OlderAreOver,
                RunId, Unused, Accepted
  <1>2. ASSUME NEW c \in Req, Press(c) PROVE RegistryInv'
    BY <1>2, RegistryGoto DEF Press
  <1>3. ASSUME NEW c \in Req, StartFirst(c) \/ StartAgain(c) PROVE RegistryInv'
    <2>1. req[c] # "accepted"
      BY <1>3 DEF StartFirst, StartAgain
    <2>2. CASE StartRun(c)
      BY <2>1, <2>2, RegistryStart
    <2>3. CASE Goto(c, "evict") \/ Goto(c, "refused")
      BY <2>1, <2>3, RegistryGoto
    <2>. QED BY <1>3, <2>2, <2>3 DEF StartFirst, StartAgain
  <1>4. ASSUME NEW c \in Req, Evict(c) PROVE RegistryInv'
    BY <1>4, RegistryEvict
  <1>5. ASSUME NEW c \in Req, CancelVictim(c) PROVE RegistryInv'
    <2>1. /\ runs' = RequestCancel(victim, "eviction") /\ victim' = 0
          /\ Accepted' = Accepted
          /\ req' \in [Req -> {"idle", "start", "evict", "cancel", "again", "accepted", "refused"}]
      BY <1>5 DEF CancelVictim, RegistryInv, RegistryTypes, Accepted
    <2>2. CASE victim \in RunId
      BY <1>0, <2>1, <2>2, RegistryCancel
    <2>3. CASE victim \notin RunId
      <3>1. runs' = runs /\ victim' = victim
        BY <2>1, <2>3 DEF RequestCancel, Running, RegistryInv, RegistryTypes
      <3>2. RegistryTypes'
        BY <2>1, <3>1 DEF RegistryInv, RegistryTypes, RunId
      <3>. QED BY <2>1, <3>1, <3>2, RegistryNoStart
    <2>. QED BY <2>2, <2>3
  <1>6. ASSUME NEW r \in RunId, CancelRun(r) PROVE RegistryInv'
    <2>1. /\ runs' = RequestCancel(r, "client") /\ req' = req /\ victim' = victim
      BY <1>6 DEF CancelRun
    <2>2. Accepted' = Accepted
      BY <2>1 DEF Accepted
    <2>. QED BY <1>0, <2>1, <2>2, RegistryCancel DEF RegistryInv, RegistryTypes
  <1>7. ASSUME NEW r \in RunId, End(r) \/ SweepRun(r) PROVE RegistryInv'
    BY <1>7, RegistryEnd
  <1>. QED
    BY <1>1, <1>2, <1>3, <1>4, <1>5, <1>6, <1>7 DEF RunsNext, Handle

(* However evictions race each other, the end of runs and the cancels of   *)
(* clients, whatever is older than a run that is evicted is over.          *)
THEOREM OldestGoesFirstHolds == RunsSpec => []OldestGoesFirst
  <1>1. RunsInit => RegistryInv
    BY RegistryInit
  <1>2. RegistryInv /\ [RunsNext]_runsVars => RegistryInv'
    BY RegistryStep
  <1>3. RegistryInv => OldestGoesFirst
    BY DEF RegistryInv, OlderAreOver, OldestGoesFirst, Running
  <1>. QED
    BY <1>1, <1>2, <1>3, PTL DEF RunsSpec
=============================================================================
