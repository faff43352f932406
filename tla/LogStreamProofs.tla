--------------------------- MODULE LogStreamProofs ---------------------------
(***************************************************************************)
(* The log of an execution and the client that follows it, for any limit,  *)
(* page size, chunks and faults.  The client puts together what it knows   *)
(* from four statements between which the sink goes on writing and rolling *)
(* off; that it misses nothing unmarked rests on the log being cut off at  *)
(* its old end only: what a page passed over was gone when it was read,    *)
(* and with it everything before.                                          *)
(***************************************************************************)
EXTENDS LogStream, FiniteSetTheorems, WellFoundedInduction, TLAPS

-----------------------------------------------------------------------------
(* Induction over the naturals, of a set.                                  *)
LEMMA NatSetInduction ==
    ASSUME NEW T, 0 \in T, \A n \in Nat : n \in T => n + 1 \in T
    PROVE  Nat \subseteq T
  <1>. SUFFICES ASSUME Nat \ T # {} PROVE FALSE
    OBVIOUS
  <1>1. IsWellFoundedOn(OpToRel(<, Nat), Nat)
    BY NatLessThanWellFounded
  <1>2. PICK x \in Nat \ T : \A y \in Nat \ T : ~(<<y, x>> \in OpToRel(<, Nat))
    BY <1>1, WFMin
  <1>3. \A y \in Nat \ T : ~(y < x)
    BY <1>2 DEF OpToRel
  <1>4. x # 0
    OBVIOUS
  <1>5. PICK y \in Nat : x = y + 1
    <2>. x - 1 \in Nat /\ x = (x - 1) + 1
      BY <1>4
    <2>. QED OBVIOUS
  <1>. QED
    BY <1>3, <1>5

-----------------------------------------------------------------------------
(* The sum of a function over a finite set: that of no chunk is 0, and it  *)
(* grows and shrinks with the set by what the function is there.           *)
Sum(w, S) == MapThenSumSet(LAMBDA n : w[n], S)

(* The recursive function that MapThenSumSet is defined by.                *)
Pick(s) == CHOOSE x \in s : TRUE
Body(w, g, s) == IF s = {} THEN 0 ELSE w[Pick(s)] + g[s \ {Pick(s)}]
Iter(w, S) == CHOOSE g : g = [s \in SUBSET S |-> Body(w, g, s)]

LEMMA SumIter == ASSUME NEW w, NEW S PROVE Sum(w, S) = Iter(w, S)[S]
  BY DEF Sum, Iter, Body, Pick, MapThenSumSet, MapThenFoldSet

LEMMA PickIn == ASSUME NEW s, s # {} PROVE Pick(s) \in s
  BY DEF Pick

LEMMA SmallerPart ==
    ASSUME NEW s, IsFiniteSet(s), NEW x \in s
    PROVE  /\ IsFiniteSet(s \ {x}) /\ Cardinality(s) \in Nat
           /\ Cardinality(s \ {x}) = Cardinality(s) - 1
  BY FS_RemoveElement, FS_CardinalityType

(* It is defined on every part of a finite set.                            *)
LEMMA IterExists ==
    ASSUME NEW w, NEW S, IsFiniteSet(S), \A x \in S : w[x] \in Int
    PROVE  \E g \in [SUBSET S -> Int] : \A s \in SUBSET S : g[s] = Body(w, g, s)
  <1>. DEFINE Upto(g, n) == \A s \in SUBSET S : Cardinality(s) <= n => g[s] = Body(w, g, s)
              T == {n \in Nat : \E g \in [SUBSET S -> Int] : Upto(g, n)}
  <1>. \A s \in SUBSET S : IsFiniteSet(s) /\ Cardinality(s) \in Nat
    BY FS_Subset, FS_CardinalityType
  <1>1. 0 \in T
    <2>. DEFINE g == [s \in SUBSET S |-> 0]
    <2>1. g \in [SUBSET S -> Int]
      OBVIOUS
    <2>2. ASSUME NEW s \in SUBSET S, Cardinality(s) <= 0 PROVE g[s] = Body(w, g, s)
      <3>1. s = {}
        BY <2>2, FS_EmptySet
      <3>. QED BY <3>1 DEF Body
    <2>3. Upto(g, 0)
      BY <2>2
    <2>. HIDE DEF g
    <2>. QED BY <2>1, <2>3
  <1>2. ASSUME NEW n \in Nat, n \in T PROVE n + 1 \in T
    <2>. HIDE DEF Upto
    <2>1. PICK g \in [SUBSET S -> Int] : Upto(g, n)
      BY <1>2
    <2>. DEFINE h == [s \in SUBSET S |-> IF Cardinality(s) <= n THEN g[s] ELSE Body(w, g, s)]
    <2>2. ASSUME NEW s \in SUBSET S PROVE Body(w, g, s) \in Int
      BY PickIn DEF Body
    <2>3. h \in [SUBSET S -> Int]
      BY <2>2
    <2>4. ASSUME NEW s \in SUBSET S, Cardinality(s) <= n + 1 PROVE h[s] = Body(w, g, s)
      BY <2>1, <2>4 DEF Upto
    <2>5. ASSUME NEW s \in SUBSET S, Cardinality(s) <= n + 1
          PROVE  Body(w, h, s) = Body(w, g, s)
      <3>1. CASE s = {}
        BY <3>1 DEF Body
      <3>2. CASE s # {}
        <4>. DEFINE x == Pick(s)
        <4>1. x \in s
          BY <3>2, PickIn
        <4>. HIDE DEF x
        <4>2. s \ {x} \in SUBSET S /\ Cardinality(s \ {x}) <= n
          BY <2>5, <4>1, SmallerPart
        <4>3. h[s \ {x}] = g[s \ {x}]
          BY <4>2
        <4>. HIDE DEF h
        <4>. QED BY <4>3 DEF Body, x
      <3>. QED BY <3>1, <3>2
    <2>. HIDE DEF h
    <2>6. Upto(h, n + 1)
      BY <2>4, <2>5 DEF Upto
    <2>. QED BY <2>3, <2>6
  <1>. HIDE DEF T
  <1>3. Nat \subseteq T
    BY <1>1, <1>2, NatSetInduction
  <1>4. Cardinality(S) \in T
    BY <1>3
  <1>5. PICK g \in [SUBSET S -> Int] : Upto(g, Cardinality(S))
    BY <1>4 DEF T
  <1>6. \A s \in SUBSET S : g[s] = Body(w, g, s)
    BY <1>5, FS_Subset
  <1>. QED
    BY <1>6

LEMMA IterValue ==
    ASSUME NEW w, NEW S, IsFiniteSet(S), \A x \in S : w[x] \in Int
    PROVE  /\ Iter(w, S) \in [SUBSET S -> Int]
           /\ \A s \in SUBSET S : Iter(w, S)[s] = Body(w, Iter(w, S), s)
  <1>. DEFINE Good(g) == g = [s \in SUBSET S |-> Body(w, g, s)]
              h == Iter(w, S)
  <1>1. PICK g \in [SUBSET S -> Int] : \A s \in SUBSET S : g[s] = Body(w, g, s)
    BY IterExists
  <1>2. Good(g)
    BY <1>1
  <1>. HIDE DEF Good
  <1>. HIDE DEF h
  <1>x. Good(h)
    BY <1>2 DEF Iter, Good, h
  <1>3. h = [s \in SUBSET S |-> Body(w, h, s)]
    BY <1>x DEF Good
  <1>4. \A s \in SUBSET S : h[s] = Body(w, h, s)
    BY <1>3
  <1>. DEFINE T == {n \in Nat : \A s \in SUBSET S : Cardinality(s) = n => h[s] \in Int}
  <1>. \A s \in SUBSET S : IsFiniteSet(s) /\ Cardinality(s) \in Nat
    BY FS_Subset, FS_CardinalityType
  <1>5. 0 \in T
    <2>. SUFFICES ASSUME NEW s \in SUBSET S, Cardinality(s) = 0 PROVE h[s] \in Int
      OBVIOUS
    <2>1. s = {}
      BY FS_EmptySet
    <2>2. h[s] = Body(w, h, s)
      BY <1>4
    <2>. QED BY <2>1, <2>2 DEF Body
  <1>6. ASSUME NEW n \in Nat, n \in T PROVE n + 1 \in T
    <2>. SUFFICES ASSUME NEW s \in SUBSET S, Cardinality(s) = n + 1 PROVE h[s] \in Int
      OBVIOUS
    <2>1. s # {}
      BY FS_EmptySet
    <2>. DEFINE x == Pick(s)
    <2>2. x \in s
      BY <2>1, PickIn
    <2>3. h[s] = w[x] + h[s \ {x}]
      BY <1>4, <2>1 DEF Body
    <2>. HIDE DEF x
    <2>4. s \ {x} \in SUBSET S /\ Cardinality(s \ {x}) = n
      BY <2>2, SmallerPart
    <2>5. h[s \ {x}] \in Int
      BY <1>6, <2>4
    <2>. QED BY <2>2, <2>3, <2>5
  <1>. HIDE DEF T
  <1>7. Nat \subseteq T
    BY <1>5, <1>6, NatSetInduction
  <1>8. \A s \in SUBSET S : h[s] \in Int
    BY <1>7 DEF T
  <1>. QED
    BY <1>3, <1>4, <1>8 DEF h

(* What is summed over does not matter beyond the part that is summed.     *)
LEMMA IterAgree ==
    ASSUME NEW w, NEW S, IsFiniteSet(S), \A x \in S : w[x] \in Int,
           NEW v, NEW R, IsFiniteSet(R), \A x \in R : v[x] \in Int,
           NEW P \in SUBSET (S \cap R), \A x \in P : w[x] = v[x]
    PROVE  Iter(w, S)[P] = Iter(v, R)[P]
  <1>. DEFINE g == Iter(w, S)
              h == Iter(v, R)
              T == {n \in Nat : \A s \in SUBSET P : Cardinality(s) = n => g[s] = h[s]}
  <1>. SUBSET P \subseteq SUBSET S /\ SUBSET P \subseteq SUBSET R /\ IsFiniteSet(P)
    BY FS_Subset
  <1>a. \A s \in SUBSET S : g[s] = Body(w, g, s)
    <2>. HIDE DEF T
    <2>. QED BY IterValue
  <1>b. \A s \in SUBSET R : h[s] = Body(v, h, s)
    <2>. HIDE DEF T
    <2>. QED BY IterValue
  <1>1. \A s \in SUBSET P : g[s] = Body(w, g, s)
    BY <1>a
  <1>2. \A s \in SUBSET P : h[s] = Body(v, h, s)
    BY <1>b
  <1>. HIDE DEF g, h
  <1>. \A s \in SUBSET P : IsFiniteSet(s) /\ Cardinality(s) \in Nat
    BY FS_Subset, FS_CardinalityType
  <1>3. 0 \in T
    <2>. SUFFICES ASSUME NEW s \in SUBSET P, Cardinality(s) = 0 PROVE g[s] = h[s]
      OBVIOUS
    <2>1. s = {}
      BY FS_EmptySet
    <2>. QED BY <1>1, <1>2, <2>1 DEF Body
  <1>4. ASSUME NEW n \in Nat, n \in T PROVE n + 1 \in T
    <2>. SUFFICES ASSUME NEW s \in SUBSET P, Cardinality(s) = n + 1 PROVE g[s] = h[s]
      OBVIOUS
    <2>1. s # {}
      BY FS_EmptySet
    <2>. DEFINE x == Pick(s)
    <2>2. x \in s
      BY <2>1, PickIn
    <2>3. g[s] = w[x] + g[s \ {x}] /\ h[s] = v[x] + h[s \ {x}]
      BY <1>1, <1>2, <2>1 DEF Body
    <2>. HIDE DEF x
    <2>. HIDE DEF T
    <2>4. s \ {x} \in SUBSET P /\ Cardinality(s \ {x}) = n
      <3>1. IsFiniteSet(s)
        OBVIOUS
      <3>2. Cardinality(s \ {x}) = Cardinality(s) - 1
        BY <2>2, <3>1, SmallerPart
      <3>. QED BY <3>2
    <2>5. g[s \ {x}] = h[s \ {x}] /\ w[x] = v[x]
      BY <1>4, <2>2, <2>4 DEF T
    <2>. QED BY <2>3, <2>5
  <1>. HIDE DEF T
  <1>5. Nat \subseteq T
    BY <1>3, <1>4, NatSetInduction
  <1>6. g[P] = h[P]
    BY <1>5 DEF T
  <1>. QED
    BY <1>6 DEF g, h

LEMMA SumSame ==
    ASSUME NEW w, NEW v, NEW S, IsFiniteSet(S),
           \A x \in S : w[x] \in Int /\ w[x] = v[x]
    PROVE  Sum(w, S) = Sum(v, S)
  BY SumIter, IterAgree

(* Whichever element is taken first.                                       *)
LEMMA IterRemove ==
    ASSUME NEW w, NEW S, IsFiniteSet(S), \A x \in S : w[x] \in Int
    PROVE  \A s \in SUBSET S : \A x \in s : Iter(w, S)[s] = w[x] + Iter(w, S)[s \ {x}]
  <1>. DEFINE g == Iter(w, S)
              T == {n \in Nat : \A s \in SUBSET S : Cardinality(s) = n =>
                        \A x \in s : g[s] = w[x] + g[s \ {x}]}
  <1>1. \A s \in SUBSET S : g[s] = Body(w, g, s) /\ g[s] \in Int
    <2>. HIDE DEF T
    <2>1. g \in [SUBSET S -> Int] /\ \A s \in SUBSET S : g[s] = Body(w, g, s)
      BY IterValue
    <2>. HIDE DEF g
    <2>. QED BY <2>1
  <1>. HIDE DEF g
  <1>. \A s \in SUBSET S : IsFiniteSet(s) /\ Cardinality(s) \in Nat
    BY FS_Subset, FS_CardinalityType
  <1>2. 0 \in T
    BY FS_EmptySet
  <1>3. ASSUME NEW n \in Nat, n \in T PROVE n + 1 \in T
    <2>. SUFFICES ASSUME NEW s \in SUBSET S, Cardinality(s) = n + 1, NEW x \in s
                  PROVE  g[s] = w[x] + g[s \ {x}]
      OBVIOUS
    <2>. DEFINE y == Pick(s)
    <2>1. y \in s
      BY PickIn
    <2>2. g[s] = w[y] + g[s \ {y}]
      BY <1>1 DEF Body
    <2>. HIDE DEF y
    <2>3. CASE x = y
      BY <2>2, <2>3
    <2>4. CASE x # y
      <3>1. /\ s \ {y} \in SUBSET S /\ Cardinality(s \ {y}) = n /\ x \in s \ {y}
            /\ s \ {x} \in SUBSET S /\ Cardinality(s \ {x}) = n /\ y \in s \ {x}
        BY <2>1, <2>4, SmallerPart
      <3>2. g[s \ {y}] = w[x] + g[(s \ {y}) \ {x}]
        BY <1>3, <3>1
      <3>3. g[s \ {x}] = w[y] + g[(s \ {x}) \ {y}]
        BY <1>3, <3>1
      <3>4. (s \ {y}) \ {x} = (s \ {x}) \ {y} /\ (s \ {x}) \ {y} \in SUBSET S
        OBVIOUS
      <3>5. w[x] \in Int /\ w[y] \in Int /\ g[(s \ {x}) \ {y}] \in Int
        BY <1>1, <2>1, <3>4
      <3>. HIDE DEF T
      <3>6. PICK a, b, c \in Int : a = w[x] /\ b = w[y] /\ c = g[(s \ {x}) \ {y}]
        BY <3>5
      <3>7. g[s \ {y}] = a + c /\ g[s \ {x}] = b + c /\ g[s] = b + g[s \ {y}]
        BY <2>2, <3>2, <3>3, <3>4, <3>6
      <3>. QED BY <3>6, <3>7
    <2>. QED BY <2>3, <2>4
  <1>. HIDE DEF T
  <1>4. Nat \subseteq T
    BY <1>2, <1>3, NatSetInduction
  <1>. QED
    BY <1>4 DEF T, g

LEMMA SumEmpty ==
    ASSUME NEW w
    PROVE  Sum(w, {}) = 0
  <1>1. {} \in SUBSET {} /\ IsFiniteSet({})
    BY FS_EmptySet
  <1>2. Iter(w, {})[{}] = Body(w, Iter(w, {}), {})
    BY <1>1, IterValue, ZenonT(30)
  <1>. QED BY <1>2, SumIter DEF Body

LEMMA SumInt ==
    ASSUME NEW w, NEW S, IsFiniteSet(S), \A x \in S : w[x] \in Int
    PROVE  Sum(w, S) \in Int
  <1>1. Iter(w, S) \in [SUBSET S -> Int]
    BY IterValue
  <1>. QED BY <1>1, SumIter

LEMMA SumRemove ==
    ASSUME NEW w, NEW S, IsFiniteSet(S), \A y \in S : w[y] \in Int, NEW x \in S
    PROVE  Sum(w, S) = w[x] + Sum(w, S \ {x})
  <1>1. Sum(w, S) = w[x] + Iter(w, S)[S \ {x}]
    BY SumIter, IterRemove
  <1>2. Iter(w, S)[S \ {x}] = Iter(w, S \ {x})[S \ {x}]
    BY IterAgree, FS_Subset
  <1>. QED
    BY <1>1, <1>2, SumIter

LEMMA SumAdd ==
    ASSUME NEW w, NEW S, IsFiniteSet(S), NEW x, x \notin S, w[x] \in Int, \A y \in S : w[y] \in Int
    PROVE  Sum(w, S \cup {x}) = w[x] + Sum(w, S)
  <1>1. (S \cup {x}) \ {x} = S /\ IsFiniteSet(S \cup {x})
    BY FS_AddElement
  <1>2. Sum(w, S \cup {x}) = w[x] + Sum(w, (S \cup {x}) \ {x})
    BY <1>1, SumRemove
  <1>. QED
    BY <1>1, <1>2

-----------------------------------------------------------------------------
(* The least and the greatest of some chunks.                              *)
LEMMA MinIn ==
    ASSUME NEW S \in SUBSET Nat, S # {}
    PROVE  Min(S) \in S /\ \A y \in S : Min(S) <= y
  <1>1. IsWellFoundedOn(OpToRel(<, Nat), Nat)
    BY NatLessThanWellFounded
  <1>2. PICK x \in S : \A y \in S : ~(<<y, x>> \in OpToRel(<, Nat))
    BY <1>1, WFMin
  <1>3. \A y \in S : ~(y < x)
    BY <1>2 DEF OpToRel
  <1>4. \A y \in S : x <= y
    BY <1>3
  <1>. QED
    BY <1>4 DEF Min

LEMMA MaxIn ==
    ASSUME NEW k \in Nat, NEW S \in SUBSET (1..k), S # {}
    PROVE  Max(S) \in S /\ \A y \in S : y <= Max(S)
  <1>. DEFINE T == {k - x : x \in S}
  <1>1. T \in SUBSET Nat /\ T # {}
    <2>1. \A x \in S : k - x \in Nat
      OBVIOUS
    <2>2. T \subseteq Nat
      BY <2>1
    <2>. QED BY <2>2
  <1>2. PICK t \in T : \A u \in T : t <= u
    BY <1>1, MinIn
  <1>3. PICK x \in S : t = k - x
    BY <1>2
  <1>4. ASSUME NEW y \in S PROVE y <= x
    <2>1. k - x <= k - y
      BY <1>2, <1>3
    <2>. QED BY <2>1
  <1>. QED
    BY <1>3, <1>4 DEF Max

-----------------------------------------------------------------------------
(* SinkInv: the log is what was written, but for an end cut off; the sink  *)
(* counts its size, keeps what it wrote last and is done once the          *)
(* execution is.                                                           *)
Cut == \A m \in written, n \in stored : n < m => m \in stored

SinkInv ==
    /\ seq \in 0..MaxChunks /\ stored \subseteq written /\ written \subseteq 1..seq
    /\ size \in [Chunk -> Nat] /\ faults \in Nat
    /\ writer \in {"run", "trim", "done"} /\ up \in BOOLEAN /\ finished \in BOOLEAN
    /\ Cut /\ (written # {} => stored # {})
    /\ writer = "trim" => seq \in stored
    /\ retained = StoredSize
    /\ ~up \/ finished => writer = "done"
    /\ writer # "trim" /\ faults = 0 /\ Limit > 0 =>
           StoredSize <= Limit \/ Cardinality(stored) = 1

(* Chunk m was passed over by the page that is put together.               *)
Skipped(m) ==
    cursor < m /\ m \notin page.chunks /\ \E n \in page.chunks : m < n

(* PageInv: what a page passes over is gone, with all before it; and what  *)
(* is read of the log later on tells so.                                   *)
PageInv ==
    /\ page \in [finished : BOOLEAN, chunks : SUBSET Chunk, oldest : Nat, more : BOOLEAN]
    /\ client \in {"chunks", "oldest", "more", "answer"} /\ page.finished => writer = "done"
    /\ client \in {"oldest", "more", "answer"} =>
           /\ page.chunks \subseteq written
           /\ \A n \in page.chunks : cursor < n
           /\ \A m \in written : Skipped(m) =>
                  m \notin stored /\ \A n \in page.chunks : m < n
    /\ client \in {"more", "answer"} /\ ~blind =>
           \A m \in written : Skipped(m) => m < page.oldest
    /\ client = "answer" /\ ~blind /\ page.finished /\ ~page.more =>
           \A n \in stored : n <= NextSeq

(* ViewInv: the cursor is at the last chunk shown, and below it everything *)
(* was shown but for what is gone.                                         *)
ViewInv ==
    /\ client \in Serving \cup {"wait", "lost", "answer", "stopped", "failed"}
    /\ blind \in BOOLEAN /\ gap \in BOOLEAN
    /\ cursor \in Nat /\ seen \subseteq written
    /\ \A n \in seen : n <= cursor
    /\ cursor > 0 => cursor \in seen
    /\ \A m \in stored : m <= cursor => m \in seen
    /\ HolesAreShown /\ StopsComplete

LogInv == SinkInv /\ PageInv /\ ViewInv

-----------------------------------------------------------------------------
(* The sink.                                                               *)
LEMMA SizeIsSum == StoredSize = Sum(size, stored) /\ StoredSize' = Sum(size', stored')
  BY DEF StoredSize, Sum, MapThenSumSet, MapThenFoldSet

LEMMA StoredFacts ==
    ASSUME SinkInv
    PROVE  /\ seq \in Nat /\ MaxChunks \in Nat /\ stored \in SUBSET (1..seq)
           /\ \A n \in stored : n \in Nat \ {0} /\ n <= seq /\ size[n] \in Nat
           /\ IsFiniteSet(stored) /\ StoredSize \in Int
  <1>1. /\ seq \in Nat /\ MaxChunks \in Nat /\ stored \in SUBSET (1..seq)
        /\ \A n \in stored : n \in Nat \ {0} /\ n <= seq /\ n \in Chunk
    BY ViewerAssumption DEF SinkInv, Chunk
  <1>2. \A n \in stored : size[n] \in Nat
    BY <1>1 DEF SinkInv
  <1>3. IsFiniteSet(stored)
    <2>1. IsFiniteSet(1..seq)
      BY <1>1, FS_Interval
    <2>. QED BY <1>1, <2>1, FS_Subset
  <1>4. StoredSize \in Int
    <2>1. \A n \in stored : size[n] \in Int
      BY <1>2
    <2>. QED BY <1>3, <2>1, SumInt, SizeIsSum
  <1>. QED
    BY <1>1, <1>2, <1>3, <1>4

LEMMA OldestIs ==
    ASSUME SinkInv, stored # {}
    PROVE  Oldest(stored) \in stored /\ \A n \in stored : Oldest(stored) <= n
  <1>1. stored \in SUBSET Nat
    BY StoredFacts
  <1>. QED
    BY <1>1, MinIn DEF Oldest

LEMMA SinkInit == Init => SinkInv
  <1>. SUFFICES ASSUME Init PROVE SinkInv
    OBVIOUS
  <1>1. StoredSize = 0
    BY SizeIsSum, SumEmpty DEF Init
  <1>2. seq \in 0..MaxChunks /\ size \in [Chunk -> Nat] /\ faults \in Nat
    BY ViewerAssumption DEF Init
  <1>3. StoredSize <= Limit \/ ~(Limit > 0)
    BY <1>1, LogAssumption
  <1>. QED
    BY <1>1, <1>2, <1>3 DEF Init, SinkInv, Cut

LEMMA SinkWrites ==
    ASSUME SinkInv, NEW n \in Size, WriteChunk(n)
    PROVE  SinkInv'
  <1>1. /\ seq' = seq + 1 /\ seq + 1 \in Chunk /\ seq' \in 0..MaxChunks /\ n \in Nat
        /\ size' = [size EXCEPT ![seq + 1] = n] /\ size' \in [Chunk -> Nat]
        /\ UNCHANGED <<finished, up>> /\ up /\ writer = "run" /\ size'[seq + 1] = n
    BY ViewerAssumption, LogAssumption DEF WriteChunk, SinkInv, Chunk
  <1>2. ~finished /\ seq + 1 \notin stored
    BY <1>1, StoredFacts DEF SinkInv
  <1>3. \A x \in stored : size'[x] = size[x] /\ size[x] \in Int
    BY <1>1, <1>2, StoredFacts DEF SinkInv
  <1>4. Sum(size', stored) = StoredSize
    BY <1>3, StoredFacts, SumSame, SizeIsSum
  <1>5. CASE /\ stored' = stored \cup {seq + 1} /\ written' = written \cup {seq + 1}
             /\ retained' = retained + n
             /\ writer' = "trim" /\ UNCHANGED faults
    <2>1. stored' \subseteq written' /\ written' \subseteq 1..seq' /\ seq' \in stored'
      BY <1>1, <1>5 DEF SinkInv
    <2>2. Cut'
      <3>. SUFFICES ASSUME NEW m \in written', NEW k \in stored', k < m PROVE m \in stored'
        BY DEF Cut
      <3>1. CASE m = seq + 1
        BY <3>1, <1>5
      <3>2. CASE m # seq + 1
        <4>1. m \in written /\ m <= seq
          BY <3>2, <1>5, StoredFacts DEF SinkInv
        <4>2. k \in stored
          <5>1. seq \in Nat /\ m \in 1..seq
            BY <4>1, StoredFacts DEF SinkInv
          <5>2. k # seq + 1
            BY <5>1
          <5>. QED BY <5>2, <1>5
        <4>. QED BY <4>1, <4>2, <1>5 DEF SinkInv, Cut
      <3>. QED BY <3>1, <3>2
    <2>3. Sum(size', stored') = n + StoredSize
      <3>1. \A x \in stored : size'[x] \in Int
        BY <1>3
      <3>2. size'[seq + 1] \in Int
        BY <1>1
      <3>3. Sum(size', stored \cup {seq + 1}) = size'[seq + 1] + Sum(size', stored)
        BY <1>2, <3>1, <3>2, StoredFacts, SumAdd
      <3>. QED BY <3>3, <1>1, <1>4, <1>5
    <2>4. retained' = StoredSize'
      BY <2>3, <1>1, <1>5, StoredFacts, SizeIsSum DEF SinkInv
    <2>. QED
      BY <1>1, <1>2, <1>5, <2>1, <2>2, <2>4 DEF SinkInv
  <1>6. CASE Fault /\ UNCHANGED <<stored, written, retained, writer>>
    <2>1. faults' \in Nat /\ faults' # 0
      BY <1>6 DEF Fault, SinkInv
    <2>2. stored' \subseteq written' /\ written' \subseteq 1..seq' /\ Cut'
          /\ (written' # {} => stored' # {})
      BY <1>1, <1>6, StoredFacts DEF SinkInv, Cut
    <2>3. retained' = StoredSize'
      BY <1>4, <1>6, SizeIsSum DEF SinkInv
    <2>. QED
      BY <1>1, <1>2, <1>6, <2>1, <2>2, <2>3 DEF SinkInv
  <1>. QED
    BY <1>5, <1>6 DEF WriteChunk

LEMMA SinkTrims ==
    ASSUME SinkInv, Trim
    PROVE  SinkInv'
  <1>. DEFINE o == Oldest(stored)
  <1>1. /\ up /\ writer = "trim" /\ o # seq /\ stored' = stored \ {o}
        /\ retained' = retained - size[o]
        /\ UNCHANGED <<seq, size, written, writer, finished, up, faults>>
    BY DEF Trim, NothingToTrim
  <1>2. o \in stored /\ (\A n \in stored : o <= n) /\ seq \in stored
    BY <1>1, OldestIs DEF SinkInv
  <1>. HIDE DEF o
  <1>3. Cut'
    <2>. SUFFICES ASSUME NEW m \in written, NEW k \in stored \ {o}, k < m
                  PROVE  m \in stored \ {o}
      BY <1>1 DEF Cut
    <2>1. m \in stored /\ o <= k
      BY <1>2 DEF SinkInv, Cut
    <2>2. m # o
      BY <1>2, <2>1, StoredFacts
    <2>. QED BY <2>1, <2>2
  <1>4. StoredSize = size[o] + StoredSize'
    <2>1. \A x \in stored : size[x] \in Int
      BY StoredFacts
    <2>2. Sum(size, stored) = size[o] + Sum(size, stored \ {o})
      BY <1>2, <2>1, StoredFacts, SumRemove
    <2>. QED BY <2>2, <1>1, SizeIsSum
  <1>5. retained' = StoredSize'
    <2>1. StoredSize' \in Int
      <3>1. \A x \in stored' : size'[x] \in Int
        BY <1>1, StoredFacts
      <3>2. IsFiniteSet(stored')
        BY <1>1, StoredFacts, FS_Subset
      <3>. QED BY <3>1, <3>2, SumInt, SizeIsSum
    <2>. QED
      BY <1>1, <1>2, <1>4, <2>1, StoredFacts DEF SinkInv
  <1>. QED
    BY <1>1, <1>2, <1>3, <1>5 DEF SinkInv

(* What leaves the log alone.                                              *)
LEMMA LogStays ==
    ASSUME SinkInv, UNCHANGED sinkVars
    PROVE  UNCHANGED <<StoredSize, Cut>>
  BY SizeIsSum DEF sinkVars, Cut

LEMMA SinkRests ==
    ASSUME SinkInv, TrimEnds
    PROVE  SinkInv'
  <1>1. /\ UNCHANGED sinkVars /\ UNCHANGED <<StoredSize, Cut>> /\ UNCHANGED <<finished, up>>
        /\ writer' = "run" /\ writer = "trim" /\ faults' \in Nat /\ seq \in stored
    <2>1. UNCHANGED sinkVars /\ UNCHANGED <<finished, up>> /\ writer' = "run" /\ writer = "trim"
      BY DEF TrimEnds
    <2>2. faults' \in Nat /\ seq \in stored
      BY <2>1 DEF TrimEnds, Fault, SinkInv
    <2>. QED BY <2>1, <2>2, LogStays
  <1>2. ASSUME faults' = 0, Limit > 0
        PROVE  StoredSize <= Limit \/ Cardinality(stored) = 1
    <2>1. NothingToTrim
      BY <1>2 DEF TrimEnds, Fault, SinkInv
    <2>2. CASE Oldest(stored) = seq
      <3>1. \A n \in stored : n = seq
        BY <2>2, <1>1, OldestIs, StoredFacts
      <3>2. stored = {seq}
        BY <3>1, <1>1
      <3>. QED BY <3>2, FS_Singleton
    <2>. QED
      BY <1>2, <2>1, <2>2, LogAssumption DEF NothingToTrim, SinkInv
  <1>. QED
    BY <1>1, <1>2 DEF SinkInv, sinkVars

LEMMA SinkEnds ==
    ASSUME SinkInv, End \/ Crash \/ Restart
    PROVE  SinkInv'
  <1>1. UNCHANGED sinkVars /\ UNCHANGED <<StoredSize, Cut>>
    BY LogStays DEF End, Crash, Restart
  <1>2. CASE End
    <2>1. /\ writer = "run" /\ writer' = "done" /\ UNCHANGED up
          /\ faults' \in {faults, faults + 1} /\ finished' \in BOOLEAN
      BY <1>2 DEF End, Fault, SinkInv
    <2>2. faults' \in Nat /\ (faults' = 0 => faults = 0)
      BY <2>1 DEF SinkInv
    <2>. QED
      BY <1>1, <2>1, <2>2 DEF SinkInv, sinkVars
  <1>3. CASE Crash
    <2>1. /\ up' = FALSE /\ writer' = "done" /\ UNCHANGED finished /\ faults' = faults + 1
      BY <1>3 DEF Crash, Fault
    <2>2. faults' \in Nat /\ faults' # 0
      BY <2>1 DEF SinkInv
    <2>. QED
      BY <1>1, <2>1, <2>2 DEF SinkInv, sinkVars
  <1>4. CASE Restart
    BY <1>1, <1>4 DEF Restart, SinkInv, sinkVars
  <1>. QED
    BY <1>2, <1>3, <1>4

(* Serving a client costs the sink nothing but the faults.                 *)
LEMMA SinkServes ==
    ASSUME SinkInv, UNCHANGED serverVars, faults' \in {faults, faults + 1}
    PROVE  SinkInv'
  <1>1. UNCHANGED <<StoredSize, Cut>>
    BY LogStays DEF serverVars
  <1>. QED
    BY <1>1 DEF SinkInv, serverVars, sinkVars

-----------------------------------------------------------------------------
(* What a client may rely on while the sink goes on: what is new comes     *)
(* after everything that was, and a log that is done stays as it is.       *)
SinkEffect ==
    /\ written \subseteq written' /\ stored' \subseteq written'
    /\ \A m \in written' : m \in Nat \ {0} /\ (m \notin written => \A n \in written : n < m)
    /\ \A m \in stored' : m \in written => m \in stored
    /\ writer = "done" => writer' = "done" /\ UNCHANGED <<stored, written>>

LEMMA WrittenFacts ==
    ASSUME SinkInv
    PROVE  \A m \in written : m \in Nat \ {0} /\ m <= seq
  BY DEF SinkInv

LEMMA SinkEffects ==
    ASSUME SinkInv, (\E n \in Size : WriteChunk(n)) \/ SinkStep \/ Crash \/ Restart
    PROVE  SinkEffect
  <1>1. ASSUME NEW n \in Size, WriteChunk(n) PROVE SinkEffect
    <2>1. seq \in Nat /\ writer = "run"
      BY <1>1, StoredFacts DEF WriteChunk
    <2>2. CASE stored' = stored \cup {seq + 1} /\ written' = written \cup {seq + 1}
      <3>1. \A m \in written' : m \in Nat \ {0} /\ (m \notin written => \A k \in written : k < m)
        BY <2>1, <2>2, WrittenFacts
      <3>2. \A m \in stored' : m \in written => m \in stored
        <4>1. seq + 1 \notin written
          BY <2>1, WrittenFacts
        <4>. QED BY <2>2, <4>1
      <3>. QED BY <2>1, <2>2, <3>1, <3>2 DEF SinkEffect, SinkInv
    <2>3. CASE UNCHANGED <<stored, written>>
      BY <2>1, <2>3, WrittenFacts DEF SinkEffect, SinkInv
    <2>. QED BY <1>1, <2>2, <2>3 DEF WriteChunk
  <1>2. CASE Trim
    BY <1>2, WrittenFacts DEF Trim, SinkEffect, SinkInv
  <1>3. CASE TrimEnds \/ End \/ Crash \/ Restart
    BY <1>3, WrittenFacts DEF TrimEnds, End, Crash, Restart, sinkVars, SinkEffect, SinkInv
  <1>. QED
    BY <1>1, <1>2, <1>3 DEF SinkStep

LEMMA ViewStays ==
    ASSUME SinkInv, ViewInv, PageInv, SinkEffect, UNCHANGED <<viewVars, page, blind>>,
           client' = client \/ client' = "lost"
    PROVE  ViewInv' /\ PageInv'
  <1>. USE DEF viewVars
  <1>1. ASSUME NEW m \in written', m <= cursor PROVE m \in written
    <2>1. cursor \in written
      BY <1>1 DEF SinkEffect, ViewInv
    <2>2. m \in Nat /\ cursor \in Nat
      BY <1>1 DEF SinkEffect, ViewInv
    <2>. QED
      BY <1>1, <2>1, <2>2 DEF SinkEffect
  <1>2. \A m \in stored' : m <= cursor => m \in seen
    BY <1>1 DEF SinkEffect, ViewInv
  <1>3. HolesAreShown'
    <2>. SUFFICES ASSUME ~blind, NEW m \in written', m < cursor, m \notin seen,
                         \E n \in seen : n < m
                  PROVE  gap
      BY DEF HolesAreShown
    <2>1. m \in written
      BY <1>1 DEF SinkEffect, ViewInv
    <2>. QED BY <2>1 DEF ViewInv, HolesAreShown
  <1>4. StopsComplete'
    BY DEF StopsComplete, ViewInv, SinkEffect
  <1>5. ViewInv'
    BY <1>2, <1>3, <1>4 DEF ViewInv, SinkEffect, Serving
  <1>6. page.chunks \subseteq written => \A m \in written' : Skipped(m)' => m \in written /\ Skipped(m)
    <2>. SUFFICES ASSUME page.chunks \subseteq written, NEW m \in written', Skipped(m)'
                  PROVE  m \in written /\ Skipped(m)
      OBVIOUS
    <2>1. Skipped(m)
      BY DEF Skipped
    <2>2. PICK n \in page.chunks : m < n
      BY <2>1 DEF Skipped
    <2>3. n \in written /\ n \in Nat /\ m \in Nat
      BY <2>2 DEF SinkEffect
    <2>. QED BY <2>1, <2>2, <2>3 DEF SinkEffect
  <1>7. ASSUME client' \in {"oldest", "more", "answer"}
        PROVE  /\ page.chunks \subseteq written'
               /\ \A n \in page.chunks : cursor < n
               /\ \A m \in written' : Skipped(m)' =>
                      m \notin stored' /\ \A n \in page.chunks : m < n
               /\ client' \in {"more", "answer"} /\ ~blind =>
                      \A m \in written' : Skipped(m)' => m < page.oldest
    <2>1. client = client'
      BY <1>7
    <2>2. page.chunks \subseteq written /\ \A n \in page.chunks : cursor < n
      BY <1>7, <2>1 DEF PageInv
    <2>3. \A m \in written : Skipped(m) => m \notin stored /\ \A n \in page.chunks : m < n
      BY <1>7, <2>1 DEF PageInv
    <2>4. client' \in {"more", "answer"} /\ ~blind =>
              \A m \in written : Skipped(m) => m < page.oldest
      BY <1>7, <2>1 DEF PageInv
    <2>. QED
      BY <1>6, <2>2, <2>3, <2>4 DEF SinkEffect
  <1>8. client' = "answer" /\ ~blind /\ page.finished /\ ~page.more =>
            \A n \in stored' : n <= NextSeq'
    BY DEF PageInv, SinkEffect, NextSeq
  <1>9. client' \in {"chunks", "oldest", "more", "answer"} /\ page.finished => writer' = "done"
    BY DEF PageInv, SinkEffect
  <1>. QED
    BY <1>5, <1>7, <1>8, <1>9 DEF PageInv

-----------------------------------------------------------------------------
(* What a page holds of a log, and where the cursor goes with it.          *)
LEMMA PageFacts ==
    ASSUME SinkInv, cursor \in Nat
    PROVE  /\ NextPage(stored) \subseteq stored
           /\ \A n \in NextPage(stored) : cursor < n
           /\ \A m \in stored, n \in NextPage(stored) :
                  cursor < m /\ m < n => m \in NextPage(stored)
  <1>1. NextPage(stored) \subseteq stored /\ \A n \in NextPage(stored) : cursor < n
    BY StoredFacts DEF NextPage, Unread
  <1>2. ASSUME NEW m \in stored, NEW n \in NextPage(stored), cursor < m, m < n
        PROVE  m \in NextPage(stored)
    <2>. DEFINE Below(k) == {j \in Unread(stored) : j < k}
    <2>1. m \in Unread(stored) /\ n \in stored /\ Cardinality(Below(n)) < PageSize
      BY <1>2, StoredFacts DEF NextPage, Unread
    <2>2. Below(m) \subseteq Below(n) /\ Below(n) \subseteq stored
      BY <1>2, <2>1, StoredFacts DEF Unread
    <2>3. IsFiniteSet(Below(n)) /\ IsFiniteSet(Below(m))
      BY <2>2, StoredFacts, FS_Subset
    <2>4. Cardinality(Below(m)) <= Cardinality(Below(n))
      BY <2>2, <2>3, FS_Subset
    <2>5. Cardinality(Below(m)) \in Nat /\ Cardinality(Below(n)) \in Nat
      BY <2>3, FS_CardinalityType
    <2>6. Cardinality(Below(m)) < PageSize
      BY <2>1, <2>4, <2>5, ViewerAssumption
    <2>. QED BY <2>1, <2>6 DEF NextPage
  <1>. QED
    BY <1>1, <1>2

LEMMA NextSeqIs ==
    ASSUME SinkInv, cursor \in Nat, page.chunks \subseteq written,
           \A n \in page.chunks : cursor < n
    PROVE  /\ NextSeq \in Nat /\ cursor <= NextSeq
           /\ NextSeq = cursor \/ NextSeq \in page.chunks
           /\ \A n \in page.chunks : n <= NextSeq
  <1>1. CASE page.chunks = {}
    BY <1>1 DEF NextSeq
  <1>2. CASE page.chunks # {}
    <2>1. page.chunks \in SUBSET (1..seq) /\ seq \in Nat
      BY StoredFacts DEF SinkInv
    <2>2. NextSeq \in page.chunks /\ \A n \in page.chunks : n <= NextSeq
      BY <1>2, <2>1, MaxIn DEF NextSeq
    <2>3. NextSeq \in Nat /\ cursor < NextSeq
      BY <2>1, <2>2
    <2>. QED BY <2>2, <2>3
  <1>. QED
    BY <1>1, <1>2

(* The sink and the view stand still while a page is put together.         *)
LEMMA ViewKept ==
    ASSUME ViewInv, UNCHANGED <<serverVars, viewVars>>, blind' \in BOOLEAN, blind => blind',
           client' \in Serving \cup {"wait", "lost", "answer", "failed"}
    PROVE  ViewInv'
  <1>1. HolesAreShown' /\ StopsComplete'
    BY DEF ViewInv, HolesAreShown, StopsComplete, serverVars, sinkVars, viewVars, Serving
  <1>. QED
    BY <1>1 DEF ViewInv, serverVars, sinkVars, viewVars

LEMMA PagePolled ==
    ASSUME SinkInv, ViewInv, PageInv, Poll
    PROVE  ViewInv' /\ PageInv'
  <1>1. ViewInv'
    BY ViewKept DEF Poll, Serving, ViewInv
  <1>2. client' = "status" /\ page' = NewPage
    BY DEF Poll
  <1>. QED
    BY <1>1, <1>2 DEF PageInv, NewPage

LEMMA PageStatus ==
    ASSUME SinkInv, ViewInv, PageInv, ReadStatus
    PROVE  ViewInv' /\ PageInv'
  <1>1. /\ client' = "chunks" /\ page' = [page EXCEPT !.finished = finished]
        /\ UNCHANGED <<serverVars, viewVars, blind>>
    BY DEF ReadStatus, Serve, OnlyPage
  <1>2. ViewInv'
    BY <1>1, ViewKept DEF Serving, ViewInv
  <1>3. finished \in BOOLEAN /\ (finished => writer = "done") /\ writer' = writer
    BY <1>1 DEF SinkInv, serverVars
  <1>. QED
    BY <1>1, <1>2, <1>3 DEF PageInv

LEMMA PageChunks ==
    ASSUME SinkInv, ViewInv, PageInv, ReadChunks
    PROVE  ViewInv' /\ PageInv'
  <1>1. /\ client = "chunks" /\ client' = "oldest"
        /\ page' = [page EXCEPT !.chunks = NextPage(stored)]
        /\ UNCHANGED <<serverVars, viewVars, blind>>
    BY DEF ReadChunks, Serve, OnlyPage
  <1>2. ViewInv'
    BY <1>1, ViewKept DEF Serving, ViewInv
  <1>3. /\ NextPage(stored) \subseteq stored
        /\ \A n \in NextPage(stored) : cursor < n
        /\ \A m \in stored, n \in NextPage(stored) :
               cursor < m /\ m < n => m \in NextPage(stored)
    BY PageFacts DEF ViewInv
  <1>4. stored \subseteq Chunk /\ stored \subseteq written
    BY StoredFacts DEF SinkInv, Chunk
  <1>. DEFINE new == NextPage(stored)
  <1>. HIDE DEF new
  <1>5. page'.chunks = new /\ page'.finished = page.finished
        /\ page' \in [finished : BOOLEAN, chunks : SUBSET Chunk, oldest : Nat, more : BOOLEAN]
    BY <1>1, <1>3, <1>4 DEF PageInv, new
  <1>6. ASSUME NEW m \in written, Skipped(m)'
        PROVE  m \notin stored /\ \A n \in new : m < n
    <2>1. m \notin new /\ cursor < m /\ \E n \in new : m < n
      BY <1>1, <1>5, <1>6 DEF Skipped, viewVars
    <2>2. m \notin stored
      BY <1>3, <2>1 DEF new
    <2>3. ASSUME NEW n \in new PROVE m < n
      <3>1. n \in stored /\ n \in Nat /\ m \in Nat
        BY <1>3, StoredFacts, WrittenFacts DEF new
      <3>2. ~(n < m)
        BY <2>2, <3>1 DEF SinkInv, Cut
      <3>3. n # m
        BY <2>1
      <3>. QED BY <3>1, <3>2, <3>3
    <2>. QED BY <2>2, <2>3
  <1>7. \A n \in new : cursor < n /\ n \in written
    BY <1>3, <1>4 DEF new
  <1>8. UNCHANGED <<written, stored, writer, cursor>>
    BY <1>1 DEF serverVars, sinkVars, viewVars
  <1>9. page'.finished => writer' = "done"
    BY <1>1, <1>5, <1>8 DEF PageInv
  <1>. QED
    BY <1>1, <1>2, <1>5, <1>6, <1>7, <1>8, <1>9 DEF PageInv

(* What was skipped is below the oldest chunk that is left.                *)
LEMMA SkippedIsOld ==
    ASSUME SinkInv, NEW m \in written, m \notin stored
    PROVE  m < Oldest(stored)
  <1>1. Oldest(stored) \in stored
    BY OldestIs DEF SinkInv
  <1>2. ~(Oldest(stored) < m) /\ Oldest(stored) # m
    BY <1>1 DEF SinkInv, Cut
  <1>3. Oldest(stored) \in Nat /\ m \in Nat
    BY <1>1, StoredFacts, WrittenFacts
  <1>. QED
    BY <1>2, <1>3

LEMMA PageOldest ==
    ASSUME SinkInv, ViewInv, PageInv, ReadOldest
    PROVE  ViewInv' /\ PageInv'
  <1>1. client = "oldest" /\ client' = "more" /\ UNCHANGED <<serverVars, viewVars>>
    BY DEF ReadOldest, Serve, OnlyPage
  <1>2. CASE page' = [page EXCEPT !.oldest = Oldest(stored)] /\ UNCHANGED blind
    <2>1. ViewInv'
      BY <1>1, <1>2, ViewKept DEF Serving, ViewInv
    <2>2. Oldest(stored) \in Nat
      BY OldestIs, StoredFacts DEF Oldest
    <2>3. /\ page'.chunks = page.chunks /\ page'.finished = page.finished
          /\ page'.oldest = Oldest(stored)
          /\ page' \in [finished : BOOLEAN, chunks : SUBSET Chunk, oldest : Nat, more : BOOLEAN]
      BY <1>2, <2>2 DEF PageInv
    <2>4. UNCHANGED <<written, stored, writer, cursor>>
      BY <1>1 DEF serverVars, sinkVars, viewVars
    <2>5. \A m : Skipped(m)' <=> Skipped(m)
      BY <2>3, <2>4 DEF Skipped
    <2>6. \A m \in written : Skipped(m) => m < Oldest(stored)
      BY <1>1, SkippedIsOld DEF PageInv
    <2>. QED
      BY <1>1, <2>1, <2>3, <2>4, <2>5, <2>6 DEF PageInv
  <1>3. CASE blind' = TRUE /\ UNCHANGED page
    <2>1. ViewInv'
      BY <1>1, <1>3, ViewKept DEF Serving, ViewInv
    <2>2. UNCHANGED <<written, stored, writer, cursor>>
      BY <1>1 DEF serverVars, sinkVars, viewVars
    <2>3. \A m : Skipped(m)' <=> Skipped(m)
      BY <1>3, <2>2 DEF Skipped
    <2>. QED
      BY <1>1, <1>3, <2>1, <2>2, <2>3 DEF PageInv
  <1>. QED
    BY <1>2, <1>3 DEF ReadOldest

LEMMA PageMore ==
    ASSUME SinkInv, ViewInv, PageInv, ReadMore
    PROVE  ViewInv' /\ PageInv'
  <1>1. client = "more" /\ client' = "answer" /\ UNCHANGED <<serverVars, viewVars>>
    BY DEF ReadMore, Serve, OnlyPage
  <1>2. UNCHANGED <<written, stored, writer, cursor>>
    BY <1>1 DEF serverVars, sinkVars, viewVars
  <1>3. CASE page' = [page EXCEPT !.more = \E n \in stored : n > NextSeq] /\ UNCHANGED blind
    <2>. DEFINE some == \E n \in stored : n > NextSeq
    <2>1. ViewInv'
      BY <1>1, <1>3, ViewKept DEF Serving, ViewInv
    <2>2. /\ page'.chunks = page.chunks /\ page'.finished = page.finished
          /\ page'.oldest = page.oldest
          /\ page' \in [finished : BOOLEAN, chunks : SUBSET Chunk, oldest : Nat, more : BOOLEAN]
      BY <1>3 DEF PageInv
    <2>3. page'.more <=> some
      BY <1>3 DEF PageInv
    <2>4. \A m : Skipped(m)' <=> Skipped(m)
      BY <2>2, <1>2 DEF Skipped
    <2>5. NextSeq' = NextSeq
      BY <2>2, <1>2 DEF NextSeq
    <2>6. NextSeq \in Nat
      BY <1>1, NextSeqIs DEF PageInv, ViewInv
    <2>7. ~page'.more => \A n \in stored : n <= NextSeq
      BY <2>3, <2>6, StoredFacts
    <2>. HIDE DEF some
    <2>. QED
      BY <1>1, <1>2, <1>3, <2>1, <2>2, <2>4, <2>5, <2>7 DEF PageInv
  <1>4. CASE blind' = TRUE /\ UNCHANGED page
    <2>1. ViewInv'
      BY <1>1, <1>4, ViewKept DEF Serving, ViewInv
    <2>2. \A m : Skipped(m)' <=> Skipped(m)
      BY <1>4, <1>2 DEF Skipped
    <2>. QED
      BY <1>1, <1>2, <1>4, <2>1, <2>2 DEF PageInv
  <1>. QED
    BY <1>3, <1>4 DEF ReadMore

(* What an answer shows: a hole it leaves is one the page passed over, and *)
(* that is gone with everything before it, so that the oldest chunk left   *)
(* gives it away.                                                          *)
LEMMA ShowView ==
    ASSUME SinkInv, ViewInv, PageInv, client = "answer", Show,
           UNCHANGED <<serverVars, page, blind>>
    PROVE  /\ cursor' \in Nat /\ seen' \subseteq written' /\ gap' \in BOOLEAN
           /\ \A n \in seen' : n <= cursor'
           /\ cursor' > 0 => cursor' \in seen'
           /\ \A m \in stored' : m <= cursor' => m \in seen'
           /\ HolesAreShown'
  <1>1. /\ page.chunks \subseteq written /\ \A n \in page.chunks : cursor < n
        /\ \A m \in written : Skipped(m) => m \notin stored /\ \A n \in page.chunks : m < n
        /\ ~blind => \A m \in written : Skipped(m) => m < page.oldest
        /\ page.oldest \in Nat
    BY DEF PageInv
  <1>2. /\ NextSeq \in Nat /\ cursor <= NextSeq
        /\ NextSeq = cursor \/ NextSeq \in page.chunks
        /\ \A n \in page.chunks : n <= NextSeq
    BY <1>1, NextSeqIs DEF ViewInv
  <1>3. /\ cursor' = NextSeq /\ seen' = seen \cup page.chunks
        /\ gap' = (gap \/ HeadRolledOff)
        /\ UNCHANGED <<written, stored, blind>>
    BY DEF Show, serverVars, sinkVars
  <1>4. /\ cursor \in Nat /\ seen \subseteq written /\ gap \in BOOLEAN
        /\ \A n \in seen : n <= cursor
        /\ cursor > 0 => cursor \in seen
        /\ \A m \in stored : m <= cursor => m \in seen
        /\ HolesAreShown
    BY DEF ViewInv
  <1>5. seen' \subseteq written' /\ gap' \in BOOLEAN
    BY <1>1, <1>3, <1>4 DEF HeadRolledOff
  <1>6. \A n \in seen' : n <= cursor'
    <2>1. \A n \in seen : n <= NextSeq
      BY <1>2, <1>4, WrittenFacts
    <2>. QED BY <1>2, <1>3, <2>1
  <1>7. cursor' > 0 => cursor' \in seen'
    BY <1>2, <1>3, <1>4
  <1>8. ASSUME NEW m \in written, cursor < m, m <= NextSeq, m \notin page.chunks
        PROVE  Skipped(m)
    <2>1. NextSeq \in page.chunks /\ m # NextSeq
      BY <1>2, <1>4, <1>8, WrittenFacts
    <2>2. m < NextSeq
      BY <1>2, <1>8, <2>1, WrittenFacts
    <2>. QED BY <1>8, <2>1, <2>2 DEF Skipped
  <1>9. ASSUME NEW m \in stored, m <= NextSeq PROVE m \in seen \cup page.chunks
    <2>1. m \in written /\ m \in Nat
      BY StoredFacts DEF SinkInv
    <2>2. CASE m <= cursor
      BY <1>4, <2>2
    <2>3. CASE cursor < m
      BY <1>1, <1>8, <1>9, <2>1, <2>3
    <2>. QED BY <1>4, <2>1, <2>2, <2>3
  <1>10. ASSUME ~blind, NEW m \in written, m < NextSeq, m \notin seen, m \notin page.chunks,
                NEW n \in seen \cup page.chunks, n < m
         PROVE  gap \/ HeadRolledOff
    <2>1. m \in Nat /\ m # 0 /\ n \in written /\ n \in Nat
      BY <1>1, <1>4, WrittenFacts
    <2>2. CASE m <= cursor
      <3>1. m # cursor
        BY <1>4, <1>10, <2>1
      <3>2. n \in seen
        BY <1>1, <1>10, <2>1, <2>2, <1>4
      <3>. QED
        BY <1>4, <1>10, <2>1, <2>2, <3>1, <3>2 DEF HolesAreShown
    <2>3. CASE cursor < m
      <3>1. Skipped(m)
        BY <1>2, <1>8, <1>10, <2>1, <2>3
      <3>2. n \in seen
        BY <1>1, <1>10, <2>1, <3>1
      <3>3. cursor > 0
        BY <1>4, <2>1, <3>2, WrittenFacts
      <3>4. m < page.oldest
        BY <1>1, <1>10, <3>1
      <3>. QED
        BY <1>1, <1>4, <2>1, <2>3, <3>3, <3>4 DEF HeadRolledOff
    <2>. QED BY <1>4, <2>1, <2>2, <2>3
  <1>11. HolesAreShown'
    <2>. SUFFICES ASSUME ~blind, NEW m \in written, m < NextSeq, m \notin seen',
                         NEW n \in seen', n < m
                  PROVE  gap'
      BY <1>3 DEF HolesAreShown
    <2>1. gap \/ HeadRolledOff
      BY <1>3, <1>10
    <2>2. gap' <=> (gap \/ HeadRolledOff)
      BY <1>3
    <2>. QED BY <2>1, <2>2
  <1>. QED
    BY <1>2, <1>3, <1>5, <1>6, <1>7, <1>9, <1>11

LEMMA PageShown ==
    ASSUME SinkInv, ViewInv, PageInv, Shown \/ FetchFails
    PROVE  ViewInv' /\ PageInv'
  <1>1. client = "answer" /\ Show /\ UNCHANGED <<serverVars, page, blind>>
    BY DEF Shown, Answer, FetchFails
  <1>2. /\ cursor' \in Nat /\ seen' \subseteq written' /\ gap' \in BOOLEAN
        /\ \A n \in seen' : n <= cursor'
        /\ cursor' > 0 => cursor' \in seen'
        /\ \A m \in stored' : m <= cursor' => m \in seen'
        /\ HolesAreShown'
    BY <1>1, ShowView
  <1>3. client' \in {"wait", "stopped", "failed"}
        /\ (client' = "stopped" => page.finished /\ ~page.more)
    BY DEF Shown, Answer, FetchFails, Missed, AfterAnswer
  <1>4. StopsComplete'
    <2>. SUFFICES ASSUME client' = "stopped", ~blind
                  PROVE  writer = "done" /\ stored \subseteq seen'
      BY <1>1 DEF StopsComplete, serverVars, sinkVars
    <2>1. writer = "done" /\ \A n \in stored : n <= NextSeq
      BY <1>1, <1>3 DEF PageInv
    <2>2. cursor' = NextSeq /\ stored' = stored
      BY <1>1 DEF Show, serverVars, sinkVars
    <2>. QED BY <1>2, <2>1, <2>2
  <1>5. ViewInv'
    BY <1>1, <1>2, <1>3, <1>4 DEF ViewInv, Serving
  <1>6. PageInv'
    BY <1>1, <1>3 DEF PageInv
  <1>. QED
    BY <1>5, <1>6

LEMMA PageFails ==
    ASSUME SinkInv, ViewInv, PageInv, PollFails
    PROVE  ViewInv' /\ PageInv'
  <1>1. client' \in {"wait", "failed"} /\ UNCHANGED <<serverVars, cursor, seen, gap, page, blind>>
    BY DEF PollFails, MissPoll, Missed
  <1>2. HolesAreShown' /\ StopsComplete'
    BY <1>1 DEF ViewInv, HolesAreShown, StopsComplete, serverVars, sinkVars
  <1>. QED
    BY <1>1, <1>2 DEF ViewInv, PageInv, serverVars, sinkVars

-----------------------------------------------------------------------------
LEMMA LogInit == Init => LogInv
  <1>. SUFFICES ASSUME Init PROVE LogInv
    OBVIOUS
  <1>1. PageInv
    BY DEF Init, ViewerInit, PageInv, NewPage
  <1>2. HolesAreShown /\ StopsComplete
    BY DEF Init, ViewerInit, HolesAreShown, StopsComplete
  <1>3. /\ client = "wait" /\ blind = FALSE /\ gap = FALSE /\ cursor = 0
        /\ seen = {} /\ stored = {}
    BY DEF Init, ViewerInit
  <1>4. ViewInv
    <2>1. /\ cursor \in Nat /\ seen \subseteq written /\ ~(cursor > 0)
          /\ (\A n \in seen : n <= cursor) /\ (\A m \in stored : m <= cursor => m \in seen)
      BY <1>3
    <2>2. blind \in BOOLEAN /\ gap \in BOOLEAN
      BY <1>3
    <2>. QED
      BY <1>2, <1>3, <2>1, <2>2 DEF ViewInv
  <1>. QED
    BY <1>1, <1>4, SinkInit DEF LogInv

LEMMA ClientKeeps ==
    ASSUME LogInv, ClientStep
    PROVE  LogInv'
  <1>1. ViewInv' /\ PageInv'
    BY PagePolled, PageStatus, PageChunks, PageOldest, PageMore, PageShown, PageFails
    DEF LogInv, ClientStep
  <1>2. UNCHANGED serverVars
    BY DEF ClientStep, Poll, ReadStatus, ReadChunks, ReadOldest, ReadMore, OnlyPage, Shown,
           FetchFails, PollFails
  <1>3. faults' \in {faults, faults + 1}
    BY DEF ClientStep, Poll, ReadStatus, ReadChunks, ReadOldest, ReadMore, Shown,
           FetchFails, PollFails, Fault
  <1>. QED
    BY <1>1, <1>2, <1>3, SinkServes DEF LogInv

LEMMA SinkKeeps ==
    ASSUME LogInv, (\E n \in Size : WriteChunk(n)) \/ SinkStep \/ Crash \/ Restart
    PROVE  LogInv'
  <1>1. SinkInv'
    BY SinkWrites, SinkTrims, SinkRests, SinkEnds DEF LogInv, SinkStep
  <1>2. SinkEffect
    BY SinkEffects DEF LogInv
  <1>3. UNCHANGED <<viewVars, page, blind>>
    BY DEF WriteChunk, SinkStep, Trim, TrimEnds, End, Crash, Restart, clientVars
  <1>4. client' = client \/ client' = "lost"
    BY DEF WriteChunk, SinkStep, Trim, TrimEnds, End, Crash, Restart, clientVars
  <1>. QED
    BY <1>1, <1>2, <1>3, <1>4, ViewStays DEF LogInv

LEMMA LogStep ==
    ASSUME LogInv, [Next]_vars
    PROVE  LogInv'
  <1>1. CASE UNCHANGED vars
    <2>1. UNCHANGED <<serverVars, viewVars, page, blind, client, faults>>
      BY <1>1 DEF vars, clientVars
    <2>2. SinkInv'
      BY <2>1, SinkServes DEF LogInv
    <2>3. SinkEffect
      BY <2>1, WrittenFacts DEF SinkEffect, serverVars, sinkVars, LogInv, SinkInv
    <2>. QED
      BY <2>1, <2>2, <2>3, ViewStays DEF LogInv
  <1>2. CASE Next
    BY <1>2, ClientKeeps, SinkKeeps DEF Next
  <1>. QED
    BY <1>1, <1>2

LEMMA LogAlways == Spec => []LogInv
  <1>1. LogInv /\ [Next]_vars => LogInv'
    BY LogStep
  <1>. QED
    BY <1>1, LogInit, PTL DEF Spec

(* Whatever the sink rolls off between the statements of a poll, a client  *)
(* that was shown something is never shown later output with an unmarked   *)
(* hole before it.                                                         *)
THEOREM HolesAreShownHolds == Spec => []HolesAreShown
  <1>1. LogInv => HolesAreShown
    BY DEF LogInv, ViewInv
  <1>. QED
    BY <1>1, LogAlways, PTL

(* A client stops only once nothing more can come and it was shown all the *)
(* table holds, however long the backlog and whatever failed before.       *)
THEOREM StopsCompleteHolds == Spec => []StopsComplete
  <1>1. LogInv => StopsComplete
    BY DEF LogInv, ViewInv
  <1>. QED
    BY <1>1, LogAlways, PTL

(* The sink's count is what the table holds, the newest chunk stays, and a *)
(* log at rest is within its limit, for any limit and sizes.               *)
THEOREM RetainedAgreesHolds == Spec => []RetainedAgrees
  <1>1. ASSUME SinkInv, written # {} PROVE Max(written) \in stored
    <2>1. written \in SUBSET (1..seq) /\ seq \in Nat /\ stored # {} /\ stored \subseteq written
      BY <1>1, StoredFacts DEF SinkInv
    <2>2. Max(written) \in written /\ \A y \in written : y <= Max(written)
      BY <1>1, <2>1, MaxIn
    <2>3. PICK n \in stored : TRUE
      BY <2>1
    <2>4. n <= Max(written) /\ n \in Nat /\ Max(written) \in Nat
      BY <1>1, <2>1, <2>2, WrittenFacts
    <2>5. n < Max(written) \/ n = Max(written)
      BY <2>4
    <2>. QED BY <1>1, <2>2, <2>5 DEF SinkInv, Cut
  <1>2. LogInv => RetainedAgrees
    BY <1>1 DEF LogInv, SinkInv, RetainedAgrees
  <1>. QED
    BY <1>2, LogAlways, PTL
=============================================================================
