---------------------------- MODULE ServerProofs ----------------------------
(***************************************************************************)
(* Part 1.  A pinned host key stays, for any servers, keys and             *)
(* connections.  PinsAreOwn is not inductive: what a connection learned is *)
(* written long after the row was read.  PinInv adds what a connection     *)
(* under way may still rely on: while nobody crossed it, the row it learns *)
(* for is the row it read, and what it learned was shown at that address.  *)
(*                                                                         *)
(* Part 2.  Logins are throttled, for any limits, clients and requests.    *)
(* LoginThrottled and AddressThrottled count in two histories what the     *)
(* guard and the limiter keep but one number and one time of.  GuardInv    *)
(* ties the record of a client to the failures in a row, LimiterInv what   *)
(* an address was given to the window it has and the last sweep.           *)
(*                                                                         *)
(* Part 3.  Upgrades, however often one is cut short.  Every statement has *)
(* a number, and UpgradeInv says of the next one what is done before it:   *)
(* Reached, whatever the upgrades before, and Fresh, that nothing else is  *)
(* done while none was cut short.                                          *)
(***************************************************************************)
EXTENDS Server, FiniteSetTheorems, WellFoundedInduction, TLAPS

AnyKey == Key \cup {NoKey}
Connection ==
    [pc : {"idle", "loaded", "dialed", "connected"}, test : BOOLEAN,
     addr : Addr, key : AnyKey, learned : AnyKey]

HostTypes ==
    /\ host \in [present : BOOLEAN, addr : Addr, key : AnyKey]
    /\ pinned \in AnyKey
    /\ server \in [Addr -> Key]
    /\ conn \in [Conn -> Connection]
    /\ shown \in [Addr -> SUBSET Key]

(* A connection that may learn a key began with the row as it is now, and  *)
(* no operator has pinned a key.                                           *)
LearnsForRow ==
    ~crossed /\ host.present =>
        \A c \in Conn : Learning(c) => conn[c].addr = host.addr /\ pinned = NoKey

(* What was learned was learned with nothing pinned, and from the server   *)
(* that was dialled.                                                       *)
LearnedWasShown ==
    \A c \in Conn :
        conn[c].pc = "dialed" /\ conn[c].learned # NoKey =>
            conn[c].key = NoKey /\ conn[c].learned \in shown[conn[c].addr]

(* Nothing was learned before the server is dialled.                       *)
LoadedLearnsNothing == \A c \in Conn : conn[c].pc = "loaded" => conn[c].learned = NoKey

PinInv ==
    HostTypes /\ LearnsForRow /\ LearnedWasShown /\ LoadedLearnsNothing /\ PinsAreOwn

-----------------------------------------------------------------------------
LEMMA PinInit == Init => PinInv
  <1>. SUFFICES ASSUME Init PROVE PinInv
    OBVIOUS
  <1>. USE DEF Init, HostInit, Idle
  <1>1. HostTypes
    BY DEF HostTypes, AnyKey, Connection
  <1>2. \A c \in Conn : ~Learning(c) /\ conn[c].pc = "idle"
    BY DEF Learning
  <1>3. LearnsForRow /\ LearnedWasShown /\ LoadedLearnsNothing
    BY <1>2 DEF LearnsForRow, LearnedWasShown, LoadedLearnsNothing
  <1>4. PinsAreOwn
    BY DEF PinsAreOwn
  <1>. QED
    BY <1>1, <1>3, <1>4 DEF PinInv

LEMMA IdleIsConnection ==
    ASSUME HostTypes PROVE Idle \in Connection
  <1>1. Addr # {}
    BY DEF HostTypes
  <1>. QED
    BY <1>1 DEF Idle, Connection, AnyKey

(* An edit crosses every connection that may still learn a key.            *)
LEMMA PinSave ==
    ASSUME PinInv, NEW a \in Addr, NEW k \in Key \cup {NoKey}, SaveHost(a, k)
    PROVE  PinInv'
  <1>. USE DEF PinInv, SaveHost
  <1>1. HostTypes'
    BY DEF HostTypes, AnyKey
  <1>2. (~crossed)' => \A c \in Conn : ~Learning(c)'
    BY DEF Learning
  <1>3. LearnsForRow' /\ LearnedWasShown' /\ LoadedLearnsNothing'
    BY <1>2 DEF LearnsForRow, LearnedWasShown, LoadedLearnsNothing
  <1>4. PinsAreOwn'
    BY DEF PinsAreOwn, HostTypes
  <1>. QED
    BY <1>1, <1>3, <1>4

LEMMA PinDelete ==
    ASSUME PinInv, DeleteHost
    PROVE  PinInv'
  BY DEF PinInv, DeleteHost, HostTypes, LearnsForRow, LearnedWasShown,
      LoadedLearnsNothing, PinsAreOwn

(* What is read is the row: with no key in it, nobody pinned one.          *)
LEMMA PinLoad ==
    ASSUME PinInv, NEW c \in Conn, Load(c)
    PROVE  PinInv'
  <1>. USE DEF PinInv, Load, rowVars
  <1>1. HostTypes'
    BY IdleIsConnection DEF HostTypes, Connection, AnyKey
  <1>2. ~crossed /\ host.key = NoKey => pinned = NoKey
    BY DEF PinsAreOwn
  <1>3. LearnsForRow'
    <2>. SUFFICES ASSUME (~crossed)', host.present', NEW d \in Conn, Learning(d)'
                  PROVE  (conn[d].addr = host.addr /\ pinned = NoKey)'
      BY DEF LearnsForRow
    <2>1. CASE d = c
      BY <1>2, <2>1 DEF Learning, HostTypes, Idle
    <2>2. CASE d # c
      BY <2>2 DEF Learning, LearnsForRow, HostTypes
    <2>. QED
      BY <2>1, <2>2
  <1>4. LearnedWasShown' /\ LoadedLearnsNothing' /\ PinsAreOwn'
    BY DEF LearnedWasShown, LoadedLearnsNothing, PinsAreOwn, HostTypes, Idle
  <1>. QED
    BY <1>1, <1>3, <1>4

(* A form with other values than the row's crosses the row.                *)
LEMMA PinTest ==
    ASSUME PinInv, NEW c \in Conn, NEW a \in Addr, NEW k \in Key \cup {NoKey}, TestForm(c, a, k)
    PROVE  PinInv'
  <1>. USE DEF PinInv, TestForm, rowVars
  <1>1. HostTypes'
    BY IdleIsConnection DEF HostTypes, Connection, AnyKey
  <1>2. (~crossed)' => ~crossed /\ (k = NoKey => host.key = NoKey /\ host.addr = a)
    OBVIOUS
  <1>3. LearnsForRow'
    <2>. SUFFICES ASSUME (~crossed)', host.present', NEW d \in Conn, Learning(d)'
                  PROVE  (conn[d].addr = host.addr /\ pinned = NoKey)'
      BY DEF LearnsForRow
    <2>1. CASE d = c
      BY <1>2, <2>1 DEF Learning, HostTypes, Idle, PinsAreOwn
    <2>2. CASE d # c
      BY <1>2, <2>2 DEF Learning, LearnsForRow, HostTypes
    <2>. QED
      BY <2>1, <2>2
  <1>4. LearnedWasShown' /\ LoadedLearnsNothing' /\ PinsAreOwn'
    BY <1>2 DEF LearnedWasShown, LoadedLearnsNothing, PinsAreOwn, HostTypes, Idle
  <1>. QED
    BY <1>1, <1>3, <1>4

LEMMA PinDial ==
    ASSUME PinInv, NEW c \in Conn, Dial(c)
    PROVE  PinInv'
  <1>. USE DEF PinInv, Dial, rowVars
  <1>0. conn[c].addr \in Addr /\ server[conn[c].addr] \in Key
    BY DEF HostTypes, Connection
  <1>1. HostTypes'
    BY <1>0 DEF HostTypes, Connection, AnyKey
  <1>2. /\ \A d \in Conn : conn'[d].addr = conn[d].addr /\ conn'[d].key = conn[d].key
        /\ \A d \in Conn : Learning(d)' => Learning(d)
    BY <1>0 DEF Learning, HostTypes, Connection
  <1>3. LearnsForRow'
    BY <1>2 DEF LearnsForRow
  <1>4. \A b \in Addr : shown[b] \subseteq shown'[b]
    BY <1>0 DEF HostTypes
  <1>5. LearnedWasShown'
    <2>. SUFFICES ASSUME NEW d \in Conn, conn'[d].pc = "dialed", conn'[d].learned # NoKey
                  PROVE  conn'[d].key = NoKey /\ conn'[d].learned \in shown'[conn'[d].addr]
      BY DEF LearnedWasShown
    <2>1. CASE d # c
      BY <2>1, <1>0, <1>4 DEF LearnedWasShown, HostTypes, Connection
    <2>2. CASE d = c /\ conn' = [conn EXCEPT ![c].pc = "dialed"]
      BY <2>2, <1>4 DEF LearnedWasShown, HostTypes, Connection, LoadedLearnsNothing
    <2>3. CASE d = c /\ conn[c].key = NoKey /\ shown' = [shown EXCEPT ![conn[c].addr] =
                    @ \cup {server[conn[c].addr]}]
               /\ conn' = [conn EXCEPT ![c].pc = "dialed", ![c].learned = server[conn[c].addr]]
      BY <2>3, <1>0, <1>2 DEF HostTypes, Connection
    <2>. QED
      BY <2>1, <2>2, <2>3
  <1>6. PinsAreOwn'
    BY <1>4 DEF PinsAreOwn, HostTypes
  <1>7. LoadedLearnsNothing'
    <2>. SUFFICES ASSUME NEW d \in Conn, conn'[d].pc = "loaded"
                  PROVE  conn'[d].learned = NoKey
      BY DEF LoadedLearnsNothing
    <2>1. d # c
      BY DEF HostTypes, Connection
    <2>. QED
      BY <2>1 DEF LoadedLearnsNothing, HostTypes
  <1>. QED
    BY <1>1, <1>3, <1>5, <1>6, <1>7

LEMMA PinDialFails ==
    ASSUME PinInv, NEW c \in Conn, DialFails(c)
    PROVE  PinInv'
  <1>. USE DEF PinInv, DialFails, rowVars
  <1>1. HostTypes'
    BY IdleIsConnection DEF HostTypes
  <1>2. LearnsForRow' /\ LearnedWasShown' /\ LoadedLearnsNothing' /\ PinsAreOwn'
    BY DEF LearnsForRow, LearnedWasShown, LoadedLearnsNothing, PinsAreOwn, Learning, HostTypes, Idle
  <1>. QED
    BY <1>1, <1>2

(* The key that is written is one the row's address did show.              *)
LEMMA PinPersist ==
    ASSUME PinInv, NEW c \in Conn, Persist(c)
    PROVE  PinInv'
  <1>. USE DEF PinInv, Persist
  <1>1. HostTypes'
    BY IdleIsConnection DEF HostTypes, Connection, AnyKey
  <1>2. \A d \in Conn : Learning(d)' => Learning(d) /\ conn'[d].addr = conn[d].addr
    BY DEF Learning, HostTypes, Idle
  <1>3. host'.addr = host.addr /\ host'.present = host.present
    BY DEF HostTypes
  <1>4. LearnsForRow'
    BY <1>2, <1>3 DEF LearnsForRow
  <1>5. LearnedWasShown' /\ LoadedLearnsNothing'
    BY DEF LearnedWasShown, LoadedLearnsNothing, HostTypes, Idle
  <1>6. PinsAreOwn'
    <2>1. CASE UNCHANGED host
      BY <2>1 DEF PinsAreOwn
    <2>2. CASE conn[c].learned # NoKey /\ host' = [host EXCEPT !.key = conn[c].learned]
      <3>1. Learning(c) /\ conn[c].learned \in shown[conn[c].addr]
        BY <2>2 DEF LearnedWasShown, Learning
      <3>. QED
        BY <2>2, <3>1, <1>3 DEF PinsAreOwn, LearnsForRow, HostTypes
    <2>. QED
      BY <2>1, <2>2
  <1>. QED
    BY <1>1, <1>4, <1>5, <1>6

LEMMA PinDisconnect ==
    ASSUME PinInv, NEW c \in Conn, Disconnect(c)
    PROVE  PinInv'
  <1>. USE DEF PinInv, Disconnect, rowVars
  <1>1. HostTypes'
    BY IdleIsConnection DEF HostTypes
  <1>2. LearnsForRow' /\ LearnedWasShown' /\ LoadedLearnsNothing' /\ PinsAreOwn'
    BY DEF LearnsForRow, LearnedWasShown, LoadedLearnsNothing, PinsAreOwn, Learning, HostTypes, Idle
  <1>. QED
    BY <1>1, <1>2

(* What was learned and not written is lost with the process.              *)
LEMMA PinDisconnected ==
    ASSUME PinInv, Disconnected
    PROVE  PinInv'
  <1>. USE DEF PinInv, Disconnected, rowVars
  <1>1. HostTypes'
    BY IdleIsConnection DEF HostTypes
  <1>2. LearnsForRow' /\ LearnedWasShown' /\ LoadedLearnsNothing' /\ PinsAreOwn'
    BY DEF LearnsForRow, LearnedWasShown, LoadedLearnsNothing, PinsAreOwn, Learning, Idle
  <1>. QED
    BY <1>1, <1>2

LEMMA PinReinstall ==
    ASSUME PinInv, NEW a \in Addr, NEW k \in Key, Reinstall(a, k)
    PROVE  PinInv'
  BY DEF PinInv, Reinstall, rowVars, HostTypes, LearnsForRow, LearnedWasShown,
      LoadedLearnsNothing, PinsAreOwn, Learning

LEMMA PinStutter ==
    ASSUME PinInv, UNCHANGED hostVars
    PROVE  PinInv'
  BY DEF PinInv, hostVars, rowVars, HostTypes, LearnsForRow, LearnedWasShown,
      LoadedLearnsNothing, PinsAreOwn, Learning

(* A key an operator pinned stays, and a learned one is the saved          *)
(* address's own (ssh.go:27), unless a first use was crossed.              *)
THEOREM PinsHold == Spec => []PinsAreOwn
  <1>1. Init => PinInv
    BY PinInit
  <1>2. PinInv /\ [Next]_vars => PinInv'
    <2>. SUFFICES ASSUME PinInv, [Next]_vars PROVE PinInv'
      OBVIOUS
    <2>1. CASE Upgrade \/ ServeLogins \/ UNCHANGED vars
      BY <2>1, PinStutter DEF Upgrade, ServeLogins, vars
    <2>2. CASE ServeHosts
      BY <2>2, PinSave, PinDelete, PinLoad, PinTest, PinDial, PinDialFails, PinPersist,
         PinDisconnect DEF ServeHosts, HostStep
    <2>3. CASE Crash
      BY <2>3, PinDisconnected DEF Crash
    <2>4. CASE Outside
      BY <2>4, PinReinstall DEF Outside
    <2>. QED
      BY <2>1, <2>2, <2>3, <2>4 DEF Next
  <1>3. PinInv => PinsAreOwn
    BY DEF PinInv
  <1>. QED
    BY <1>1, <1>2, <1>3, PTL DEF Spec

-----------------------------------------------------------------------------
(* Part 2: the login.  Induction over the naturals, of a set.              *)
LEMMA NatSetInduction ==
    ASSUME NEW T, 0 \in T, \A n \in Nat : n \in T => n + 1 \in T
    PROVE  Nat \subseteq T
  <1>. SUFFICES ASSUME Nat \ T # {} PROVE FALSE
    OBVIOUS
  <1>1. IsWellFoundedOn(OpToRel(<, Nat), Nat)
    BY NatLessThanWellFounded
  <1>2. PICK x \in Nat \ T : \A y \in Nat \ T : ~(<<y, x>> \in OpToRel(<, Nat))
    BY <1>1, WFMin
  <1>3. \A y \in Nat \ T : ~(y < x)
    BY <1>2 DEF OpToRel
  <1>4. x # 0
    OBVIOUS
  <1>5. PICK y \in Nat : x = y + 1
    <2>. x - 1 \in Nat /\ x = (x - 1) + 1
      BY <1>4
    <2>. QED OBVIOUS
  <1>. QED
    BY <1>3, <1>5

-----------------------------------------------------------------------------
(* The sum of a function over a finite set: that of none is 0, and it      *)
(* grows and shrinks with the set by what the function is there.           *)
Sum(w, S) == MapThenSumSet(LAMBDA n : w[n], S)

(* The recursive function that MapThenSumSet is defined by.                *)
Pick(s) == CHOOSE x \in s : TRUE
Body(w, g, s) == IF s = {} THEN 0 ELSE w[Pick(s)] + g[s \ {Pick(s)}]
Iter(w, S) == CHOOSE g : g = [s \in SUBSET S |-> Body(w, g, s)]

LEMMA SumIter == ASSUME NEW w, NEW S PROVE Sum(w, S) = Iter(w, S)[S]
  BY DEF Sum, Iter, Body, Pick, MapThenSumSet, MapThenFoldSet

LEMMA PickIn == ASSUME NEW s, s # {} PROVE Pick(s) \in s
  BY DEF Pick

LEMMA SmallerPart ==
    ASSUME NEW s, IsFiniteSet(s), NEW x \in s
    PROVE  /\ IsFiniteSet(s \ {x}) /\ Cardinality(s) \in Nat
           /\ Cardinality(s \ {x}) = Cardinality(s) - 1
  BY FS_RemoveElement, FS_CardinalityType

(* It is defined on every part of a finite set.                            *)
LEMMA IterExists ==
    ASSUME NEW w, NEW S, IsFiniteSet(S), \A x \in S : w[x] \in Int
    PROVE  \E g \in [SUBSET S -> Int] : \A s \in SUBSET S : g[s] = Body(w, g, s)
  <1>. DEFINE Upto(g, n) == \A s \in SUBSET S : Cardinality(s) <= n => g[s] = Body(w, g, s)
              T == {n \in Nat : \E g \in [SUBSET S -> Int] : Upto(g, n)}
  <1>. \A s \in SUBSET S : IsFiniteSet(s) /\ Cardinality(s) \in Nat
    BY FS_Subset, FS_CardinalityType
  <1>1. 0 \in T
    <2>. DEFINE g == [s \in SUBSET S |-> 0]
    <2>1. g \in [SUBSET S -> Int]
      OBVIOUS
    <2>2. ASSUME NEW s \in SUBSET S, Cardinality(s) <= 0 PROVE g[s] = Body(w, g, s)
      <3>1. s = {}
        BY <2>2, FS_EmptySet
      <3>. QED BY <3>1 DEF Body
    <2>3. Upto(g, 0)
      BY <2>2
    <2>. HIDE DEF g
    <2>. QED BY <2>1, <2>3
  <1>2. ASSUME NEW n \in Nat, n \in T PROVE n + 1 \in T
    <2>. HIDE DEF Upto
    <2>1. PICK g \in [SUBSET S -> Int] : Upto(g, n)
      BY <1>2
    <2>. DEFINE h == [s \in SUBSET S |-> IF Cardinality(s) <= n THEN g[s] ELSE Body(w, g, s)]
    <2>2. ASSUME NEW s \in SUBSET S PROVE Body(w, g, s) \in Int
      BY PickIn DEF Body
    <2>3. h \in [SUBSET S -> Int]
      BY <2>2
    <2>4. ASSUME NEW s \in SUBSET S, Cardinality(s) <= n + 1 PROVE h[s] = Body(w, g, s)
      BY <2>1, <2>4 DEF Upto
    <2>5. ASSUME NEW s \in SUBSET S, Cardinality(s) <= n + 1
          PROVE  Body(w, h, s) = Body(w, g, s)
      <3>1. CASE s = {}
        BY <3>1 DEF Body
      <3>2. CASE s # {}
        <4>. DEFINE x == Pick(s)
        <4>1. x \in s
          BY <3>2, PickIn
        <4>. HIDE DEF x
        <4>2. s \ {x} \in SUBSET S /\ Cardinality(s \ {x}) <= n
          BY <2>5, <4>1, SmallerPart
        <4>3. h[s \ {x}] = g[s \ {x}]
          BY <4>2
        <4>. HIDE DEF h
        <4>. QED BY <4>3 DEF Body, x
      <3>. QED BY <3>1, <3>2
    <2>. HIDE DEF h
    <2>6. Upto(h, n + 1)
      BY <2>4, <2>5 DEF Upto
    <2>. QED BY <2>3, <2>6
  <1>. HIDE DEF T
  <1>3. Nat \subseteq T
    BY <1>1, <1>2, NatSetInduction
  <1>4. Cardinality(S) \in T
    BY <1>3
  <1>5. PICK g \in [SUBSET S -> Int] : Upto(g, Cardinality(S))
    BY <1>4 DEF T
  <1>6. \A s \in SUBSET S : g[s] = Body(w, g, s)
    BY <1>5, FS_Subset
  <1>. QED
    BY <1>6

LEMMA IterValue ==
    ASSUME NEW w, NEW S, IsFiniteSet(S), \A x \in S : w[x] \in Int
    PROVE  /\ Iter(w, S) \in [SUBSET S -> Int]
           /\ \A s \in SUBSET S : Iter(w, S)[s] = Body(w, Iter(w, S), s)
  <1>. DEFINE Good(g) == g = [s \in SUBSET S |-> Body(w, g, s)]
              h == Iter(w, S)
  <1>1. PICK g \in [SUBSET S -> Int] : \A s \in SUBSET S : g[s] = Body(w, g, s)
    BY IterExists
  <1>2. Good(g)
    BY <1>1
  <1>. HIDE DEF Good
  <1>. HIDE DEF h
  <1>x. Good(h)
    BY <1>2 DEF Iter, Good, h
  <1>3. h = [s \in SUBSET S |-> Body(w, h, s)]
    BY <1>x DEF Good
  <1>4. \A s \in SUBSET S : h[s] = Body(w, h, s)
    BY <1>3
  <1>. DEFINE T == {n \in Nat : \A s \in SUBSET S : Cardinality(s) = n => h[s] \in Int}
  <1>. \A s \in SUBSET S : IsFiniteSet(s) /\ Cardinality(s) \in Nat
    BY FS_Subset, FS_CardinalityType
  <1>5. 0 \in T
    <2>. SUFFICES ASSUME NEW s \in SUBSET S, Cardinality(s) = 0 PROVE h[s] \in Int
      OBVIOUS
    <2>1. s = {}
      BY FS_EmptySet
    <2>2. h[s] = Body(w, h, s)
      BY <1>4
    <2>. QED BY <2>1, <2>2 DEF Body
  <1>6. ASSUME NEW n \in Nat, n \in T PROVE n + 1 \in T
    <2>. SUFFICES ASSUME NEW s \in SUBSET S, Cardinality(s) = n + 1 PROVE h[s] \in Int
      OBVIOUS
    <2>1. s # {}
      BY FS_EmptySet
    <2>. DEFINE x == Pick(s)
    <2>2. x \in s
      BY <2>1, PickIn
    <2>3. h[s] = w[x] + h[s \ {x}]
      BY <1>4, <2>1 DEF Body
    <2>. HIDE DEF x
    <2>4. s \ {x} \in SUBSET S /\ Cardinality(s \ {x}) = n
      BY <2>2, SmallerPart
    <2>5. h[s \ {x}] \in Int
      BY <1>6, <2>4
    <2>. QED BY <2>2, <2>3, <2>5
  <1>. HIDE DEF T
  <1>7. Nat \subseteq T
    BY <1>5, <1>6, NatSetInduction
  <1>8. \A s \in SUBSET S : h[s] \in Int
    BY <1>7 DEF T
  <1>. QED
    BY <1>3, <1>4, <1>8 DEF h

(* What is summed over does not matter beyond the part that is summed.     *)
LEMMA IterAgree ==
    ASSUME NEW w, NEW S, IsFiniteSet(S), \A x \in S : w[x] \in Int,
           NEW v, NEW R, IsFiniteSet(R), \A x \in R : v[x] \in Int,
           NEW P \in SUBSET (S \cap R), \A x \in P : w[x] = v[x]
    PROVE  Iter(w, S)[P] = Iter(v, R)[P]
  <1>. DEFINE g == Iter(w, S)
              h == Iter(v, R)
              T == {n \in Nat : \A s \in SUBSET P : Cardinality(s) = n => g[s] = h[s]}
  <1>. SUBSET P \subseteq SUBSET S /\ SUBSET P \subseteq SUBSET R /\ IsFiniteSet(P)
    BY FS_Subset
  <1>a. \A s \in SUBSET S : g[s] = Body(w, g, s)
    <2>. HIDE DEF T
    <2>. QED BY IterValue
  <1>b. \A s \in SUBSET R : h[s] = Body(v, h, s)
    <2>. HIDE DEF T
    <2>. QED BY IterValue
  <1>1. \A s \in SUBSET P : g[s] = Body(w, g, s)
    BY <1>a
  <1>2. \A s \in SUBSET P : h[s] = Body(v, h, s)
    BY <1>b
  <1>. HIDE DEF g, h
  <1>. \A s \in SUBSET P : IsFiniteSet(s) /\ Cardinality(s) \in Nat
    BY FS_Subset, FS_CardinalityType
  <1>3. 0 \in T
    <2>. SUFFICES ASSUME NEW s \in SUBSET P, Cardinality(s) = 0 PROVE g[s] = h[s]
      OBVIOUS
    <2>1. s = {}
      BY FS_EmptySet
    <2>. QED BY <1>1, <1>2, <2>1 DEF Body
  <1>4. ASSUME NEW n \in Nat, n \in T PROVE n + 1 \in T
    <2>. SUFFICES ASSUME NEW s \in SUBSET P, Cardinality(s) = n + 1 PROVE g[s] = h[s]
      OBVIOUS
    <2>1. s # {}
      BY FS_EmptySet
    <2>. DEFINE x == Pick(s)
    <2>2. x \in s
      BY <2>1, PickIn
    <2>3. g[s] = w[x] + g[s \ {x}] /\ h[s] = v[x] + h[s \ {x}]
      BY <1>1, <1>2, <2>1 DEF Body
    <2>. HIDE DEF x
    <2>. HIDE DEF T
    <2>4. s \ {x} \in SUBSET P /\ Cardinality(s \ {x}) = n
      <3>1. IsFiniteSet(s)
        OBVIOUS
      <3>2. Cardinality(s \ {x}) = Cardinality(s) - 1
        BY <2>2, <3>1, SmallerPart
      <3>. QED BY <3>2
    <2>5. g[s \ {x}] = h[s \ {x}] /\ w[x] = v[x]
      BY <1>4, <2>2, <2>4 DEF T
    <2>. QED BY <2>3, <2>5
  <1>. HIDE DEF T
  <1>5. Nat \subseteq T
    BY <1>3, <1>4, NatSetInduction
  <1>6. g[P] = h[P]
    BY <1>5 DEF T
  <1>. QED
    BY <1>6 DEF g, h

LEMMA SumSame ==
    ASSUME NEW w, NEW v, NEW S, IsFiniteSet(S),
           \A x \in S : w[x] \in Int /\ w[x] = v[x]
    PROVE  Sum(w, S) = Sum(v, S)
  BY SumIter, IterAgree

(* Whichever element is taken first.                                       *)
LEMMA IterRemove ==
    ASSUME NEW w, NEW S, IsFiniteSet(S), \A x \in S : w[x] \in Int
    PROVE  \A s \in SUBSET S : \A x \in s : Iter(w, S)[s] = w[x] + Iter(w, S)[s \ {x}]
  <1>. DEFINE g == Iter(w, S)
              T == {n \in Nat : \A s \in SUBSET S : Cardinality(s) = n =>
                        \A x \in s : g[s] = w[x] + g[s \ {x}]}
  <1>1. \A s \in SUBSET S : g[s] = Body(w, g, s) /\ g[s] \in Int
    <2>. HIDE DEF T
    <2>1. g \in [SUBSET S -> Int] /\ \A s \in SUBSET S : g[s] = Body(w, g, s)
      BY IterValue
    <2>. HIDE DEF g
    <2>. QED BY <2>1
  <1>. HIDE DEF g
  <1>. \A s \in SUBSET S : IsFiniteSet(s) /\ Cardinality(s) \in Nat
    BY FS_Subset, FS_CardinalityType
  <1>2. 0 \in T
    BY FS_EmptySet
  <1>3. ASSUME NEW n \in Nat, n \in T PROVE n + 1 \in T
    <2>. SUFFICES ASSUME NEW s \in SUBSET S, Cardinality(s) = n + 1, NEW x \in s
                  PROVE  g[s] = w[x] + g[s \ {x}]
      OBVIOUS
    <2>. DEFINE y == Pick(s)
    <2>1. y \in s
      BY PickIn
    <2>2. g[s] = w[y] + g[s \ {y}]
      BY <1>1 DEF Body
    <2>. HIDE DEF y
    <2>3. CASE x = y
      BY <2>2, <2>3
    <2>4. CASE x # y
      <3>1. /\ s \ {y} \in SUBSET S /\ Cardinality(s \ {y}) = n /\ x \in s \ {y}
            /\ s \ {x} \in SUBSET S /\ Cardinality(s \ {x}) = n /\ y \in s \ {x}
        BY <2>1, <2>4, SmallerPart
      <3>2. g[s \ {y}] = w[x] + g[(s \ {y}) \ {x}]
        BY <1>3, <3>1
      <3>3. g[s \ {x}] = w[y] + g[(s \ {x}) \ {y}]
        BY <1>3, <3>1
      <3>4. (s \ {y}) \ {x} = (s \ {x}) \ {y} /\ (s \ {x}) \ {y} \in SUBSET S
        OBVIOUS
      <3>5. w[x] \in Int /\ w[y] \in Int /\ g[(s \ {x}) \ {y}] \in Int
        BY <1>1, <2>1, <3>4
      <3>. HIDE DEF T
      <3>6. PICK a, b, c \in Int : a = w[x] /\ b = w[y] /\ c = g[(s \ {x}) \ {y}]
        BY <3>5
      <3>7. g[s \ {y}] = a + c /\ g[s \ {x}] = b + c /\ g[s] = b + g[s \ {y}]
        BY <2>2, <3>2, <3>3, <3>4, <3>6
      <3>. QED BY <3>6, <3>7
    <2>. QED BY <2>3, <2>4
  <1>. HIDE DEF T
  <1>4. Nat \subseteq T
    BY <1>2, <1>3, NatSetInduction
  <1>. QED
    BY <1>4 DEF T, g

LEMMA SumEmpty ==
    ASSUME NEW w
    PROVE  Sum(w, {}) = 0
  <1>1. {} \in SUBSET {} /\ IsFiniteSet({})
    BY FS_EmptySet
  <1>2. Iter(w, {})[{}] = Body(w, Iter(w, {}), {})
    BY <1>1, IterValue, ZenonT(30)
  <1>. QED BY <1>2, SumIter DEF Body

LEMMA SumInt ==
    ASSUME NEW w, NEW S, IsFiniteSet(S), \A x \in S : w[x] \in Int
    PROVE  Sum(w, S) \in Int
  <1>1. Iter(w, S) \in [SUBSET S -> Int]
    BY IterValue
  <1>. QED BY <1>1, SumIter

LEMMA SumRemove ==
    ASSUME NEW w, NEW S, IsFiniteSet(S), \A y \in S : w[y] \in Int, NEW x \in S
    PROVE  Sum(w, S) = w[x] + Sum(w, S \ {x})
  <1>1. Sum(w, S) = w[x] + Iter(w, S)[S \ {x}]
    BY SumIter, IterRemove
  <1>2. Iter(w, S)[S \ {x}] = Iter(w, S \ {x})[S \ {x}]
    BY IterAgree, FS_Subset
  <1>. QED
    BY <1>1, <1>2, SumIter

-----------------------------------------------------------------------------
(* Sums over a span of time.                                               *)
Span(n, t) == {u \in Time : t <= u /\ u < t + n}
From(s) == {u \in Time : s <= u}

LEMMA WithinIsSum == ASSUME NEW w, NEW n, NEW t PROVE Within(w, n, t) = Sum(w, Span(n, t))
  BY DEF Within, Span, Sum

LEMMA TimeIsFinite == Time \subseteq Nat /\ \A S \in SUBSET Time : IsFiniteSet(S)
  <1>1. IsFiniteSet(Time)
    BY LoginAssumption, FS_Interval DEF Time
  <1>2. \A S \in SUBSET Time : IsFiniteSet(S)
    BY <1>1, FS_Subset
  <1>3. Time \subseteq Nat
    BY LoginAssumption DEF Time
  <1>. QED
    BY <1>2, <1>3

(* What is counted in S is counted in R: there are no more of it in S.     *)
LEMMA SumMono ==
    ASSUME NEW w \in [Time -> Nat], NEW S \in SUBSET Time, NEW R \in SUBSET Time,
           \A x \in S : x \in R \/ w[x] = 0
    PROVE  Sum(w, S) <= Sum(w, R) /\ Sum(w, S) \in Nat
  <1>. DEFINE T == {n \in Nat : \A s, r \in SUBSET Time :
                        Cardinality(s) = n /\ (\A x \in s : x \in r \/ w[x] = 0)
                            => Sum(w, s) \in Nat /\ Sum(w, s) <= Sum(w, r)}
              Z == {n \in Nat : \A s \in SUBSET Time : Cardinality(s) = n => Sum(w, s) \in Nat}
  <1>1. ASSUME NEW s \in SUBSET Time
        PROVE  /\ IsFiniteSet(s) /\ Cardinality(s) \in Nat /\ Sum(w, s) \in Int
               /\ \A x \in s : w[x] \in Int
    <2>. HIDE DEF T, Z
    <2>1. IsFiniteSet(s) /\ \A x \in s : w[x] \in Int
      BY TimeIsFinite
    <2>. QED BY <2>1, FS_CardinalityType, SumInt
  <1>2. ASSUME NEW s \in SUBSET Time, NEW x \in s
        PROVE  /\ Sum(w, s) = w[x] + Sum(w, s \ {x}) /\ w[x] \in Nat /\ s \ {x} \in SUBSET Time
               /\ Sum(w, s) \in Int /\ Sum(w, s \ {x}) \in Int
               /\ Cardinality(s \ {x}) = Cardinality(s) - 1
    BY <1>1, SumRemove, SmallerPart
  <1>3. \A s \in SUBSET Time : Cardinality(s) = 0 => s = {} /\ Sum(w, s) = 0
    BY <1>1, FS_EmptySet, SumEmpty
  <1>4. \A n \in Nat, s \in SUBSET Time : Cardinality(s) = n + 1 => \E x \in s : TRUE
    BY FS_EmptySet
  <1>5. Nat \subseteq Z
    <2>1. 0 \in Z
      BY <1>3
    <2>2. ASSUME NEW n \in Nat, n \in Z PROVE n + 1 \in Z
      <3>. SUFFICES ASSUME NEW s \in SUBSET Time, Cardinality(s) = n + 1
                    PROVE  Sum(w, s) \in Nat
        OBVIOUS
      <3>1. PICK x \in s : TRUE
        BY <1>4
      <3>2. Cardinality(s \ {x}) = n
        <4>. HIDE DEF T, Z
        <4>1. Cardinality(s \ {x}) = Cardinality(s) - 1
          BY <1>2
        <4>. QED BY <4>1
      <3>3. Sum(w, s \ {x}) \in Nat
        BY <1>2, <2>2, <3>2
      <3>. QED BY <1>2, <3>3
    <2>. HIDE DEF Z
    <2>. QED BY <2>1, <2>2, NatSetInduction
  <1>6. \A s \in SUBSET Time : Sum(w, s) \in Nat
    BY <1>1, <1>5
  <1>. HIDE DEF Z
  <1>7. 0 \in T
    BY <1>3, <1>6
  <1>8. ASSUME NEW n \in Nat, n \in T PROVE n + 1 \in T
    <2>. SUFFICES ASSUME NEW s \in SUBSET Time, NEW r \in SUBSET Time, Cardinality(s) = n + 1,
                         \A x \in s : x \in r \/ w[x] = 0
                  PROVE  Sum(w, s) <= Sum(w, r)
      BY <1>6
    <2>1. PICK x \in s : TRUE
      BY <1>4
    <2>2. Cardinality(s \ {x}) = n
      <3>. HIDE DEF T
      <3>. QED BY <1>2
    <2>3. CASE w[x] = 0
      <3>1. Sum(w, s \ {x}) <= Sum(w, r)
        BY <1>2, <1>8, <2>2
      <3>. QED BY <1>2, <2>3, <3>1
    <2>4. CASE x \in r
      <3>1. r \ {x} \in SUBSET Time /\ Sum(w, r) = w[x] + Sum(w, r \ {x})
        BY <1>2, <2>4
      <3>2. Sum(w, s \ {x}) <= Sum(w, r \ {x})
        BY <1>2, <1>8, <2>2, <3>1
      <3>. QED BY <1>2, <1>6, <3>1, <3>2
    <2>. QED BY <2>3, <2>4
  <1>9. Nat \subseteq T
    <2>. HIDE DEF T
    <2>. QED BY <1>7, <1>8, NatSetInduction
  <1>. QED
    BY <1>1, <1>9

(* What is counted in S is counted in R or in Q.                           *)
LEMMA SumCover ==
    ASSUME NEW w \in [Time -> Nat], NEW S \in SUBSET Time, NEW R \in SUBSET Time,
           NEW Q \in SUBSET Time, \A x \in S : x \in R \/ x \in Q \/ w[x] = 0
    PROVE  Sum(w, S) <= Sum(w, R) + Sum(w, Q)
  <1>. DEFINE T == {n \in Nat : \A s, r, q \in SUBSET Time :
                        Cardinality(s) = n /\ (\A x \in s : x \in r \/ x \in q \/ w[x] = 0)
                            => Sum(w, s) <= Sum(w, r) + Sum(w, q)}
  <1>1. ASSUME NEW s \in SUBSET Time
        PROVE  /\ IsFiniteSet(s) /\ Cardinality(s) \in Nat /\ Sum(w, s) \in Nat
               /\ \A x \in s : w[x] \in Int
    <2>. HIDE DEF T
    <2>1. IsFiniteSet(s) /\ \A x \in s : w[x] \in Int
      BY TimeIsFinite
    <2>. QED BY <2>1, FS_CardinalityType, SumMono
  <1>2. ASSUME NEW s \in SUBSET Time, NEW x \in s
        PROVE  /\ Sum(w, s) = w[x] + Sum(w, s \ {x}) /\ w[x] \in Nat /\ s \ {x} \in SUBSET Time
               /\ Cardinality(s \ {x}) = Cardinality(s) - 1
    <2>. HIDE DEF T
    <2>. QED BY <1>1, SumRemove, SmallerPart
  <1>3. \A s \in SUBSET Time : Cardinality(s) = 0 => s = {} /\ Sum(w, s) = 0
    BY <1>1, FS_EmptySet, SumEmpty
  <1>4. \A n \in Nat, s \in SUBSET Time : Cardinality(s) = n + 1 => \E x \in s : TRUE
    BY FS_EmptySet
  <1>5. 0 \in T
    <2>. SUFFICES ASSUME NEW s \in SUBSET Time, NEW r \in SUBSET Time, NEW q \in SUBSET Time,
                         Cardinality(s) = 0
                  PROVE  Sum(w, s) <= Sum(w, r) + Sum(w, q)
      OBVIOUS
    <2>1. Sum(w, s) = 0 /\ Sum(w, r) \in Nat /\ Sum(w, q) \in Nat
      BY <1>1, <1>3
    <2>. QED BY <2>1
  <1>6. ASSUME NEW n \in Nat, n \in T PROVE n + 1 \in T
    <2>. SUFFICES ASSUME NEW s \in SUBSET Time, NEW r \in SUBSET Time, NEW q \in SUBSET Time,
                         Cardinality(s) = n + 1,
                         \A x \in s : x \in r \/ x \in q \/ w[x] = 0
                  PROVE  Sum(w, s) <= Sum(w, r) + Sum(w, q)
      OBVIOUS
    <2>1. PICK x \in s : TRUE
      BY <1>4
    <2>2. /\ Sum(w, s) = w[x] + Sum(w, s \ {x}) /\ w[x] \in Nat /\ s \ {x} \in SUBSET Time
          /\ Cardinality(s \ {x}) = n /\ Sum(w, s \ {x}) \in Nat
          /\ Sum(w, r) \in Nat /\ Sum(w, q) \in Nat
      <3>. HIDE DEF T
      <3>. QED BY <1>1, <1>2
    <2>3. CASE w[x] = 0
      <3>1. Sum(w, s \ {x}) <= Sum(w, r) + Sum(w, q)
        BY <1>6, <2>2
      <3>. QED BY <2>2, <2>3, <3>1
    <2>4. CASE x \in r
      <3>1. r \ {x} \in SUBSET Time /\ Sum(w, r) = w[x] + Sum(w, r \ {x})
            /\ Sum(w, r \ {x}) \in Nat
        BY <1>1, <1>2, <2>4
      <3>2. Sum(w, s \ {x}) <= Sum(w, r \ {x}) + Sum(w, q)
        BY <1>6, <2>2, <3>1
      <3>. QED BY <2>2, <3>1, <3>2
    <2>5. CASE x \in q
      <3>1. q \ {x} \in SUBSET Time /\ Sum(w, q) = w[x] + Sum(w, q \ {x})
            /\ Sum(w, q \ {x}) \in Nat
        BY <1>1, <1>2, <2>5
      <3>2. Sum(w, s \ {x}) <= Sum(w, r) + Sum(w, q \ {x})
        BY <1>6, <2>2, <3>1
      <3>. QED BY <2>2, <3>1, <3>2
    <2>. QED BY <2>3, <2>4, <2>5
  <1>7. Nat \subseteq T
    <2>. HIDE DEF T
    <2>. QED BY <1>5, <1>6, NatSetInduction
  <1>. QED
    BY <1>1, <1>7

LEMMA SumNone ==
    ASSUME NEW w \in [Time -> Nat], NEW S \in SUBSET Time, \A x \in S : w[x] = 0
    PROVE  Sum(w, S) = 0
  <1>1. Sum(w, S) <= Sum(w, {}) /\ Sum(w, S) \in Nat
    BY SumMono
  <1>. QED
    BY <1>1, SumEmpty

(* One more at a time is one more in every span that it is in.             *)
LEMMA SumMore ==
    ASSUME NEW w \in [Time -> Nat], NEW now \in Time, NEW S \in SUBSET Time
    PROVE  Sum([w EXCEPT ![now] = @ + 1], S) = Sum(w, S) + (IF now \in S THEN 1 ELSE 0)
  <1>. DEFINE v == [w EXCEPT ![now] = @ + 1]
  <1>1. /\ v \in [Time -> Nat] /\ v[now] = w[now] + 1
        /\ \A x \in Time : x # now => v[x] = w[x]
    OBVIOUS
  <1>2. \A x \in Time : v[x] \in Int /\ w[x] \in Int
    BY <1>1
  <1>. HIDE DEF v
  <1>3. IsFiniteSet(S) /\ IsFiniteSet(S \ {now}) /\ S \ {now} \in SUBSET Time
    BY TimeIsFinite
  <1>4. Sum(w, S \ {now}) = Sum(v, S \ {now})
    BY <1>1, <1>2, <1>3, SumSame
  <1>5. CASE now \in S
    <2>1. Sum(v, S) = v[now] + Sum(v, S \ {now})
      BY <1>2, <1>3, <1>5, SumRemove
    <2>2. Sum(w, S) = w[now] + Sum(w, S \ {now}) /\ Sum(w, S \ {now}) \in Nat
      BY <1>2, <1>3, <1>5, SumRemove, SumMono
    <2>. QED BY <1>1, <1>4, <1>5, <2>1, <2>2 DEF v
  <1>6. CASE now \notin S
    <2>1. S \ {now} = S /\ Sum(w, S) \in Nat
      BY <1>6, SumMono
    <2>. QED BY <1>4, <1>6, <2>1 DEF v
  <1>. QED
    BY <1>5, <1>6

-----------------------------------------------------------------------------
(* The failures in a row.  As long as nobody reaches the record with an    *)
(* older time than it was consulted with last, n, there is a time s from   *)
(* which on the record f counts every failure of g, and those before are a *)
(* lockout older.                                                          *)
Record == [count : Nat, last : Time]

InRow(g, f, n, s) ==
    /\ s <= n
    /\ \A u \in Time : g[u] > 0 /\ u < s => u + Lockout <= s
    /\ Sum(g, From(s)) <= f.count
    /\ f.count > 0 => s <= f.last /\ f.last <= n /\ \A u \in Time : g[u] > 0 => u <= f.last

(* The record as it is found at a time.                                    *)
Found(f, now) == IF f.count > 0 /\ now - f.last >= Lockout THEN NoRecord ELSE f

LEMMA LiveIsFound ==
    ASSUME NEW c, NEW now PROVE Live(c, now) = Found(failures[c], now)
  BY DEF Live, Found

LEMMA LoginNumbers ==
    /\ MaxFailures \in Nat \ {0} /\ Lockout \in Nat \ {0} /\ Limit \in Nat \ {0}
    /\ Window \in Nat \ {0} /\ MaxTime \in Nat /\ 0 \in Time
    /\ \A u \in Time : u \in Nat
  BY LoginAssumption, TimeIsFinite DEF Time

LEMMA FoundTyped ==
    ASSUME NEW f \in Record, NEW now \in Time
    PROVE  Found(f, now) \in Record /\ Found(f, now).count <= f.count
  BY LoginNumbers DEF Found, Record, NoRecord

(* A record that is discarded was a lockout old, and so is every failure.  *)
LEMMA RowFound ==
    ASSUME NEW g \in [Time -> Nat], NEW f \in Record, NEW n \in Time, NEW now \in Time,
           n <= now, \E s \in Time : InRow(g, f, n, s)
    PROVE  \E s \in Time : InRow(g, Found(f, now), now, s)
  <1>. USE LoginNumbers
  <1>1. PICK s \in Time : InRow(g, f, n, s)
    OBVIOUS
  <1>2. f.count \in Nat /\ f.last \in Time
    BY DEF Record
  <1>3. CASE f.count > 0 /\ now - f.last >= Lockout
    <2>1. Found(f, now) = NoRecord
      BY <1>3 DEF Found
    <2>2. \A u \in Time : g[u] > 0 => u + Lockout <= now
      BY <1>1, <1>2, <1>3 DEF InRow
    <2>3. \A u \in From(now) : g[u] = 0
      BY <2>2 DEF From
    <2>4. Sum(g, From(now)) = 0
      BY <2>3, SumNone DEF From
    <2>5. InRow(g, NoRecord, now, now)
      BY <2>2, <2>4 DEF InRow, NoRecord
    <2>. QED BY <2>1, <2>5
  <1>4. CASE ~(f.count > 0 /\ now - f.last >= Lockout)
    <2>1. Found(f, now) = f
      BY <1>4 DEF Found
    <2>2. InRow(g, f, now, s)
      BY <1>1, <1>2 DEF InRow
    <2>. QED BY <2>1, <2>2
  <1>. QED
    BY <1>3, <1>4

LEMMA RowFail ==
    ASSUME NEW g \in [Time -> Nat], NEW f \in Record, NEW now \in Time,
           NEW s \in Time, InRow(g, f, now, s)
    PROVE  InRow([g EXCEPT ![now] = @ + 1], [count |-> f.count + 1, last |-> now], now, s)
  <1>. USE LoginNumbers
  <1>. DEFINE h == [g EXCEPT ![now] = @ + 1]
  <1>1. From(s) \in SUBSET Time /\ now \in From(s) /\ f.count \in Nat /\ f.last \in Time
    BY DEF From, InRow, Record
  <1>2. Sum(h, From(s)) = Sum(g, From(s)) + 1 /\ Sum(g, From(s)) \in Nat
    BY <1>1, SumMore, SumMono
  <1>3. \A u \in Time : h[u] > 0 => g[u] > 0 \/ u = now
    OBVIOUS
  <1>. HIDE DEF h
  <1>4. \A u \in Time : g[u] > 0 => u <= now
    <2>1. CASE f.count > 0
      BY <1>1, <2>1 DEF InRow
    <2>2. CASE f.count = 0
      <3>. SUFFICES ASSUME NEW u \in Time, g[u] > 0, u > now PROVE FALSE
        OBVIOUS
      <3>1. {u} \in SUBSET Time /\ IsFiniteSet({u}) /\ g[u] \in Int
        BY TimeIsFinite
      <3>2. Sum(g, {u}) = g[u] + Sum(g, {u} \ {u})
        BY <3>1, SumRemove
      <3>3. Sum(g, {u}) <= Sum(g, From(s))
        BY <1>1, <3>1, SumMono DEF From
      <3>4. Sum(g, {u} \ {u}) = 0 
        BY SumEmpty
      <3>. QED BY <1>2, <2>2, <3>1, <3>2, <3>3, <3>4 DEF InRow
    <2>. QED BY <1>1, <2>1, <2>2
  <1>5. \A u \in Time : h[u] > 0 => u <= now
    BY <1>3, <1>4
  <1>6. \A u \in Time : h[u] > 0 /\ u < s => u + Lockout <= s
    BY <1>1, <1>3 DEF InRow, From
  <1>. QED
    BY <1>1, <1>2, <1>5, <1>6 DEF InRow, h

(* Within a lockout's length that reaches up to now there is nothing else. *)
LEMMA RowSpan ==
    ASSUME NEW g \in [Time -> Nat], NEW f \in Record, NEW now \in Time,
           NEW s \in Time, InRow(g, f, now, s), NEW t \in Time, now \in Span(Lockout, t)
    PROVE  Within(g, Lockout, t) <= f.count
  <1>. USE LoginNumbers
  <1>1. \A u \in Span(Lockout, t) : u \in From(s) \/ g[u] = 0
    BY DEF Span, From, InRow
  <1>2. Span(Lockout, t) \in SUBSET Time /\ From(s) \in SUBSET Time
    BY DEF Span, From
  <1>3. /\ Sum(g, Span(Lockout, t)) <= Sum(g, From(s)) /\ Sum(g, Span(Lockout, t)) \in Nat
        /\ Sum(g, From(s)) \in Nat
    BY <1>1, <1>2, SumMono
  <1>. QED
    BY <1>3, WithinIsSum DEF InRow, Record

LEMMA LatestOf ==
    ASSUME NEW S \in SUBSET Time, S # {}
    PROVE  \E x \in S : \A y \in S : y <= x
  <1>. DEFINE T == {MaxTime - x : x \in S}
  <1>1. \A x \in S : x \in Nat /\ x <= MaxTime /\ MaxTime \in Nat
    BY LoginNumbers DEF Time
  <1>2. T \in SUBSET Nat /\ T # {}
    <2>1. \A x \in S : MaxTime - x \in Nat
      BY <1>1
    <2>. QED BY <2>1
  <1>3. IsWellFoundedOn(OpToRel(<, Nat), Nat)
    BY NatLessThanWellFounded
  <1>4. PICK m \in T : \A k \in T : ~(<<k, m>> \in OpToRel(<, Nat))
    BY <1>2, <1>3, WFMin
  <1>5. \A k \in T : ~(k < m)
    BY <1>2, <1>4 DEF OpToRel
  <1>6. PICK x \in S : m = MaxTime - x
    OBVIOUS
  <1>7. \A y \in S : ~(MaxTime - y < MaxTime - x)
    BY <1>5, <1>6
  <1>. QED
    BY <1>1, <1>7

(* The failures up to u of which no two in a row are a lockout apart.      *)
Linked(g, u) ==
    {t \in 0..u : \A v \in t..(u - 1) : g[v] > 0 => Within(g, Lockout - 1, v + 1) > 0}

LEMMA ChainIsSum ==
    ASSUME NEW c, NEW u PROVE Chain(c, u) = Sum(guesses[c], Linked(guesses[c], u))
  BY DEF Chain, Linked, Sum

(* A chain that still locks at a time does not reach beyond the row.       *)
LEMMA RowChain ==
    ASSUME NEW g \in [Time -> Nat], NEW f \in Record, NEW now \in Time,
           NEW s \in Time, InRow(g, f, now, s), NEW u \in Time, g[u] > 0, now - u < Lockout
    PROVE  Sum(g, Linked(g, u)) <= f.count
  <1>. USE LoginNumbers
  <1>1. s <= u
    BY DEF InRow
  <1>2. Linked(g, u) \in SUBSET Time
    BY DEF Linked, Time
  <1>3. ASSUME NEW t \in Linked(g, u), g[t] > 0, t < s PROVE FALSE
    <2>. DEFINE B == {v \in Time : v < s /\ g[v] > 0}
    <2>1. t \in B
      BY <1>2, <1>3
    <2>2. PICK v \in B : \A y \in B : y <= v
      BY <2>1, LatestOf
    <2>3. v \in Time /\ v < s /\ g[v] > 0 /\ t <= v /\ v + Lockout <= s /\ t \in Time
      BY <1>2, <2>1, <2>2 DEF InRow
    <2>4. v \in t..(u - 1)
      BY <1>1, <2>3
    <2>5. Within(g, Lockout - 1, v + 1) > 0
      BY <2>3, <2>4 DEF Linked
    <2>6. \A x \in Span(Lockout - 1, v + 1) : g[x] = 0
      <3>. SUFFICES ASSUME NEW x \in Span(Lockout - 1, v + 1) PROVE g[x] = 0
        OBVIOUS
      <3>1. x \in Time /\ v < x /\ x < s
        BY <2>3 DEF Span
      <3>2. x \notin B
        BY <2>2, <2>3, <3>1
      <3>. QED BY <3>1, <3>2
    <2>7. Sum(g, Span(Lockout - 1, v + 1)) = 0
      BY <2>6, SumNone DEF Span
    <2>. QED BY <2>5, <2>7, WithinIsSum
  <1>4. \A t \in Linked(g, u) : t \in From(s) \/ g[t] = 0
    <2>. SUFFICES ASSUME NEW t \in Linked(g, u), t \notin From(s) PROVE g[t] = 0
      OBVIOUS
    <2>1. t \in Time /\ t < s /\ g[t] \in Nat
      BY <1>2 DEF From
    <2>. QED BY <1>3, <2>1
  <1>5. From(s) \in SUBSET Time
    BY DEF From
  <1>6. /\ Sum(g, Linked(g, u)) <= Sum(g, From(s)) /\ Sum(g, Linked(g, u)) \in Nat
        /\ Sum(g, From(s)) \in Nat
    BY <1>2, <1>4, <1>5, SumMono
  <1>. QED
    BY <1>6 DEF InRow, Record

-----------------------------------------------------------------------------
(* What the variables hold.                                                *)
LoginRequest == [pc : {"none", "limit", "body", "check", "compare"},
                 client : Client \cup {Resting.client}, now : Time]

LoginTypes ==
    /\ clock \in Time /\ lastSweep \in Int
    /\ failures \in [Client -> Record]
    /\ windows \in [Address -> [count : Nat, start : Time]]
    /\ request \in [Request -> LoginRequest]
    /\ \A r \in Request :
          /\ request[r].now <= clock
          /\ request[r].pc # "none" => request[r].client \in Client
    /\ allowed \in [Address -> [Time -> Nat]] /\ guesses \in [Client -> [Time -> Nat]]
    /\ newest \in [Client -> Time]

LEMMA LoginTypesInit == LoginInit => LoginTypes
  BY LoginNumbers DEF LoginInit, LoginTypes, Record, NoRecord, NoWindow, LoginRequest, Resting

LEMMA MinMaxOf ==
    ASSUME NEW i \in Int, NEW j \in Int
    PROVE  Min({i, j}) = (IF i <= j THEN i ELSE j) /\ Max({i, j}) = (IF i <= j THEN j ELSE i)
  <1>1. Min({i, j}) \in {i, j} /\ Min({i, j}) <= i /\ Min({i, j}) <= j
    <2>1. \E x \in {i, j} : \A y \in {i, j} : x <= y
      OBVIOUS
    <2>. QED BY <2>1 DEF Min
  <1>2. Max({i, j}) \in {i, j} /\ i <= Max({i, j}) /\ j <= Max({i, j})
    <2>1. \E x \in {i, j} : \A y \in {i, j} : x >= y
      OBVIOUS
    <2>. QED BY <2>1 DEF Max
  <1>. QED
    BY <1>1, <1>2

LEMMA LaterOf ==
    ASSUME NEW i \in Time, NEW j \in Time
    PROVE  Max({i, j}) = (IF i <= j THEN j ELSE i) /\ Max({i, j}) \in Time
  <1>1. i \in Int /\ j \in Int
    BY LoginNumbers
  <1>2. Max({i, j}) = (IF i <= j THEN j ELSE i)
    BY <1>1, MinMaxOf
  <1>. QED
    BY <1>2

LEMMA RequestFields ==
    ASSUME LoginTypes, NEW r \in Request
    PROVE  /\ request[r].now \in Time /\ request[r].now <= clock
           /\ request[r].pc # "none" => request[r].client \in Client
           /\ Resting \in LoginRequest /\ Resting.pc = "none" /\ Resting.now = 0
  BY LoginNumbers DEF LoginTypes, LoginRequest, Resting

(* A request alone moves on, to rest or to its next step.                  *)
LEMMA RequestMoves ==
    ASSUME LoginTypes, clock' = clock, NEW r \in Request,
           \/ request' = [request EXCEPT ![r] = Resting]
           \/ /\ request[r].pc # "none"
              /\ \E p \in {"limit", "body", "check", "compare"}, n \in {0, clock, request[r].now} :
                    request' = [request EXCEPT ![r] = [@ EXCEPT !.pc = p, !.now = n]]
    PROVE  /\ request' \in [Request -> LoginRequest]
           /\ \A q \in Request :
                 /\ request'[q].now <= clock'
                 /\ request'[q].pc # "none" => request'[q].client \in Client
  <1>. USE LoginNumbers
  <1>1. CASE request' = [request EXCEPT ![r] = Resting]
    BY <1>1, RequestFields DEF LoginTypes, LoginRequest
  <1>2. ASSUME request[r].pc # "none", NEW p \in {"limit", "body", "check", "compare"},
               NEW n \in {0, clock, request[r].now},
               request' = [request EXCEPT ![r] = [@ EXCEPT !.pc = p, !.now = n]]
        PROVE  /\ request' \in [Request -> LoginRequest]
               /\ \A q \in Request :
                     /\ request'[q].now <= clock'
                     /\ request'[q].pc # "none" => request'[q].client \in Client
    <2>. DEFINE q == [request[r] EXCEPT !.pc = p, !.now = n]
    <2>1. n \in Time /\ n <= clock /\ request[r] \in LoginRequest /\ request[r].client \in Client
      BY <1>2, RequestFields DEF LoginTypes
    <2>2. q \in LoginRequest /\ q.pc = p /\ q.now = n /\ q.client = request[r].client
      BY <2>1 DEF LoginRequest
    <2>. HIDE DEF q
    <2>3. request' = [request EXCEPT ![r] = q]
      BY <1>2 DEF q
    <2>. QED BY <2>1, <2>2, <2>3 DEF LoginTypes
  <1>. QED
    BY <1>1, <1>2

(* What Allow counts.                                                      *)
Counted(w, now) ==
    IF Over(w, now) THEN [count |-> 1, start |-> now]
                    ELSE [w EXCEPT !.count = Min({@ + 1, Limit + 1})]

LEMMA CountedIs ==
    ASSUME NEW w \in [count : Nat, start : Time], NEW now \in Time
    PROVE  /\ Counted(w, now) \in [count : Nat, start : Time] /\ w.count \in Nat /\ w.start \in Time
           /\ Over(w, now) => Counted(w, now).count = 1 /\ Counted(w, now).start = now
           /\ ~Over(w, now) =>
                 /\ Counted(w, now).count = IF w.count <= Limit THEN w.count + 1 ELSE Limit + 1
                 /\ Counted(w, now).start = w.start
  <1>. USE LoginNumbers
  <1>1. w.count \in Nat /\ w.start \in Time
    OBVIOUS
  <1>2. Min({w.count + 1, Limit + 1}) = IF w.count <= Limit THEN w.count + 1 ELSE Limit + 1
    BY <1>1, MinMaxOf
  <1>3. CASE Over(w, now)
    BY <1>1, <1>3 DEF Counted
  <1>4. CASE ~Over(w, now)
    BY <1>1, <1>2, <1>4 DEF Counted
  <1>. QED
    BY <1>3, <1>4

LEMMA SweptTyped ==
    ASSUME LoginTypes, NEW now \in Time
    PROVE  Swept(now) \in [Address -> [count : Nat, start : Time]]
  BY LoginNumbers DEF LoginTypes, Swept, NoWindow

LEMMA TypesStep ==
    ASSUME LoginTypes, LoginStep \/ Forget
    PROVE  LoginTypes'
  <1>. USE LoginNumbers
  <1>1. CASE Tick
    <2>1. clock' \in Time /\ clock <= clock'
      BY <1>1 DEF Tick, Time, LoginTypes
    <2>2. \A r \in Request : request[r].now \in Nat /\ clock \in Nat /\ clock' \in Nat
      BY <2>1, RequestFields DEF LoginTypes
    <2>. QED BY <1>1, <2>1, <2>2 DEF Tick, LoginTypes, guardVars, limiterVars
  <1>2. ASSUME NEW r \in Request, NEW c \in Client, Arrive(r, c) PROVE LoginTypes'
    <2>1. [pc |-> "limit", client |-> c, now |-> clock] \in LoginRequest
      BY DEF LoginRequest, LoginTypes
    <2>. QED BY <1>2, <2>1 DEF Arrive, LoginTypes, guardVars, limiterVars
  <1>3. ASSUME NEW r \in Request, Allow(r) PROVE LoginTypes'
    <2>. DEFINE a == AddressOf[request[r].client]
                now == request[r].now
    <2>1. now \in Time /\ a \in Address
      BY <1>3, RequestFields, LoginAssumption DEF Allow
    <2>2. windows' = [Swept(now) EXCEPT ![a] = Counted(Swept(now)[a], now)]
      BY <1>3 DEF Allow, Counted
    <2>3. \/ \E g \in {allowed[a], [t \in Time |-> 0]} :
                allowed' = [allowed EXCEPT ![a] = [g EXCEPT ![now] = @ + 1]]
          \/ allowed' = allowed
      BY <1>3 DEF Allow, LetThrough
    <2>4. \/ request' = [request EXCEPT ![r] = Resting]
          \/ request' = [request EXCEPT ![r] = [@ EXCEPT !.pc = "body", !.now = 0]]
      BY <1>3 DEF Allow
    <2>5. lastSweep' = now \/ lastSweep' = lastSweep
      BY <1>3 DEF Allow
    <2>6. clock' = clock /\ request[r].pc = "limit" /\ UNCHANGED guardVars
      BY <1>3 DEF Allow
    <2>. HIDE DEF a, now
    <2>7. Counted(Swept(now)[a], now) \in [count : Nat, start : Time]
      BY <2>1, SweptTyped, CountedIs
    <2>8. windows' \in [Address -> [count : Nat, start : Time]]
      BY <2>1, <2>2, <2>7, SweptTyped
    <2>9. allowed' \in [Address -> [Time -> Nat]]
      <3>1. allowed \in [Address -> [Time -> Nat]] /\ [t \in Time |-> 0] \in [Time -> Nat]
        BY DEF LoginTypes
      <3>2. \A g \in [Time -> Nat] : [g EXCEPT ![now] = @ + 1] \in [Time -> Nat]
        BY <2>1
      <3>. QED BY <2>1, <2>3, <3>1, <3>2
    <2>10. /\ request' \in [Request -> LoginRequest]
           /\ \A q \in Request :
                 /\ request'[q].now <= clock'
                 /\ request'[q].pc # "none" => request'[q].client \in Client
      BY <2>4, <2>6, RequestMoves
    <2>. QED BY <2>1, <2>5, <2>6, <2>8, <2>9, <2>10 DEF LoginTypes, guardVars
  <1>4. ASSUME NEW r \in Request, TakeTime(r) PROVE LoginTypes'
    <2>1. /\ request' \in [Request -> LoginRequest]
          /\ \A q \in Request :
                /\ request'[q].now <= clock'
                /\ request'[q].pc # "none" => request'[q].client \in Client
      BY <1>4, RequestMoves DEF TakeTime
    <2>. QED BY <1>4, <2>1 DEF TakeTime, LoginTypes, guardVars, limiterVars
  <1>5. ASSUME NEW r \in Request, Check(r) \/ Fail(r) \/ Succeed(r) PROVE LoginTypes'
    <2>. DEFINE c == request[r].client
                now == request[r].now
    <2>1. now \in Time /\ c \in Client /\ request[r].pc # "none" /\ clock' = clock
          /\ UNCHANGED limiterVars
      BY <1>5, RequestFields DEF Check, Fail, Succeed
    <2>2. \/ request' = [request EXCEPT ![r] = Resting]
          \/ request' = [request EXCEPT ![r] = [@ EXCEPT !.pc = "compare"]]
      BY <1>5 DEF Check, Fail, Succeed
    <2>3. [request[r] EXCEPT !.pc = "compare"] = [request[r] EXCEPT !.pc = "compare", !.now = now]
      BY DEF LoginTypes, LoginRequest
    <2>4. /\ request' \in [Request -> LoginRequest]
          /\ \A q \in Request :
                /\ request'[q].now <= clock'
                /\ request'[q].pc # "none" => request'[q].client \in Client
      BY <2>1, <2>2, <2>3, RequestMoves
    <2>5. \/ failures' = [failures EXCEPT ![c] = Found(failures[c], now)]
          \/ failures' = [failures EXCEPT ![c] =
                             [count |-> Found(failures[c], now).count + 1, last |-> now]]
          \/ failures' = [failures EXCEPT ![c] = NoRecord]
      BY <1>5, LiveIsFound DEF Check, Fail, Succeed
    <2>6. newest' = newest \/ newest' = [newest EXCEPT ![c] = Max({@, now})]
      BY <1>5 DEF Check, Fail, Succeed, Consult
    <2>7. \/ guesses' = guesses \/ guesses' = [guesses EXCEPT ![c][now] = @ + 1]
          \/ guesses' = [guesses EXCEPT ![c] = [t \in Time |-> 0]]
      BY <1>5 DEF Check, Fail, Succeed
    <2>. HIDE DEF c, now
    <2>8. Found(failures[c], now) \in Record /\ NoRecord \in Record
      BY <2>1, FoundTyped DEF LoginTypes, Record, NoRecord
    <2>9. failures' \in [Client -> Record]
      <3>1. [count |-> Found(failures[c], now).count + 1, last |-> now] \in Record
        BY <2>1, <2>8 DEF Record
      <3>. QED BY <2>1, <2>5, <2>8, <3>1 DEF LoginTypes
    <2>10. newest' \in [Client -> Time]
      <3>0. newest[c] \in Time
        BY <2>1 DEF LoginTypes
      <3>1. Max({newest[c], now}) \in Time
        BY <2>1, <3>0, LaterOf
      <3>2. newest' = newest \/ newest' = [newest EXCEPT ![c] = Max({newest[c], now})]
        BY <2>6
      <3>. QED BY <2>1, <3>1, <3>2 DEF LoginTypes
    <2>11. guesses' \in [Client -> [Time -> Nat]]
      BY <2>1, <2>7 DEF LoginTypes
    <2>. QED BY <2>1, <2>4, <2>9, <2>10, <2>11 DEF LoginTypes, limiterVars
  <1>6. CASE Forget
    <2>1. [r \in Request |-> Resting] \in [Request -> LoginRequest]
      BY RequestFields
    <2>. QED BY <1>6, <2>1, RequestFields DEF Forget, LoginTypes, Record, NoRecord, NoWindow
  <1>. QED
    BY <1>1, <1>2, <1>3, <1>4, <1>5, <1>6 DEF LoginStep

-----------------------------------------------------------------------------
(* The lockout.  A request past its check may add one to the count of its  *)
(* client, and no other is let past once the count is at the limit; and    *)
(* the count bounds the failures in a row, and so those of any span.       *)
Trying(c) == {r \in Request : request[r].pc = "compare" /\ request[r].client = c}
Most == MaxFailures + Cardinality(Request)

CountInv == \A c \in Client : failures[c].count + Cardinality(Trying(c)) < Most
RowInv ==
    \A c \in Client \ overtaken : \E s \in Time : InRow(guesses[c], failures[c], newest[c], s)
SpanInv == \A c \in Client \ overtaken, t \in Time : Within(guesses[c], Lockout, t) < Most

GuardInv == CountInv /\ RowInv /\ SpanInv

LEMMA PartsOfRequest ==
    /\ Cardinality(Request) \in Nat /\ Most \in Nat
    /\ \A S \in SUBSET Request :
          IsFiniteSet(S) /\ Cardinality(S) \in Nat /\ Cardinality(S) <= Cardinality(Request)
  <1>1. IsFiniteSet(Request) /\ Cardinality(Request) \in Nat
    BY LoginAssumption, FS_CardinalityType
  <1>2. ASSUME NEW S \in SUBSET Request
        PROVE  IsFiniteSet(S) /\ Cardinality(S) \in Nat /\ Cardinality(S) <= Cardinality(Request)
    BY <1>1, FS_Subset, FS_CardinalityType
  <1>. QED
    BY <1>1, <1>2, LoginNumbers DEF Most

(* Of two parts, the larger has as many or more; without one of its        *)
(* elements, fewer.                                                        *)
LEMMA SmallerSet ==
    ASSUME NEW S \in SUBSET Request, NEW R \in SUBSET S
    PROVE  /\ Cardinality(R) <= Cardinality(S)
           /\ \A r \in S \ R : Cardinality(R) + 1 <= Cardinality(S)
  <1>1. IsFiniteSet(S) /\ Cardinality(S) \in Nat
    BY PartsOfRequest
  <1>2. Cardinality(R) <= Cardinality(S)
    BY <1>1, FS_Subset
  <1>3. ASSUME NEW r \in S \ R PROVE Cardinality(R) + 1 <= Cardinality(S)
    <2>1. R \subseteq S \ {r} /\ IsFiniteSet(S \ {r}) /\ Cardinality(S \ {r}) = Cardinality(S) - 1
      BY <1>1, SmallerPart
    <2>2. Cardinality(R) <= Cardinality(S \ {r}) /\ Cardinality(R) \in Nat
      BY <2>1, FS_Subset, PartsOfRequest
    <2>. QED BY <1>1, <2>1, <2>2
  <1>. QED
    BY <1>2, <1>3

(* Nothing counted yet.                                                    *)
LEMMA NothingInRow ==
    ASSUME NEW n \in Time
    PROVE  /\ InRow([t \in Time |-> 0], NoRecord, n, 0)
           /\ \A t \in Time : Within([u \in Time |-> 0], Lockout, t) = 0
  <1>. DEFINE g == [t \in Time |-> 0]
  <1>1. g \in [Time -> Nat] /\ \A u \in Time : g[u] = 0
    BY LoginNumbers
  <1>2. From(0) \in SUBSET Time /\ \A t \in Time : Span(Lockout, t) \in SUBSET Time
    BY DEF From, Span
  <1>. HIDE DEF g
  <1>3. Sum(g, From(0)) = 0 /\ \A t \in Time : Sum(g, Span(Lockout, t)) = 0
    BY <1>1, <1>2, SumNone
  <1>4. InRow(g, NoRecord, n, 0)
    BY <1>1, <1>3, LoginNumbers DEF InRow, NoRecord
  <1>5. \A t \in Time : Within(g, Lockout, t) = 0
    BY <1>3, WithinIsSum
  <1>. QED
    BY <1>4, <1>5 DEF g

LEMMA MostIsSome == 0 < Most /\ \A S \in SUBSET Request : Cardinality(S) < Most
  BY PartsOfRequest, LoginNumbers DEF Most

NoFailures ==
    /\ failures = [c \in Client |-> NoRecord]
    /\ guesses = [c \in Client |-> [t \in Time |-> 0]] /\ newest = [c \in Client |-> 0]

LEMMA GuardFresh == NoFailures => GuardInv
  <1>. SUFFICES ASSUME NoFailures PROVE GuardInv
    OBVIOUS
  <1>. USE DEF NoFailures
  <1>1. CountInv
    <2>1. \A c \in Client : failures[c].count = 0 /\ Trying(c) \in SUBSET Request
      BY DEF NoRecord, Trying
    <2>2. \A c \in Client : Cardinality(Trying(c)) < Most /\ Cardinality(Trying(c)) \in Nat
      BY <2>1, MostIsSome, PartsOfRequest
    <2>. QED BY <2>1, <2>2 DEF CountInv
  <1>2. RowInv
    BY NothingInRow, LoginNumbers DEF RowInv
  <1>3. SpanInv
    BY NothingInRow, MostIsSome DEF SpanInv
  <1>. QED
    BY <1>1, <1>2, <1>3 DEF GuardInv

(* A step that leaves the guard alone and lets nobody past the check.      *)
LEMMA GuardIdle ==
    ASSUME LoginTypes, GuardInv, UNCHANGED guardVars,
           \A r \in Request : request'[r].pc = "compare" =>
               request[r].pc = "compare" /\ request[r].client = request'[r].client
    PROVE  GuardInv'
  <1>1. CountInv'
    <2>. SUFFICES ASSUME NEW c \in Client
                  PROVE  (failures[c].count + Cardinality(Trying(c)) < Most)'
      BY DEF CountInv
    <2>1. Trying(c)' \in SUBSET Trying(c) /\ Trying(c) \in SUBSET Request
      BY DEF Trying
    <2>2. Cardinality(Trying(c)') <= Cardinality(Trying(c))
      BY <2>1, SmallerSet
    <2>3. Cardinality(Trying(c)') \in Nat /\ Cardinality(Trying(c)) \in Nat /\ Most \in Nat
      BY <2>1, PartsOfRequest
    <2>4. failures[c].count + Cardinality(Trying(c)) < Most
      BY DEF GuardInv, CountInv
    <2>5. failures' = failures /\ failures[c].count \in Nat
      BY DEF guardVars, LoginTypes, Record
    <2>6. Most' = Most
      BY DEF Most
    <2>7. failures'[c].count + Cardinality(Trying(c)') < Most
      BY <2>2, <2>3, <2>4, <2>5
    <2>. QED BY <2>6, <2>7
  <1>2. /\ guesses' = guesses /\ failures' = failures /\ newest' = newest
        /\ overtaken' = overtaken
    BY DEF guardVars
  <1>3. RowInv'
    BY <1>2 DEF GuardInv, RowInv
  <1>4. SpanInv'
    BY <1>2 DEF GuardInv, SpanInv, Most
  <1>. QED
    BY <1>1, <1>3, <1>4 DEF GuardInv

LEMMA ConsultedInOrder ==
    ASSUME LoginTypes, NEW c \in Client, NEW now \in Time, Consult(c, now)
    PROVE  /\ c \notin overtaken' => newest[c] <= now /\ newest'[c] = now
           /\ \A d \in Client : d # c => newest'[d] = newest[d]
           /\ \A d \in Client : d \notin overtaken' => d \notin overtaken
  <1>1. newest[c] \in Time /\ newest[c] \in Nat /\ now \in Nat
    BY LoginNumbers DEF LoginTypes
  <1>2. newest' = [newest EXCEPT ![c] = Max({newest[c], now})]
    BY DEF Consult
  <1>3. Max({newest[c], now}) = IF newest[c] <= now THEN now ELSE newest[c]
    BY <1>1, LaterOf
  <1>4. c \notin overtaken' => newest[c] <= now
    BY <1>1 DEF Consult
  <1>5. overtaken \subseteq overtaken'
    BY DEF Consult
  <1>. QED
    BY <1>2, <1>3, <1>4, <1>5 DEF LoginTypes

(* What a step does to one client leaves the rows of the others alone.     *)
LEMMA OtherClients ==
    ASSUME LoginTypes, GuardInv, NEW c \in Client, NEW r \in Request,
           \A d \in Client : d # c =>
               /\ failures'[d] = failures[d] /\ guesses'[d] = guesses[d]
               /\ newest'[d] = newest[d] /\ (d \notin overtaken' => d \notin overtaken),
           request[r].client = c, request'[r].pc = "none" \/ request'[r].client = c,
           \A q \in Request : q # r => request'[q] = request[q],
           (failures[c].count + Cardinality(Trying(c)) < Most)',
           c \notin overtaken' => \E s \in Time : InRow(guesses'[c], failures'[c], newest'[c], s),
           c \notin overtaken' => \A t \in Time : Within(guesses'[c], Lockout, t) < Most
    PROVE  GuardInv'
  <1>1. CountInv'
    <2>. SUFFICES ASSUME NEW d \in Client
                  PROVE  (failures[d].count + Cardinality(Trying(d)) < Most)'
      BY DEF CountInv
    <2>1. CASE d = c
      BY <2>1
    <2>2. CASE d # c
      <3>1. Trying(d)' = Trying(d)
        BY <2>2 DEF Trying
      <3>2. failures'[d] = failures[d] /\ Most' = Most
        BY <2>2 DEF Most
      <3>3. failures[d].count + Cardinality(Trying(d)) < Most
        BY DEF GuardInv, CountInv
      <3>. QED BY <3>1, <3>2, <3>3
    <2>. QED BY <2>1, <2>2
  <1>2. RowInv'
    BY DEF GuardInv, RowInv
  <1>3. SpanInv'
    BY DEF GuardInv, SpanInv, Most
  <1>. QED
    BY <1>1, <1>2, <1>3 DEF GuardInv

LEMMA GuardCheck ==
    ASSUME LoginTypes, GuardInv, NEW r \in Request, Check(r),
           NEW c \in Client, c = request[r].client, NEW now \in Time, now = request[r].now
    PROVE  GuardInv'
  <1>. DEFINE f == Found(failures[c], now)
  <1>1. request[r].pc = "check"
    BY DEF Check
  <1>2. /\ Consult(c, now) /\ guesses' = guesses /\ failures' = [failures EXCEPT ![c] = f]
        /\ request' = [request EXCEPT ![r] =
               IF f.count >= MaxFailures THEN Resting ELSE [@ EXCEPT !.pc = "compare"]]
    BY LiveIsFound DEF Check
  <1>3. f \in Record /\ f.count <= failures[c].count /\ f.count \in Nat /\ failures[c] \in Record
        /\ failures[c].count \in Nat
    BY <1>1, FoundTyped DEF LoginTypes, Record
  <1>. HIDE DEF f
  <1>4. /\ request'[r].pc = "none" \/ request'[r].client = c
        /\ f.count >= MaxFailures => request'[r].pc = "none"
        /\ \A q \in Request : q # r => request'[q] = request[q]
    <2>1. request[r] \in LoginRequest /\ request \in [Request -> LoginRequest]
      BY DEF LoginTypes
    <2>2. [request[r] EXCEPT !.pc = "compare"].client = c
      BY <2>1 DEF LoginRequest
    <2>. QED BY <1>2, <2>1, <2>2, RequestFields
  <1>5. failures'[c] = f /\ \A d \in Client : d # c => failures'[d] = failures[d]
    BY <1>1, <1>2 DEF LoginTypes
  <1>6. (failures[c].count + Cardinality(Trying(c)) < Most)'
    <2>0. Most' = Most /\ Most \in Nat
      BY PartsOfRequest DEF Most
    <2>. DEFINE S == {q \in Request : request'[q].pc = "compare" /\ request'[q].client = c}
    <2>1. S \in SUBSET Request
      OBVIOUS
    <2>2. CASE f.count >= MaxFailures
      <3>1. S \in SUBSET Trying(c) /\ Trying(c) \in SUBSET Request
        BY <1>4, <2>2 DEF Trying
      <3>2. Cardinality(S) <= Cardinality(Trying(c)) /\ Cardinality(S) \in Nat
            /\ Cardinality(Trying(c)) \in Nat
        BY <3>1, <2>1, SmallerSet, PartsOfRequest
      <3>3. failures[c].count + Cardinality(Trying(c)) < Most
        BY <1>1 DEF GuardInv, CountInv
      <3>. HIDE DEF S
      <3>4. f.count + Cardinality(S) < Most
        BY <1>3, <2>0, <3>2, <3>3
      <3>. QED BY <1>5, <3>4, <2>0 DEF Trying, S
    <2>3. CASE f.count < MaxFailures
      <3>1. Cardinality(S) <= Cardinality(Request) /\ Cardinality(S) \in Nat
        BY <2>1, PartsOfRequest
      <3>. HIDE DEF S
      <3>2. f.count + Cardinality(S) < Most
        BY <1>3, <2>3, <3>1, PartsOfRequest, LoginNumbers DEF Most
      <3>. QED BY <1>5, <3>2, <2>0 DEF Trying, S
    <2>. QED BY <1>3, <2>2, <2>3, LoginNumbers
  <1>7. /\ c \notin overtaken' => newest[c] <= now /\ newest'[c] = now
        /\ \A d \in Client : d # c => newest'[d] = newest[d]
        /\ \A d \in Client : d \notin overtaken' => d \notin overtaken
    BY <1>1, <1>2, ConsultedInOrder
  <1>8. ASSUME c \notin overtaken'
        PROVE  \E s \in Time : InRow(guesses'[c], failures'[c], newest'[c], s)
    <2>1. \E s \in Time : InRow(guesses[c], failures[c], newest[c], s)
      BY <1>1, <1>7, <1>8 DEF GuardInv, RowInv
    <2>2. guesses[c] \in [Time -> Nat] /\ newest[c] \in Time
      BY <1>1 DEF LoginTypes
    <2>3. \E s \in Time : InRow(guesses[c], f, now, s)
      BY <1>1, <1>3, <1>7, <1>8, <2>1, <2>2, RowFound DEF f
    <2>. QED BY <1>2, <1>5, <1>7, <1>8, <2>3
  <1>9. c \notin overtaken' => \A t \in Time : Within(guesses'[c], Lockout, t) < Most
    BY <1>1, <1>2, <1>7 DEF GuardInv, SpanInv
  <1>. QED
    BY <1>1, <1>2, <1>4, <1>5, <1>6, <1>7, <1>8, <1>9, OtherClients

LEMMA GuardFail ==
    ASSUME LoginTypes, GuardInv, NEW r \in Request, Fail(r),
           NEW c \in Client, c = request[r].client, NEW now \in Time, now = request[r].now
    PROVE  GuardInv'
  <1>. DEFINE f == Found(failures[c], now)
              h == [count |-> f.count + 1, last |-> now]
              g == [guesses[c] EXCEPT ![now] = @ + 1]
              S == {q \in Request : request'[q].pc = "compare" /\ request'[q].client = c}
  <1>1. request[r].pc = "compare" /\ r \in Trying(c)
    BY DEF Fail, Trying
  <1>2. /\ Consult(c, now) /\ failures' = [failures EXCEPT ![c] = h]
        /\ guesses' = [guesses EXCEPT ![c][now] = @ + 1]
        /\ request' = [request EXCEPT ![r] = Resting]
    BY LiveIsFound DEF Fail
  <1>3. f \in Record /\ f.count <= failures[c].count /\ f.count \in Nat /\ failures[c] \in Record
        /\ failures[c].count \in Nat
    BY FoundTyped DEF LoginTypes, Record
  <1>. HIDE DEF f
  <1>4. h \in Record /\ h.count = f.count + 1
    BY <1>3 DEF Record
  <1>. HIDE DEF h
  <1>5. /\ request'[r].pc = "none" /\ \A q \in Request : q # r => request'[q] = request[q]
        /\ failures'[c] = h /\ \A d \in Client : d # c => failures'[d] = failures[d]
    BY <1>2, RequestFields DEF LoginTypes
  <1>6. /\ guesses'[c] = g /\ \A d \in Client : d # c => guesses'[d] = guesses[d]
        /\ guesses[c] \in [Time -> Nat] /\ g \in [Time -> Nat]
    <2>1. guesses \in [Client -> [Time -> Nat]]
      BY DEF LoginTypes
    <2>2. guesses' = [guesses EXCEPT ![c] = g]
      BY <1>2
    <2>3. g \in [Time -> Nat]
      BY <2>1
    <2>. HIDE DEF g
    <2>. QED BY <2>1, <2>2, <2>3
  <1>. HIDE DEF g
  <1>7. h.count + Cardinality(S) < Most
    <2>1. S \in SUBSET Trying(c) /\ Trying(c) \in SUBSET Request /\ r \in Trying(c) \ S
          /\ S \in SUBSET Request
      BY <1>1, <1>5 DEF Trying
    <2>2. Cardinality(S) + 1 <= Cardinality(Trying(c))
      BY <2>1, SmallerSet
    <2>3. Cardinality(S) \in Nat /\ Cardinality(Trying(c)) \in Nat /\ Most \in Nat
      BY <2>1, PartsOfRequest
    <2>4. failures[c].count + Cardinality(Trying(c)) < Most
      BY DEF GuardInv, CountInv
    <2>. HIDE DEF S
    <2>. QED BY <1>3, <1>4, <2>2, <2>3, <2>4
  <1>8. (failures[c].count + Cardinality(Trying(c)) < Most)'
    BY <1>5, <1>7 DEF Trying, Most
  <1>9. /\ c \notin overtaken' => newest[c] <= now /\ newest'[c] = now
        /\ \A d \in Client : d # c => newest'[d] = newest[d]
        /\ \A d \in Client : d \notin overtaken' => d \notin overtaken
    BY <1>2, ConsultedInOrder
  <1>10. ASSUME c \notin overtaken' PROVE \E s \in Time : InRow(g, h, now, s)
    <2>1. \E s \in Time : InRow(guesses[c], failures[c], newest[c], s)
      BY <1>9, <1>10 DEF GuardInv, RowInv
    <2>2. guesses[c] \in [Time -> Nat] /\ newest[c] \in Time
      BY DEF LoginTypes
    <2>3. \E s \in Time : InRow(guesses[c], f, now, s)
      BY <1>3, <1>9, <1>10, <2>1, <2>2, RowFound DEF f
    <2>4. PICK s \in Time : InRow(guesses[c], f, now, s)
      BY <2>3
    <2>5. InRow(g, h, now, s)
      BY <1>3, <2>2, <2>4, RowFail DEF g, h
    <2>. QED BY <2>5
  <1>11. ASSUME c \notin overtaken', NEW t \in Time PROVE Within(g, Lockout, t) < Most
    <2>. USE WithinIsSum
    <2>1. Span(Lockout, t) \in SUBSET Time
      BY DEF Span
    <2>2. CASE now \in Span(Lockout, t)
      <3>1. PICK s \in Time : InRow(g, h, now, s)
        BY <1>10, <1>11
      <3>2. Within(g, Lockout, t) <= h.count
        BY <1>4, <1>6, <2>2, <3>1, RowSpan
      <3>3. Within(g, Lockout, t) \in Nat /\ Cardinality(S) \in Nat /\ Most \in Nat
        BY <1>6, <2>1, SumMono, PartsOfRequest
      <3>. HIDE DEF S
      <3>. QED BY <1>3, <1>4, <1>7, <3>2, <3>3
    <2>3. CASE now \notin Span(Lockout, t)
      <3>1. Sum(g, Span(Lockout, t)) = Sum(guesses[c], Span(Lockout, t)) + 0
        BY <1>6, <2>1, <2>3, SumMore DEF g
      <3>2. Sum(guesses[c], Span(Lockout, t)) \in Nat
        BY <1>6, <2>1, SumMono
      <3>3. Within(guesses[c], Lockout, t) < Most
        BY <1>9, <1>11 DEF GuardInv, SpanInv
      <3>. QED BY <3>1, <3>2, <3>3
    <2>. QED BY <2>2, <2>3
  <1>. QED
    BY <1>5, <1>6, <1>8, <1>9, <1>10, <1>11, OtherClients

LEMMA GuardSucceed ==
    ASSUME LoginTypes, GuardInv, NEW r \in Request, Succeed(r),
           NEW c \in Client, c = request[r].client
    PROVE  GuardInv'
  <1>1. /\ failures' = [failures EXCEPT ![c] = NoRecord]
        /\ guesses' = [guesses EXCEPT ![c] = [t \in Time |-> 0]]
        /\ overtaken' = overtaken \ {c} /\ newest' = newest
        /\ request' = [request EXCEPT ![r] = Resting]
    BY DEF Succeed
  <1>2. /\ request'[r].pc = "none" /\ \A q \in Request : q # r => request'[q] = request[q]
        /\ failures'[c] = NoRecord /\ \A d \in Client : d # c => failures'[d] = failures[d]
    BY <1>1, RequestFields DEF LoginTypes
  <1>3. /\ guesses'[c] = [t \in Time |-> 0]
        /\ \A d \in Client : d # c => guesses'[d] = guesses[d]
    BY <1>1 DEF LoginTypes
  <1>4. (failures[c].count + Cardinality(Trying(c)) < Most)'
    <2>. DEFINE S == {q \in Request : request'[q].pc = "compare" /\ request'[q].client = c}
    <2>1. Cardinality(S) < Most /\ Cardinality(S) \in Nat
      BY MostIsSome, PartsOfRequest
    <2>2. NoRecord.count + Cardinality(S) < Most
      <3>. HIDE DEF S
      <3>. QED BY <2>1 DEF NoRecord
    <2>. QED BY <1>2, <2>2 DEF Trying, Most
  <1>5. newest'[c] \in Time
    BY <1>1 DEF LoginTypes
  <1>6. \E s \in Time : InRow(guesses'[c], failures'[c], newest'[c], s)
    BY <1>2, <1>3, <1>5, NothingInRow, LoginNumbers
  <1>7. \A t \in Time : Within(guesses'[c], Lockout, t) < Most
    BY <1>3, <1>5, NothingInRow, MostIsSome
  <1>8. \A d \in Client : d # c /\ d \notin overtaken' => d \notin overtaken
    BY <1>1
  <1>. QED
    BY <1>1, <1>2, <1>3, <1>4, <1>6, <1>7, <1>8, OtherClients

(* Whoever is let past the check is not locked out by his failures.        *)
LEMMA LetPast ==
    ASSUME LoginTypes, GuardInv, NEW r \in Request, Check(r), request'[r].pc = "compare",
           NEW c \in Client, c = request[r].client, NEW now \in Time, now = request[r].now,
           c \notin overtaken'
    PROVE  ~LockedOut(c, now)
  <1>. DEFINE f == Found(failures[c], now)
  <1>1. Consult(c, now)
    BY DEF Check
  <1>2. f.count < MaxFailures
    <2>1. request'[r] = IF f.count >= MaxFailures THEN Resting
                        ELSE [request[r] EXCEPT !.pc = "compare"]
      BY LiveIsFound DEF Check, LoginTypes
    <2>2. f.count \in Nat
      BY FoundTyped DEF LoginTypes, Record
    <2>. QED BY <2>1, <2>2, RequestFields, LoginNumbers
  <1>3. /\ failures[c] \in Record /\ guesses[c] \in [Time -> Nat] /\ newest[c] \in Time
        /\ f \in Record /\ f.count \in Nat
    BY FoundTyped DEF LoginTypes, Record
  <1>4. newest[c] <= now /\ c \notin overtaken
    BY <1>1, ConsultedInOrder
  <1>5. \E s \in Time : InRow(guesses[c], failures[c], newest[c], s)
    BY <1>4 DEF GuardInv, RowInv
  <1>6. \E s \in Time : InRow(guesses[c], f, now, s)
    BY <1>3, <1>4, <1>5, RowFound
  <1>. HIDE DEF f
  <1>7. PICK s \in Time : InRow(guesses[c], f, now, s)
    BY <1>6
  <1>. SUFFICES ASSUME NEW u \in Time, guesses[c][u] > 0, now - u < Lockout,
                       Chain(c, u) >= MaxFailures
                PROVE  FALSE
    BY DEF LockedOut
  <1>8. Sum(guesses[c], Linked(guesses[c], u)) <= f.count
    BY <1>3, <1>7, RowChain
  <1>9. Sum(guesses[c], Linked(guesses[c], u)) \in Nat
    <2>1. Linked(guesses[c], u) \in SUBSET Time
      BY LoginNumbers DEF Linked, Time
    <2>. QED BY <1>3, <2>1, SumMono
  <1>. QED
    BY <1>2, <1>3, <1>8, <1>9, ChainIsSum, LoginNumbers

-----------------------------------------------------------------------------
(* The limiter.  Opened is when the window of an address was opened, or,   *)
(* where it was swept, the latest time it can have been.  From then on no  *)
(* more was let through than the window has counted, and less than that    *)
(* after the tick it was opened in; in the length of a window before it,   *)
(* less than the limit, since the window before had been opened earlier.   *)
AWindow == [count : Nat, start : Time]

Opened(w, z) == IF w.count > 0 THEN w.start ELSE z - Window
Given(w) == IF w.count = 0 \/ w.count > Limit THEN Limit ELSE w.count

WindowInv(g, w, z) ==
    /\ \A u \in Time : g[u] > 0 => u < Opened(w, z) + Window
    /\ Sum(g, From(Opened(w, z) + 1)) < Given(w)
    /\ w.count > 0 => /\ Sum(g, From(w.start)) <= Given(w)
                      /\ Sum(g, Span(Window - 1, w.start - Window + 1)) < Limit
    /\ \A t \in Time : Sum(g, Span(Window, t)) < 2 * Limit

LimiterInv == \A a \in Address : WindowInv(allowed[a], windows[a], lastSweep)

LEMMA WindowNumbers ==
    ASSUME NEW w \in AWindow
    PROVE  /\ w.count \in Nat /\ w.start \in Time /\ w.start \in Nat
           /\ Given(w) \in Nat /\ Given(w) <= Limit /\ (w.count > 0 => Given(w) <= w.count)
           /\ \A z \in Int : Opened(w, z) \in Int
  BY LoginNumbers DEF AWindow, Given, Opened

(* Nothing was let through: any window will do.                            *)
LEMMA WindowFresh ==
    ASSUME NEW g \in [Time -> Nat], NEW w \in AWindow, NEW z \in Int, \A u \in Time : g[u] = 0
    PROVE  WindowInv(g, w, z)
  <1>1. \A S \in SUBSET Time : Sum(g, S) = 0
    BY SumNone
  <1>2. 0 < Given(w) /\ 0 < Limit /\ 0 < 2 * Limit
    BY LoginNumbers, WindowNumbers DEF Given
  <1>4. /\ From(Opened(w, z) + 1) \in SUBSET Time /\ From(w.start) \in SUBSET Time
        /\ Span(Window - 1, w.start - Window + 1) \in SUBSET Time
        /\ \A t \in Time : Span(Window, t) \in SUBSET Time
    BY DEF From, Span
  <1>5. /\ Sum(g, From(Opened(w, z) + 1)) = 0 /\ Sum(g, From(w.start)) = 0
        /\ Sum(g, Span(Window - 1, w.start - Window + 1)) = 0
        /\ \A t \in Time : Sum(g, Span(Window, t)) = 0
    BY <1>1, <1>4
  <1>6. \A u \in Time : ~(g[u] > 0)
    OBVIOUS
  <1>. QED
    BY <1>2, <1>5, <1>6, WindowNumbers DEF WindowInv

(* A sweep, at a time z later, leaves a window or takes one that is over.  *)
LEMMA WindowSwept ==
    ASSUME NEW g \in [Time -> Nat], NEW w \in AWindow, NEW v \in {w, NoWindow},
           NEW y \in Int, NEW z \in Int, y <= z, WindowInv(g, w, y),
           v = NoWindow => w.count = 0 \/ z - w.start >= Window
    PROVE  WindowInv(g, v, z)
  <1>. USE LoginNumbers
  <1>1. w.count \in Nat /\ w.start \in Nat /\ Given(w) \in Nat /\ Given(w) <= Limit
        /\ Opened(w, y) \in Int
    BY WindowNumbers
  <1>2. NoWindow.count = 0 /\ Given(NoWindow) = Limit /\ Opened(NoWindow, z) = z - Window
    BY DEF NoWindow, Given, Opened
  <1>3. CASE v = w /\ w.count > 0
    BY <1>1, <1>3 DEF WindowInv, Opened
  <1>4. CASE v = NoWindow \/ w.count = 0
    <2>1. v.count = 0 /\ Given(v) = Limit /\ Opened(v, z) = z - Window
      BY <1>2, <1>4 DEF Given, Opened
    <2>2. Opened(w, y) <= z - Window
      BY <1>1, <1>4 DEF Opened
    <2>3. From(z - Window + 1) \in SUBSET From(Opened(w, y) + 1)
      BY <1>1, <2>2 DEF From
    <2>4. /\ Sum(g, From(z - Window + 1)) <= Sum(g, From(Opened(w, y) + 1))
          /\ Sum(g, From(z - Window + 1)) \in Nat
          /\ Sum(g, From(Opened(w, y) + 1)) \in Nat
      <3>1. From(z - Window + 1) \in SUBSET Time /\ From(Opened(w, y) + 1) \in SUBSET Time
        BY DEF From
      <3>2. Sum(g, From(z - Window + 1)) <= Sum(g, From(Opened(w, y) + 1))
            /\ Sum(g, From(z - Window + 1)) \in Nat
        BY <2>3, <3>1, SumMono
      <3>3. Sum(g, From(Opened(w, y) + 1)) \in Nat
        BY <3>1, SumMono
      <3>. QED BY <3>2, <3>3
    <2>5. Sum(g, From(z - Window + 1)) < Limit
      BY <1>1, <2>4 DEF WindowInv
    <2>6. \A u \in Time : g[u] > 0 => u < z
      BY <1>1, <2>2 DEF WindowInv
    <2>. QED BY <2>1, <2>5, <2>6 DEF WindowInv
  <1>. QED
    BY <1>1, <1>3, <1>4

(* A window is opened once the one before is over: the span that ends with *)
(* it has less than the limit.                                             *)
LEMMA WindowOpened ==
    ASSUME NEW g \in [Time -> Nat], NEW w \in AWindow, NEW v \in AWindow, NEW z \in Int,
           NEW now \in Time, WindowInv(g, w, z), Opened(w, z) + Window <= now,
           v.count = 1, v.start = now
    PROVE  WindowInv([g EXCEPT ![now] = @ + 1], v, z)
  <1>. USE LoginNumbers
  <1>. DEFINE s == Opened(w, z)
              h == [g EXCEPT ![now] = @ + 1]
  <1>1. s \in Int /\ Given(w) \in Nat /\ Given(w) <= Limit /\ s + Window <= now
    BY WindowNumbers
  <1>2. Opened(v, z) = now /\ Given(v) = 1
    BY DEF Opened, Given
  <1>3. h \in [Time -> Nat] /\ \A u \in Time : h[u] = (IF u = now THEN g[u] + 1 ELSE g[u])
    OBVIOUS
  <1>4. \A S \in SUBSET Time : Sum(h, S) = Sum(g, S) + (IF now \in S THEN 1 ELSE 0)
    BY ONLY SumMore, g \in [Time -> Nat], now \in Time
  <1>5. \A u \in Time : g[u] > 0 => u < now
    BY <1>1 DEF WindowInv
  <1>6. Sum(g, From(s + 1)) < Limit /\ Sum(g, From(s + 1)) \in Nat
    <2>1. Sum(g, From(s + 1)) \in Nat
      BY SumMono DEF From
    <2>. QED BY <1>1, <2>1 DEF WindowInv
  <1>7. \A t \in Time : Sum(g, Span(Window, t)) < 2 * Limit
    BY DEF WindowInv
  <1>. HIDE DEF s, h
  <1>8. \A S \in SUBSET Time : (\A u \in S : u \in From(s + 1) \/ g[u] = 0) =>
            Sum(g, S) < Limit /\ Sum(g, S) \in Nat
    <2>. SUFFICES ASSUME NEW S \in SUBSET Time, \A u \in S : u \in From(s + 1) \/ g[u] = 0
                  PROVE  Sum(g, S) < Limit /\ Sum(g, S) \in Nat
      OBVIOUS
    <2>1. From(s + 1) \in SUBSET Time
      BY DEF From
    <2>2. Sum(g, S) <= Sum(g, From(s + 1)) /\ Sum(g, S) \in Nat
      BY <2>1, SumMono
    <2>. QED BY <1>6, <2>2
  <1>9. \A u \in Time : h[u] > 0 => u < now + Window
    BY <1>3, <1>5
  <1>10. Sum(h, From(now + 1)) = 0 /\ Sum(h, From(now)) = 1
    <2>1. /\ From(now + 1) \in SUBSET Time /\ From(now) \in SUBSET Time
          /\ now \notin From(now + 1) /\ now \in From(now)
          /\ \A u \in From(now) : ~(u < now) /\ u \in Time
          /\ \A u \in From(now + 1) : ~(u < now) /\ u \in Time
      BY DEF From
    <2>2. Sum(g, From(now + 1)) = 0 /\ Sum(g, From(now)) = 0
      <3>1. \A u \in From(now) : g[u] = 0
        BY <1>5, <2>1
      <3>2. \A u \in From(now + 1) : g[u] = 0
        BY <1>5, <2>1
      <3>. QED BY <2>1, <3>1, <3>2, SumNone
    <2>. QED BY <1>4, <2>1, <2>2
  <1>11. Sum(h, Span(Window - 1, now - Window + 1)) < Limit
    <2>1. Span(Window - 1, now - Window + 1) \in SUBSET Time
          /\ now \notin Span(Window - 1, now - Window + 1)
      BY DEF Span
    <2>2. \A u \in Span(Window - 1, now - Window + 1) : u \in From(s + 1)
      BY <1>1 DEF Span, From
    <2>. QED BY <1>4, <1>8, <2>1, <2>2
  <1>12. ASSUME NEW t \in Time PROVE Sum(h, Span(Window, t)) < 2 * Limit
    <2>1. Span(Window, t) \in SUBSET Time
      BY DEF Span
    <2>2. CASE now \in Span(Window, t)
      <3>1. \A u \in Span(Window, t) : u \in From(s + 1) \/ g[u] = 0
        <4>. SUFFICES ASSUME NEW u \in Span(Window, t), g[u] # 0 PROVE u \in From(s + 1)
          OBVIOUS
        <4>1. u \in Time /\ u \in Nat /\ t <= u /\ now < t + Window /\ t \in Nat
          BY <2>2 DEF Span
        <4>. QED BY <1>1, <4>1 DEF From
      <3>2. Sum(g, Span(Window, t)) < Limit /\ Sum(g, Span(Window, t)) \in Nat
        BY <1>8, <2>1, <3>1
      <3>. QED BY <1>4, <2>1, <2>2, <3>2
    <2>3. CASE now \notin Span(Window, t)
      <3>1. Sum(g, Span(Window, t)) \in Nat
        BY <2>1, SumMono
      <3>. QED BY <1>4, <1>7, <2>1, <2>3, <3>1
    <2>. QED BY <2>2, <2>3
  <1>13. WindowInv(h, v, z)
    BY <1>2, <1>9, <1>10, <1>11, <1>12 DEF WindowInv
  <1>. QED BY <1>13 DEF h

(* One more is counted in the window that is open, and let through.        *)
LEMMA WindowCounted ==
    ASSUME NEW g \in [Time -> Nat], NEW w \in AWindow, NEW v \in AWindow, NEW z \in Int,
           NEW now \in Time, WindowInv(g, w, z), w.count > 0,
           w.start <= now, now < w.start + Window,
           v.count = w.count + 1, v.count <= Limit, v.start = w.start
    PROVE  WindowInv([g EXCEPT ![now] = @ + 1], v, z)
  <1>. USE LoginNumbers
  <1>. DEFINE s == w.start
              h == [g EXCEPT ![now] = @ + 1]
              Before == Span(Window - 1, s - Window + 1)
  <1>1. s \in Nat /\ w.count \in Nat /\ s <= now /\ now < s + Window /\ now \in Nat
    BY WindowNumbers
  <1>2. Opened(v, z) = s /\ Given(v) = w.count + 1 /\ Opened(w, z) = s /\ Given(w) = w.count
        /\ v.count > 0 /\ v.start = s
    BY <1>1 DEF Opened, Given
  <1>3. h \in [Time -> Nat] /\ \A u \in Time : h[u] = (IF u = now THEN g[u] + 1 ELSE g[u])
    OBVIOUS
  <1>4. \A S \in SUBSET Time : Sum(h, S) = Sum(g, S) + (IF now \in S THEN 1 ELSE 0)
    BY ONLY SumMore, g \in [Time -> Nat], now \in Time
  <1>5. From(s) \in SUBSET Time /\ From(s + 1) \in SUBSET Time /\ Before \in SUBSET Time
        /\ now \notin Before
    BY <1>1 DEF From, Span
  <1>6. \A S \in SUBSET Time : Sum(g, S) \in Nat
    BY SumMono
  <1>7. /\ \A u \in Time : g[u] > 0 => u < s + Window
        /\ Sum(g, From(s + 1)) < w.count /\ Sum(g, From(s)) <= w.count
        /\ Sum(g, Before) < Limit
        /\ \A t \in Time : Sum(g, Span(Window, t)) < 2 * Limit
    BY <1>2 DEF WindowInv
  <1>. HIDE DEF s, h, Before
  <1>8. \A u \in Time : h[u] > 0 => u < s + Window
    BY <1>1, <1>3, <1>7
  <1>9. Sum(h, From(s + 1)) < w.count + 1 /\ Sum(h, From(s)) <= w.count + 1
        /\ Sum(h, Before) < Limit
    <2>1. Sum(g, From(s)) \in Nat /\ Sum(g, From(s + 1)) \in Nat /\ Sum(g, Before) \in Nat
      BY <1>5, <1>6
    <2>2. /\ Sum(h, From(s)) <= Sum(g, From(s)) + 1
          /\ Sum(h, From(s + 1)) <= Sum(g, From(s + 1)) + 1
          /\ Sum(h, Before) = Sum(g, Before)
      BY <1>4, <1>5, <2>1
    <2>3. Sum(h, From(s)) \in Nat /\ Sum(h, From(s + 1)) \in Nat
      BY <1>3, <1>5, SumMono
    <2>. QED BY <1>1, <1>7, <2>1, <2>2, <2>3
  <1>10. ASSUME NEW t \in Time PROVE Sum(h, Span(Window, t)) < 2 * Limit
    <2>1. Span(Window, t) \in SUBSET Time
      BY DEF Span
    <2>2. CASE now \in Span(Window, t)
      <3>1. \A u \in Span(Window, t) : u \in Before \/ u \in From(s) \/ g[u] = 0
        <4>. SUFFICES ASSUME NEW u \in Span(Window, t), u \notin From(s) PROVE u \in Before
          OBVIOUS
        <4>1. u \in Time /\ u \in Nat /\ t <= u /\ now < t + Window /\ t \in Nat /\ u < s
          BY <1>1, <2>2 DEF Span, From
        <4>. QED BY <1>1, <4>1 DEF Span, Before
      <3>2. Sum(g, Span(Window, t)) <= Sum(g, Before) + Sum(g, From(s))
        BY <1>5, <2>1, <3>1, SumCover
      <3>3. /\ Sum(g, Before) \in Nat /\ Sum(g, From(s)) \in Nat
            /\ Sum(g, Span(Window, t)) \in Nat
        BY <1>5, <1>6, <2>1
      <3>4. Sum(h, Span(Window, t)) = Sum(g, Span(Window, t)) + 1
        BY <1>4, <2>1, <2>2
      <3>5. w.count + 1 <= Limit
        OBVIOUS
      <3>. QED BY <1>1, <1>7, <3>2, <3>3, <3>4, <3>5
    <2>3. CASE now \notin Span(Window, t)
      <3>1. Sum(g, Span(Window, t)) \in Nat
        BY <1>6, <2>1
      <3>. QED BY <1>4, <1>7, <2>1, <2>3, <3>1
    <2>. QED BY <2>2, <2>3
  <1>11. WindowInv(h, v, z)
    BY <1>2, <1>8, <1>9, <1>10 DEF WindowInv, Before
  <1>. QED BY <1>11 DEF h

(* A request that is refused counts, too.                                  *)
LEMMA WindowRefused ==
    ASSUME NEW g \in [Time -> Nat], NEW w \in AWindow, NEW v \in AWindow, NEW z \in Int,
           WindowInv(g, w, z), w.count > 0, v.count > Limit, v.start = w.start
    PROVE  WindowInv(g, v, z)
  <1>. USE LoginNumbers
  <1>1. w.count \in Nat /\ v.count \in Nat /\ v.count > 0 /\ w.start \in Nat
        /\ Given(w) \in Nat /\ Given(v) \in Nat
    BY WindowNumbers
  <1>2. Given(w) <= Given(v) /\ Opened(v, z) = Opened(w, z)
    BY <1>1 DEF Given, Opened
  <1>3. Sum(g, From(Opened(w, z) + 1)) \in Nat /\ Sum(g, From(w.start)) \in Nat
    BY SumMono DEF From
  <1>. QED
    BY <1>1, <1>2, <1>3 DEF WindowInv

(* A late request starts the account anew: it opens a window in the past,  *)
(* or is counted in one that was opened after it took its time.            *)
LEMMA WindowLate ==
    ASSUME NEW g \in [Time -> Nat], NEW v \in AWindow, NEW z \in Int, NEW now \in Time,
           \A u \in Time : g[u] = 0, v.count > 0, now <= v.start,
           now < v.start => v.count > 1 /\ v.count <= Limit
    PROVE  WindowInv([g EXCEPT ![now] = @ + 1], v, z)
  <1>. USE LoginNumbers
  <1>. DEFINE h == [g EXCEPT ![now] = @ + 1]
              Before == Span(Window - 1, v.start - Window + 1)
  <1>1. v.start \in Nat /\ v.count \in Nat /\ Given(v) \in Nat /\ now \in Nat
    BY WindowNumbers
  <1>2. Opened(v, z) = v.start /\ 1 <= Given(v)
    BY <1>1 DEF Opened, Given
  <1>3. \A u \in Time : h[u] = (IF u = now THEN 1 ELSE 0)
    OBVIOUS
  <1>4. \A S \in SUBSET Time : Sum(h, S) = IF now \in S THEN 1 ELSE 0
    <2>1. \A S \in SUBSET Time : Sum(g, S) = 0
      BY SumNone
    <2>2. \A S \in SUBSET Time : Sum(h, S) = Sum(g, S) + (IF now \in S THEN 1 ELSE 0)
      BY ONLY SumMore, g \in [Time -> Nat], now \in Time
    <2>. HIDE DEF h
    <2>3. SUFFICES ASSUME NEW S \in SUBSET Time PROVE Sum(h, S) = IF now \in S THEN 1 ELSE 0
      OBVIOUS
    <2>4. Sum(g, S) = 0 /\ Sum(h, S) = Sum(g, S) + (IF now \in S THEN 1 ELSE 0)
      BY <2>1, <2>2
    <2>. QED BY ONLY <2>4
  <1>5. /\ From(v.start) \in SUBSET Time /\ From(v.start + 1) \in SUBSET Time
        /\ Before \in SUBSET Time /\ \A t \in Time : Span(Window, t) \in SUBSET Time
        /\ now \notin From(v.start + 1) /\ (now \in Before => now < v.start)
    BY <1>1 DEF From, Span
  <1>. HIDE DEF h, Before
  <1>6. Sum(h, From(v.start + 1)) = 0 /\ Sum(h, From(v.start)) <= 1
        /\ \A t \in Time : Sum(h, Span(Window, t)) <= 1 /\ Sum(h, Span(Window, t)) \in Nat
    BY <1>4, <1>5
  <1>7. Sum(h, Before) < Limit
    <2>1. CASE now \in Before
      BY <1>1, <1>4, <1>5, <2>1
    <2>2. CASE now \notin Before
      BY <1>4, <1>5, <2>2
    <2>. QED BY <2>1, <2>2
  <1>8. \A u \in Time : h[u] > 0 => u < v.start + Window
    BY <1>1, <1>3
  <1>9. Sum(h, From(v.start)) \in Nat /\ 1 < 2 * Limit
    BY <1>4, <1>5
  <1>10. \A t \in Time : Sum(h, Span(Window, t)) < 2 * Limit
    BY <1>6, <1>9
  <1>11. Sum(h, From(v.start + 1)) < Given(v) /\ Sum(h, From(v.start)) <= Given(v)
    BY <1>1, <1>2, <1>6, <1>9
  <1>12. WindowInv(h, v, z)
    BY <1>2, <1>7, <1>8, <1>10, <1>11 DEF WindowInv, Before
  <1>. QED BY <1>12 DEF h

NoWindows ==
    /\ allowed = [a \in Address |-> [t \in Time |-> 0]]
    /\ windows = [a \in Address |-> NoWindow] /\ lastSweep = -Window

LEMMA LimiterFresh == NoWindows => LimiterInv
  <1>. SUFFICES ASSUME NoWindows PROVE LimiterInv
    OBVIOUS
  <1>. USE DEF NoWindows
  <1>1. NoWindow \in AWindow /\ lastSweep \in Int
    BY LoginNumbers DEF AWindow, NoWindow
  <1>2. ASSUME NEW a \in Address PROVE WindowInv(allowed[a], windows[a], lastSweep)
    <2>1. windows[a] \in AWindow /\ allowed[a] \in [Time -> Nat] /\ \A u \in Time : allowed[a][u] = 0
      BY <1>1
    <2>. QED BY <1>1, <2>1, WindowFresh
  <1>. QED
    BY <1>2 DEF LimiterInv

(* One address is counted, under the time its request took; the others are *)
(* swept at most.                                                          *)
SweptAt(now) == IF now - lastSweep >= Window THEN now ELSE lastSweep
Account(a, now) == IF Late(a, now) THEN [t \in Time |-> 0] ELSE allowed[a]

LEMMA SweepEffect ==
    ASSUME LoginTypes, NEW now \in Time, NEW b \in Address
    PROVE  /\ Swept(now)[b] \in {windows[b], NoWindow}
           /\ Swept(now)[b] = NoWindow =>
                 windows[b].count = 0 \/ SweptAt(now) - windows[b].start >= Window
  <1>1. windows \in [Address -> AWindow]
    BY DEF LoginTypes, AWindow
  <1>2. CASE now - lastSweep >= Window
    BY <1>2 DEF Swept, SweptAt, Over, NoWindow
  <1>3. CASE ~(now - lastSweep >= Window)
    BY <1>3 DEF Swept, NoWindow
  <1>. QED BY <1>2, <1>3

LEMMA AllowEffect ==
    ASSUME LoginTypes, NEW r \in Request, Allow(r), NEW now \in Time, now = request[r].now,
           NEW a \in Address, a = AddressOf[request[r].client]
    PROVE  /\ lastSweep' = SweptAt(now) /\ SweptAt(now) \in Int /\ lastSweep <= SweptAt(now)
           /\ Swept(now) \in [Address -> AWindow]
           /\ windows' = [Swept(now) EXCEPT ![a] = Counted(Swept(now)[a], now)]
           /\ allowed' = [allowed EXCEPT ![a] =
                             IF Counted(Swept(now)[a], now).count <= Limit
                             THEN [Account(a, now) EXCEPT ![now] = @ + 1] ELSE allowed[a]]
  <1>. DEFINE v == Swept(now)
              z == SweptAt(now)
  <1>1. /\ v \in [Address -> AWindow] /\ windows \in [Address -> AWindow]
        /\ lastSweep \in Int /\ now \in Int /\ allowed \in [Address -> [Time -> Nat]]
    <2>1. now \in Int
      BY LoginNumbers
    <2>. QED BY <2>1, SweptTyped DEF LoginTypes, AWindow
  <1>2. z \in Int /\ lastSweep <= z
    BY <1>1, LoginNumbers DEF SweptAt
  <1>3. /\ windows' = [v EXCEPT ![a] = Counted(v[a], now)] /\ lastSweep' = z
        /\ \/ /\ Counted(v[a], now).count <= Limit
              /\ allowed' = [allowed EXCEPT ![a] = [Account(a, now) EXCEPT ![now] = @ + 1]]
           \/ Counted(v[a], now).count > Limit /\ allowed' = allowed
    BY DEF Allow, Counted, SweptAt, LetThrough, Account
  <1>. HIDE DEF v, z
  <1>4. Counted(v[a], now).count \in Nat
    BY <1>1, CountedIs DEF AWindow
  <1>5. allowed' = [allowed EXCEPT ![a] =
                        IF Counted(v[a], now).count <= Limit
                        THEN [Account(a, now) EXCEPT ![now] = @ + 1] ELSE allowed[a]]
    BY <1>1, <1>3, <1>4, LoginNumbers
  <1>. QED
    BY <1>1, <1>2, <1>3, <1>5, Zenon DEF v, z

LEMMA LimiterAllow ==
    ASSUME LoginTypes, LimiterInv, NEW r \in Request, Allow(r),
           NEW now \in Time, now = request[r].now,
           NEW a \in Address, a = AddressOf[request[r].client]
    PROVE  LimiterInv'
  <1>. USE LoginNumbers
  <1>. DEFINE v == Swept(now)
              z == SweptAt(now)
              w == Counted(v[a], now)
              g == Account(a, now)
  <1>1. lastSweep' = z /\ z \in Int /\ lastSweep <= z /\ lastSweep \in Int
    BY AllowEffect DEF LoginTypes
  <1>2. \A b \in Address :
            /\ v[b] \in AWindow /\ windows[b] \in AWindow /\ allowed[b] \in [Time -> Nat]
            /\ v[b] \in {windows[b], NoWindow}
            /\ v[b] = NoWindow => windows[b].count = 0 \/ z - windows[b].start >= Window
            /\ windows'[b] = IF b = a THEN Counted(v[b], now) ELSE v[b]
            /\ b # a => allowed'[b] = allowed[b]
    <2>1. /\ windows \in [Address -> AWindow] /\ allowed \in [Address -> [Time -> Nat]]
          /\ v \in [Address -> AWindow] /\ windows' = [v EXCEPT ![a] = Counted(v[a], now)]
      BY AllowEffect DEF LoginTypes, AWindow
    <2>2. allowed' = [allowed EXCEPT ![a] =
                          IF w.count <= Limit THEN [g EXCEPT ![now] = @ + 1] ELSE allowed[a]]
      BY AllowEffect
    <2>3. \A b \in Address :
              /\ v[b] \in {windows[b], NoWindow}
              /\ v[b] = NoWindow => windows[b].count = 0 \/ z - windows[b].start >= Window
      BY SweepEffect
    <2>. HIDE DEF v, z, w, g
    <2>. QED BY <2>1, <2>2, <2>3
  <1>3. allowed'[a] = IF w.count <= Limit THEN [g EXCEPT ![now] = @ + 1] ELSE allowed[a]
    <2>1. /\ allowed \in [Address -> [Time -> Nat]]
          /\ allowed' = [allowed EXCEPT ![a] =
                            IF w.count <= Limit THEN [g EXCEPT ![now] = @ + 1] ELSE allowed[a]]
      BY AllowEffect DEF LoginTypes
    <2>. QED BY <2>1
  <1>4. \/ Late(a, now) /\ g \in [Time -> Nat] /\ \A u \in Time : g[u] = 0
        \/ ~Late(a, now) /\ g = allowed[a]
    BY DEF Account
  <1>5. /\ w \in AWindow /\ v[a].count \in Nat /\ v[a].start \in Time
        /\ Over(v[a], now) => w.count = 1 /\ w.start = now
        /\ ~Over(v[a], now) =>
              /\ w.count = IF v[a].count <= Limit THEN v[a].count + 1 ELSE Limit + 1
              /\ w.start = v[a].start
    BY <1>2, CountedIs DEF AWindow
  <1>6. \/ now - lastSweep >= Window /\ z = now
        \/ now - lastSweep < Window /\ z = lastSweep /\ v = windows
    BY <1>1 DEF SweptAt, Swept
  <1>. HIDE DEF v, z, w, g
  <1>7. ASSUME NEW b \in Address PROVE WindowInv(allowed[b], v[b], z)
    <2>1. WindowInv(allowed[b], windows[b], lastSweep)
      BY DEF LimiterInv
    <2>. QED BY <1>1, <1>2, <2>1, WindowSwept
  <1>8. WindowInv(allowed'[a], w, z)
    <2>1. CASE Over(v[a], now)
      <3>1. w.count = 1 /\ w.start = now /\ allowed'[a] = [g EXCEPT ![now] = @ + 1]
        BY <1>3, <1>5, <2>1
      <3>2. CASE Late(a, now)
        <4>1. w.count > 0 /\ now <= w.start /\ ~(now < w.start)
          BY <3>1
        <4>2. g \in [Time -> Nat] /\ \A u \in Time : g[u] = 0
          BY <1>4, <3>2
        <4>3. w \in AWindow /\ z \in Int
          BY <1>1, <1>5
        <4>4. WindowInv([g EXCEPT ![now] = @ + 1], w, z)
          BY <4>1, <4>2, <4>3, WindowLate
        <4>. QED BY <3>1, <4>4
      <3>3. CASE ~Late(a, now)
        <4>1. Opened(v[a], z) + Window <= now
          <5>1. CASE v[a].count = 0
            <6>1. z <= now
              BY <1>1, <1>6, <3>3, <5>1 DEF Late
            <6>. QED BY <1>1, <5>1, <6>1 DEF Opened
          <5>2. CASE v[a].count # 0
            BY <1>5, <2>1, <5>2 DEF Opened, Over
          <5>. QED BY <5>1, <5>2
        <4>2. allowed[a] \in [Time -> Nat] /\ v[a] \in AWindow /\ g = allowed[a]
          BY <1>2, <1>4, <3>3
        <4>. QED BY <1>1, <1>5, <1>7, <3>1, <4>1, <4>2, WindowOpened
      <3>. QED BY <3>2, <3>3
    <2>2. CASE ~Over(v[a], now)
      <3>1. /\ v[a].count > 0 /\ now < v[a].start + Window /\ w.start = v[a].start
            /\ w.count = IF v[a].count <= Limit THEN v[a].count + 1 ELSE Limit + 1
        BY <1>5, <2>2 DEF Over
      <3>2. v[a] = windows[a]
        BY <1>2, <3>1 DEF NoWindow
      <3>3. Late(a, now) <=> now < v[a].start
        BY <3>1, <3>2 DEF Late
      <3>4. v[a] \in AWindow /\ allowed[a] \in [Time -> Nat] /\ WindowInv(allowed[a], v[a], z)
        BY <1>2, <1>7
      <3>5. CASE w.count > Limit
        <4>1. allowed'[a] = allowed[a]
          BY <1>3, <1>5, <3>5 DEF AWindow
        <4>. QED BY <1>1, <1>5, <3>1, <3>4, <3>5, <4>1, WindowRefused
      <3>6. CASE w.count <= Limit
        <4>1. allowed'[a] = [g EXCEPT ![now] = @ + 1] /\ w.count = v[a].count + 1
          BY <1>3, <1>5, <3>1, <3>6
        <4>2. CASE Late(a, now)
          <5>1. w.count > 1 /\ now <= w.start
            BY <1>5, <3>1, <3>3, <4>1, <4>2, WindowNumbers
          <5>2. g \in [Time -> Nat] /\ \A u \in Time : g[u] = 0
            BY <1>4, <4>2
          <5>3. w \in AWindow /\ z \in Int /\ w.count \in Nat
            BY <1>1, <1>5, WindowNumbers
          <5>4. w.count > 0
            BY <5>1, <5>3
          <5>5. WindowInv([g EXCEPT ![now] = @ + 1], w, z)
            BY <3>6, <5>1, <5>2, <5>3, <5>4, WindowLate
          <5>. QED BY <4>1, <5>5
        <4>3. CASE ~Late(a, now)
          <5>1. v[a].start <= now /\ g = allowed[a]
            BY <1>4, <1>5, <3>3, <4>3
          <5>. QED BY <1>1, <1>5, <3>1, <3>4, <3>6, <4>1, <5>1, WindowCounted
        <4>. QED BY <4>2, <4>3
      <3>. QED BY <1>5, <3>5, <3>6 DEF AWindow
    <2>. QED BY <2>1, <2>2
  <1>9. ASSUME NEW b \in Address PROVE WindowInv(allowed'[b], windows'[b], lastSweep')
    <2>1. CASE b = a
      BY <1>1, <1>2, <1>8, <2>1 DEF w
    <2>2. CASE b # a
      BY <1>1, <1>2, <1>7, <2>2
    <2>. QED BY <2>1, <2>2
  <1>. QED
    BY <1>9 DEF LimiterInv

-----------------------------------------------------------------------------
LoginInv == LoginTypes /\ GuardInv /\ LimiterInv

LEMMA LoginInitInv == LoginInit => LoginInv
  <1>. SUFFICES ASSUME LoginInit PROVE LoginInv
    OBVIOUS
  <1>1. LoginTypes
    BY LoginTypesInit
  <1>2. GuardInv
    BY GuardFresh DEF LoginInit, NoFailures
  <1>3. LimiterInv
    BY LimiterFresh DEF LoginInit, NoWindows
  <1>. QED
    BY <1>1, <1>2, <1>3 DEF LoginInv

LEMMA LimiterIdle == LimiterInv /\ UNCHANGED limiterVars => LimiterInv'
  BY DEF LimiterInv, WindowInv, limiterVars

(* A request that arrives or takes its time changes neither.               *)
LEMMA RequestAlone ==
    ASSUME LoginInv, NEW r \in Request, (\E c \in Client : Arrive(r, c)) \/ TakeTime(r)
    PROVE  GuardInv' /\ LimiterInv'
  <1>1. UNCHANGED <<clock, guardVars, limiterVars>> /\ request[r].pc \in {"none", "body"}
    BY DEF Arrive, TakeTime
  <1>2. /\ request'[r].pc \in {"none", "limit", "check"}
        /\ \A q \in Request : q # r => request'[q] = request[q]
    <2>1. request[r] \in LoginRequest /\ request \in [Request -> LoginRequest]
      BY DEF LoginInv, LoginTypes
    <2>2. CASE \E c \in Client : Arrive(r, c)
      BY <2>1, <2>2 DEF Arrive
    <2>3. CASE TakeTime(r)
      <3>1. [request[r] EXCEPT !.pc = "check", !.now = clock].pc = "check"
        BY <2>1 DEF LoginRequest
      <3>. QED BY <2>1, <2>3, <3>1, RequestFields DEF TakeTime, LoginInv
    <2>. QED BY <2>2, <2>3
  <1>3. GuardInv'
    BY <1>1, <1>2, GuardIdle DEF LoginInv
  <1>4. LimiterInv'
    BY <1>1, <1>2, LimiterIdle DEF LoginInv
  <1>. QED
    BY <1>3, <1>4

LEMMA AllowKeeps ==
    ASSUME LoginInv, NEW r \in Request, Allow(r)
    PROVE  GuardInv' /\ LimiterInv'
  <1>1. request[r].now \in Time /\ AddressOf[request[r].client] \in Address
    BY RequestFields, LoginAssumption DEF Allow, LoginInv
  <1>2. LimiterInv'
    BY <1>1, LimiterAllow DEF LoginInv
  <1>3. UNCHANGED guardVars
    BY DEF Allow
  <1>4. request'[r].pc # "compare" /\ \A q \in Request : q # r => request'[q] = request[q]
    <2>1. request[r] \in LoginRequest /\ request \in [Request -> LoginRequest]
      BY DEF LoginInv, LoginTypes
    <2>2. [request[r] EXCEPT !.pc = "body", !.now = 0].pc = "body"
      BY <2>1 DEF LoginRequest
    <2>3. \/ request' = [request EXCEPT ![r] = [@ EXCEPT !.pc = "body", !.now = 0]]
          \/ request' = [request EXCEPT ![r] = Resting]
      BY DEF Allow
    <2>. QED BY <2>1, <2>2, <2>3, RequestFields DEF LoginInv
  <1>5. GuardInv'
    BY <1>3, <1>4, GuardIdle DEF LoginInv
  <1>. QED
    BY <1>2, <1>5

LEMMA GuardKeeps ==
    ASSUME LoginInv, NEW r \in Request, Check(r) \/ Fail(r) \/ Succeed(r)
    PROVE  GuardInv' /\ LimiterInv'
  <1>1. request[r].now \in Time /\ request[r].client \in Client
    BY RequestFields DEF Check, Fail, Succeed, LoginInv
  <1>2. GuardInv'
    BY <1>1, GuardCheck, GuardFail, GuardSucceed DEF LoginInv
  <1>3. UNCHANGED limiterVars
    BY DEF Check, Fail, Succeed
  <1>. QED
    BY <1>2, <1>3, LimiterIdle DEF LoginInv

LEMMA LoginStepInv ==
    ASSUME LoginInv, LoginStep \/ Forget \/ UNCHANGED loginVars
    PROVE  LoginInv'
  <1>1. CASE LoginStep
    <2>1. LoginTypes'
      BY <1>1, TypesStep DEF LoginInv
    <2>2. CASE Tick
      <3>1. UNCHANGED guardVars /\ UNCHANGED limiterVars /\ request' = request
        BY <2>2 DEF Tick
      <3>. QED BY <2>1, <2>2, <3>1, GuardIdle, LimiterIdle DEF LoginInv
    <2>. QED
      BY <1>1, <2>1, <2>2, RequestAlone, AllowKeeps, GuardKeeps DEF LoginInv, LoginStep
  <1>2. CASE Forget
    <2>1. LoginTypes'
      BY <1>2, TypesStep DEF LoginInv
    <2>2. GuardInv'
      <3>1. NoFailures'
        BY <1>2 DEF Forget, NoFailures
      <3>. QED BY <3>1, GuardFresh, PTL
    <2>3. LimiterInv'
      <3>1. NoWindows'
        BY <1>2 DEF Forget, NoWindows
      <3>. QED BY <3>1, LimiterFresh, PTL
    <2>. QED BY <2>1, <2>2, <2>3 DEF LoginInv
  <1>3. CASE UNCHANGED loginVars
    <2>1. UNCHANGED <<clock, guardVars, limiterVars, request>>
      BY <1>3 DEF loginVars
    <2>2. LoginTypes'
      BY <2>1 DEF LoginInv, LoginTypes, guardVars, limiterVars
    <2>. QED BY <2>1, <2>2, GuardIdle, LimiterIdle DEF LoginInv
  <1>. QED
    BY <1>1, <1>2, <1>3

LEMMA LoginAlways == Spec => []LoginInv
  <1>1. Init => LoginInv
    BY LoginInitInv DEF Init
  <1>2. LoginInv /\ [Next]_vars => LoginInv'
    BY LoginStepInv DEF Next, vars, Upgrade, ServeLogins, ServeHosts, Crash, Outside
  <1>. QED
    BY <1>1, <1>2, PTL DEF Spec

(* Nobody is past the check but by his check.                              *)
LEMMA ChecksLetPast ==
    ASSUME LoginInv, LoginStep \/ Forget,
           NEW r \in Request, request[r].pc = "check", request'[r].pc = "compare"
    PROVE  Check(r)
  <1>1. request \in [Request -> LoginRequest] /\ \A q \in Request : request[q] \in LoginRequest
    BY DEF LoginInv, LoginTypes
  <1>2. Resting.pc = "none"
    BY DEF Resting
  <1>3. ~Tick /\ ~Forget
    BY <1>2 DEF Tick, Forget
  <1>4. PICK q \in Request :
            (\E c \in Client : Arrive(q, c)) \/ Allow(q) \/ TakeTime(q) \/ Check(q) \/ Fail(q)
            \/ Succeed(q)
    BY <1>3 DEF LoginStep
  <1>5. CASE q # r
    <2>1. request'[r] = request[r]
      BY <1>1, <1>4, <1>5 DEF Arrive, Allow, TakeTime, Check, Fail, Succeed
    <2>. QED BY <2>1
  <1>6. CASE q = r
    BY <1>1, <1>4, <1>6 DEF Arrive, Allow, TakeTime, Check, Fail, Succeed
  <1>. QED
    BY <1>5, <1>6

LEMMA SpansThrottled ==
    ASSUME LoginInv
    PROVE  \A c \in Client \ overtaken, t \in Time :
               Within(guesses[c], Lockout, t) < MaxFailures + Cardinality(Request)
  BY DEF LoginInv, GuardInv, SpanInv, Most

(* For any limits, clients and requests, and but for clients of whom an    *)
(* older request came to the record after a newer one: nobody gets past    *)
(* the check while he is locked out, and the failures of a lockout's       *)
(* length stay below the limit and one for each request (login_guard.go).  *)
THEOREM LoginThrottledHolds == Spec => LoginThrottled
  <1>. DEFINE Throttled ==
          /\ \A r \in Request :
                request[r].pc = "check" /\ request'[r].pc = "compare"
                /\ request[r].client \notin overtaken'
                    => ~LockedOut(request[r].client, request[r].now)
          /\ \A c \in Client \ overtaken, t \in Time :
                Within(guesses[c], Lockout, t) < MaxFailures + Cardinality(Request)
  <1>1. LoginInv /\ [Next]_vars => [Throttled]_loginVars
    <2>. SUFFICES ASSUME LoginInv, [Next]_vars PROVE [Throttled]_loginVars
      OBVIOUS
    <2>1. CASE LoginStep \/ Forget
      <3>1. ASSUME NEW r \in Request, request[r].pc = "check", request'[r].pc = "compare",
                   request[r].client \notin overtaken'
            PROVE  ~LockedOut(request[r].client, request[r].now)
        <4>1. Check(r)
          BY <2>1, <3>1, ChecksLetPast
        <4>2. request[r].now \in Time /\ request[r].client \in Client
          BY <3>1, RequestFields DEF LoginInv
        <4>. QED BY <3>1, <4>1, <4>2, LetPast DEF LoginInv
      <3>. QED BY <3>1, SpansThrottled
    <2>2. CASE UNCHANGED loginVars
      BY <2>2
    <2>. QED
      BY <2>1, <2>2 DEF Next, vars, Upgrade, ServeLogins, ServeHosts, Crash, Outside
  <1>2. LoginThrottled <=> [][Throttled]_loginVars
    BY DEF LoginThrottled
  <1>. HIDE DEF Throttled
  <1>. QED
    BY <1>1, <1>2, LoginAlways, PTL DEF Spec

(* For any limit, window, addresses and requests: since a late request of  *)
(* an address was last let through, it was let through less than twice the *)
(* limit in any window's length (rate_limiter.go).                         *)
THEOREM AddressThrottledHolds == Spec => []AddressThrottled
  <1>1. LoginInv => AddressThrottled
    <2>. SUFFICES ASSUME LoginInv, NEW a \in Address, NEW t \in Time
                  PROVE  Within(allowed[a], Window, t) < 2 * Limit
      BY DEF AddressThrottled
    <2>1. WindowInv(allowed[a], windows[a], lastSweep)
      BY DEF LoginInv, LimiterInv
    <2>. QED BY <2>1, WithinIsSum DEF WindowInv
  <1>. QED
    BY <1>1, LoginAlways, PTL

-----------------------------------------------------------------------------
(* The statements of all upgrades in one row: those of version v come      *)
(* after Before[v] others.                                                 *)
Before == <<0, 4, 5, 6, 7, 8, 9, 13, 14, 16, 18, 19, 20, 31>>
LocationAt == 11
DropAt == 12
AuthAt == 20

Column == "scripts.ssh_host_id"

(* What is created or added is so once: Place says by which statement.     *)
Place(t) ==
    CASE t = "hooks" -> 1 [] t = "executions" -> 2
      [] t = "idx_executions_hook_id" -> 3 [] t = "idx_executions_started_at" -> 4
      [] t = "hooks.trigger_token" -> 5 [] t = "scripts" -> 6 [] t = "ssh_hosts" -> 7
      [] t = "hooks.script_id" -> 8 [] t = "scripts.ssh_host_id" -> 9
      [] t = "hooks.ssh_host_id" -> 10 [] t = "executions.exec_target" -> 13
      [] t = "ssh_hosts.target_os" -> 14 [] t = "execution_logs" -> 15
      [] t = "idx_execution_logs_exec_seq" -> 16 [] t = "hooks.async" -> 17
      [] t = "hooks.timeout_seconds" -> 18 [] t = "settings" -> 19
      [] t = "hooks.success_hook_id" -> 21 [] t = "hooks.success_body" -> 22
      [] t = "executions.parent_execution_id" -> 23 [] t = "executions.chain_path" -> 24
      [] t = "executions.success_hook_id" -> 25 [] t = "executions.success_body" -> 26
      [] t = "executions.success_status" -> 27 [] t = "executions.success_error" -> 28
      [] t = "executions.success_execution_id" -> 29
      [] t = "executions.success_attempt" -> 30
      [] t = "idx_executions_parent" -> 31
      [] OTHER -> 0

Thing == Things("create", 13) \cup Things("add", 13)

(* The next statement of an upgrade, and the first one that a database of  *)
(* some version has not seen.                                              *)
Now == Before[at + 1] + step
First == Before[version + 1] + 1

(* Whatever the upgrades before, what comes before statement n is done.    *)
Reached(n) ==
    /\ \A t \in Thing \ {Column} : Place(t) < n => t \in schema
    /\ n > LocationAt => hookHost = home
    /\ n > DropAt => Column \notin schema
    /\ n > AuthAt => auth # "both"

(* While no upgrade was cut short nothing else is.                         *)
Fresh(n) ==
    ~interrupted =>
        /\ \A t \in Thing : Place(t) >= n => t \notin schema
        /\ n \in (Place(Column) + 1)..DropAt => Column \in schema

UpgradeTypes ==
    /\ phase \in {"down", "migrate", "serve"}
    /\ version \in 0..13 /\ schema \in SUBSET Thing
    /\ phase = "serve" => version = 13
    /\ phase = "migrate" =>
        /\ version < 13 /\ at \in version..13 /\ step \in Nat \ {0}
        /\ at = 13 => step = 1
        /\ at < 13 => step <= Len(Steps[at + 1])

(* Where a hook runs, for a database that was not brought to version 7.    *)
Located ==
    /\ version < 7 => scriptHost = home
    /\ version < 6 => hookHost = home
    /\ version = 6 => hookHost = home \/ Column \in schema

UpgradeInv ==
    /\ UpgradeTypes /\ Located
    /\ Reached(First) /\ (phase = "migrate" => Reached(Now))
    /\ IF phase = "migrate" THEN Fresh(Now) ELSE Fresh(First)

-----------------------------------------------------------------------------
(* The versions that make and drop the column, and how many there are.     *)
LEMMA StepsAre ==
    /\ Steps[6] = <<Add(Column)>>
    /\ Steps[7] = <<Add("hooks.ssh_host_id"), Update("location"), Drop(Column),
                    Add("executions.exec_target")>>
    /\ SchemaVersion = 13
  BY DEF Steps, LocationSteps, SchemaVersion, Column

(* Statement i of version v: what it is about, and how many come before.   *)
Placed(v, i) ==
    LET s == Steps[v][i]
        n == Before[v] + i
    IN  /\ s.op \in {"create", "add"} => Place(s.on) = n
        /\ s.op = "drop" => s.on = Column /\ v = 7 /\ n = DropAt
        /\ s = Update("location") <=> n = LocationAt
        /\ s = Update("auth") <=> n = AuthAt
        /\ n = DropAt => s.op = "drop"
        /\ n = LocationAt => v = 7
        /\ n = Place(Column) => v = 6
        /\ s.op \in {"create", "add", "drop", "update"}

AllPlaced(v) ==
    /\ Len(Steps[v]) = Before[v + 1] - Before[v]
    /\ DOMAIN Steps[v] = 1..Len(Steps[v]) /\ 1 <= Len(Steps[v])
    /\ \A i \in 1..Len(Steps[v]) : Placed(v, i)

(* Place, value by value.                                                  *)
LEMMA PlacesAre ==
    /\ Place("hooks") = 1 /\ Place("executions") = 2
    /\ Place("idx_executions_hook_id") = 3 /\ Place("idx_executions_started_at") = 4
    /\ Place("hooks.trigger_token") = 5 /\ Place("scripts") = 6
    /\ Place("ssh_hosts") = 7 /\ Place("hooks.script_id") = 8
    /\ Place("scripts.ssh_host_id") = 9 /\ Place("hooks.ssh_host_id") = 10
    /\ Place("executions.exec_target") = 13 /\ Place("ssh_hosts.target_os") = 14
    /\ Place("execution_logs") = 15 /\ Place("idx_execution_logs_exec_seq") = 16
    /\ Place("hooks.async") = 17 /\ Place("hooks.timeout_seconds") = 18
    /\ Place("settings") = 19 /\ Place("hooks.success_hook_id") = 21
    /\ Place("hooks.success_body") = 22 /\ Place("executions.parent_execution_id") = 23
    /\ Place("executions.chain_path") = 24 /\ Place("executions.success_hook_id") = 25
    /\ Place("executions.success_body") = 26 /\ Place("executions.success_status") = 27
    /\ Place("executions.success_error") = 28
    /\ Place("executions.success_execution_id") = 29
    /\ Place("executions.success_attempt") = 30 /\ Place("idx_executions_parent") = 31
  BY DEF Place

(* Every statement of every version, in its place.                         *)
LEMMA StatementsPlaced ==
    ASSUME NEW v \in 1..13
    PROVE  /\ Len(Steps[v]) = Before[v + 1] - Before[v]
           /\ DOMAIN Steps[v] = 1..Len(Steps[v]) /\ 1 <= Len(Steps[v])
           /\ \A i \in 1..Len(Steps[v]) : Placed(v, i)
  <1>. USE DEF Create, Add, Drop, Update, Column, LocationAt, DropAt, AuthAt
  <1>1. AllPlaced(1)
    <2>1. Steps[1] = <<Create("hooks"), Create("executions"), Create("idx_executions_hook_id"),
                    Create("idx_executions_started_at")>>
      BY DEF Steps
    <2>2. Before[1] = 0 /\ Before[2] = 4
      BY DEF Before
    <2>. QED BY <2>1, <2>2, PlacesAre DEF AllPlaced, Placed
  <1>2. AllPlaced(2)
    <2>1. Steps[2] = <<Add("hooks.trigger_token")>>
      BY DEF Steps
    <2>2. Before[2] = 4 /\ Before[3] = 5
      BY DEF Before
    <2>. QED BY <2>1, <2>2, PlacesAre DEF AllPlaced, Placed
  <1>3. AllPlaced(3)
    <2>1. Steps[3] = <<Create("scripts")>>
      BY DEF Steps
    <2>2. Before[3] = 5 /\ Before[4] = 6
      BY DEF Before
    <2>. QED BY <2>1, <2>2, PlacesAre DEF AllPlaced, Placed
  <1>4. AllPlaced(4)
    <2>1. Steps[4] = <<Create("ssh_hosts")>>
      BY DEF Steps
    <2>2. Before[4] = 6 /\ Before[5] = 7
      BY DEF Before
    <2>. QED BY <2>1, <2>2, PlacesAre DEF AllPlaced, Placed
  <1>5. AllPlaced(5)
    <2>1. Steps[5] = <<Add("hooks.script_id")>>
      BY DEF Steps
    <2>2. Before[5] = 7 /\ Before[6] = 8
      BY DEF Before
    <2>. QED BY <2>1, <2>2, PlacesAre DEF AllPlaced, Placed
  <1>6. AllPlaced(6)
    <2>1. Steps[6] = <<Add("scripts.ssh_host_id")>>
      BY DEF Steps
    <2>2. Before[6] = 8 /\ Before[7] = 9
      BY DEF Before
    <2>. QED BY <2>1, <2>2, PlacesAre DEF AllPlaced, Placed
  <1>7. AllPlaced(7)
    <2>1. Steps[7] = LocationSteps
      BY DEF Steps
    <2>2. Before[7] = 9 /\ Before[8] = 13
      BY DEF Before
    <2>. QED BY <2>1, <2>2, PlacesAre DEF AllPlaced, Placed, LocationSteps
  <1>8. AllPlaced(8)
    <2>1. Steps[8] = <<Add("ssh_hosts.target_os")>>
      BY DEF Steps
    <2>2. Before[8] = 13 /\ Before[9] = 14
      BY DEF Before
    <2>. QED BY <2>1, <2>2, PlacesAre DEF AllPlaced, Placed
  <1>9. AllPlaced(9)
    <2>1. Steps[9] = <<Create("execution_logs"), Create("idx_execution_logs_exec_seq")>>
      BY DEF Steps
    <2>2. Before[9] = 14 /\ Before[10] = 16
      BY DEF Before
    <2>. QED BY <2>1, <2>2, PlacesAre DEF AllPlaced, Placed
  <1>10. AllPlaced(10)
    <2>1. Steps[10] = <<Add("hooks.async"), Add("hooks.timeout_seconds")>>
      BY DEF Steps
    <2>2. Before[10] = 16 /\ Before[11] = 18
      BY DEF Before
    <2>. QED BY <2>1, <2>2, PlacesAre DEF AllPlaced, Placed
  <1>11. AllPlaced(11)
    <2>1. Steps[11] = <<Create("settings")>>
      BY DEF Steps
    <2>2. Before[11] = 18 /\ Before[12] = 19
      BY DEF Before
    <2>. QED BY <2>1, <2>2, PlacesAre DEF AllPlaced, Placed
  <1>12. AllPlaced(12)
    <2>1. Steps[12] = <<Update("auth")>>
      BY DEF Steps
    <2>2. Before[12] = 19 /\ Before[13] = 20
      BY DEF Before
    <2>. QED BY <2>1, <2>2, PlacesAre DEF AllPlaced, Placed
  <1>13. AllPlaced(13)
    <2>0. Steps[13] = <<Add("hooks.success_hook_id"), Add("hooks.success_body"),
              Add("executions.parent_execution_id"), Add("executions.chain_path"),
              Add("executions.success_hook_id"), Add("executions.success_body"),
              Add("executions.success_status"), Add("executions.success_error"),
              Add("executions.success_execution_id"), Add("executions.success_attempt"),
              Add("idx_executions_parent")>>
      BY DEF Steps
    <2>1. /\ Len(Steps[13]) = 11 /\ DOMAIN Steps[13] = 1..11
          /\ \A i \in 1..11 : Steps[13][i] = Add(Steps[13][i].on)
      BY <2>0
    <2>2. \A i \in 1..11 : Place(Steps[13][i].on) = 20 + i
      BY <2>0, PlacesAre
    <2>3. Before[13] = 20 /\ Before[14] = 31
      BY DEF Before
    <2>4. ASSUME NEW i \in 1..11 PROVE Placed(13, i)
      <3>1. Steps[13][i].op = "add"
        BY <2>1
      <3>2. Before[13] + i > AuthAt /\ Place(Column) = 9
        BY <2>3 DEF Place
      <3>. QED BY <2>2, <3>1, <3>2, <2>3 DEF Placed
    <2>. QED BY <2>1, <2>3, <2>4 DEF AllPlaced
  <1>14. AllPlaced(v)
    BY <1>1, <1>2, <1>3, <1>4, <1>5, <1>6, <1>7, <1>8, <1>9, <1>10, <1>11, <1>12, <1>13
  <1>. QED BY <1>14 DEF AllPlaced

(* Before, value by value.                                                 *)
LEMMA BeforeIs ==
    /\ Before[1] = 0 /\ Before[2] = 4 /\ Before[3] = 5 /\ Before[4] = 6 /\ Before[5] = 7
    /\ Before[6] = 8 /\ Before[7] = 9 /\ Before[8] = 13 /\ Before[9] = 14
    /\ Before[10] = 16 /\ Before[11] = 18 /\ Before[12] = 19 /\ Before[13] = 20
    /\ Before[14] = 31
  BY DEF Before

LEMMA BeforeIn ==
    /\ \A v \in 1..14 : Before[v] \in Int /\ 0 <= Before[v] /\ Before[v] <= 31
    /\ \A v \in 0..13 : v + 1 \in 1..14
    /\ \A v \in 1..13 : v \in 1..14
  BY BeforeIs

(* Later versions have more behind them.                                   *)
LEMMA BeforeGrows ==
    ASSUME NEW v \in 1..13, NEW w \in 1..14, v < w
    PROVE  Before[v + 1] <= Before[w]
  <1>1. CASE w <= 5
    BY <1>1, BeforeIs
  <1>2. CASE w \in 6..9
    BY <1>2, BeforeIs
  <1>3. CASE w \in 10..12
    BY <1>3, BeforeIs
  <1>4. CASE w \in 13..14
    BY <1>4, BeforeIs
  <1>. QED BY <1>1, <1>2, <1>3, <1>4

(* What a database of version v has behind it.                             *)
LEMMA BeforeLands ==
    ASSUME NEW v \in 0..13
    PROVE  /\ v >= 7 <=> Before[v + 1] >= DropAt
           /\ v >= 7 <=> Before[v + 1] >= LocationAt
           /\ v >= 12 <=> Before[v + 1] >= AuthAt
           /\ v >= 6 <=> Before[v + 1] >= 9
  BY BeforeIs DEF DropAt, AuthAt, LocationAt

Has(u, op, t) == \E i \in 1..Len(Steps[u]) : Steps[u][i].op = op /\ Steps[u][i].on = t

(* Things, by the versions that have a statement for it.                   *)
LEMMA ThingsAre ==
    ASSUME NEW v \in 0..13, NEW t
    PROVE  /\ t \in Things("create", v) <=> \E u \in 1..v : Has(u, "create", t)
           /\ t \in Things("add", v) <=> \E u \in 1..v : Has(u, "add", t)
           /\ t \in Things("drop", v) <=> \E u \in 1..v : Has(u, "drop", t)
  <1>1. ASSUME NEW u \in 1..v PROVE DOMAIN Steps[u] = 1..Len(Steps[u])
    <2>1. u \in 1..13
      OBVIOUS
    <2>. QED BY <2>1, StatementsPlaced
  <1>2. t \in Things("create", v) <=> \E u \in 1..v : Has(u, "create", t)
    BY <1>1 DEF Things, Has
  <1>3. t \in Things("add", v) <=> \E u \in 1..v : Has(u, "add", t)
    BY <1>1 DEF Things, Has
  <1>4. t \in Things("drop", v) <=> \E u \in 1..v : Has(u, "drop", t)
    BY <1>1 DEF Things, Has
  <1>. QED BY <1>2, <1>3, <1>4

Made(u, t) ==
    \E i \in 1..Len(Steps[u]) : Steps[u][i].op \in {"create", "add"} /\ Steps[u][i].on = t

LEMMA ThingsMade ==
    ASSUME NEW v \in 0..13, NEW t
    PROVE  t \in Things("create", v) \cup Things("add", v) <=> \E u \in 1..v : Made(u, t)
  <1>1. \A u \in 1..v : Made(u, t) <=> Has(u, "create", t) \/ Has(u, "add", t)
    BY DEF Made, Has
  <1>. QED BY <1>1, ThingsAre

(* A thing made by version u is behind version v unless v is older.        *)
LEMMA MadePlaced ==
    ASSUME NEW u \in 1..13, NEW t, Made(u, t), NEW v \in 0..13
    PROVE  /\ Place(t) \in Int /\ 1 <= Place(t) /\ Place(t) <= 31
           /\ Place(t) <= Before[v + 1] <=> u <= v
  <1>1. Len(Steps[u]) = Before[u + 1] - Before[u]
    BY StatementsPlaced
  <1>2. PICK i \in 1..Len(Steps[u]) : Steps[u][i].op \in {"create", "add"} /\ Steps[u][i].on = t
    BY DEF Made
  <1>3. Placed(u, i)
    BY StatementsPlaced
  <1>4. Place(t) = Before[u] + i
    BY <1>2, <1>3 DEF Placed
  <1>5. u \in 1..14 /\ v + 1 \in 1..14 /\ u + 1 \in 1..14
    OBVIOUS
  <1>6. /\ Before[u] \in Int /\ Before[u + 1] \in Int /\ Before[v + 1] \in Int
        /\ 0 <= Before[u] /\ Before[u + 1] <= 31 /\ 0 <= Before[v + 1]
    BY <1>5, BeforeIn
  <1>7. i \in Int /\ 1 <= i /\ i <= Before[u + 1] - Before[u]
    BY <1>1, <1>6
  <1>8. Place(t) \in Int /\ 1 <= Place(t) /\ Place(t) <= 31
    BY <1>4, <1>6, <1>7
  <1>9. CASE u = v
    BY <1>4, <1>6, <1>7, <1>8, <1>9
  <1>10. CASE u < v
    <2>1. u \in 1..13 /\ v \in 1..13 /\ u + 1 <= v /\ v + 1 \in 1..14 /\ u < v + 1
      BY <1>10
    <2>2. Before[u + 1] <= Before[v + 1]
      BY <2>1, BeforeGrows
    <2>. QED BY <1>4, <1>6, <1>7, <1>8, <1>10, <2>2
  <1>11. CASE u > v /\ v >= 1
    <2>1. v \in 1..13 /\ u \in 1..14 /\ v < u
      BY <1>11
    <2>2. Before[v + 1] <= Before[u]
      BY <2>1, BeforeGrows
    <2>. QED BY <1>4, <1>6, <1>7, <1>8, <1>11, <2>2
  <1>12. CASE v = 0
    BY <1>6, <1>8, <1>12, BeforeIs
  <1>. QED BY <1>9, <1>10, <1>11, <1>12

(* A release left the things of the statements up to its version.          *)
LEMMA ThingsPlaced ==
    ASSUME NEW v \in 0..13, NEW t
    PROVE  t \in Things("create", v) \cup Things("add", v)
               <=> t \in Thing /\ Place(t) \in 1..Before[v + 1]
  <1>1. t \in Thing <=> \E u \in 1..13 : Made(u, t)
    <2>1. 13 \in 0..13
      OBVIOUS
    <2>. QED BY <2>1, ThingsMade DEF Thing
  <1>2. v + 1 \in 1..14 /\ Before[v + 1] \in Int
    BY BeforeIn
  <1>3. ASSUME t \in Thing, Place(t) \in 1..Before[v + 1]
        PROVE  t \in Things("create", v) \cup Things("add", v)
    <2>1. PICK u \in 1..13 : Made(u, t)
      BY <1>1, <1>3
    <2>2. Place(t) <= Before[v + 1]
      BY <1>2, <1>3
    <2>3. u \in 1..v
      BY <2>1, <2>2, MadePlaced
    <2>. QED BY <2>1, <2>3, ThingsMade
  <1>4. ASSUME t \in Things("create", v) \cup Things("add", v)
        PROVE  t \in Thing /\ Place(t) \in 1..Before[v + 1]
    <2>1. PICK u \in 1..v : Made(u, t)
      BY <1>4, ThingsMade
    <2>2. u \in 1..13 /\ u <= v
      OBVIOUS
    <2>3. Place(t) \in Int /\ 1 <= Place(t) /\ Place(t) <= Before[v + 1]
      BY <2>1, <2>2, MadePlaced
    <2>. QED BY <1>1, <1>2, <2>1, <2>2, <2>3
  <1>. QED BY <1>3, <1>4

(* The schema of a release: all that lies before, but the dropped column.  *)
LEMMA SchemaIs ==
    ASSUME NEW v \in 0..13
    PROVE  /\ SchemaOf(v) \in SUBSET Thing
           /\ \A t \in Thing : t \in SchemaOf(v) <=>
                  Place(t) <= Before[v + 1] /\ (t = Column => v < 7)
           /\ \A t \in Thing : Place(t) \in 1..31
           /\ Column \in Thing /\ Place(Column) = 9
  <1>1. \A t \in Thing : Place(t) \in 1..31
    <2>1. \A t \in Thing : Place(t) \in 1..Before[13 + 1]
      BY ThingsPlaced DEF Thing
    <2>. QED BY <2>1, BeforeIs
  <1>2. \A t : t \in Things("drop", v) <=> t = Column /\ v >= 7
    <2>1. ASSUME NEW t, t \in Things("drop", v) PROVE t = Column /\ v >= 7
      <3>1. PICK u \in 1..v : Has(u, "drop", t)
        BY <2>1, ThingsAre
      <3>2. PICK i \in 1..Len(Steps[u]) : Steps[u][i].op = "drop" /\ Steps[u][i].on = t
        BY <3>1 DEF Has
      <3>3. u \in 1..13 /\ u <= v /\ v \in 0..13
        OBVIOUS
      <3>4. Placed(u, i)
        BY <3>3, StatementsPlaced
      <3>5. t = Column /\ u = 7
        BY <3>2, <3>4 DEF Placed
      <3>. QED BY <3>3, <3>5
    <2>2. ASSUME v >= 7 PROVE Column \in Things("drop", v)
      <3>1. 7 \in 1..v /\ 3 \in 1..Len(Steps[7]) /\ Steps[7][3] = Drop(Column)
        BY <2>2, StepsAre
      <3>2. Steps[7][3].op = "drop" /\ Steps[7][3].on = Column
        BY <3>1 DEF Drop
      <3>3. Has(7, "drop", Column)
        BY <3>1, <3>2 DEF Has
      <3>. QED BY <3>1, <3>3, ThingsAre
    <2>. QED BY <2>1, <2>2
  <1>3. Column \in Thing /\ Place(Column) = 9
    <2>1. 6 \in 1..13 /\ 1 \in 1..Len(Steps[6]) /\ Steps[6][1] = Add(Column)
      BY StepsAre
    <2>2. Steps[6][1].op = "add" /\ Steps[6][1].on = Column
      BY <2>1 DEF Add
    <2>3. Column \in Thing
      <3>1. 13 \in 0..13 /\ 6 \in 1..13 /\ Has(6, "add", Column)
        BY <2>1, <2>2 DEF Has
      <3>. QED BY <3>1, ThingsAre DEF Thing
    <2>. QED BY <2>3 DEF Place, Column
  <1>4. \A t : t \in SchemaOf(v) <=>
            t \in Thing /\ Place(t) \in 1..Before[v + 1] /\ ~(t = Column /\ v >= 7)
    BY <1>2, ThingsPlaced DEF SchemaOf
  <1>5. Before[v + 1] \in Int
    BY BeforeIn
  <1>. QED BY <1>1, <1>3, <1>4, <1>5

(* A release left nothing undone and nothing begun.                        *)
LEMMA UpgradeInit == MigrationInit => UpgradeInv
  <1>. SUFFICES ASSUME MigrationInit PROVE UpgradeInv
    OBVIOUS
  <1>0. /\ SchemaVersion = 13 /\ version \in 0..13 /\ phase = "down" /\ ~interrupted
        /\ schema = SchemaOf(version)
        /\ First = Before[version + 1] + 1
    BY StepsAre DEF MigrationInit, First
  <1>7. /\ Before[version + 1] \in Int /\ 0 <= Before[version + 1]
        /\ Before[version + 1] <= 31
    BY <1>0, BeforeIn
  <1>1. /\ schema \in SUBSET Thing
        /\ \A t \in Thing : t \in schema <=>
               Place(t) <= Before[version + 1] /\ (t = Column => version < 7)
        /\ \A t \in Thing : Place(t) \in 1..31
        /\ Column \in Thing /\ Place(Column) = 9
    BY <1>0, SchemaIs
  <1>2. /\ version >= 7 <=> First > DropAt
        /\ version >= 7 <=> First > LocationAt
        /\ version >= 12 <=> First > AuthAt
        /\ version >= 6 <=> First > 9
    BY <1>0, <1>7, BeforeLands DEF DropAt, LocationAt, AuthAt
  <1>3. UpgradeTypes
    BY <1>0, <1>1 DEF UpgradeTypes
  <1>4. Located
    <2>1. scriptHost = IF version = 6 THEN home ELSE "local"
      BY DEF MigrationInit
    <2>2. hookHost = IF version >= 7 THEN home ELSE "local"
      BY DEF MigrationInit
    <2>3. version < 6 => home = "local"
      BY DEF MigrationInit
    <2>4. version = 6 => Column \in schema
      BY <1>0, <1>1, <1>2, <1>7
    <2>5. version < 7 => scriptHost = home
      BY <1>0, <2>1, <2>3
    <2>6. version < 6 => hookHost = home
      BY <1>0, <2>2, <2>3
    <2>. QED BY <2>4, <2>5, <2>6 DEF Located
  <1>5. Reached(First)
    <2>1. /\ version >= 7 => hookHost = home
          /\ version >= 12 => auth # "both"
      BY DEF MigrationInit
    <2>2. \A t \in Thing \ {Column} : Place(t) < First => t \in schema
      BY <1>0, <1>1, <1>7
    <2>. QED BY <1>0, <1>1, <1>2, <1>7, <2>1, <2>2 DEF Reached
  <1>6. Fresh(First)
    <2>1. \A t \in Thing : Place(t) >= First => t \notin schema
      BY <1>0, <1>1, <1>7
    <2>2. First \in (Place(Column) + 1)..DropAt => Column \in schema
      BY <1>0, <1>1, <1>2, <1>7 DEF DropAt
    <2>. QED BY <2>1, <2>2 DEF Fresh
  <1>. QED BY <1>0, <1>3, <1>4, <1>5, <1>6 DEF UpgradeInv

(* While an upgrade runs there is a next statement, with its number.       *)
LEMMA NextStatement ==
    ASSUME UpgradeTypes, Migrating
    PROVE  /\ at \in 0..12 /\ at + 1 \in 1..13 /\ step \in 1..Len(Steps[at + 1])
           /\ Placed(at + 1, step) /\ Now \in 1..31
           /\ Len(Steps[at + 1]) = Before[at + 2] - Before[at + 1]
           /\ Before[at + 1] \in Int /\ Before[at + 2] \in Int
           /\ version \in 0..12 /\ version <= at
  <1>1. SchemaVersion = 13
    BY StepsAre
  <1>2. /\ version \in 0..12 /\ at \in 0..12 /\ version <= at /\ step \in Nat \ {0}
        /\ step <= Len(Steps[at + 1])
    <2>1. phase = "migrate" /\ at < 13
      BY <1>1 DEF Migrating
    <2>2. /\ version \in 0..13 /\ version < 13 /\ at \in version..13 /\ step \in Nat \ {0}
          /\ step <= Len(Steps[at + 1])
      BY <2>1 DEF UpgradeTypes
    <2>. QED BY <2>1, <2>2
  <1>3. at + 1 \in 1..13 /\ at + 1 \in 1..14 /\ at + 2 \in 1..14 /\ (at + 1) + 1 = at + 2
    BY <1>2
  <1>4. Len(Steps[at + 1]) = Before[at + 2] - Before[at + 1]
    BY <1>3, StatementsPlaced
  <1>5. /\ Before[at + 1] \in Int /\ 0 <= Before[at + 1]
        /\ Before[at + 2] \in Int /\ Before[at + 2] <= 31
    BY <1>3, BeforeIn
  <1>6. step \in 1..Len(Steps[at + 1])
    BY <1>2, <1>4, <1>5
  <1>7. Placed(at + 1, step)
    BY <1>3, <1>6, StatementsPlaced
  <1>8. Now \in 1..31
    <2>1. step \in Int /\ 1 <= step /\ step <= Before[at + 2] - Before[at + 1]
      BY <1>2, <1>4
    <2>. QED BY <1>5, <2>1 DEF Now
  <1>. QED BY <1>2, <1>3, <1>4, <1>5, <1>6, <1>7, <1>8

(* The numbers go up by one, across versions too.                          *)
LEMMA AdvanceOne ==
    ASSUME UpgradeTypes, Migrating, Advance
    PROVE  /\ Now' = Now + 1 /\ at' \in version..13 /\ step' \in Nat \ {0}
           /\ at' = 13 => step' = 1
           /\ at' < 13 => step' <= Len(Steps[at' + 1])
  <1>0. /\ at \in 0..12 /\ at + 1 \in 1..13 /\ step \in 1..Len(Steps[at + 1])
        /\ Len(Steps[at + 1]) = Before[at + 2] - Before[at + 1]
        /\ Before[at + 1] \in Int /\ Before[at + 2] \in Int
        /\ version \in 0..12 /\ version <= at
    BY NextStatement
  <1>1. CASE step < Len(Steps[at + 1])
    <2>1. at' = at /\ step' = step + 1
      BY <1>1 DEF Advance
    <2>. QED BY <1>0, <1>1, <2>1 DEF Now
  <1>2. CASE ~(step < Len(Steps[at + 1]))
    <2>1. at' = at + 1 /\ step' = 1 /\ (at + 1) + 1 = at + 2
      BY <1>0, <1>2 DEF Advance
    <2>2. step = Before[at + 2] - Before[at + 1]
      BY <1>0, <1>2
    <2>3. Now' = Now + 1
      <3>1. Now' = Before[at + 2] + 1 /\ Now = Before[at + 1] + step
        BY <2>1 DEF Now, Before
      <3>. QED BY <1>0, <2>2, <3>1
    <2>4. at' < 13 => 1 <= Len(Steps[at' + 1])
      <3>. SUFFICES ASSUME at + 1 < 13 PROVE 1 <= Len(Steps[at + 2])
        BY <2>1
      <3>1. at + 2 \in 1..13
        BY <1>0
      <3>. QED BY <3>1, StatementsPlaced
    <2>. QED BY <1>0, <2>1, <2>3, <2>4
  <1>. QED BY <1>1, <1>2

(* A thing is made by one statement.                                       *)
LEMMA ThingAt ==
    ASSUME NEW w \in 1..13, NEW j \in 1..Len(Steps[w]), NEW t \in Thing,
           Place(t) = Before[w] + j
    PROVE  Steps[w][j].op \in {"create", "add"} /\ Steps[w][j].on = t
  <1>1. PICK u \in 1..13 : Made(u, t)
    <2>1. 13 \in 0..13
      OBVIOUS
    <2>. QED BY <2>1, ThingsMade DEF Thing
  <1>2. PICK i \in 1..Len(Steps[u]) : Steps[u][i].op \in {"create", "add"} /\ Steps[u][i].on = t
    BY <1>1 DEF Made
  <1>3. Place(t) = Before[u] + i
    <2>1. Placed(u, i)
      BY StatementsPlaced
    <2>. QED BY <1>2, <2>1 DEF Placed
  <1>4. /\ w \in 1..14 /\ w + 1 \in 1..14 /\ w - 1 \in 0..13 /\ w \in 0..13 /\ (w - 1) + 1 = w
        /\ u \in 1..14
    OBVIOUS
  <1>5. /\ Before[w] \in Int /\ Before[w + 1] \in Int /\ Before[u] \in Int
        /\ Len(Steps[w]) = Before[w + 1] - Before[w]
    BY <1>4, BeforeIn, StatementsPlaced
  <1>6. j \in Int /\ 1 <= j /\ j <= Before[w + 1] - Before[w]
    BY <1>5
  <1>7. Place(t) \in Int /\ Place(t) <= Before[w + 1] /\ ~(Place(t) <= Before[w])
    BY <1>5, <1>6
  <1>8. u <= w
    BY <1>1, <1>4, <1>7, MadePlaced
  <1>9. ~(u <= w - 1)
    <2>1. Place(t) <= Before[(w - 1) + 1] <=> u <= w - 1
      BY <1>1, <1>4, MadePlaced
    <2>. QED BY <1>4, <1>7, <2>1
  <1>10. u = w
    BY <1>8, <1>9
  <1>11. i = j
    <2>1. i \in Int
      BY <1>5, <1>10
    <2>. QED BY <1>3, <1>5, <1>6, <1>10, <2>1
  <1>. QED BY <1>2, <1>10, <1>11

LEMMA ColumnPlaced ==
    /\ Column \in Thing /\ Place(Column) = 9
    /\ \A t \in Thing : Place(t) \in 1..31
  <1>1. 0 \in 0..13
    OBVIOUS
  <1>. QED BY <1>1, SchemaIs

(* What the next statement does, told by its number.                       *)
LEMMA ExecuteEffect ==
    ASSUME UpgradeTypes, Execute
    PROVE  /\ hookHost' = IF Now = LocationAt THEN scriptHost ELSE hookHost
           /\ auth' = IF Now = AuthAt /\ auth = "both" THEN "hmac" ELSE auth
           /\ schema' \in SUBSET Thing
           /\ \A t \in Thing : t \in schema' <=>
                  (t \in schema /\ ~(Now = DropAt /\ t = Column)) \/ Place(t) = Now
           /\ Now = LocationAt \/ Now = DropAt => version <= 6
           /\ Now = 9 => version <= 5
  <1>0. /\ at + 1 \in 1..13 /\ step \in 1..Len(Steps[at + 1]) /\ Placed(at + 1, step)
        /\ at \in 0..12 /\ version \in 0..12 /\ version <= at
    BY NextStatement DEF Execute
  <1>1. Now = Before[at + 1] + step /\ Statement = Steps[at + 1][step]
    BY DEF Now, Statement
  <1>2. /\ Statement.op \in {"create", "add"} => Place(Statement.on) = Now
        /\ Statement.op = "drop" => Statement.on = Column /\ at + 1 = 7 /\ Now = DropAt
        /\ Statement = Update("location") <=> Now = LocationAt
        /\ Statement = Update("auth") <=> Now = AuthAt
        /\ Now = DropAt => Statement.op = "drop"
        /\ Now = LocationAt => at + 1 = 7
        /\ Now = 9 => at + 1 = 6
        /\ Statement.op \in {"create", "add", "drop", "update"}
    BY <1>0, <1>1, ColumnPlaced DEF Placed
  <1>3. \A t \in Thing : Place(t) = Now => Statement.op \in {"create", "add"} /\ Statement.on = t
    BY <1>0, <1>1, ThingAt
  <1>4. hookHost' = IF Now = LocationAt THEN scriptHost ELSE hookHost
    BY <1>2 DEF Execute
  <1>5. auth' = IF Now = AuthAt /\ auth = "both" THEN "hmac" ELSE auth
    BY <1>2 DEF Execute
  <1>6. schema' = CASE Statement.op = "drop" -> schema \ {Statement.on}
                    [] Statement.op = "update" -> schema
                    [] OTHER -> schema \cup {Statement.on}
    BY DEF Execute
  <1>7. Statement.op \in {"create", "add"} => Statement.on \in Thing
    <2>1. Statement.op \in {"create", "add"} => Made(at + 1, Statement.on)
      BY <1>0, <1>1 DEF Made
    <2>2. 13 \in 0..13
      OBVIOUS
    <2>. QED BY <1>0, <2>1, <2>2, ThingsMade DEF Thing
  <1>8. schema \in SUBSET Thing
    BY DEF UpgradeTypes
  <1>9. CASE Statement.op \in {"create", "add"}
    <2>1. schema' = schema \cup {Statement.on} /\ Now # DropAt
      BY <1>2, <1>6, <1>9
    <2>2. \A t \in Thing : t \in schema' <=> t \in schema \/ Place(t) = Now
      BY <1>2, <1>3, <1>9, <2>1
    <2>. QED BY <1>0, <1>2, <1>4, <1>5, <1>7, <1>8, <1>9, <2>1, <2>2
  <1>10. CASE Statement.op = "drop"
    <2>1. schema' = schema \ {Column} /\ Now = DropAt
      BY <1>2, <1>6, <1>10
    <2>2. \A t \in Thing : Place(t) # Now
      BY <1>3, <1>10
    <2>. QED BY <1>0, <1>2, <1>4, <1>5, <1>8, <2>1, <2>2
  <1>11. CASE Statement.op = "update"
    <2>1. schema' = schema /\ Now # DropAt
      BY <1>2, <1>6, <1>11
    <2>2. \A t \in Thing : Place(t) # Now
      BY <1>3, <1>11
    <2>. QED BY <1>0, <1>2, <1>4, <1>5, <1>8, <2>1, <2>2
  <1>. QED BY <1>2, <1>9, <1>10, <1>11

(* The statement that ran joins those that are done.                       *)
LEMMA UpgradeExecute ==
    ASSUME UpgradeInv, Execute
    PROVE  UpgradeInv'
  <1>0. /\ UpgradeTypes /\ Located /\ Reached(First) /\ Reached(Now) /\ Fresh(Now)
        /\ Migrating /\ phase = "migrate"
    BY DEF UpgradeInv, Execute, Migrating
  <1>1. /\ hookHost' = IF Now = LocationAt THEN scriptHost ELSE hookHost
        /\ auth' = IF Now = AuthAt /\ auth = "both" THEN "hmac" ELSE auth
        /\ schema' \in SUBSET Thing
        /\ \A t \in Thing : t \in schema' <=>
               (t \in schema /\ ~(Now = DropAt /\ t = Column)) \/ Place(t) = Now
        /\ Now = LocationAt \/ Now = DropAt => version <= 6
        /\ Now = 9 => version <= 5
    BY <1>0, ExecuteEffect
  <1>2. /\ phase' = phase /\ version' = version /\ scriptHost' = scriptHost /\ home' = home
        /\ interrupted' = interrupted /\ Advance
    BY DEF Execute
  <1>3. /\ Now' = Now + 1 /\ at' \in version..13 /\ step' \in Nat \ {0}
        /\ at' = 13 => step' = 1
        /\ at' < 13 => step' <= Len(Steps[at' + 1])
    BY <1>0, <1>2, AdvanceOne
  <1>4. Now \in 1..31 /\ version \in 0..12
    BY <1>0, NextStatement
  <1>5. /\ First' = First /\ First = Before[version + 1] + 1
        /\ Before[version + 1] \in Int
        /\ version >= 7 <=> Before[version + 1] >= 12
        /\ version >= 7 <=> Before[version + 1] >= 11
    BY <1>2, <1>4, BeforeIn, BeforeLands DEF First, Before, DropAt, LocationAt
  <1>6. Column \in Thing /\ Place(Column) = 9 /\ \A t \in Thing : Place(t) \in 1..31
    BY ColumnPlaced
  <1>7. UpgradeTypes'
    BY <1>0, <1>1, <1>2, <1>3, <1>4 DEF UpgradeTypes
  <1>8. version < 7 => scriptHost = home
    BY <1>0 DEF Located
  <1>9. Located'
    <2>1. Now = LocationAt => hookHost' = home
      BY <1>1, <1>4, <1>8
    <2>2. Now # LocationAt => hookHost' = hookHost
      BY <1>1
    <2>3. version < 6 => hookHost' = home
      BY <1>0, <2>1, <2>2 DEF Located
    <2>4. version = 6 => hookHost' = home \/ Column \in schema'
      <3>1. CASE Now = DropAt
        <4>1. hookHost = home
          BY <1>0, <3>1 DEF Reached, LocationAt, DropAt
        <4>. QED BY <2>1, <2>2, <4>1
      <3>2. CASE Now # DropAt
        <4>1. Column \in schema => Column \in schema'
          BY <1>1, <1>6, <3>2
        <4>2. version = 6 => hookHost = home \/ Column \in schema
          BY <1>0 DEF Located
        <4>. QED BY <2>1, <2>2, <4>1, <4>2
      <3>. QED BY <3>1, <3>2
    <2>. QED BY <1>2, <1>8, <2>3, <2>4 DEF Located
  <1>10. auth # "both" => auth' # "both"
    BY <1>1
  <1>11. Reached(First)'
    <2>1. \A t \in Thing \ {Column} : Place(t) < First => t \in schema'
      BY <1>0, <1>1 DEF Reached
    <2>2. First > LocationAt => hookHost' = home
      BY <1>0, <1>1, <1>4, <1>8 DEF Reached
    <2>3. First > DropAt => Column \notin schema'
      BY <1>0, <1>1, <1>4, <1>5, <1>6 DEF Reached, DropAt
    <2>4. First > AuthAt => auth' # "both"
      BY <1>0, <1>10 DEF Reached
    <2>. QED BY <1>2, <1>5, <2>1, <2>2, <2>3, <2>4 DEF Reached, Thing
  <1>12. Reached(Now)'
    <2>1. \A t \in Thing \ {Column} : Place(t) < Now + 1 => t \in schema'
      <3>. SUFFICES ASSUME NEW t \in Thing \ {Column}, Place(t) < Now + 1, t \notin schema'
                    PROVE  FALSE
        OBVIOUS
      <3>1. Place(t) # Now /\ t \notin schema
        BY <1>1
      <3>2. Place(t) < Now
        BY <1>4, <1>6, <3>1
      <3>. QED BY <1>0, <3>1, <3>2 DEF Reached
    <2>2. Now + 1 > LocationAt => hookHost' = home
      BY <1>0, <1>1, <1>4, <1>8 DEF Reached, LocationAt
    <2>3. Now + 1 > DropAt => Column \notin schema'
      BY <1>0, <1>1, <1>4, <1>6 DEF Reached, DropAt
    <2>4. Now + 1 > AuthAt => auth' # "both"
      BY <1>0, <1>1, <1>4 DEF Reached, AuthAt
    <2>. QED BY <1>2, <1>3, <2>1, <2>2, <2>3, <2>4 DEF Reached, Thing
  <1>13. Fresh(Now)'
    <2>. SUFFICES ASSUME ~interrupted
                  PROVE  /\ \A t \in Thing : Place(t) >= Now + 1 => t \notin schema'
                         /\ Now + 1 \in (Place(Column) + 1)..DropAt => Column \in schema'
      BY <1>2, <1>3 DEF Fresh, Thing
    <2>1. ASSUME NEW t \in Thing, Place(t) >= Now + 1 PROVE t \notin schema'
      <3>1. Place(t) >= Now /\ Place(t) # Now
        BY <1>4, <1>6, <2>1
      <3>. QED BY <1>0, <1>1, <3>1 DEF Fresh
    <2>2. ASSUME Now + 1 \in 10..12 PROVE Column \in schema'
      <3>1. Now = 9 \/ Now \in 10..12
        BY <1>4, <2>2
      <3>2. Now \in 10..12 => Column \in schema
        BY <1>0, <1>6 DEF Fresh, DropAt
      <3>. QED BY <1>1, <1>4, <1>6, <2>2, <3>1, <3>2 DEF DropAt
    <2>. QED BY <1>6, <2>1, <2>2 DEF DropAt
  <1>. QED BY <1>0, <1>2, <1>7, <1>9, <1>11, <1>12, <1>13 DEF UpgradeInv

(* An upgrade starts with the first statement not seen.                    *)
LEMMA UpgradeBoot ==
    ASSUME UpgradeInv, Boot
    PROVE  UpgradeInv'
  <1>0. /\ UpgradeTypes /\ Located /\ Reached(First) /\ Fresh(First) /\ phase = "down"
        /\ version \in 0..13 /\ schema \in SUBSET Thing
    BY DEF UpgradeInv, UpgradeTypes, Boot
  <1>1. /\ phase' = IF version >= 13 THEN "serve" ELSE "migrate"
        /\ at' = version /\ step' = 1 /\ version' = version /\ schema' = schema
        /\ scriptHost' = scriptHost /\ hookHost' = hookHost /\ auth' = auth
        /\ home' = home /\ interrupted' = interrupted
    BY StepsAre DEF Boot, dataVars
  <1>2. Now' = First /\ First' = First
    BY <1>1 DEF Now, First, Before
  <1>3. UpgradeTypes'
    <2>1. version < 13 => 1 <= Len(Steps[version + 1])
      <3>. SUFFICES ASSUME version < 13 PROVE 1 <= Len(Steps[version + 1])
        OBVIOUS
      <3>1. version + 1 \in 1..13
        BY <1>0
      <3>. QED BY <3>1, StatementsPlaced
    <2>. QED BY <1>0, <1>1, <2>1 DEF UpgradeTypes, Thing
  <1>4. Located'
    BY <1>0, <1>1 DEF Located
  <1>5. Reached(First)' /\ Reached(Now)'
    BY <1>0, <1>1, <1>2 DEF Reached, Thing
  <1>6. Fresh(First)' /\ Fresh(Now)'
    BY <1>0, <1>1, <1>2 DEF Fresh, Thing
  <1>. QED BY <1>3, <1>4, <1>5, <1>6 DEF UpgradeInv

(* With every statement behind it the database is of this release.         *)
LEMMA UpgradeSetVersion ==
    ASSUME UpgradeInv, SetVersion
    PROVE  UpgradeInv'
  <1>0. /\ UpgradeTypes /\ Reached(Now) /\ Fresh(Now) /\ phase = "migrate"
        /\ at \in version..13 /\ version \in 0..13 /\ schema \in SUBSET Thing
        /\ at = 13 => step = 1
    BY DEF UpgradeInv, UpgradeTypes, SetVersion
  <1>1. ~(at < 13)
    BY <1>0, StepsAre DEF SetVersion, Migrating
  <1>2. at = 13 /\ step = 1
    BY <1>0, <1>1
  <1>3. /\ phase' = "serve" /\ version' = 13 /\ schema' = schema
        /\ scriptHost' = scriptHost /\ hookHost' = hookHost /\ auth' = auth
        /\ home' = home /\ interrupted' = interrupted
    BY StepsAre DEF SetVersion, dataVars
  <1>4. First' = Now
    BY <1>2, <1>3 DEF Now, First, Before
  <1>5. UpgradeTypes'
    BY <1>0, <1>3 DEF UpgradeTypes, Thing
  <1>6. Located'
    BY <1>3 DEF Located
  <1>7. Reached(First)'
    BY <1>0, <1>3, <1>4 DEF Reached, Thing
  <1>8. Fresh(First)'
    BY <1>0, <1>3, <1>4 DEF Fresh, Thing
  <1>. QED BY <1>3, <1>5, <1>6, <1>7, <1>8 DEF UpgradeInv

(* Cut short, what was done stays, and more may be done than is known.     *)
LEMMA UpgradeStop ==
    ASSUME UpgradeInv, Fatal \/ Stop
    PROVE  UpgradeInv'
  <1>0. /\ UpgradeTypes /\ Located /\ Reached(First)
        /\ phase # "migrate" => Fresh(First)
        /\ version \in 0..13 /\ schema \in SUBSET Thing
    BY DEF UpgradeInv, UpgradeTypes
  <1>1. /\ phase' = "down" /\ version' = version /\ schema' = schema
        /\ scriptHost' = scriptHost /\ hookHost' = hookHost /\ auth' = auth /\ home' = home
        /\ phase = "migrate" => interrupted'
        /\ phase # "migrate" => (interrupted' <=> interrupted)
    BY DEF Fatal, Stop, dataVars
  <1>2. First' = First
    BY <1>1 DEF First, Before
  <1>3. UpgradeTypes'
    BY <1>0, <1>1 DEF UpgradeTypes, Thing
  <1>4. Located'
    BY <1>0, <1>1 DEF Located
  <1>5. Reached(First)'
    BY <1>0, <1>1, <1>2 DEF Reached, Thing
  <1>6. Fresh(First)'
    BY <1>0, <1>1, <1>2 DEF Fresh, Thing
  <1>. QED BY <1>1, <1>3, <1>4, <1>5, <1>6 DEF UpgradeInv

LEMMA UpgradeStep ==
    ASSUME UpgradeInv, [Next]_vars
    PROVE  UpgradeInv'
  <1>1. CASE UNCHANGED migrationVars
    BY <1>1 DEF migrationVars, dataVars, UpgradeInv, UpgradeTypes, Located, Reached, Fresh,
                First, Now, Thing, Before
  <1>2. CASE Boot \/ Execute \/ Fatal \/ SetVersion \/ Stop
    BY <1>2, UpgradeBoot, UpgradeExecute, UpgradeSetVersion, UpgradeStop
  <1>. QED
    BY <1>1, <1>2 DEF Next, vars, Upgrade, ServeLogins, ServeHosts, Crash, Outside

LEMMA UpgradeAlways == Spec => []UpgradeInv
  <1>1. Init => UpgradeInv
    BY UpgradeInit DEF Init
  <1>2. UpgradeInv /\ [Next]_vars => UpgradeInv'
    BY UpgradeStep
  <1>. QED BY <1>1, <1>2, PTL DEF Spec

(* The host a hook runs on is in the database whatever was cut short.      *)
THEOREM LocationKeptHolds == Spec => []LocationKept
  <1>1. UpgradeInv => LocationKept
    <2>. SUFFICES ASSUME UpgradeInv PROVE LocationKept
      OBVIOUS
    <2>1. Located /\ Reached(First) /\ version \in 0..13
      BY DEF UpgradeInv, UpgradeTypes
    <2>2. CASE version >= 7
      <3>1. First > LocationAt
        BY <2>1, <2>2, BeforeLands, BeforeIn DEF First, LocationAt
      <3>. QED BY <2>1, <3>1 DEF Reached, LocationKept
    <2>3. CASE version <= 6
      BY <2>1, <2>3 DEF Located, LocationKept, Column
    <2>. QED BY <2>1, <2>2, <2>3
  <1>. QED BY <1>1, UpgradeAlways, PTL

(* What is served is the schema and the data of this release, and only     *)
(* after an upgrade that was cut short does one refuse to go on.           *)
THEOREM UpgradeSoundHolds == Spec => []UpgradeSound
  <1>1. UpgradeInv => UpgradeSound
    <2>. SUFFICES ASSUME UpgradeInv PROVE UpgradeSound
      OBVIOUS
    <2>1. ASSUME phase = "serve"
          PROVE  /\ version = SchemaVersion /\ schema = SchemaOf(SchemaVersion)
                 /\ hookHost = home /\ auth # "both"
      <3>1. version = 13 /\ SchemaVersion = 13 /\ Reached(First) /\ schema \in SUBSET Thing
        BY <2>1, StepsAre DEF UpgradeInv, UpgradeTypes
      <3>2. First = 32
        BY <3>1, BeforeIs DEF First
      <3>3. hookHost = home /\ auth # "both" /\ Column \notin schema
        BY <3>1, <3>2 DEF Reached, LocationAt, DropAt, AuthAt
      <3>4. \A t \in Thing \ {Column} : t \in schema
        BY <3>1, <3>2, ColumnPlaced DEF Reached
      <3>5. SchemaOf(13) \in SUBSET Thing
            /\ \A t \in Thing : t \in SchemaOf(13) <=> t # Column
        <4>1. 13 \in 0..13 /\ Before[13 + 1] = 31
          BY BeforeIs
        <4>2. /\ SchemaOf(13) \in SUBSET Thing
              /\ \A t \in Thing : t \in SchemaOf(13) <=>
                     Place(t) <= Before[13 + 1] /\ (t = Column => 13 < 7)
          BY <4>1, SchemaIs
        <4>. QED BY <4>1, <4>2, ColumnPlaced
      <3>. QED BY <3>1, <3>3, <3>4, <3>5
    <2>2. ASSUME phase = "migrate", Migrating, Refused, ~interrupted PROVE FALSE
      <3>1. UpgradeTypes /\ Fresh(Now) /\ at + 1 \in 1..13 /\ step \in 1..Len(Steps[at + 1])
            /\ Placed(at + 1, step)
        BY <2>2, NextStatement DEF UpgradeInv
      <3>2. /\ \A t \in Thing : Place(t) >= Now => t \notin schema
            /\ Now \in 10..12 => Column \in schema
        BY <2>2, <3>1, ColumnPlaced DEF Fresh, DropAt
      <3>3. Now = Before[at + 1] + step /\ Statement = Steps[at + 1][step]
        BY DEF Now, Statement
      <3>4. /\ Statement.op = "add" => Place(Statement.on) = Now
            /\ Statement.op = "drop" => Statement.on = Column /\ Now = 12
            /\ Statement = Update("location") => Now = 11
        BY <3>1, <3>3 DEF Placed, DropAt, LocationAt
      <3>5. CASE Statement.op = "add" /\ Statement.on \in schema
        <4>1. Statement.on \in Thing /\ Place(Statement.on) \in 1..31
          BY <3>1, <3>5, ColumnPlaced DEF UpgradeTypes
        <4>. QED BY <3>2, <3>4, <3>5, <4>1
      <3>6. CASE Statement.op = "drop" /\ Statement.on \notin schema
        BY <3>2, <3>4, <3>6
      <3>7. CASE Statement = Update("location") /\ Column \notin schema
        BY <3>2, <3>4, <3>7
      <3>. QED BY <2>2, <3>5, <3>6, <3>7 DEF Refused, Column
    <2>. QED BY <2>1, <2>2 DEF UpgradeSound
  <1>. QED BY <1>1, UpgradeAlways, PTL
=============================================================================
