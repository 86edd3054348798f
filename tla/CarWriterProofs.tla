-------------------------- MODULE CarWriterProofs --------------------------
(***************************************************************************)
(* Proofs about the CAR archiver model (CarWriter.tla), for every set of   *)
(* advertisements and entry chains that satisfies ChainAssumption and      *)
(* every crash bound.                                                      *)
(***************************************************************************)
EXTENDS CarWriter, WellFoundedInduction, TLAPS

-----------------------------------------------------------------------------
(* How far the chunk walk gets.                                            *)

\* Any list of blocks has a longest prefix in a given store: the walk of
\* loadEntryChunk stops at a well-defined place.  The first missing block is
\* the least element of a set of naturals.
LEMMA PrefixExists ==
    ASSUME NEW S, NEW c \in Seq(S), NEW D
    PROVE  \E k \in 0..Len(c) : /\ \A i \in 1..k : c[i] \in D
                                /\ k < Len(c) => c[k + 1] \notin D
<1> DEFINE T == {i \in 1..Len(c) : c[i] \notin D}
<1>1. CASE T = {}
  <2>1. Len(c) \in 0..Len(c) /\ \A i \in 1..Len(c) : c[i] \in D
    BY <1>1
  <2>2. QED
    BY <2>1
<1>2. CASE T # {}
  <2>0. T \subseteq Nat
    OBVIOUS
  <2>1. PICK x \in T : \A y \in T : ~(<<y, x>> \in OpToRel(<, Nat))
    BY <1>2, <2>0, NatLessThanWellFounded, WFMin, Zenon
  <2>2. ASSUME NEW y \in T, y < x PROVE FALSE
    <3>1. <<y, x>> \in Nat \X Nat /\ <<y, x>>[1] < <<y, x>>[2]
      BY <2>0, <2>2
    <3>2. <<y, x>> \in OpToRel(<, Nat)
      BY <3>1, Zenon DEF OpToRel
    <3>3. QED
      BY <2>1, <3>2
  <2>3. /\ x - 1 \in 0..Len(c)
        /\ \A i \in 1..(x - 1) : c[i] \in D
        /\ c[x] \notin D
    BY <2>2
  <2>4. QED
    BY <2>3
<1>3. QED
  BY <1>1, <1>2

\* LoadedPrefix(a) is the length of a prefix of a's chain that is in the
\* datastore and is followed by a block that is not.
LEMMA LoadedPrefixProps ==
    ASSUME ChainAssumption, NEW a \in Ads
    PROVE  LET k == LoadedPrefix(a) IN
           /\ k \in 0..Len(ChainOf[a])
           /\ \A i \in 1..k : ChainOf[a][i] \in dstore
           /\ k < Len(ChainOf[a]) => ChainOf[a][k + 1] \notin dstore
<1>1. ChainOf[a] \in Seq(EntryBlocks)
  BY DEF ChainAssumption
<1>2. \E k \in 0..Len(ChainOf[a]) :
         /\ \A i \in 1..k : ChainOf[a][i] \in dstore
         /\ k < Len(ChainOf[a]) => ChainOf[a][k + 1] \notin dstore
  BY <1>1, PrefixExists
<1>3. QED
  BY <1>2 DEF LoadedPrefix

\* The delCids lists of Write and removeAdData are lists of blocks.
LEMMA DelCidsType ==
    ASSUME ChainAssumption, NEW a \in Ads
    PROVE  /\ WriteDelCids(a) \in Seq(Blocks)
           /\ RemoveDelCids(a) \in Seq(Blocks)
<1> DEFINE c == ChainOf[a]
           m == MinNat(LoadedPrefix(a) + 1, Len(c))
<1>1. c \in Seq(EntryBlocks)
  BY DEF ChainAssumption
<1>2. CASE c = << >>
  BY <1>2 DEF WriteDelCids, RemoveDelCids, Blocks
<1>3. CASE c # << >>
  <2>1. Len(c) >= 1 /\ m \in 1..Len(c)
    BY <1>1, <1>3, LoadedPrefixProps DEF MinNat
  <2>2. SubSeq(c, 1, m) \in Seq(Blocks)
    BY <1>1, <2>1 DEF Blocks
  <2>3. <<a, c[1]>> \in Seq(Blocks) /\ <<a>> \in Seq(Blocks)
    BY <1>1, <2>1 DEF Blocks
  <2>4. QED
    BY <1>3, <2>2, <2>3 DEF WriteDelCids, RemoveDelCids
<1>3a. QED
  BY <1>2, <1>3

-----------------------------------------------------------------------------
(* The inductive invariant behind NoOrphanEntries.                         *)

\* The entry blocks of an advertisement in the datastore always form a
\* prefix of its chain: fetching adds blocks from the head, deleteCids
\* removes them from the tail.
PrefixClosed ==
    \A a \in Ads : \A i \in 1..Len(ChainOf[a]) :
        ChainOf[a][i] \in dstore => \A j \in 1..i : ChainOf[a][j] \in dstore

\* While deleteCids runs, delCids starts with the advertisement, the rest are
\* blocks of its chain in chain order, and they cover every block of the
\* chain still in the store D.
DelShapeOf(a, s, D) ==
    /\ a \in Ads
    /\ s[1] = a
    /\ \A j \in 2..Len(s) : \E i \in 1..Len(ChainOf[a]) : s[j] = ChainOf[a][i]
    /\ \A i \in 1..Len(ChainOf[a]) :
          ChainOf[a][i] \in D => \E j \in 2..Len(s) : s[j] = ChainOf[a][i]
    /\ \A j1, j2 \in 2..Len(s) : \A i1, i2 \in 1..Len(ChainOf[a]) :
          j1 < j2 /\ s[j1] = ChainOf[a][i1] /\ s[j2] = ChainOf[a][i2] => i1 <= i2

DelShape(s, D) == DelShapeOf(s[1], s, D)

DeleteShape == wphase = "delete" /\ delSeq # << >> => DelShape(delSeq, dstore)

IInv == TypeOK /\ PrefixClosed /\ NoOrphanEntries /\ DeleteShape

\* A natural number that is positive and not 1 is at least 2.
LEMMA NatAboveOne ==
    ASSUME NEW n \in Nat, n >= 1, n # 1
    PROVE  n >= 2 /\ n \in 2..n
OBVIOUS

\* Entry blocks of one chain are distinct, and no block is in two chains.
LEMMA ChainInjective ==
    ASSUME ChainAssumption, NEW a \in Ads, NEW b \in Ads,
           NEW i \in 1..Len(ChainOf[a]), NEW j \in 1..Len(ChainOf[b]),
           ChainOf[a][i] = ChainOf[b][j]
    PROVE  a = b /\ i = j
BY DEF ChainAssumption

\* A list made of the advertisement and the first m blocks of its chain,
\* optionally with the first block repeated, has the shape DeleteShape asks
\* for when no block after the first m is in the datastore.
LEMMA DelShapeOfPrefix ==
    ASSUME NEW a \in Ads, NEW m \in 1..Len(ChainOf[a]),
           \A i \in 1..Len(ChainOf[a]) : ChainOf[a][i] \in dstore => i <= m
    PROVE  /\ DelShape(<<a, ChainOf[a][1]>> \o SubSeq(ChainOf[a], 1, m), dstore)
           /\ DelShape(<<a>> \o SubSeq(ChainOf[a], 1, m), dstore)
<1> DEFINE c == ChainOf[a]
           n == Len(c)
           w == <<a, c[1]>> \o SubSeq(c, 1, m)
           r == <<a>> \o SubSeq(c, 1, m)
<1>1. c \in Seq(EntryBlocks) /\ n \in Nat /\ m \in 1..n
  BY ChainAssumption
<1>2. \A i1, i2 \in 1..n : c[i1] = c[i2] => i1 = i2
  BY ChainAssumption, ChainInjective
<1>3. /\ Len(w) = m + 2 /\ w[1] = a /\ w[2] = c[1]
      /\ \A t \in 1..m : w[t + 2] = c[t]
  BY <1>1
<1>4. /\ Len(r) = m + 1 /\ r[1] = a
      /\ \A t \in 1..m : r[t + 1] = c[t]
  BY <1>1
\* The index in the chain of the j-th element of w and of r.
<1> DEFINE wIdx(j) == IF j = 2 THEN 1 ELSE j - 2
<1>5. \A j \in 2..Len(w) : wIdx(j) \in 1..m /\ w[j] = c[wIdx(j)]
  <2> SUFFICES ASSUME NEW j \in 2..Len(w) PROVE wIdx(j) \in 1..m /\ w[j] = c[wIdx(j)]
    OBVIOUS
  <2>1. CASE j = 2
    BY <2>1, <1>1, <1>3
  <2>2. CASE j # 2
    <3>1. j - 2 \in 1..m
      BY <2>2, <1>1, <1>3
    <3>2. w[(j - 2) + 2] = c[j - 2]
      BY <3>1, <1>3
    <3>3. QED
      BY <2>2, <3>1, <3>2
  <2>3. QED
    BY <2>1, <2>2
<1>6. \A j \in 2..Len(r) : j - 1 \in 1..m /\ r[j] = c[j - 1]
  <2> SUFFICES ASSUME NEW j \in 2..Len(r) PROVE j - 1 \in 1..m /\ r[j] = c[j - 1]
    OBVIOUS
  <2>1. j - 1 \in 1..m
    BY <1>1, <1>4
  <2>2. r[(j - 1) + 1] = c[j - 1]
    BY <2>1, <1>4
  <2>3. QED
    BY <2>1, <2>2
<1>7. DelShape(w, dstore)
  <2>1. \A j \in 2..Len(w) : \E i \in 1..n : w[j] = c[i]
    BY <1>1, <1>5
  <2>2. \A i \in 1..n : c[i] \in dstore => \E j \in 2..Len(w) : w[j] = c[i]
    <3> SUFFICES ASSUME NEW i \in 1..n, c[i] \in dstore
                 PROVE  \E j \in 2..Len(w) : w[j] = c[i]
      OBVIOUS
    <3>1. i \in 1..m /\ i + 2 \in 2..Len(w)
      BY <1>1, <1>3
    <3>2. w[i + 2] = c[i]
      BY <3>1, <1>3
    <3>3. QED
      BY <3>1, <3>2
  <2>3. \A j1, j2 \in 2..Len(w) : \A i1, i2 \in 1..n :
           j1 < j2 /\ w[j1] = c[i1] /\ w[j2] = c[i2] => i1 <= i2
    <3> SUFFICES ASSUME NEW j1 \in 2..Len(w), NEW j2 \in 2..Len(w),
                        NEW i1 \in 1..n, NEW i2 \in 1..n,
                        j1 < j2, w[j1] = c[i1], w[j2] = c[i2]
                 PROVE  i1 <= i2
      OBVIOUS
    <3>1. i1 = wIdx(j1) /\ i2 = wIdx(j2)
      BY <1>1, <1>2, <1>5
    <3>2. wIdx(j1) <= wIdx(j2)
      BY <1>1, <1>3
    <3>3. QED
      BY <3>1, <3>2
  <2>4. DelShapeOf(a, w, dstore)
    BY <1>3, <2>1, <2>2, <2>3 DEF DelShapeOf
  <2>5. w[1] = a
    BY <1>3
  <2>6. QED
    BY <2>4, <2>5, Zenon DEF DelShape
<1>8. DelShape(r, dstore)
  <2>1. \A j \in 2..Len(r) : \E i \in 1..n : r[j] = c[i]
    BY <1>1, <1>6
  <2>2. \A i \in 1..n : c[i] \in dstore => \E j \in 2..Len(r) : r[j] = c[i]
    <3> SUFFICES ASSUME NEW i \in 1..n, c[i] \in dstore
                 PROVE  \E j \in 2..Len(r) : r[j] = c[i]
      OBVIOUS
    <3>1. i \in 1..m /\ i + 1 \in 2..Len(r)
      BY <1>1, <1>4
    <3>2. r[i + 1] = c[i]
      BY <3>1, <1>4
    <3>3. QED
      BY <3>1, <3>2
  <2>3. \A j1, j2 \in 2..Len(r) : \A i1, i2 \in 1..n :
           j1 < j2 /\ r[j1] = c[i1] /\ r[j2] = c[i2] => i1 <= i2
    <3> SUFFICES ASSUME NEW j1 \in 2..Len(r), NEW j2 \in 2..Len(r),
                        NEW i1 \in 1..n, NEW i2 \in 1..n,
                        j1 < j2, r[j1] = c[i1], r[j2] = c[i2]
                 PROVE  i1 <= i2
      OBVIOUS
    <3>1. i1 = j1 - 1 /\ i2 = j2 - 1
      BY <1>1, <1>2, <1>6
    <3>2. QED
      BY <3>1
  <2>4. DelShapeOf(a, r, dstore)
    BY <1>4, <2>1, <2>2, <2>3 DEF DelShapeOf
  <2>5. r[1] = a
    BY <1>4
  <2>6. QED
    BY <2>4, <2>5, Zenon DEF DelShape
<1>9. QED
  BY <1>7, <1>8

\* The lists Write and removeAdData hand to deleteCids have the shape
\* DeleteShape asks for, given that the chain prefix in the datastore is
\* closed.
LEMMA DelCidsShape ==
    ASSUME ChainAssumption, PrefixClosed, NEW a \in Ads
    PROVE  DelShape(WriteDelCids(a), dstore) /\ DelShape(RemoveDelCids(a), dstore)
<1> DEFINE c == ChainOf[a]
           n == Len(c)
<1>1. c \in Seq(EntryBlocks)
  BY DEF ChainAssumption
<1>2. CASE c = << >>
  <2>1. WriteDelCids(a) = <<a>> /\ RemoveDelCids(a) = <<a>>
    BY <1>2 DEF WriteDelCids, RemoveDelCids
  <2>2. n = 0
    BY <1>2
  <2>3. QED
    BY <2>1, <2>2 DEF DelShape, DelShapeOf
<1>3. CASE c # << >>
  <2>1. PICK k \in 0..n : /\ k = LoadedPrefix(a)
                          /\ \A i \in 1..k : c[i] \in dstore
                          /\ k < n => c[k + 1] \notin dstore
    BY LoadedPrefixProps
  <2>2. PICK m \in 1..n : m = MinNat(k + 1, n)
    BY <1>1, <1>3 DEF MinNat
  \* Every block of the chain in the datastore is within the first m.
  <2>3. \A i \in 1..n : c[i] \in dstore => i <= m
    <3> SUFFICES ASSUME NEW i \in 1..n, c[i] \in dstore, i > m PROVE FALSE
      OBVIOUS
    <3>1. k < n /\ k + 1 \in 1..i
      BY <2>1, <2>2 DEF MinNat
    <3>2. c[k + 1] \in dstore
      BY <3>1 DEF PrefixClosed
    <3>3. QED
      BY <3>1, <3>2, <2>1
  <2>4. /\ WriteDelCids(a) = <<a, c[1]>> \o SubSeq(c, 1, m)
        /\ RemoveDelCids(a) = <<a>> \o SubSeq(c, 1, m)
    BY <1>3, <2>1, <2>2 DEF WriteDelCids, RemoveDelCids
  <2>5. /\ DelShape(<<a, c[1]>> \o SubSeq(c, 1, m), dstore)
        /\ DelShape(<<a>> \o SubSeq(c, 1, m), dstore)
    BY <2>3, DelShapeOfPrefix
  <2>6. QED
    BY <2>4, <2>5, Zenon
<1>4. QED
  BY <1>2, <1>3

-----------------------------------------------------------------------------
(* Type correctness.                                                       *)

\* The initial states are well typed.
LEMMA TypeOKInit == Init => TypeOK
<1> USE ChainAssumption, MaxCrashesAssumption
<1> SUFFICES ASSUME Init PROVE TypeOK
  OBVIOUS
<1>1. \A a \in Ads, n \in Nat : \A i \in 1..MinNat(n, Len(ChainOf[a])) :
           ChainOf[a][i] \in EntryBlocks
  BY DEF MinNat
<1>2. dstore \subseteq Blocks
  BY <1>1 DEF Init, Blocks
<1>3. QED
  BY <1>2 DEF Init, TypeOK, Phases, Halts

\* Every step, crashes included, preserves the types.
LEMMA TypeOKStep == TypeOK /\ [Next]_vars => TypeOK'
<1> USE ChainAssumption, MaxCrashesAssumption
<1> SUFFICES ASSUME TypeOK, [Next]_vars PROVE TypeOK'
  OBVIOUS
<1>1. CASE WriteExisting
  BY <1>1 DEF WriteExisting, TypeOK, Phases, Halts
<1>2. CASE LoopEnd
  BY <1>2 DEF LoopEnd, TypeOK, Phases
<1>3. CASE Cancel
  BY <1>3 DEF Cancel, TypeOK, Phases, Halts
<1>4. ASSUME NEW a \in Ads, ArchiveExists(a) PROVE TypeOK'
  BY <1>4, DelCidsType DEF ArchiveExists, WriteGuard, TypeOK, Phases
<1>5. ASSUME NEW a \in Ads, RemoveAdDataPanics(a) PROVE TypeOK'
  BY <1>5, DelCidsType DEF RemoveAdDataPanics, WriteGuard, TypeOK, Phases, Halts
<1>6. ASSUME NEW a \in Ads, CarOpenFails(a) PROVE TypeOK'
  BY <1>6 DEF CarOpenFails, WriteGuard, TypeOK
<1>7. ASSUME NEW a \in Ads, CarWriteFails(a) PROVE TypeOK'
  BY <1>7 DEF CarWriteFails, WriteGuard, TypeOK, Phases, Halts
<1>8. ASSUME NEW a \in Ads, EntriesLoadFails(a) PROVE TypeOK'
  BY <1>8, DelCidsType DEF EntriesLoadFails, WriteGuard, TypeOK, Phases
<1>9. ASSUME NEW a \in Ads, CarStored(a) PROVE TypeOK'
  <2>1. CarContent(a) \subseteq Blocks
    BY LoadedPrefixProps DEF CarContent, Blocks, EntryBlocks
  <2>2. QED
    BY <1>9, <2>1, DelCidsType DEF CarStored, WriteGuard, TypeOK, Phases
<1>10. CASE DeleteCid
  BY <1>10 DEF DeleteCid, TypeOK
<1>11. CASE WriteReturns
  BY <1>11 DEF WriteReturns, TypeOK, Phases
<1>12. CASE Crash
  BY <1>12 DEF Crash, TypeOK, Phases
<1>13. CASE UNCHANGED vars
  BY <1>13 DEF vars, TypeOK
<1>14. CASE PanicUnwound
  BY <1>14 DEF PanicUnwound, TypeOK, Phases
<1>15. QED
  BY <1>1, <1>2, <1>3, <1>4, <1>5, <1>6, <1>7, <1>8, <1>9, <1>10, <1>11,
     <1>12, <1>13, <1>14 DEF Next, Archiver

\* The goroutine's and the stores' variables keep their types, in
\* particular the crash counter stays within MaxCrashes.
THEOREM TypeCorrect == Spec => []TypeOK
BY TypeOKInit, TypeOKStep, PTL DEF Spec



-----------------------------------------------------------------------------
(* NoOrphanEntries.                                                        *)

\* The fetched prefixes the ingester leaves are prefix closed, and every
\* advertisement is in the datastore.
LEMMA IInvInit == Init => IInv
<1> USE ChainAssumption
<1> SUFFICES ASSUME Init PROVE IInv
  OBVIOUS
<1>1. TypeOK
  BY TypeOKInit
<1>2. PICK k \in [Ads -> 0..Cardinality(EntryBlocks)] :
         dstore = Ads \cup
                  UNION {{ChainOf[a][i] : i \in 1..MinNat(k[a], Len(ChainOf[a]))} :
                         a \in Ads}
  BY DEF Init
<1>3. PrefixClosed
  <2> SUFFICES ASSUME NEW a \in Ads, NEW i \in 1..Len(ChainOf[a]),
                      ChainOf[a][i] \in dstore, NEW j \in 1..i
               PROVE  ChainOf[a][j] \in dstore
    BY DEF PrefixClosed
  <2>1. ChainOf[a][i] \notin Ads
    BY DEF EntryBlocks
  <2>2. PICK b \in Ads : \E i2 \in 1..MinNat(k[b], Len(ChainOf[b])) :
                            ChainOf[a][i] = ChainOf[b][i2]
    BY <1>2, <2>1
  <2>7. PICK i2 \in 1..MinNat(k[b], Len(ChainOf[b])) : ChainOf[a][i] = ChainOf[b][i2]
    BY <2>2
  <2>3. i2 \in 1..Len(ChainOf[b])
    BY DEF MinNat
  <2>4. a = b /\ i = i2
    BY <2>7, <2>3, ChainInjective
  <2>5. j \in 1..MinNat(k[a], Len(ChainOf[a]))
    BY <2>7, <2>4 DEF MinNat
  <2>6. QED
    BY <1>2, <2>5
<1>4. NoOrphanEntries
  BY <1>2 DEF NoOrphanEntries
<1>5. DeleteShape
  BY DEF Init, DeleteShape
<1>6. QED
  BY <1>1, <1>3, <1>4, <1>5 DEF IInv

\* One Delete of deleteCids keeps the invariant: the CID it removes is the
\* last of delCids, so no block of the chain after it is left behind, and
\* it is the advertisement only when no entry block is left.
LEMMA DeleteCidStep ==
    ASSUME IInv, DeleteCid
    PROVE  PrefixClosed' /\ NoOrphanEntries' /\ DeleteShape'
<1> DEFINE s == delSeq
           L == Len(s)
           x == s[L]
           b == s[1]
           cb == ChainOf[b]
<1>1. s \in Seq(Blocks) /\ L \in Nat /\ L >= 1 /\ wphase = "delete"
  BY DEF DeleteCid, IInv, TypeOK
<1>0. L \in Nat /\ L >= 1
  BY <1>1
<1>2. /\ b \in Ads
      /\ \A j \in 2..L : \E i \in 1..Len(cb) : s[j] = cb[i]
      /\ \A i \in 1..Len(cb) : cb[i] \in dstore => \E j \in 2..L : s[j] = cb[i]
      /\ \A j1, j2 \in 2..L : \A i1, i2 \in 1..Len(cb) :
            j1 < j2 /\ s[j1] = cb[i1] /\ s[j2] = cb[i2] => i1 <= i2
  BY <1>1 DEF IInv, DeleteShape, DelShape, DelShapeOf
<1>3. /\ dstore' = dstore \ {x}
      /\ delSeq' = SubSeq(s, 1, L - 1)
      /\ wphase' = wphase
  BY DEF DeleteCid
<1>4. \A a \in Ads : ChainOf[a] \in Seq(EntryBlocks) /\ a \notin EntryBlocks
  BY ChainAssumption
\* The removed CID is an entry block only when delCids holds more than the
\* advertisement, and then it is a block of that advertisement's chain.
<1>5. ASSUME NEW a \in Ads, NEW i \in 1..Len(ChainOf[a]), ChainOf[a][i] = x
      PROVE  a = b /\ L >= 2
  <2>1. L # 1
    BY <1>2, <1>4, <1>5
  <2>2. L >= 2
    BY <1>0, <2>1, NatAboveOne, Zenon
  <2>3. PICK i0 \in 1..Len(cb) : x = cb[i0]
    <3>1. L \in 2..L
      BY <1>0, <2>1, NatAboveOne, Zenon
    <3>2. QED
      BY <1>2, <3>1
  <2>4. a = b
    BY <1>2, <1>5, <2>3, ChainAssumption, ChainInjective
  <2>5. QED
    BY <2>2, <2>4
<1>6. PrefixClosed'
  <2> SUFFICES ASSUME NEW a \in Ads, NEW i \in 1..Len(ChainOf[a]),
                      ChainOf[a][i] \in dstore', NEW j \in 1..i
               PROVE  ChainOf[a][j] \in dstore'
    BY DEF PrefixClosed
  <2>1. ChainOf[a][i] \in dstore /\ ChainOf[a][i] # x
    BY <1>3
  <2>2. ChainOf[a][j] \in dstore
    BY <2>1 DEF IInv, PrefixClosed
  <2>3. ChainOf[a][j] # x
    <3> SUFFICES ASSUME ChainOf[a][j] = x PROVE FALSE
      OBVIOUS
    <3>1. a = b /\ L >= 2
      BY <1>5
    <3>2. PICK j1 \in 2..L : s[j1] = ChainOf[a][i]
      BY <1>2, <2>1, <3>1
    <3>3. j1 < L
      BY <1>1, <2>1, <3>2
    <3>4. i <= j
      BY <1>1, <1>2, <3>1, <3>2, <3>3, Z3
    <3>5. QED
      BY <2>1, <3>4
  <2>4. QED
    BY <1>3, <2>2, <2>3
<1>7. NoOrphanEntries'
  <2> SUFFICES ASSUME NEW a \in Ads, NEW i \in 1..Len(ChainOf[a]),
                      ChainOf[a][i] \in dstore'
               PROVE  a \in dstore'
    BY DEF NoOrphanEntries
  <2>1. ChainOf[a][i] \in dstore
    BY <1>3
  <2>2. a \in dstore
    BY <2>1 DEF IInv, NoOrphanEntries
  <2>3. a # x
    <3> SUFFICES ASSUME a = x PROVE FALSE
      OBVIOUS
    <3>1. CASE L = 1
      <4>1. a = b
        BY <3>1
      <4>2. \E j \in 2..L : s[j] = ChainOf[a][i]
        BY <1>2, <2>1, <4>1
      <4>3. QED
        BY <3>1, <4>2
    <3>2. CASE L # 1
      <4>0. L \in 2..L
        BY <1>0, <3>2, NatAboveOne, Zenon
      <4>1. PICK i0 \in 1..Len(cb) : x = cb[i0]
        BY <1>2, <4>0
      <4>2. QED
        BY <1>2, <1>4, <4>1
    <3>3. QED
      BY <3>1, <3>2
  <2>4. QED
    BY <1>3, <2>2, <2>3
<1>8. DeleteShape'
  <2> SUFFICES ASSUME delSeq' # << >> PROVE DelShape(delSeq', dstore')
    BY <1>1, <1>3 DEF DeleteShape
  <2> DEFINE t == SubSeq(s, 1, L - 1)
  <2>1. L >= 2 /\ Len(t) = L - 1 /\ \A j \in 1..L - 1 : t[j] = s[j]
    BY <1>1, <1>3
  <2>2. t[1] = b
    BY <2>1
  <2>3. \A j \in 2..Len(t) : \E i \in 1..Len(cb) : t[j] = cb[i]
    BY <1>2, <2>1
  <2>4. \A i \in 1..Len(cb) : cb[i] \in dstore' => \E j \in 2..Len(t) : t[j] = cb[i]
    <3> SUFFICES ASSUME NEW i \in 1..Len(cb), cb[i] \in dstore'
                 PROVE  \E j \in 2..Len(t) : t[j] = cb[i]
      OBVIOUS
    <3>1. cb[i] \in dstore /\ cb[i] # x
      BY <1>3
    <3>2. PICK j \in 2..L : s[j] = cb[i]
      BY <1>2, <3>1
    <3>3. j # L
      BY <3>1, <3>2
    <3>4. j \in 2..(L - 1) /\ j \in 1..(L - 1)
      BY ONLY <1>0, <3>2, <3>3, Z3
    <3>5. j \in 2..Len(t) /\ t[j] = s[j]
      BY <2>1, <3>4, Zenon
    <3>6. QED
      BY <3>2, <3>5
  <2>5. \A j1, j2 \in 2..Len(t) : \A i1, i2 \in 1..Len(cb) :
           j1 < j2 /\ t[j1] = cb[i1] /\ t[j2] = cb[i2] => i1 <= i2
    <3> SUFFICES ASSUME NEW j1 \in 2..Len(t), NEW j2 \in 2..Len(t),
                        NEW i1 \in 1..Len(cb), NEW i2 \in 1..Len(cb),
                        j1 < j2, t[j1] = cb[i1], t[j2] = cb[i2]
                 PROVE  i1 <= i2
      OBVIOUS
    <3>1. j1 \in 2..L /\ j2 \in 2..L /\ s[j1] = cb[i1] /\ s[j2] = cb[i2]
      BY <1>1, <2>1
    <3>2. QED
      BY <1>2, <3>1
  <2>6. DelShapeOf(b, t, dstore')
    BY <1>2, <2>2, <2>3, <2>4, <2>5 DEF DelShapeOf
  <2>7. QED
    BY <1>3, <2>2, <2>6, Zenon DEF DelShape
<1>9. QED
  BY <1>6, <1>7, <1>8

\* A step that leaves the datastore alone keeps the datastore conjuncts.
LEMMA DstoreUnchanged ==
    ASSUME IInv, dstore' = dstore
    PROVE  PrefixClosed' /\ NoOrphanEntries'
BY DEF IInv, PrefixClosed, NoOrphanEntries

\* A step that leaves deleteCids or starts it on delCids of Write or
\* removeAdData keeps DeleteShape.
LEMMA StartDelete ==
    ASSUME IInv, NEW a \in Ads, dstore' = dstore, wphase' = "delete",
           delSeq' = WriteDelCids(a) \/ delSeq' = RemoveDelCids(a)
    PROVE  DeleteShape'
<1>1. DelShape(WriteDelCids(a), dstore) /\ DelShape(RemoveDelCids(a), dstore)
  BY ChainAssumption, DelCidsShape DEF IInv
<1>2. DelShape(delSeq', dstore')
  BY <1>1, Zenon
<1>3. QED
  BY <1>2 DEF DeleteShape

\* Every step keeps the inductive invariant.
LEMMA IInvStep == IInv /\ [Next]_vars => IInv'
<1> SUFFICES ASSUME IInv, [Next]_vars PROVE IInv'
  OBVIOUS
<1>1. TypeOK'
  BY TypeOKStep DEF IInv
\* The steps that leave the datastore and deleteCids alone.
<1>2. ASSUME dstore' = dstore, wphase' # "delete"
      PROVE  IInv'
  BY <1>1, <1>2, DstoreUnchanged DEF IInv, DeleteShape
<1>3. CASE WriteExisting
  BY <1>2, <1>3 DEF WriteExisting
<1>4. CASE LoopEnd
  BY <1>2, <1>4 DEF LoopEnd
<1>5. CASE Cancel
  BY <1>2, <1>5 DEF Cancel
<1>6. ASSUME NEW a \in Ads, ArchiveExists(a) PROVE IInv'
  BY <1>1, <1>6, DstoreUnchanged, StartDelete DEF ArchiveExists, IInv
<1>7. ASSUME NEW a \in Ads, RemoveAdDataPanics(a) PROVE IInv'
  BY <1>1, <1>7, DstoreUnchanged, StartDelete DEF RemoveAdDataPanics, IInv
<1>8. ASSUME NEW a \in Ads, CarOpenFails(a) PROVE IInv'
  BY <1>2, <1>8 DEF CarOpenFails, WriteGuard
<1>9. ASSUME NEW a \in Ads, CarWriteFails(a) PROVE IInv'
  BY <1>2, <1>9 DEF CarWriteFails
<1>10. ASSUME NEW a \in Ads, EntriesLoadFails(a) PROVE IInv'
  BY <1>1, <1>10, DstoreUnchanged, StartDelete DEF EntriesLoadFails, IInv
<1>11. ASSUME NEW a \in Ads, CarStored(a) PROVE IInv'
  BY <1>1, <1>11, DstoreUnchanged, StartDelete DEF CarStored, IInv
<1>12. CASE DeleteCid
  BY <1>1, <1>12, DeleteCidStep DEF IInv
<1>13. CASE WriteReturns
  BY <1>2, <1>13 DEF WriteReturns
<1>14. CASE Crash
  BY <1>2, <1>14 DEF Crash
<1>15. CASE UNCHANGED vars
  BY <1>1, <1>15 DEF vars, IInv, PrefixClosed, NoOrphanEntries, DeleteShape
<1>16. CASE PanicUnwound
  BY <1>2, <1>16 DEF PanicUnwound
<1>17. QED
  BY <1>3, <1>4, <1>5, <1>6, <1>7, <1>8, <1>9, <1>10, <1>11, <1>12, <1>13,
     <1>14, <1>15, <1>16 DEF Next, Archiver

\* No entry block is ever left in the datastore without its advertisement,
\* whatever the chains, and however often the daemon crashes in the middle
\* of deleteCids: the reverse order of the Deletes is what makes it hold.
THEOREM NoOrphanInvariant == Spec => []NoOrphanEntries
<1>1. Init => IInv
  BY IInvInit
<1>2. IInv /\ [Next]_vars => IInv'
  BY IInvStep
<1>3. IInv => NoOrphanEntries
  BY DEF IInv
<1>4. QED
  BY <1>1, <1>2, <1>3, PTL DEF Spec

-----------------------------------------------------------------------------
(* NoSilentLoss and ArchivesAllOrNothing.                                  *)

\* While deleteCids runs, the advertisement at the head of delCids already
\* has its CAR file in the file store (Write Put it, or Head found it) or was
\* given up because a chunk could not be loaded.
DelOwner ==
    wphase = "delete" /\ delSeq # << >> => delSeq[1] \in stored \cup dropped

LossInv == IInv /\ DelOwner /\ NoSilentLoss

\* Both delCids lists start with the advertisement itself.
LEMMA DelCidsHead ==
    ASSUME ChainAssumption, NEW a \in Ads
    PROVE  WriteDelCids(a)[1] = a /\ RemoveDelCids(a)[1] = a
<1> DEFINE c == ChainOf[a]
           m == MinNat(LoadedPrefix(a) + 1, Len(c))
<1>1. c \in Seq(EntryBlocks)
  BY DEF ChainAssumption
<1>2. CASE c = << >>
  BY <1>2 DEF WriteDelCids, RemoveDelCids
<1>3. CASE c # << >>
  <2>1. m \in 1..Len(c)
    BY <1>1, <1>3, LoadedPrefixProps DEF MinNat
  <2>2. SubSeq(c, 1, m) \in Seq(EntryBlocks)
    BY <1>1, <2>1
  <2>3. (<<a, c[1]>> \o SubSeq(c, 1, m))[1] = a /\ (<<a>> \o SubSeq(c, 1, m))[1] = a
    BY <2>2
  <2>4. QED
    BY <1>3, <2>3 DEF WriteDelCids, RemoveDelCids
<1>4. QED
  BY <1>2, <1>3

\* LossInv holds initially: every advertisement is staged.
LEMMA LossInvInit == Init => LossInv
<1> SUFFICES ASSUME Init PROVE LossInv
  OBVIOUS
<1>1. IInv
  BY IInvInit
<1>2. DelOwner /\ NoSilentLoss
  BY DEF Init, DelOwner, NoSilentLoss
<1>3. QED
  BY <1>1, <1>2 DEF LossInv

\* A step that keeps the datastore, the file store and the dropped set, and
\* does not leave a non-empty deleteCids running, keeps DelOwner and
\* NoSilentLoss.
LEMMA LossNoDelete ==
    ASSUME LossInv, dstore' = dstore, stored' = stored, dropped' = dropped,
           wphase' # "delete" \/ delSeq' = << >>
    PROVE  DelOwner' /\ NoSilentLoss'
BY DEF LossInv, DelOwner, NoSilentLoss

\* Write starts deleteCids for a once a's CAR file is stored or a is dropped.
LEMMA LossStartDelete ==
    ASSUME LossInv, NEW a \in Ads, a \in stored' \cup dropped',
           dstore' = dstore, stored \subseteq stored', dropped \subseteq dropped',
           delSeq' = WriteDelCids(a) \/ delSeq' = RemoveDelCids(a)
    PROVE  DelOwner' /\ NoSilentLoss'
<1>1. delSeq'[1] = a
  BY ChainAssumption, DelCidsHead, Zenon
<1>2. DelOwner'
  BY <1>1 DEF DelOwner
<1>3. NoSilentLoss'
  BY DEF LossInv, NoSilentLoss
<1>4. QED
  BY <1>2, <1>3

\* One Delete of deleteCids: the CID removed is the advertisement only when
\* it is the last one left, and that advertisement is archived or dropped.
LEMMA LossDeleteCid ==
    ASSUME LossInv, DeleteCid
    PROVE  DelOwner' /\ NoSilentLoss'
<1> DEFINE s == delSeq
           L == Len(s)
           b == s[1]
           cb == ChainOf[b]
<1>1. s \in Seq(Blocks) /\ L \in Nat /\ L >= 1 /\ wphase = "delete"
  BY DEF DeleteCid, LossInv, IInv, TypeOK
<1>2. /\ b \in Ads
      /\ \A j \in 2..L : \E i \in 1..Len(cb) : s[j] = cb[i]
  BY <1>1 DEF LossInv, IInv, DeleteShape, DelShape, DelShapeOf
<1>3. b \in stored \cup dropped
  BY <1>1 DEF LossInv, DelOwner
<1>4. /\ dstore' = dstore \ {s[L]}
      /\ delSeq' = SubSeq(s, 1, L - 1)
      /\ UNCHANGED <<stored, dropped, wphase>>
  BY DEF DeleteCid
<1>5. \A a \in Ads : ChainOf[a] \in Seq(EntryBlocks) /\ a \notin EntryBlocks
  BY ChainAssumption
\* When delCids holds more than the advertisement, its last CID is an entry
\* block, not an advertisement.
<1>6. ASSUME L # 1 PROVE s[L] \notin Ads
  <2>1. L \in 2..L
    BY <1>1, <1>6, NatAboveOne, Zenon
  <2>2. PICK i \in 1..Len(cb) : s[L] = cb[i]
    BY <1>2, <2>1
  <2>3. cb[i] \in EntryBlocks
    BY <1>2, <1>5
  <2>4. QED
    BY <2>2, <2>3, ChainAssumption
<1>7. NoSilentLoss'
  <2> SUFFICES ASSUME NEW a \in Ads PROVE a \in dstore' \/ a \in stored' \/ a \in dropped'
    BY DEF NoSilentLoss
  <2>1. CASE a = s[L]
    <3>1. L = 1
      BY <2>1, <1>6
    <3>2. QED
      BY <1>3, <1>4, <2>1, <3>1
  <2>2. CASE a # s[L]
    BY <1>4, <2>2 DEF LossInv, NoSilentLoss
  <2>3. QED
    BY <2>1, <2>2
<1>8. DelOwner'
  <2> SUFFICES ASSUME delSeq' # << >> PROVE delSeq'[1] \in stored' \cup dropped'
    BY DEF DelOwner
  <2>1. L - 1 >= 1
    BY <1>1, <1>4
  <2>2. delSeq'[1] = b
    BY <1>1, <1>4, <2>1
  <2>3. QED
    BY <1>3, <1>4, <2>2
<1>9. QED
  BY <1>7, <1>8

\* Every step keeps LossInv.
LEMMA LossInvStep == LossInv /\ [Next]_vars => LossInv'
<1> SUFFICES ASSUME LossInv, [Next]_vars PROVE LossInv'
  OBVIOUS
<1>1. IInv'
  BY IInvStep DEF LossInv
<1>2. DelOwner' /\ NoSilentLoss'
  <2>1. CASE WriteExisting
    BY <2>1, LossNoDelete DEF WriteExisting
  <2>2. CASE LoopEnd
    BY <2>2, LossNoDelete DEF LoopEnd
  <2>3. CASE Cancel
    BY <2>3, LossNoDelete DEF Cancel
  <2>4. ASSUME NEW a \in Ads, ArchiveExists(a) PROVE DelOwner' /\ NoSilentLoss'
    BY <2>4, LossStartDelete DEF ArchiveExists
  <2>5. ASSUME NEW a \in Ads, RemoveAdDataPanics(a) PROVE DelOwner' /\ NoSilentLoss'
    BY <2>5, LossStartDelete DEF RemoveAdDataPanics
  <2>6. ASSUME NEW a \in Ads, CarOpenFails(a) PROVE DelOwner' /\ NoSilentLoss'
    BY <2>6, LossNoDelete DEF CarOpenFails, WriteGuard
  <2>7. ASSUME NEW a \in Ads, CarWriteFails(a) PROVE DelOwner' /\ NoSilentLoss'
    BY <2>7, LossNoDelete DEF CarWriteFails
  <2>8. ASSUME NEW a \in Ads, EntriesLoadFails(a) PROVE DelOwner' /\ NoSilentLoss'
    BY <2>8, LossStartDelete DEF EntriesLoadFails
  <2>9. ASSUME NEW a \in Ads, CarStored(a) PROVE DelOwner' /\ NoSilentLoss'
    BY <2>9, LossStartDelete DEF CarStored
  <2>10. CASE DeleteCid
    BY <2>10, LossDeleteCid
  <2>11. CASE WriteReturns
    BY <2>11, LossNoDelete DEF WriteReturns
  <2>12. CASE Crash
    BY <2>12, LossNoDelete DEF Crash
  <2>13. CASE UNCHANGED vars
    BY <2>13 DEF vars, LossInv, DelOwner, NoSilentLoss
  <2>14. CASE PanicUnwound
    BY <2>14, LossNoDelete DEF PanicUnwound
  <2>15. QED
    BY <2>1, <2>2, <2>3, <2>4, <2>5, <2>6, <2>7, <2>8, <2>9, <2>10, <2>11,
       <2>12, <2>13, <2>14 DEF Next, Archiver
<1>3. QED
  BY <1>1, <1>2 DEF LossInv

\* No advertisement ever leaves the staging datastore unless its CAR file is
\* in the file store or Write dropped it for a missing chunk, whatever the
\* chains and however often the daemon crashes: Write Puts the file before
\* deleteCids, deleteCids deletes the advertisement last, and a WriteError
\* deletes nothing.
THEOREM NoSilentLossInvariant == Spec => []NoSilentLoss
<1>1. Init => LossInv
  BY LossInvInit
<1>2. LossInv /\ [Next]_vars => LossInv'
  BY LossInvStep
<1>3. LossInv => NoSilentLoss
  BY DEF LossInv
<1>4. QED
  BY <1>1, <1>2, <1>3, PTL DEF Spec

-----------------------------------------------------------------------------
(* ArchivesAllOrNothing.                                                   *)

\* The file Write stores holds the advertisement and either none or all of
\* its chain: when no chunk load failed, the walk stopped at the start or
\* ran to the end of the chain.
LEMMA CarContentAllOrNothing ==
    ASSUME ChainAssumption, NEW a \in Ads, ~ChunkLoadFails(a)
    PROVE  /\ a \in CarContent(a)
           /\ \/ CarContent(a) \cap EntryBlocks = {}
              \/ CarContent(a) \cap EntryBlocks = {ChainOf[a][i] : i \in 1..Len(ChainOf[a])}
<1> DEFINE c == ChainOf[a]
           k == LoadedPrefix(a)
<1>1. c \in Seq(EntryBlocks) /\ a \notin EntryBlocks
  BY DEF ChainAssumption
<1>2. k \in 0..Len(c)
  BY LoadedPrefixProps
<1>3. k = 0 \/ k = Len(c)
  BY <1>2 DEF ChunkLoadFails
<1>4. CarContent(a) = {a} \cup {c[i] : i \in 1..k}
  BY DEF CarContent
<1>5. CASE k = 0
  <2>1. CarContent(a) = {a}
    BY <1>4, <1>5
  <2>2. QED
    BY <1>1, <2>1
<1>6. CASE k = Len(c)
  <2>1. {c[i] : i \in 1..k} \subseteq EntryBlocks
    BY <1>1, <1>6
  <2>2. QED
    BY <1>1, <1>4, <1>6, <2>1
<1>7. QED
  BY <1>3, <1>4, <1>5, <1>6

\* Only Write's successful path changes the file store: it stores a CAR file
\* for one advertisement, archived already or not (Head may have failed).
LEMMA ArchiveStep ==
    ASSUME TypeOK, [Next]_vars
    PROVE  \/ UNCHANGED <<stored, carBlocks>>
           \/ \E a \in Ads : /\ ~ChunkLoadFails(a)
                             /\ stored' = stored \cup {a}
                             /\ carBlocks' = [carBlocks EXCEPT ![a] = CarContent(a)]
<1>1. ASSUME NEW a \in Ads, CarStored(a)
      PROVE  \E b \in Ads : /\ ~ChunkLoadFails(b)
                            /\ stored' = stored \cup {b}
                            /\ carBlocks' = [carBlocks EXCEPT ![b] = CarContent(b)]
  BY <1>1 DEF CarStored
<1>2. QED
  BY <1>1 DEF Next, Archiver, vars, WriteExisting, LoopEnd, Cancel,
     ArchiveExists, RemoveAdDataPanics, CarOpenFails, CarWriteFails,
     EntriesLoadFails, DeleteCid, WriteReturns, PanicUnwound, Crash

\* Every CAR file holds its advertisement and all of its entry blocks or
\* none, whatever was deleted before a crash: Write stores nothing when a
\* chunk after the first is missing, and a file it rewrites after a Head
\* error is again complete or entry-less.
THEOREM AllOrNothingInvariant == Spec => []ArchivesAllOrNothing
<1> DEFINE AInv == TypeOK /\ ArchivesAllOrNothing
<1>1. Init => AInv
  BY TypeOKInit DEF Init, ArchivesAllOrNothing
<1>2. AInv /\ [Next]_vars => AInv'
  <2> SUFFICES ASSUME TypeOK, ArchivesAllOrNothing, [Next]_vars
               PROVE  TypeOK' /\ ArchivesAllOrNothing'
    OBVIOUS
  <2>1. TypeOK'
    BY TypeOKStep
  <2>2. CASE UNCHANGED <<stored, carBlocks>>
    BY <2>1, <2>2 DEF ArchivesAllOrNothing
  <2>3. ASSUME NEW a \in Ads, ~ChunkLoadFails(a),
               stored' = stored \cup {a},
               carBlocks' = [carBlocks EXCEPT ![a] = CarContent(a)]
        PROVE  ArchivesAllOrNothing'
    <3> SUFFICES ASSUME NEW b \in stored'
                 PROVE  /\ b \in carBlocks'[b]
                        /\ \/ carBlocks'[b] \cap EntryBlocks = {}
                           \/ carBlocks'[b] \cap EntryBlocks =
                                 {ChainOf[b][i] : i \in 1..Len(ChainOf[b])}
      BY DEF ArchivesAllOrNothing
    <3>1. CASE b = a
      <4>1. carBlocks'[b] = CarContent(a)
        BY <2>3, <3>1 DEF TypeOK
      <4>2. QED
        BY <2>3, <3>1, <4>1, ChainAssumption, CarContentAllOrNothing
    <3>2. CASE b # a
      <4>1. b \in stored /\ carBlocks'[b] = carBlocks[b]
        BY <2>3, <3>2 DEF TypeOK
      <4>2. QED
        BY <4>1 DEF ArchivesAllOrNothing
    <3>3. QED
      BY <3>1, <3>2
  <2>4. QED
    BY <2>1, <2>2, <2>3, ArchiveStep
<1>3. QED
  BY <1>1, <1>2, PTL DEF Spec

=============================================================================
