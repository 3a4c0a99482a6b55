--------------------------- MODULE RxStreamProofs ---------------------------
(* The receive stream's counts: the transfers in flight, the tokens of the   *)
(* frames in the ring, and the readers Close() wakes, for any number of      *)
(* buffers, frames and readers.                                              *)
EXTENDS RxStream, SequencesExt, FiniteSetTheorems, SequenceTheorems, WellFoundedInduction, TLAPS

------------------------------------------------------------------------------
(* Sums.  SumFunction folds over the subsets of a domain; what it computes   *)
(* follows by descent: a property that fails for some set and, whenever it   *)
(* fails, fails for a smaller one fails for the empty one.                   *)

Pick(s) == CHOOSE x \in s : TRUE

LEMMA NoBadNumber ==
  ASSUME NEW T \in SUBSET Nat, 0 \notin T, \A n \in T : n - 1 \in T
  PROVE  T = {}
<1>. DEFINE Below == {p \in Nat \X Nat : p[1] < p[2]}
<1>1. IsWellFoundedOn(Below, Nat)
  BY NatLessThanWellFounded, Zenon DEF OpToRel
<1>2. \A k, m \in Nat : k < m <=> <<k, m>> \in Below
  OBVIOUS
<1>. HIDE DEF Below
<1>. SUFFICES ASSUME T # {} PROVE FALSE
  OBVIOUS
<1>3. PICK m \in T : \A k \in T : <<k, m>> \notin Below
  BY <1>1, WFMin
<1>4. m - 1 \in T /\ m - 1 \in Nat /\ m \in Nat
  OBVIOUS
<1>5. m - 1 < m
  BY <1>4
<1>6. <<m - 1, m>> \in Below
  BY <1>2, <1>4, <1>5
<1>. QED
  BY <1>3, <1>4, <1>6

LEMMA NoBadSubset ==
  ASSUME NEW D, IsFiniteSet(D), NEW T \in SUBSET (SUBSET D), {} \notin T,
         \A s \in T : s \ {Pick(s)} \in T
  PROVE  T = {}
<1>. DEFINE Sizes == {n \in Nat : \E s \in T : Cardinality(s) = n}
<1>1. ASSUME NEW s \in SUBSET D, s # {}
      PROVE  /\ Pick(s) \in s /\ s \ {Pick(s)} \in SUBSET D
             /\ Cardinality(s) \in Nat \ {0} /\ Cardinality(s \ {Pick(s)}) = Cardinality(s) - 1
  <2>1. Pick(s) \in s
    BY <1>1 DEF Pick
  <2>2. IsFiniteSet(s)
    BY FS_Subset
  <2>3. Cardinality(s) \in Nat /\ Cardinality(s) # 0
    BY <1>1, <2>2, FS_CardinalityType, FS_EmptySet
  <2>4. Cardinality(s \ {Pick(s)}) = Cardinality(s) - 1
    BY <2>1, <2>2, FS_RemoveElement
  <2>. QED
    BY <2>1, <2>3, <2>4
<1>2. \A s \in T : s # {} /\ s \in SUBSET D
  OBVIOUS
<1>3. 0 \notin Sizes
  BY <1>1, <1>2
<1>4. ASSUME NEW n \in Sizes PROVE n - 1 \in Sizes
  <2>1. PICK s \in T : Cardinality(s) = n
    OBVIOUS
  <2>2. s \ {Pick(s)} \in T
    OBVIOUS
  <2>3. Cardinality(s \ {Pick(s)}) = n - 1 /\ n - 1 \in Nat
    BY <1>1, <1>2, <2>1
  <2>. QED
    BY <2>2, <2>3
<1>5. Sizes = {}
  <2>. HIDE DEF Sizes
  <2>1. Sizes \in SUBSET Nat
    BY DEF Sizes
  <2>. QED
    BY <1>3, <1>4, <2>1, NoBadNumber
<1>6. ASSUME NEW s \in T PROVE FALSE
  <2>1. Cardinality(s) \in Nat
    BY <1>1, <1>2
  <2>2. Cardinality(s) \in Sizes
    BY <2>1
  <2>. QED
    BY <1>5, <2>2
<1>. QED
  BY <1>6

\* A running sum of f over the subsets of its domain.
Sums(g, f) ==
  g = [s \in SUBSET DOMAIN f |-> IF s = {} THEN 0 ELSE f[Pick(s)] + g[s \ {Pick(s)}]]

LEMMA SumUnfolds ==
  ASSUME NEW f, NEW g, g = CHOOSE h : Sums(h, f)
  PROVE  SumFunction(f) = g[DOMAIN f]
BY DEF SumFunction, SumFunctionOnSet, FoldFunctionOnSet, MapThenFoldSet, Sums, Pick

LEMMA SumsExist ==
  ASSUME NEW f, IsFiniteSet(DOMAIN f)
  PROVE  \E g : Sums(g, f)
<1>. DEFINE D == DOMAIN f
            Small(n) == {s \in SUBSET D : Cardinality(s) \leq n}
            Upto(g, n) == g = [s \in Small(n) |->
                                 IF s = {} THEN 0 ELSE f[Pick(s)] + g[s \ {Pick(s)}]]
            T == {n \in Nat : ~ \E g : Upto(g, n)}
<1>1. ASSUME NEW s \in SUBSET D
      PROVE  /\ Cardinality(s) \in Nat /\ Cardinality(s) \leq Cardinality(D)
             /\ Cardinality(s) = 0 => s = {}
             /\ s # {} => /\ s \ {Pick(s)} \in SUBSET D
                          /\ Cardinality(s \ {Pick(s)}) = Cardinality(s) - 1
  <2>1. IsFiniteSet(s) /\ Cardinality(s) \leq Cardinality(D)
    BY FS_Subset
  <2>2. s # {} => Pick(s) \in s
    BY DEF Pick
  <2>. QED
    BY <2>1, <2>2, FS_RemoveElement, FS_CardinalityType, FS_EmptySet
<1>2. 0 \notin T
  <2>. DEFINE z == [s \in Small(0) |-> 0]
  <2>1. ASSUME NEW s \in Small(0) PROVE s = {}
    <3>1. Cardinality(s) \in Nat /\ Cardinality(s) \leq 0 /\ (Cardinality(s) = 0 => s = {})
      BY <1>1
    <3>. QED
      BY <3>1
  <2>2. Upto(z, 0)
    BY <2>1
  <2>. QED
    BY <2>2
<1>3. ASSUME NEW n \in T PROVE n - 1 \in T
  <2>1. n \in Nat
    OBVIOUS
  <2>2. n # 0
    BY <1>2
  <2>3. n - 1 \in Nat
    BY <2>1, <2>2
  <2>. SUFFICES ASSUME NEW g, Upto(g, n - 1) PROVE \E h : Upto(h, n)
    <3>1. ~ \E h : Upto(h, n)
      OBVIOUS
    <3>. HIDE DEF Upto
    <3>. QED
      BY <2>3, <3>1
  <2>. DEFINE h == [s \in Small(n) |-> IF s = {} THEN 0 ELSE f[Pick(s)] + g[s \ {Pick(s)}]]
  <2>4. ASSUME NEW s \in Small(n), s # {} PROVE h[s \ {Pick(s)}] = g[s \ {Pick(s)}]
    <3>1. s \ {Pick(s)} \in Small(n - 1) /\ s \ {Pick(s)} \in Small(n)
      BY <1>1, <2>4
    <3>. QED
      BY <3>1
  <2>5. Upto(h, n)
    BY <2>4
  <2>. QED
    BY <2>5
<1>4. T = {}
  <2>. HIDE DEF T
  <2>1. T \in SUBSET Nat
    BY DEF T
  <2>. QED
    BY <1>2, <1>3, <2>1, NoBadNumber
<1>5. Cardinality(D) \in Nat /\ Small(Cardinality(D)) = SUBSET D
  BY <1>1
<1>6. PICK g : Upto(g, Cardinality(D))
  BY <1>4, <1>5
<1>7. Sums(g, f)
  BY <1>5, <1>6 DEF Sums
<1>. QED
  BY <1>7

\* The sum of a function of integers: what its running sums are.
Running(g, D, f) ==
  /\ g \in [SUBSET D -> Int] /\ SumFunction(f) = g[D] /\ g[{}] = 0
  /\ \A s \in SUBSET D : s # {} => /\ Pick(s) \in s
                                   /\ g[s] = f[Pick(s)] + g[s \ {Pick(s)}]

LEMMA SumIs ==
  ASSUME NEW D, IsFiniteSet(D), NEW f \in [D -> Int]
  PROVE  \E g : Running(g, D, f)
<1>1. DOMAIN f = D
  OBVIOUS
<1>2. PICK g : g = CHOOSE h : Sums(h, f)
  OBVIOUS
<1>3. Sums(g, f)
  BY <1>1, <1>2, SumsExist
<1>4. SumFunction(f) = g[D]
  BY <1>1, <1>2, SumUnfolds
<1>5. /\ DOMAIN g = SUBSET D /\ g = [s \in SUBSET D |-> g[s]] /\ g[{}] = 0
      /\ \A s \in SUBSET D : s # {} => /\ Pick(s) \in s
                                       /\ g[s] = f[Pick(s)] + g[s \ {Pick(s)}]
  <2>1. \A s \in SUBSET D : s # {} => Pick(s) \in s
    BY DEF Pick
  <2>. QED
    BY <1>1, <1>3, <2>1 DEF Sums
<1>6. \A s \in SUBSET D : g[s] \in Int
  <2>. DEFINE T == {s \in SUBSET D : g[s] \notin Int}
  <2>1. {} \notin T
    BY <1>5
  <2>2. ASSUME NEW s \in T PROVE s \ {Pick(s)} \in T
    <3>1. s \in SUBSET D /\ s # {} /\ g[s] \notin Int
      BY <2>1
    <3>2. g[s] = f[Pick(s)] + g[s \ {Pick(s)}] /\ f[Pick(s)] \in Int
      BY <1>5, <3>1
    <3>3. g[s \ {Pick(s)}] \notin Int
      BY <3>1, <3>2
    <3>. QED
      BY <3>1, <3>3
  <2>3. T = {}
    <3>. HIDE DEF T
    <3>1. T \in SUBSET (SUBSET D)
      BY DEF T
    <3>. QED
      BY <2>1, <2>2, <3>1, NoBadSubset
  <2>. QED
    BY <2>3
<1>. QED
  BY <1>4, <1>5, <1>6 DEF Running

\* Sums differ by what one argument differs by.
LEMMA SumChanges ==
  ASSUME NEW D, IsFiniteSet(D), NEW f \in [D -> Int], NEW b \in D, NEW n \in Int
  PROVE  SumFunction([f EXCEPT ![b] = n]) = SumFunction(f) + n - f[b]
<1>. DEFINE e == [f EXCEPT ![b] = n]
<1>0. e \in [D -> Int] /\ e[b] = n /\ \A x \in D \ {b} : e[x] = f[x]
  OBVIOUS
<1>. HIDE DEF e
<1>1. PICK g : Running(g, D, f)
  BY SumIs
<1>2. PICK h : Running(h, D, e)
  BY <1>0, SumIs
<1>. DEFINE T == {s \in SUBSET D : h[s] # g[s] + (IF b \in s THEN n - f[b] ELSE 0)}
<1>3. {} \notin T
  BY <1>1, <1>2 DEF Running
<1>4. ASSUME NEW s \in T PROVE s \ {Pick(s)} \in T
  <2>. SUFFICES ASSUME s \ {Pick(s)} \notin T PROVE FALSE
    OBVIOUS
  <2>. DEFINE x == Pick(s)
              u == s \ {x}
  <2>1. /\ s \in SUBSET D /\ s # {} /\ x \in s /\ x \in D /\ u \in SUBSET D
        /\ g[s] = f[x] + g[u] /\ h[s] = e[x] + h[u]
    BY <1>1, <1>2, <1>3 DEF Running
  <2>2. /\ h[s] # g[s] + (IF b \in s THEN n - f[b] ELSE 0)
        /\ h[u] = g[u] + (IF b \in u THEN n - f[b] ELSE 0)
    BY <2>1
  <2>3. /\ g[s] \in Int /\ g[u] \in Int /\ h[s] \in Int /\ h[u] \in Int /\ f[x] \in Int
        /\ e[x] \in Int /\ f[b] \in Int
    BY <1>0, <1>1, <1>2, <2>1 DEF Running
  <2>4. u = s \ {x}
    OBVIOUS
  <2>. HIDE DEF T, x, u
  <2>5. CASE x = b
    <3>1. b \in s /\ b \notin u
      BY <2>1, <2>4, <2>5
    <3>. QED
      BY <1>0, <2>1, <2>2, <2>3, <2>5, <3>1
  <2>6. CASE x # b
    <3>1. b \in s <=> b \in u
      BY <2>4, <2>6
    <3>2. e[x] = f[x]
      BY <1>0, <2>1, <2>6
    <3>. QED
      BY <2>1, <2>2, <2>3, <3>1, <3>2
  <2>. QED
    BY <2>5, <2>6
<1>5. T = {}
  <2>. HIDE DEF T
  <2>1. T \in SUBSET (SUBSET D)
    BY DEF T
  <2>. QED
    BY <1>3, <1>4, <2>1, NoBadSubset
<1>6. h[D] = g[D] + (n - f[b])
  BY <1>5
<1>. QED
  BY <1>0, <1>1, <1>2, <1>6 DEF e, Running

\* Zeros sum to zero, and ones to how many they are.
LEMMA SumConstant ==
  ASSUME NEW D, IsFiniteSet(D), NEW n \in {0, 1}
  PROVE  SumFunction([x \in D |-> n]) = n * Cardinality(D)
<1>. DEFINE f == [x \in D |-> n]
<1>1. f \in [D -> Int] /\ \A x \in D : f[x] = n
  OBVIOUS
<1>. HIDE DEF f
<1>2. PICK g : Running(g, D, f)
  BY <1>1, SumIs
<1>. DEFINE T == {s \in SUBSET D : g[s] # n * Cardinality(s)}
<1>3. {} \notin T
  BY <1>2, FS_EmptySet DEF Running
<1>4. ASSUME NEW s \in T PROVE s \ {Pick(s)} \in T
  <2>. SUFFICES ASSUME s \ {Pick(s)} \notin T PROVE FALSE
    OBVIOUS
  <2>1. /\ s \in SUBSET D /\ Pick(s) \in s
        /\ g[s] = f[Pick(s)] + g[s \ {Pick(s)}] /\ f[Pick(s)] = n
        /\ g[s] # n * Cardinality(s) /\ g[s \ {Pick(s)}] = n * Cardinality(s \ {Pick(s)})
    BY <1>1, <1>2, <1>3 DEF Running
  <2>2. IsFiniteSet(s)
    BY <2>1, FS_Subset
  <2>3. Cardinality(s) \in Nat /\ Cardinality(s \ {Pick(s)}) = Cardinality(s) - 1
    BY <2>1, <2>2, FS_RemoveElement, FS_CardinalityType
  <2>. HIDE DEF T
  <2>4. CASE n = 0
    BY <2>1, <2>3, <2>4
  <2>5. CASE n = 1
    BY <2>1, <2>3, <2>5
  <2>. QED
    BY <2>4, <2>5
<1>5. T = {}
  <2>. HIDE DEF T
  <2>1. T \in SUBSET (SUBSET D)
    BY DEF T
  <2>. QED
    BY <1>3, <1>4, <2>1, NoBadSubset
<1>. QED
  BY <1>2, <1>5 DEF f, Running

LEMMA BufferSums ==
  /\ IsFiniteSet(BufferIds) /\ Cardinality(BufferIds) = Buffers
  /\ SumFunction([b \in BufferIds |-> 0]) = 0
  /\ SumFunction([b \in BufferIds |-> 1]) = Buffers
  /\ \A q \in [BufferIds -> Nat] : SumFunction(q) \in Int
  /\ \A q \in [BufferIds -> Nat], b \in BufferIds, n \in Int :
       SumFunction([q EXCEPT ![b] = n]) = SumFunction(q) + n - q[b]
<1>1. IsFiniteSet(BufferIds) /\ Cardinality(BufferIds) = Buffers
  <2>1. /\ IsFiniteSet(0 .. Buffers - 1)
        /\ Cardinality(0 .. Buffers - 1) = IF 0 > Buffers - 1 THEN 0 ELSE Buffers - 1 - 0 + 1
    BY RxStreamAssumption, FS_Interval
  <2>. QED
    BY <2>1, RxStreamAssumption DEF BufferIds
<1>2. \A q \in [BufferIds -> Nat] : q \in [BufferIds -> Int]
  OBVIOUS
<1>3. ASSUME NEW q \in [BufferIds -> Nat] PROVE SumFunction(q) \in Int
  <2>1. PICK g : Running(g, BufferIds, q)
    BY <1>1, <1>2, SumIs
  <2>. QED
    BY <2>1 DEF Running
<1>4. SumFunction([b \in BufferIds |-> 0]) = 0 * Buffers /\ SumFunction([b \in BufferIds |-> 1]) = 1 * Buffers
  BY <1>1, SumConstant
<1>. QED
  BY <1>1, <1>2, <1>3, <1>4, SumChanges, RxStreamAssumption

LEMMA OneChanges ==
  ASSUME NEW q \in [BufferIds -> Nat], NEW b \in BufferIds, NEW n \in Nat
  PROVE  SumFunction([q EXCEPT ![b] = n]) = SumFunction(q) + n - q[b]
<1>1. n \in Int
  OBVIOUS
<1>. QED
  BY <1>1, BufferSums

------------------------------------------------------------------------------
(* The inductive invariant.                                                *)

\* Where the thread that opens and closes the device is says what it has set.
Places ==
  /\ control = "cancel" => attempts > 0
  /\ control = "count" => next < Buffers
  /\ control \in {"start", "submit", "count"} => ~closing
  /\ control \in {"closing", "release"} => closing
  /\ ~closed => control = "idle" /\ ~closing

\* The semaphore's queue: a reader is in it once, and only while it waits; and
\* with anybody in it there is no token left.
Waiting ==
  /\ \A i \in DOMAIN parked : reader[parked[i]] = "parked"
  /\ \A i, j \in DOMAIN parked : parked[i] = parked[j] => i = j
  /\ parked # <<>> => sem = 0

Number(where) == Cardinality(ReadersAt(where))

Registered == {"registered", "parked", "woken", "interrupted"}
Holding    == {"woken", "dequeue"}
Unserved   == {"checked", "registered", "parked"}

\* fBlockedReaders counts the readers between its increment and its decrement.
Counted == blocked = Number(Registered)

\* Nobody passes the check of fClosing any more, so Close() has a token for
\* each reader who has yet to get one, but for the late ones.
Served ==
  /\ control = "release" => Number(Unserved) <= permits + Cardinality(late)
  /\ closing /\ control \in {"idle", "stop", "cancel", "drain"} =>
       Number(Unserved) <= sem + Cardinality(late) + (IF usbPc = "signal" THEN 1 ELSE 0)

RInv == /\ TypeOK /\ Places /\ Waiting /\ Counted
        /\ InFlightExact /\ FramesHaveTokens /\ Served

------------------------------------------------------------------------------
(* The readers.                                                            *)

ReaderPlaces == {"out", "checked", "registered", "parked", "woken", "interrupted", "dequeue"}

LEMMA Numbers ==
  ASSUME NEW W
  PROVE  /\ ReadersAt(W) \in SUBSET Readers /\ IsFiniteSet(ReadersAt(W))
         /\ Number(W) \in Nat /\ Number(W)' \in Nat
         /\ Number(W)' \in 0 .. Cardinality(Readers)
<1>1. ReadersAt(W) \in SUBSET Readers /\ ReadersAt(W)' \in SUBSET Readers
  BY DEF ReadersAt
<1>2. IsFiniteSet(Readers)
  BY RxStreamAssumption
<1>3. \A S \in SUBSET Readers : IsFiniteSet(S) /\ Cardinality(S) \in 0 .. Cardinality(Readers)
  BY <1>2, FS_Subset, FS_CardinalityType
<1>. QED
  BY <1>1, <1>3 DEF Number

\* One reader goes on.
LEMMA ReaderMoves ==
  ASSUME reader \in [Readers -> ReaderPlaces], NEW r \in Readers, NEW from, NEW to \in ReaderPlaces,
         ReaderAt(r, from, to), NEW W
  PROVE  Number(W)' = Number(W) + (IF to \in W THEN 1 ELSE 0) - (IF from \in W THEN 1 ELSE 0)
<1>1. /\ reader[r] = from /\ reader'[r] = to
      /\ \A q \in Readers \ {r} : reader'[q] = reader[q]
  BY DEF ReaderAt
<1>2. ReadersAt(W)' = IF to \in W THEN ReadersAt(W) \cup {r} ELSE ReadersAt(W) \ {r}
  BY <1>1 DEF ReadersAt
<1>3. r \in ReadersAt(W) <=> from \in W
  BY <1>1 DEF ReadersAt
<1>4. IsFiniteSet(ReadersAt(W)) /\ Number(W) \in Nat
  BY Numbers
<1>5. /\ Cardinality(ReadersAt(W) \cup {r}) =
           IF r \in ReadersAt(W) THEN Number(W) ELSE Number(W) + 1
      /\ Cardinality(ReadersAt(W) \ {r}) =
           IF r \in ReadersAt(W) THEN Number(W) - 1 ELSE Number(W)
  BY <1>4, FS_AddElement, FS_RemoveElement DEF Number
<1>. QED
  BY <1>2, <1>3, <1>4, <1>5 DEF Number

LEMMA ReadersStay ==
  ASSUME UNCHANGED reader, NEW W
  PROVE  Number(W)' = Number(W)
BY DEF Number, ReadersAt

\* Release(n) wakes the n readers that have waited longest, or all, and leaves
\* what is over in the semaphore.
LEMMA Released ==
  ASSUME TypeOK, Waiting, NEW n \in Nat, Release(n)
  PROVE  \E w \in 0 .. Len(parked) :
           /\ w <= n /\ (w < n => w = Len(parked))
           /\ sem' = sem + n - w /\ sem' \in Nat
           /\ parked' \in Seq(Readers) /\ reader' \in [Readers -> ReaderPlaces] /\ Waiting'
           /\ \A W : Number(W)' = Number(W) + (IF "woken" \in W THEN w ELSE 0)
                                            - (IF "parked" \in W THEN w ELSE 0)
<1>1. /\ Len(parked) \in Nat /\ DOMAIN parked = 1 .. Len(parked) /\ sem \in Nat
      /\ reader \in [Readers -> ReaderPlaces] /\ \A i \in DOMAIN parked : parked[i] \in Readers
  <2>1. parked \in Seq(Readers) /\ sem \in Nat /\ reader \in [Readers -> ReaderPlaces]
    BY DEF TypeOK, ReaderPlaces
  <2>. QED
    BY <2>1
<1>2. PICK w \in 0 .. Len(parked) :
        /\ w = Smaller(n, Len(parked))
        /\ w <= n /\ (w < n => w = Len(parked))
  <2>1. \A k, m \in Nat : /\ Smaller(k, m) \in 0 .. m /\ Smaller(k, m) <= k
                          /\ Smaller(k, m) < k => Smaller(k, m) = m
    BY DEF Smaller
  <2>2. /\ Smaller(n, Len(parked)) \in 0 .. Len(parked) /\ Smaller(n, Len(parked)) <= n
        /\ Smaller(n, Len(parked)) < n => Smaller(n, Len(parked)) = Len(parked)
    BY <1>1, <2>1
  <2>. QED
    BY <2>2
<1>. DEFINE K == {parked[i] : i \in 1 .. w}
<1>3. /\ parked' = SubSeq(parked, w + 1, Len(parked)) /\ sem' = sem + n - w
      /\ reader' = [r \in Readers |-> IF r \in K THEN "woken" ELSE reader[r]]
  BY <1>2 DEF Release
<1>4. sem' \in Nat /\ reader' \in [Readers -> ReaderPlaces]
  BY <1>1, <1>2, <1>3 DEF ReaderPlaces
<1>5. /\ parked' \in Seq(Readers) /\ Len(parked') = Len(parked) - w
      /\ DOMAIN parked' = 1 .. Len(parked) - w
      /\ \A i \in DOMAIN parked' : i + w \in DOMAIN parked /\ parked'[i] = parked[i + w]
  <2>1. w + 1 \in Int /\ Len(parked) \in Int /\ \A i \in w + 1 .. Len(parked) : parked[i] \in Readers
    BY <1>1, <1>2
  <2>2. /\ parked' \in Seq(Readers)
        /\ Len(parked') = IF w + 1 <= Len(parked) THEN Len(parked) - (w + 1) + 1 ELSE 0
        /\ \A i \in 1 .. Len(parked) - (w + 1) + 1 : parked'[i] = parked[(w + 1) + i - 1]
    BY <1>3, <2>1, SubSeqProperties
  <2>3. Len(parked') = Len(parked) - w
    BY <1>1, <1>2, <2>2
  <2>4. DOMAIN parked' = 1 .. Len(parked) - w
    BY <2>2, <2>3
  <2>5. ASSUME NEW i \in 1 .. Len(parked) - w
        PROVE  i + w \in DOMAIN parked /\ parked'[i] = parked[i + w]
    <3>1. /\ i \in 1 .. Len(parked) - (w + 1) + 1 /\ (w + 1) + i - 1 = i + w
          /\ i + w \in 1 .. Len(parked)
      BY <1>1, <1>2
    <3>. QED
      BY <1>1, <2>2, <3>1
  <2>. QED
    BY <2>2, <2>3, <2>4, <2>5
<1>6. K \in SUBSET Readers /\ \A r \in K : reader[r] = "parked"
  BY <1>1, <1>2 DEF Waiting
<1>7. IsFiniteSet(K) /\ Cardinality(K) = w
  <2>. DEFINE f == [i \in 1 .. w |-> parked[i]]
  <2>1. f \in Bijection(1 .. w, K)
    <3>1. f \in [1 .. w -> K] /\ \A k \in K : \E i \in 1 .. w : f[i] = k
      OBVIOUS
    <3>2. \A i, j \in 1 .. w : f[i] = f[j] => i = j
      BY <1>1, <1>2 DEF Waiting
    <3>. QED
      BY <3>1, <3>2 DEF Bijection, Injection, Surjection, IsInjective
  <2>2. ExistsBijection(1 .. w, K)
    BY <2>1 DEF ExistsBijection
  <2>3. IsFiniteSet(1 .. w)
    BY <1>2, FS_Interval
  <2>. QED
    BY <1>2, <2>2, <2>3, FS_CountingElements, FS_Bijection
<1>8. Waiting'
  <2>1. ASSUME NEW i \in DOMAIN parked' PROVE reader'[parked'[i]] = "parked"
    <3>1. reader[parked[i + w]] = "parked" /\ parked[i + w] \in Readers
      BY <1>1, <1>5 DEF Waiting
    <3>2. parked[i + w] \notin K
      <4>. SUFFICES ASSUME NEW k \in 1 .. w, parked[k] = parked[i + w] PROVE FALSE
        OBVIOUS
      <4>1. k \in DOMAIN parked /\ i + w \in DOMAIN parked /\ i \in 1 .. Len(parked) - w
        BY <1>1, <1>2, <1>5
      <4>2. k = i + w
        BY <4>1 DEF Waiting
      <4>. QED
        BY <1>1, <1>2, <4>1, <4>2
    <3>. QED
      BY <1>3, <1>5, <3>1, <3>2
  <2>2. ASSUME NEW i \in DOMAIN parked', NEW j \in DOMAIN parked', parked'[i] = parked'[j]
        PROVE  i = j
    <3>1. i + w = j + w
      BY <1>5, <2>2 DEF Waiting
    <3>. QED
      BY <1>2, <1>5, <3>1
  <2>3. parked' # <<>> => sem' = 0
    <3>. SUFFICES ASSUME parked' # <<>> PROVE sem' = 0
      OBVIOUS
    <3>1. Len(parked) - w # 0
      BY <1>5
    <3>2. w = n /\ parked # <<>>
      BY <1>1, <1>2, <3>1
    <3>. QED
      BY <1>1, <1>3, <3>2 DEF Waiting
  <2>. QED
    BY <2>1, <2>2, <2>3 DEF Waiting
<1>9. ASSUME NEW W
      PROVE  Number(W)' = Number(W) + (IF "woken" \in W THEN w ELSE 0)
                                    - (IF "parked" \in W THEN w ELSE 0)
  <2>. DEFINE A == ReadersAt(W)
  <2>1. IsFiniteSet(A) /\ Cardinality(A) \in Nat /\ Number(W) = Cardinality(A)
    BY Numbers DEF Number
  <2>2. ReadersAt(W)' = IF "woken" \in W THEN A \cup K ELSE A \ K
    BY <1>1, <1>3, <1>6 DEF ReadersAt
  <2>3. A \cap K = IF "parked" \in W THEN K ELSE {}
    BY <1>6 DEF ReadersAt
  <2>. HIDE DEF A, K
  <2>4. /\ Cardinality(A \cup K) = Cardinality(A) + Cardinality(K) - Cardinality(A \cap K)
        /\ Cardinality(A \ K) = Cardinality(A) - Cardinality(A \cap K)
    BY <1>7, <2>1, FS_Union, FS_Difference
  <2>5. Cardinality(A \cap K) = IF "parked" \in W THEN w ELSE 0
    BY <1>7, <2>3, FS_EmptySet
  <2>. QED
    BY <1>2, <1>7, <2>1, <2>2, <2>4, <2>5 DEF Number
<1>. QED
  BY <1>2, <1>3, <1>4, <1>5, <1>8, <1>9

\* The three counts as one reader goes on.
LEMMA CountsMove ==
  ASSUME TypeOK, NEW r \in Readers, NEW from \in ReaderPlaces, NEW to \in ReaderPlaces,
         ReaderAt(r, from, to)
  PROVE  /\ reader' \in [Readers -> ReaderPlaces]
         /\ \A W \in {Registered, Holding, Unserved} :
              Number(W)' = Number(W) + (IF to \in W THEN 1 ELSE 0) - (IF from \in W THEN 1 ELSE 0)
<1>1. reader \in [Readers -> ReaderPlaces]
  BY DEF TypeOK, ReaderPlaces
<1>2. ASSUME NEW W
      PROVE  Number(W)' = Number(W) + (IF to \in W THEN 1 ELSE 0) - (IF from \in W THEN 1 ELSE 0)
  BY <1>1, ReaderMoves
<1>. QED
  BY <1>1, <1>2 DEF ReaderAt

\* A reader that does not wait for the semaphore leaves its queue alone.
LEMMA WaitingStays ==
  ASSUME TypeOK, Waiting, NEW r \in Readers, NEW from, NEW to, ReaderAt(r, from, to),
         from # "parked", UNCHANGED parked, parked # <<>> => sem' = 0
  PROVE  Waiting'
<1>1. ASSUME NEW i \in DOMAIN parked PROVE reader'[parked[i]] = "parked"
  <2>1. reader[parked[i]] = "parked" /\ parked[i] \in Readers
    BY DEF Waiting, TypeOK
  <2>. QED
    BY <2>1 DEF ReaderAt, TypeOK
<1>. QED
  BY <1>1 DEF Waiting

\* A sequence without its i-th element.
LEMMA Without ==
  ASSUME NEW S, NEW s \in Seq(S), NEW i \in 1 .. Len(s)
  PROVE  /\ RemoveAt(s, i) \in Seq(S) /\ Len(RemoveAt(s, i)) = Len(s) - 1
         /\ \A j \in 1 .. Len(s) - 1 : RemoveAt(s, i)[j] = s[IF j < i THEN j ELSE j + 1]
<1>. DEFINE a == SubSeq(s, 1, i - 1)
            b == SubSeq(s, i + 1, Len(s))
<1>1. Len(s) \in Nat \ {0} /\ i \in 1 .. Len(s) /\ \A j \in 1 .. Len(s) : s[j] \in S
  OBVIOUS
<1>2. a \in Seq(S) /\ Len(a) = i - 1 /\ \A j \in 1 .. i - 1 : a[j] = s[j]
  <2>1. \A j \in 1 .. i - 1 : s[j] \in S
    BY <1>1
  <2>2. /\ a \in Seq(S) /\ Len(a) = IF 1 <= i - 1 THEN i - 1 - 1 + 1 ELSE 0
        /\ \A j \in 1 .. i - 1 - 1 + 1 : a[j] = s[1 + j - 1]
    BY <2>1, <1>1, SubSeqProperties
  <2>. HIDE DEF a
  <2>. QED
    BY <1>1, <2>2
<1>3. b \in Seq(S) /\ Len(b) = Len(s) - i /\ \A j \in 1 .. Len(s) - i : b[j] = s[i + j]
  <2>1. \A j \in i + 1 .. Len(s) : s[j] \in S
    BY <1>1
  <2>2. /\ b \in Seq(S) /\ Len(b) = IF i + 1 <= Len(s) THEN Len(s) - (i + 1) + 1 ELSE 0
        /\ \A j \in 1 .. Len(s) - (i + 1) + 1 : b[j] = s[(i + 1) + j - 1]
    BY <2>1, <1>1, SubSeqProperties
  <2>. HIDE DEF b
  <2>. QED
    BY <1>1, <2>2
<1>4. RemoveAt(s, i) = a \o b
  BY DEF RemoveAt
<1>. HIDE DEF a, b
<1>5. /\ a \o b \in Seq(S) /\ Len(a \o b) = Len(a) + Len(b)
      /\ \A j \in 1 .. Len(a) + Len(b) : (a \o b)[j] = IF j <= Len(a) THEN a[j] ELSE b[j - Len(a)]
  BY <1>2, <1>3, ConcatProperties
<1>6. ASSUME NEW j \in 1 .. Len(s) - 1
      PROVE  (a \o b)[j] = s[IF j < i THEN j ELSE j + 1]
  <2>1. j \in 1 .. Len(a) + Len(b)
    BY <1>1, <1>2, <1>3
  <2>2. CASE j < i
    <3>1. j <= Len(a) /\ j \in 1 .. i - 1
      BY <1>1, <1>2, <2>2
    <3>. QED
      BY <1>2, <1>5, <2>1, <2>2, <3>1
  <2>3. CASE ~(j < i)
    <3>1. j - Len(a) \in 1 .. Len(s) - i /\ i + (j - Len(a)) = j + 1 /\ ~(j <= Len(a))
      BY <1>1, <1>2, <2>3
    <3>2. (a \o b)[j] = b[j - Len(a)]
      BY <1>5, <2>1, <3>1
    <3>3. b[j - Len(a)] = s[i + (j - Len(a))]
      BY <1>3, <3>1
    <3>. QED
      BY <2>3, <3>1, <3>2, <3>3
  <2>. QED
    BY <2>2, <2>3
<1>. QED
  BY <1>1, <1>2, <1>3, <1>4, <1>5, <1>6

------------------------------------------------------------------------------
(* Read() keeps the invariant.                                             *)

\* What all of its steps have in common.
LEMMA ReaderKeeps ==
  ASSUME RInv, NEW r \in Readers, NEW from \in ReaderPlaces, NEW to \in ReaderPlaces,
         ReaderAt(r, from, to),
         UNCHANGED <<running, inFlight, queued, usbPc, usbBuf, closing, control, permits, next,
                     attempts, closed, late, frames, errors, closes>>,
         ring' \in 0 .. RingSlots - 1, sem' \in Nat, parked' \in Seq(Readers), Waiting',
         blocked' = blocked + (IF to \in Registered THEN 1 ELSE 0)
                            - (IF from \in Registered THEN 1 ELSE 0),
         to \in Unserved => from \in Unserved \/ ~closing,
         sem' = sem \/ (from \in Unserved /\ to \in Holding /\ sem' = sem - 1),
         ~closing => IF from \in Holding /\ to \notin Holding THEN ring' \in {0, ring - 1}
                     ELSE ring' = ring
  PROVE  RInv'
<1>. TypeOK
  BY DEF RInv
<1>1. /\ reader' \in [Readers -> ReaderPlaces]
      /\ Number(Registered)' = Number(Registered) + (IF to \in Registered THEN 1 ELSE 0)
                                                  - (IF from \in Registered THEN 1 ELSE 0)
      /\ Number(Holding)' = Number(Holding) + (IF to \in Holding THEN 1 ELSE 0)
                                            - (IF from \in Holding THEN 1 ELSE 0)
      /\ Number(Unserved)' = Number(Unserved) + (IF to \in Unserved THEN 1 ELSE 0)
                                              - (IF from \in Unserved THEN 1 ELSE 0)
  BY CountsMove
<1>2. /\ Number(Registered) \in Nat /\ Number(Holding) \in Nat /\ Number(Unserved) \in Nat
      /\ Number(Registered)' \in 0 .. Cardinality(Readers) /\ Number(Holding)' \in Nat
  BY Numbers
<1>3. Cardinality(late) \in Nat
  BY RxStreamAssumption, FS_Subset, FS_CardinalityType DEF TypeOK
<1>4. Counted'
  BY <1>1 DEF RInv, Counted
<1>5. TypeOK'
  BY <1>1, <1>2, <1>4 DEF TypeOK, Counted, ReaderPlaces
<1>6. Places' /\ InFlightExact'
  BY DEF RInv, Places, InFlightExact
<1>7. FramesHaveTokens'
  <2>. SUFFICES ASSUME ~closed
                PROVE  ring' <= sem' + Number(Holding)' + (IF usbPc = "signal" THEN 1 ELSE 0)
    BY DEF FramesHaveTokens, Number, Holding
  <2>1. /\ ring <= sem + Number(Holding) + (IF usbPc = "signal" THEN 1 ELSE 0)
        /\ ~closing /\ ring \in Nat /\ sem \in Nat /\ ring' \in Nat
    <3>1. ring <= sem + Number(Holding) + (IF usbPc = "signal" THEN 1 ELSE 0) /\ ~closing
      BY DEF RInv, FramesHaveTokens, Places, Number, Holding
    <3>2. ring \in Nat /\ sem \in Nat /\ ring' \in Nat
      BY RxStreamAssumption DEF TypeOK
    <3>. QED
      BY <3>1, <3>2
  <2>2. PICK d \in {0, 1} : d = IF usbPc = "signal" THEN 1 ELSE 0
    OBVIOUS
  <2>3. CASE from \in Holding /\ to \notin Holding
    <3>1. sem' = sem /\ ring' \in {0, ring - 1} /\ Number(Holding)' = Number(Holding) - 1
      BY <1>1, <1>2, <2>1, <2>3 DEF Holding, Unserved
    <3>. QED
      BY <1>2, <2>1, <2>2, <3>1, SMTT(30)
  <2>4. CASE ~(from \in Holding /\ to \notin Holding)
    <3>1. ring' = ring
      BY <2>1, <2>4
    <3>2. \/ sem' = sem /\ Number(Holding)' >= Number(Holding)
          \/ sem' = sem - 1 /\ Number(Holding)' = Number(Holding) + 1
      BY <1>1, <1>2, <2>4, SMTT(30) DEF Holding, Unserved
    <3>. QED
      BY <1>2, <2>1, <2>2, <3>1, <3>2, SMTT(30)
  <2>. QED
    BY <2>3, <2>4
<1>8. Served'
  <2>1. PICK t \in {0, 1}, f \in {0, 1}, d \in {0, 1} :
          /\ t = IF to \in Unserved THEN 1 ELSE 0
          /\ f = IF from \in Unserved THEN 1 ELSE 0
          /\ d = IF usbPc = "signal" THEN 1 ELSE 0
    OBVIOUS
  <2>2. /\ Number(Unserved)' = Number(Unserved) + t - f /\ (closing => t <= f)
        /\ sem' = sem \/ (f = 1 /\ t = 0 /\ sem' = sem - 1)
    BY <1>1, <2>1 DEF Holding, Unserved
  <2>3. permits \in Nat /\ sem \in Nat
    BY DEF TypeOK
  <2>4. control = "release" => Number(Unserved)' <= permits + Cardinality(late)
    <3>1. control = "release" => closing /\ Number(Unserved) <= permits + Cardinality(late)
      BY DEF RInv, Served, Places
    <3>. QED
      BY <1>2, <1>3, <2>2, <2>3, <3>1
  <2>5. closing /\ control \in {"idle", "stop", "cancel", "drain"} =>
          Number(Unserved)' <= sem' + Cardinality(late) + d
    <3>1. closing /\ control \in {"idle", "stop", "cancel", "drain"} =>
            Number(Unserved) <= sem + Cardinality(late) + d
      BY <2>1 DEF RInv, Served
    <3>2. SUFFICES ASSUME closing, control \in {"idle", "stop", "cancel", "drain"}
                   PROVE  Number(Unserved)' <= sem' + Cardinality(late) + d
      OBVIOUS
    <3>3. CASE sem' = sem
      <4>1. Number(Unserved)' <= Number(Unserved)
        BY <1>2, <2>2, <3>2
      <4>. QED
        BY <1>2, <1>3, <2>2, <2>3, <3>1, <3>2, <3>3, <4>1
    <3>4. CASE f = 1 /\ t = 0 /\ sem' = sem - 1
      <4>1. Number(Unserved)' = Number(Unserved) - 1
        BY <1>2, <2>2, <3>4
      <4>. QED
        BY <1>2, <1>3, <2>3, <3>1, <3>2, <3>4, <4>1, SMTT(30)
    <3>. QED
      BY <2>2, <3>3, <3>4
  <2>. QED
    BY <2>1, <2>4, <2>5 DEF Served
<1>. QED
  BY <1>4, <1>5, <1>6, <1>7, <1>8 DEF RInv

LEMMA ReadKeeps ==
  ASSUME RInv, NEW r \in Readers, Read(r)
  PROVE  RInv'
<1>. TypeOK /\ Waiting
  BY DEF RInv
<1>. USE DEF loopVars, usbVars, controlVars, boundVars
<1>1. /\ ring \in 0 .. RingSlots - 1 /\ sem \in Nat /\ parked \in Seq(Readers) /\ blocked \in Nat
      /\ RingSlots \in Nat
  BY RxStreamAssumption, FS_CardinalityType DEF TypeOK
<1>2. CASE ReadCheck(r)
  <2>1. ReaderAt(r, "out", "checked") /\ ~closing /\ UNCHANGED <<ring, sem, parked, blocked>>
    BY <1>2 DEF ReadCheck
  <2>2. Waiting'
    BY <2>1, WaitingStays DEF Waiting
  <2>. QED
    BY <1>1, <1>2, <2>1, <2>2, ReaderKeeps DEF ReadCheck, ReaderPlaces, Registered, Holding, Unserved
<1>3. CASE ReadRegister(r)
  <2>1. ReaderAt(r, "checked", "registered") /\ UNCHANGED <<ring, sem, parked>>
    BY <1>3 DEF ReadRegister
  <2>2. Waiting'
    BY <2>1, WaitingStays DEF Waiting
  <2>. QED
    BY <1>1, <1>3, <2>1, <2>2, ReaderKeeps DEF ReadRegister, ReaderPlaces, Registered, Holding, Unserved
<1>4. CASE ReadAcquire(r) /\ sem > 0
  <2>1. ReaderAt(r, "registered", "woken") /\ sem' = sem - 1 /\ UNCHANGED <<ring, parked, blocked>>
    BY <1>1, <1>4 DEF ReadAcquire
  <2>2. Waiting'
    BY <1>4, <2>1, WaitingStays DEF Waiting
  <2>. QED
    BY <1>1, <1>4, <2>1, <2>2, ReaderKeeps DEF ReadAcquire, ReaderPlaces, Registered, Holding, Unserved
<1>5. CASE ReadAcquire(r) /\ sem = 0
  <2>1. /\ ReaderAt(r, "registered", "parked") /\ parked' = Append(parked, r)
        /\ UNCHANGED <<ring, sem, blocked>>
    BY <1>5 DEF ReadAcquire
  <2>2. /\ parked' \in Seq(Readers) /\ DOMAIN parked = 1 .. Len(parked) /\ Len(parked) \in Nat
        /\ DOMAIN parked' = 1 .. Len(parked) + 1 /\ parked'[Len(parked) + 1] = r
        /\ \A i \in DOMAIN parked : parked'[i] = parked[i] /\ parked[i] \in Readers
    BY <1>1, <2>1
  <2>3. /\ reader[r] = "registered" /\ reader'[r] = "parked"
        /\ \A q \in Readers \ {r} : reader'[q] = reader[q]
    BY <2>1 DEF ReaderAt, TypeOK
  <2>4. \A i \in DOMAIN parked : parked[i] # r
    BY <2>3 DEF Waiting
  <2>5. Waiting'
    <3>1. \A i \in DOMAIN parked' : reader'[parked'[i]] = "parked"
      BY <2>2, <2>3 DEF Waiting
    <3>2. \A i, j \in DOMAIN parked' : parked'[i] = parked'[j] => i = j
      BY <2>2, <2>4 DEF Waiting
    <3>. QED
      BY <1>5, <2>1, <3>1, <3>2 DEF Waiting
  <2>. QED
    BY <1>1, <1>5, <2>1, <2>2, <2>5, ReaderKeeps
       DEF ReadAcquire, ReaderPlaces, Registered, Holding, Unserved
<1>6. CASE ReadInterrupted(r)
  <2>1. ReaderAt(r, "parked", "interrupted") /\ UNCHANGED <<ring, sem, blocked>>
    BY <1>6 DEF ReadInterrupted
  <2>2. PICK i \in DOMAIN parked : parked[i] = r /\ parked' = RemoveAt(parked, i)
    BY <1>6 DEF ReadInterrupted
  <2>3. /\ i \in 1 .. Len(parked) /\ Len(parked) \in Nat \ {0} /\ DOMAIN parked = 1 .. Len(parked)
        /\ \A j \in DOMAIN parked : parked[j] \in Readers
    BY <1>1
  <2>4. /\ parked' \in Seq(Readers) /\ DOMAIN parked' = 1 .. Len(parked) - 1
        /\ \A j \in 1 .. Len(parked) - 1 : parked'[j] = parked[IF j < i THEN j ELSE j + 1]
    <3>1. /\ parked' \in Seq(Readers) /\ Len(parked') = Len(parked) - 1
          /\ \A j \in 1 .. Len(parked) - 1 : parked'[j] = parked[IF j < i THEN j ELSE j + 1]
      BY <1>1, <2>2, <2>3, Without
    <3>2. DOMAIN parked' = 1 .. Len(parked')
      BY <3>1
    <3>. QED
      BY <3>1, <3>2
  <2>5. \A q \in Readers \ {r} : reader'[q] = reader[q]
    BY <2>1 DEF ReaderAt, TypeOK
  <2>6. ASSUME NEW j \in DOMAIN parked'
        PROVE  \E k \in DOMAIN parked : k # i /\ k = (IF j < i THEN j ELSE j + 1)
                                              /\ parked'[j] = parked[k]
    BY <2>3, <2>4
  <2>7. Waiting'
    <3>1. ASSUME NEW j \in DOMAIN parked' PROVE reader'[parked'[j]] = "parked"
      <4>1. PICK k \in DOMAIN parked : k # i /\ parked'[j] = parked[k]
        BY <2>6
      <4>2. parked[k] # r
        BY <2>2, <4>1 DEF Waiting
      <4>. QED
        BY <2>3, <2>5, <4>1, <4>2 DEF Waiting
    <3>2. ASSUME NEW j \in DOMAIN parked', NEW l \in DOMAIN parked', parked'[j] = parked'[l]
          PROVE  j = l
      <4>1. PICK k \in DOMAIN parked : k = (IF j < i THEN j ELSE j + 1) /\ parked'[j] = parked[k]
        BY <2>6
      <4>2. PICK m \in DOMAIN parked : m = (IF l < i THEN l ELSE l + 1) /\ parked'[l] = parked[m]
        BY <2>6
      <4>3. k = m
        BY <3>2, <4>1, <4>2 DEF Waiting
      <4>4. j \in 1 .. Len(parked) - 1 /\ l \in 1 .. Len(parked) - 1
        BY <2>4
      <4>. QED
        BY <2>3, <4>1, <4>2, <4>3, <4>4
    <3>3. parked' # <<>> => sem' = 0
      BY <2>1, <2>2 DEF Waiting
    <3>. QED
      BY <3>1, <3>2, <3>3 DEF Waiting
  <2>. QED
    BY <1>1, <1>6, <2>1, <2>4, <2>7, ReaderKeeps
       DEF ReadInterrupted, ReaderPlaces, Registered, Holding, Unserved
<1>7. CASE ReadDeregister(r) /\ ReaderAt(r, "woken", "dequeue")
  <2>1. UNCHANGED <<ring, sem, parked>>
    BY <1>7 DEF ReadDeregister
  <2>2. Waiting'
    BY <1>7, <2>1, WaitingStays DEF Waiting
  <2>. QED
    BY <1>1, <1>7, <2>1, <2>2, ReaderKeeps DEF ReadDeregister, ReaderPlaces, Registered, Holding, Unserved
<1>8. CASE ReadDeregister(r) /\ ReaderAt(r, "interrupted", "out")
  <2>1. UNCHANGED <<ring, sem, parked>>
    BY <1>8 DEF ReadDeregister
  <2>2. Waiting'
    BY <1>8, <2>1, WaitingStays DEF Waiting
  <2>. QED
    BY <1>1, <1>8, <2>1, <2>2, ReaderKeeps DEF ReadDeregister, ReaderPlaces, Registered, Holding, Unserved
<1>9. CASE ReadDequeue(r)
  <2>1. ReaderAt(r, "dequeue", "out") /\ UNCHANGED <<sem, parked, blocked>>
    BY <1>9 DEF ReadDequeue
  <2>2. Waiting'
    BY <2>1, WaitingStays DEF Waiting
  <2>3. ring' \in 0 .. RingSlots - 1 /\ (~closing => ring' \in {0, ring - 1})
    BY <1>1, <1>9 DEF ReadDequeue
  <2>. QED
    BY <1>1, <1>9, <2>1, <2>2, <2>3, ReaderKeeps DEF ReadDequeue, ReaderPlaces, Registered, Holding, Unserved
<1>. QED
  BY <1>1, <1>2, <1>3, <1>4, <1>5, <1>6, <1>7, <1>8, <1>9 DEF Read, ReadAcquire, ReadDeregister

------------------------------------------------------------------------------
(* The steps that leave the readers and their tokens alone.                *)

\* Close() has counted the readers and released as many tokens.
Woken == closing /\ control \in {"idle", "stop", "cancel", "drain"}

LEMMA QuietKeeps ==
  ASSUME RInv, TypeOK', Places', InFlightExact',
         UNCHANGED <<ring, sem, parked, reader, blocked>>,
         usbPc' = "signal" <=> usbPc = "signal", closed => closed',
         Woken' => Woken /\ late' = late,
         control' = "release" => control = "release" /\ permits' = permits /\ late' = late
  PROVE  RInv'
<1>1. \A W : Number(W)' = Number(W)
  BY ReadersStay
<1>2. Waiting' /\ Counted'
  BY <1>1 DEF RInv, Waiting, Counted
<1>3. FramesHaveTokens'
  <2>1. Number(Holding)' = Number(Holding)
    BY <1>1
  <2>. QED
    BY <2>1 DEF RInv, FramesHaveTokens, Number, Holding
<1>4. Served'
  <2>1. Number(Unserved)' = Number(Unserved)
    BY <1>1
  <2>. QED
    BY <2>1 DEF RInv, Served, Woken
<1>. QED
  BY <1>2, <1>3, <1>4 DEF RInv

\* Completing, counting off, resubmitting and counting on.
LEMMA UsbQuiet ==
  ASSUME RInv,
         \/ \E b \in BufferIds : Complete(b)
         \/ CallbackEntry \/ CallbackCheck \/ CallbackSubmit \/ CallbackCount
  PROVE  RInv'
<1>. TypeOK /\ Places /\ InFlightExact
  BY DEF RInv
<1>. USE DEF loopVars, usbVars, ringVars, controlVars, boundVars
<1>1. /\ queued \in [BufferIds -> Nat] /\ inFlight \in Int /\ usbBuf \in BufferIds /\ errors \in Nat
      /\ 0 \in BufferIds /\ SumFunction(queued) \in Int
  <2>1. queued \in [BufferIds -> Nat] /\ SumFunction(queued) \in Int
    BY BufferSums DEF TypeOK
  <2>2. 0 \in BufferIds
    BY RxStreamAssumption DEF BufferIds
  <2>. QED
    BY <2>1, <2>2 DEF TypeOK
<1>2. UNCHANGED <<ring, sem, parked, reader, blocked, closing, control, permits, next, attempts,
                  closed, late, running, frames, closes>>
  BY DEF Complete, CallbackEntry, CallbackCheck, CallbackSubmit, CallbackCount
<1>3. Places' /\ (Woken' => Woken)
  BY <1>2 DEF Places, Woken
<1>4. CASE \E b \in BufferIds : Complete(b)
  <2>1. PICK b \in BufferIds : Complete(b)
    BY <1>4
  <2>2. /\ queued[b] > 0 /\ usbPc = "idle" /\ usbPc' = "entry" /\ usbBuf' = b
        /\ queued' = [queued EXCEPT ![b] = queued[b] - 1] /\ UNCHANGED <<inFlight, errors>>
    BY <2>1 DEF Complete, UsbAt
  <2>3. queued[b] - 1 \in Nat /\ queued' \in [BufferIds -> Nat]
    BY <1>1, <2>2
  <2>4. SumFunction(queued') = SumFunction(queued) - 1
    <3>1. SumFunction(queued') = SumFunction(queued) + (queued[b] - 1) - queued[b]
      BY <1>1, <2>2, <2>3, OneChanges
    <3>. QED
      BY <1>1, <2>3, <3>1
  <2>5. InFlightExact'
    BY <1>1, <1>2, <2>2, <2>4 DEF InFlightExact
  <2>6. TypeOK'
    BY <1>2, <2>2, <2>3 DEF TypeOK
  <2>. QED
    BY <1>2, <1>3, <2>2, <2>5, <2>6, QuietKeeps
<1>5. CASE CallbackEntry
  <2>1. /\ usbPc = "entry" /\ usbPc' = "process" /\ inFlight' = inFlight - 1
        /\ UNCHANGED <<queued, usbBuf, errors>>
    BY <1>5 DEF CallbackEntry, UsbAt
  <2>2. InFlightExact'
    BY <1>1, <1>2, <2>1 DEF InFlightExact
  <2>3. TypeOK'
    BY <1>1, <1>2, <2>1 DEF TypeOK
  <2>. QED
    BY <1>2, <1>3, <2>1, <2>2, <2>3, QuietKeeps
<1>6. CASE CallbackCheck
  <2>1. /\ usbPc = "process" /\ usbPc' \in {"submit", "idle"} /\ usbBuf' \in {usbBuf, 0}
        /\ UNCHANGED <<queued, inFlight, errors>>
    BY <1>6 DEF CallbackCheck, UsbAt
  <2>2. InFlightExact'
    BY <1>1, <1>2, <2>1 DEF InFlightExact
  <2>3. TypeOK'
    BY <1>1, <1>2, <2>1 DEF TypeOK
  <2>. QED
    BY <1>2, <1>3, <2>1, <2>2, <2>3, QuietKeeps
<1>7. CASE CallbackSubmit /\ usbPc' = "count"
  <2>1. /\ usbPc = "submit" /\ usbPc' = "count" /\ usbBuf' = 0
        /\ queued' = [queued EXCEPT ![usbBuf] = queued[usbBuf] + 1] /\ UNCHANGED <<inFlight, errors>>
    BY <1>7 DEF CallbackSubmit, UsbAt
  <2>2. queued[usbBuf] + 1 \in Nat /\ queued' \in [BufferIds -> Nat]
    BY <1>1, <2>1
  <2>3. SumFunction(queued') = SumFunction(queued) + 1
    <3>1. SumFunction(queued') = SumFunction(queued) + (queued[usbBuf] + 1) - queued[usbBuf]
      BY <1>1, <2>1, <2>2, OneChanges
    <3>. QED
      BY <1>1, <2>2, <3>1
  <2>4. InFlightExact'
    BY <1>1, <1>2, <2>1, <2>3 DEF InFlightExact
  <2>5. TypeOK'
    BY <1>1, <1>2, <2>1, <2>2 DEF TypeOK
  <2>. QED
    BY <1>2, <1>3, <2>1, <2>4, <2>5, QuietKeeps
<1>8. CASE CallbackSubmit /\ usbPc' # "count"
  <2>1. /\ usbPc = "submit" /\ usbPc' = "idle" /\ usbBuf' = 0 /\ errors > 0 /\ errors' = errors - 1
        /\ UNCHANGED <<queued, inFlight>>
    BY <1>8 DEF CallbackSubmit, UsbAt
  <2>2. InFlightExact'
    BY <1>1, <1>2, <2>1 DEF InFlightExact
  <2>3. TypeOK'
    BY <1>1, <1>2, <2>1 DEF TypeOK
  <2>. QED
    BY <1>2, <1>3, <2>1, <2>2, <2>3, QuietKeeps
<1>9. CASE CallbackCount
  <2>1. /\ usbPc = "count" /\ usbPc' = "idle" /\ inFlight' = inFlight + 1 /\ usbBuf' = 0
        /\ UNCHANGED <<queued, errors>>
    BY <1>9 DEF CallbackCount, UsbAt
  <2>2. InFlightExact'
    BY <1>1, <1>2, <2>1 DEF InFlightExact
  <2>3. TypeOK'
    BY <1>1, <1>2, <2>1 DEF TypeOK
  <2>. QED
    BY <1>2, <1>3, <2>1, <2>2, <2>3, QuietKeeps
<1>. QED
  BY <1>4, <1>5, <1>6, <1>7, <1>8, <1>9

\* Opening, starting the loop, and stopping it.
LEMMA ControlQuiet ==
  ASSUME RInv, \/ Open \/ Start \/ StartSubmit \/ StartCount
               \/ Close \/ Stop \/ StopCancel \/ StopDrained
  PROVE  RInv'
<1>. TypeOK /\ Places /\ InFlightExact
  BY DEF RInv
<1>. USE DEF loopVars, usbVars, ringVars, controlVars, boundVars
<1>1. /\ queued \in [BufferIds -> Nat] /\ inFlight \in Int /\ errors \in Nat /\ closes \in Nat
      /\ next \in 0 .. Buffers /\ attempts \in Nat /\ Buffers \in Nat \ {0}
      /\ SumFunction(queued) \in Int /\ DrainAttempts \in Nat \ {0}
  BY RxStreamAssumption, BufferSums DEF TypeOK
<1>2. UNCHANGED <<ring, sem, parked, reader, blocked, permits, usbPc, usbBuf, frames>>
  BY DEF Open, Start, StartSubmit, StartCount, Close, Stop, StopCancel, StopDrained
<1>3. CASE Open
  <2>1. /\ closed /\ control = "idle" /\ control' \in {"idle", "start"} /\ closing' = FALSE /\ late' = {}
        /\ UNCHANGED <<running, inFlight, queued, next, attempts, closed, errors, closes>>
    BY <1>3 DEF Open, ControlAt
  <2>2. Places' /\ InFlightExact' /\ ~Woken'
    BY <1>2, <2>1 DEF Places, InFlightExact, Woken
  <2>3. TypeOK'
    BY <1>2, <2>1 DEF TypeOK
  <2>. QED
    BY <1>2, <2>1, <2>2, <2>3, QuietKeeps
<1>4. CASE Start
  <2>1. /\ control = "start" /\ control' \in {"idle", "submit"} /\ running' \in BOOLEAN
        /\ next' \in {0, next}
        /\ UNCHANGED <<closing, late, inFlight, queued, attempts, closed, errors, closes>>
    BY <1>4 DEF Start, ControlAt, TypeOK
  <2>2. Places' /\ InFlightExact' /\ ~Woken'
    BY <1>2, <2>1 DEF Places, InFlightExact, Woken
  <2>3. TypeOK'
    BY <1>1, <1>2, <2>1 DEF TypeOK
  <2>. QED
    BY <1>2, <2>1, <2>2, <2>3, QuietKeeps
<1>5. CASE StartSubmit /\ control' = "count"
  <2>1. /\ control = "submit" /\ next < Buffers
        /\ queued' = [queued EXCEPT ![next] = queued[next] + 1]
        /\ UNCHANGED <<running, inFlight, closing, late, next, attempts, closed, errors, closes>>
    BY <1>5 DEF StartSubmit, ControlAt
  <2>2. next \in BufferIds
    BY <1>1, <2>1 DEF BufferIds
  <2>3. queued[next] + 1 \in Nat /\ queued' \in [BufferIds -> Nat]
    BY <1>1, <2>1, <2>2
  <2>4. SumFunction(queued') = SumFunction(queued) + 1
    <3>1. SumFunction(queued') = SumFunction(queued) + (queued[next] + 1) - queued[next]
      BY <1>1, <2>1, <2>2, <2>3, OneChanges
    <3>2. queued[next] \in Nat
      BY <1>1, <2>2
    <3>. QED
      BY <1>1, <3>1, <3>2
  <2>5. InFlightExact'
    BY <1>1, <1>2, <1>5, <2>1, <2>4 DEF InFlightExact
  <2>6. Places' /\ ~Woken'
    BY <1>2, <1>5, <2>1 DEF Places, Woken
  <2>7. TypeOK'
    BY <1>2, <1>5, <2>1, <2>3 DEF TypeOK
  <2>. QED
    BY <1>2, <1>5, <2>1, <2>5, <2>6, <2>7, QuietKeeps
<1>6. CASE StartSubmit /\ control' # "count"
  <2>1. /\ control = "submit" /\ control' \in {"idle", "stop"} /\ next' = 0 /\ errors' \in Nat
        /\ UNCHANGED <<running, inFlight, queued, closing, late, attempts, closed, closes>>
    BY <1>1, <1>6 DEF StartSubmit, ControlAt
  <2>2. Places' /\ InFlightExact' /\ ~Woken'
    BY <1>2, <2>1 DEF Places, InFlightExact, Woken
  <2>3. TypeOK'
    BY <1>1, <1>2, <2>1 DEF TypeOK
  <2>. QED
    BY <1>2, <2>1, <2>2, <2>3, QuietKeeps
<1>7. CASE StartCount
  <2>1. /\ control = "count" /\ control' = "submit" /\ inFlight' = inFlight + 1 /\ next' = next + 1
        /\ UNCHANGED <<running, queued, closing, late, attempts, closed, errors, closes>>
    BY <1>7 DEF StartCount, ControlAt
  <2>2. Places' /\ ~Woken' /\ next' \in 0 .. Buffers
    BY <1>1, <1>2, <2>1 DEF Places, Woken
  <2>3. InFlightExact'
    BY <1>1, <1>2, <2>1 DEF InFlightExact
  <2>4. TypeOK'
    BY <1>1, <1>2, <2>1, <2>2 DEF TypeOK
  <2>. QED
    BY <1>2, <2>1, <2>2, <2>3, <2>4, QuietKeeps
<1>8. CASE Close
  <2>1. /\ control = "idle" /\ control' = "closing" /\ closing' = TRUE /\ closed' = TRUE
        /\ closes' \in Nat
        /\ UNCHANGED <<running, inFlight, queued, late, next, attempts, errors>>
    BY <1>1, <1>8 DEF Close, ControlAt
  <2>2. Places' /\ InFlightExact' /\ ~Woken'
    BY <1>2, <2>1 DEF Places, InFlightExact, Woken
  <2>3. TypeOK'
    BY <1>2, <2>1 DEF TypeOK
  <2>. QED
    BY <1>2, <2>1, <2>2, <2>3, QuietKeeps
<1>9. CASE Stop
  <2>1. /\ control = "stop" /\ control' \in {"cancel", "idle"} /\ running' = FALSE /\ attempts' \in Nat
        /\ control' = "cancel" => attempts' > 0
        /\ UNCHANGED <<inFlight, queued, closing, late, next, closed, errors, closes>>
    BY <1>1, <1>9 DEF Stop, ControlAt
  <2>2. Places' /\ InFlightExact' /\ (Woken' => Woken)
    BY <1>2, <2>1 DEF Places, InFlightExact, Woken
  <2>3. TypeOK'
    BY <1>2, <2>1 DEF TypeOK
  <2>. QED
    BY <1>2, <2>1, <2>2, <2>3, QuietKeeps
<1>10. CASE StopCancel
  <2>1. /\ control = "cancel" /\ control' = "drain" /\ attempts' = attempts - 1
        /\ queued' = [b \in BufferIds |-> 0] /\ inFlight' = inFlight - SumFunction(queued)
        /\ UNCHANGED <<running, closing, late, next, closed, errors, closes>>
    BY <1>10 DEF StopCancel, CancelQueued, ControlAt
  <2>2. attempts' \in Nat /\ inFlight' \in Int
    BY <1>1, <2>1 DEF Places
  <2>3. InFlightExact'
    <3>1. SumFunction(queued') = 0
      BY <2>1, BufferSums
    <3>. QED
      BY <1>1, <1>2, <2>1, <3>1 DEF InFlightExact
  <2>4. Places' /\ (Woken' => Woken)
    BY <1>2, <2>1 DEF Places, Woken
  <2>5. TypeOK'
    BY <1>2, <2>1, <2>2 DEF TypeOK
  <2>. QED
    BY <1>2, <2>1, <2>3, <2>4, <2>5, QuietKeeps
<1>11. CASE StopDrained
  <2>1. /\ control = "drain" /\ control' \in {"cancel", "idle"} /\ attempts' \in {attempts, 0}
        /\ control' = "cancel" => attempts' > 0
        /\ UNCHANGED <<running, inFlight, queued, closing, late, next, closed, errors, closes>>
    BY <1>1, <1>11 DEF StopDrained, ControlAt
  <2>2. Places' /\ InFlightExact' /\ (Woken' => Woken)
    BY <1>2, <2>1 DEF Places, InFlightExact, Woken
  <2>3. TypeOK'
    BY <1>1, <1>2, <2>1 DEF TypeOK
  <2>. QED
    BY <1>2, <2>1, <2>2, <2>3, QuietKeeps
<1>. QED
  BY <1>3, <1>4, <1>5, <1>6, <1>7, <1>8, <1>9, <1>10, <1>11

------------------------------------------------------------------------------
(* The steps that hand tokens out.                                         *)

\* A frame into the ring: over the oldest one it may take a token back, and
\* either way it owes one until Signal.
LEMMA EnqueueKeeps ==
  ASSUME RInv, Enqueue
  PROVE  RInv'
<1>. TypeOK /\ Places /\ Waiting
  BY DEF RInv
<1>. USE DEF loopVars, usbVars, ringVars, controlVars, boundVars
<1>1. /\ usbPc = "process" /\ usbPc' = "signal" /\ frames > 0 /\ frames' = frames - 1
      /\ UNCHANGED <<running, inFlight, queued, usbBuf, parked, reader, blocked, closing, control,
                     permits, next, attempts, closed, late, errors, closes>>
  BY DEF Enqueue, UsbAt
<1>2. /\ ring \in 0 .. RingSlots - 1 /\ sem \in Nat /\ frames \in Nat /\ RingSlots \in Nat
      /\ Cardinality(late) \in Nat
  BY RxStreamAssumption, FS_Subset, FS_CardinalityType DEF TypeOK
<1>3. PICK g \in {0, 1}, k \in {0, 1} :
        ring' = ring + g /\ sem' = sem - k /\ g + k <= 1 /\ (sem = 0 => k = 0) /\ (RingFull => g = 0)
  <2>1. CASE RingFull /\ sem > 0
    <3>1. ring' = ring + 0 /\ sem' = sem - 1
      BY <1>2, <2>1 DEF Enqueue
    <3>. QED
      BY <2>1, <3>1
  <2>2. CASE RingFull /\ ~(sem > 0)
    <3>1. ring' = ring + 0 /\ sem' = sem - 0
      BY <1>2, <2>2 DEF Enqueue
    <3>. QED
      BY <3>1
  <2>3. CASE ~RingFull
    <3>1. ring' = ring + 1 /\ sem' = sem - 0
      BY <1>2, <2>3 DEF Enqueue
    <3>. QED
      BY <2>3, <3>1
  <2>. QED
    BY <2>1, <2>2, <2>3
<1>4. /\ Number(Registered)' = Number(Registered) /\ Number(Holding)' = Number(Holding)
      /\ Number(Unserved)' = Number(Unserved)
      /\ Number(Holding) \in Nat /\ Number(Unserved) \in Nat
  BY <1>1, ReadersStay, Numbers
<1>5. TypeOK'
  <2>1. ring' \in 0 .. RingSlots - 1 /\ sem' \in Nat /\ frames' \in Nat
    BY <1>1, <1>2, <1>3 DEF RingFull
  <2>. QED
    BY <1>1, <2>1 DEF TypeOK
<1>6. Places' /\ InFlightExact' /\ Counted'
  BY <1>1, <1>4 DEF RInv, Places, InFlightExact, Counted
<1>7. Waiting'
  <2>1. ASSUME sem = 0 PROVE sem' = 0
    <3>1. k = 0 /\ sem' = 0 - k
      BY <1>3, <2>1
    <3>. QED
      BY <3>1
  <2>. QED
    BY <1>1, <2>1 DEF Waiting
<1>8. FramesHaveTokens'
  <2>. SUFFICES ASSUME ~closed PROVE ring' <= sem' + Number(Holding) + 1
    BY <1>1, <1>4 DEF FramesHaveTokens, Number, Holding
  <2>1. ring <= sem + Number(Holding) + 0
    BY <1>1 DEF RInv, FramesHaveTokens, Number, Holding
  <2>. QED
    BY <1>2, <1>3, <1>4, <2>1
<1>9. Served'
  <2>1. Woken => Number(Unserved) <= sem + Cardinality(late) + 0
    BY <1>1 DEF RInv, Served, Woken
  <2>2. Woken => Number(Unserved) <= sem' + Cardinality(late) + 1
    <3>. SUFFICES ASSUME Woken PROVE Number(Unserved) <= sem' + Cardinality(late) + 1
      OBVIOUS
    <3>. QED
      BY <1>2, <1>3, <1>4, <2>1
  <2>. QED
    BY <1>1, <1>4, <2>2 DEF RInv, Served, Woken
<1>. QED
  BY <1>5, <1>6, <1>7, <1>8, <1>9 DEF RInv

\* What Signal and CloseRelease have in common: n readers are woken, or all and
\* the rest stays in the semaphore.
LEMMA ReleaseKeeps ==
  ASSUME RInv, NEW n \in Nat, Release(n), TypeOK', Places',
         UNCHANGED <<inFlight, queued, ring, blocked, closing, closed, late>>,
         {usbPc, usbPc'} \cap {"entry", "count"} = {} \/ UNCHANGED usbPc,
         "count" \notin {control, control'} \/ UNCHANGED control,
         ~closed => n = 1 /\ usbPc = "signal" /\ usbPc' # "signal",
         \/ UNCHANGED <<control, permits>> /\ n = 1 /\ usbPc = "signal" /\ usbPc' # "signal"
         \/ control = "release" /\ control' # "release" /\ n = permits /\ UNCHANGED usbPc
  PROVE  RInv'
<1>. TypeOK /\ Places /\ Waiting
  BY DEF RInv
<1>1. PICK w \in 0 .. Len(parked) :
        /\ w <= n /\ (w < n => w = Len(parked))
        /\ sem' = sem + n - w /\ sem' \in Nat /\ Waiting'
        /\ \A W : Number(W)' = Number(W) + (IF "woken" \in W THEN w ELSE 0)
                                         - (IF "parked" \in W THEN w ELSE 0)
  BY Released
<1>2. /\ w \in Nat /\ sem \in Nat /\ permits \in Nat /\ Cardinality(late) \in Nat
      /\ ring \in Nat
  <2>1. parked \in Seq(Readers) /\ sem \in Nat /\ permits \in Nat
    BY DEF TypeOK
  <2>2. Cardinality(late) \in Nat
    BY RxStreamAssumption, FS_Subset, FS_CardinalityType DEF TypeOK
  <2>3. ring \in Nat
    BY RxStreamAssumption DEF TypeOK
  <2>. QED
    BY <2>1, <2>2, <2>3
<1>3. /\ Number(Registered) \in Nat /\ Number(Holding) \in Nat /\ Number(Unserved) \in Nat
  BY Numbers
<1>4. /\ Number(Registered)' = Number(Registered) /\ Number(Holding)' = Number(Holding) + w
      /\ Number(Unserved)' = Number(Unserved) - w
  <2>1. /\ "woken" \in Registered /\ "parked" \in Registered /\ "woken" \in Holding
        /\ "parked" \notin Holding /\ "woken" \notin Unserved /\ "parked" \in Unserved
    BY DEF Registered, Holding, Unserved
  <2>2. /\ Number(Registered)' = Number(Registered) + w - w
        /\ Number(Holding)' = Number(Holding) + w - 0
        /\ Number(Unserved)' = Number(Unserved) + 0 - w
    BY <1>1, <2>1
  <2>. QED
    BY <1>2, <1>3, <2>2
<1>5. sem' = sem + n - w /\ sem' \in Nat /\ w <= n
  BY <1>1
<1>6. Counted'
  BY <1>4 DEF RInv, Counted
<1>7. InFlightExact'
  BY DEF RInv, InFlightExact
<1>8. FramesHaveTokens'
  <2>. SUFFICES ASSUME ~closed PROVE ring <= sem' + Number(Holding)' + 0
    BY DEF FramesHaveTokens, Number, Holding
  <2>1. ring <= sem + Number(Holding) + 1
    BY DEF RInv, FramesHaveTokens, Number, Holding
  <2>. QED
    BY <1>2, <1>3, <1>4, <1>5, <2>1
<1>9. CASE UNCHANGED <<control, permits>> /\ n = 1 /\ usbPc = "signal" /\ usbPc' # "signal"
  <2>1. Woken => Number(Unserved) <= sem + Cardinality(late) + 1
    BY <1>9 DEF RInv, Served, Woken
  <2>2. Woken => Number(Unserved)' <= sem' + Cardinality(late) + 0
    <3>. SUFFICES ASSUME Woken PROVE Number(Unserved)' <= sem' + Cardinality(late) + 0
      OBVIOUS
    <3>. QED
      BY <1>2, <1>3, <1>4, <1>9, <1>5, <2>1
  <2>3. control = "release" => Number(Unserved) <= permits + Cardinality(late)
    BY DEF RInv, Served
  <2>4. control = "release" => Number(Unserved)' <= permits + Cardinality(late)
    BY <1>2, <1>3, <1>4, <2>3
  <2>5. Served'
    BY <1>9, <2>2, <2>4 DEF Served, Woken
  <2>. QED
    BY <1>1, <1>6, <1>7, <1>8, <2>5 DEF RInv
<1>10. CASE control = "release" /\ control' # "release" /\ n = permits /\ UNCHANGED usbPc
  <2>1. Number(Unserved) <= permits + Cardinality(late)
    BY <1>10 DEF RInv, Served
  <2>2. PICK d \in {0, 1} : d = IF usbPc = "signal" THEN 1 ELSE 0
    OBVIOUS
  <2>3. Number(Unserved)' <= sem' + Cardinality(late) + d
    BY <1>2, <1>3, <1>4, <1>10, <1>5, <2>1, <2>2
  <2>4. Served'
    BY <1>10, <2>2, <2>3 DEF Served
  <2>. QED
    BY <1>1, <1>6, <1>7, <1>8, <2>4 DEF RInv
<1>. QED
  BY <1>9, <1>10

LEMMA ReleaseTypes ==
  ASSUME TypeOK, Waiting, NEW n \in Nat, Release(n)
  PROVE  sem' \in Nat /\ parked' \in Seq(Readers) /\ reader' \in [Readers -> ReaderPlaces]
BY Released

LEMMA SignalKeeps ==
  ASSUME RInv, Signal
  PROVE  RInv'
<1>. TypeOK /\ Places /\ Waiting
  BY DEF RInv
<1>. USE DEF loopVars, usbVars, ringVars, controlVars, boundVars
<1>1. /\ usbPc = "signal" /\ usbPc' = "process" /\ Release(1)
      /\ UNCHANGED <<running, inFlight, queued, usbBuf, ring, blocked, closing, control,
                     permits, next, attempts, closed, late, frames, errors, closes>>
  BY DEF Signal, UsbAt
<1>2. sem' \in Nat /\ parked' \in Seq(Readers) /\ reader' \in [Readers -> ReaderPlaces]
  BY <1>1, ReleaseTypes
<1>3. TypeOK'
  BY <1>1, <1>2 DEF TypeOK, ReaderPlaces
<1>4. Places'
  BY <1>1 DEF Places
<1>. QED
  BY <1>1, <1>3, <1>4, ReleaseKeeps

LEMMA CloseReleaseKeeps ==
  ASSUME RInv, CloseRelease
  PROVE  RInv'
<1>. TypeOK /\ Places /\ Waiting
  BY DEF RInv
<1>. USE DEF loopVars, usbVars, ringVars, controlVars, boundVars
<1>1. /\ control = "release" /\ control' = "stop" /\ Release(permits) /\ permits' = 0
      /\ UNCHANGED <<running, inFlight, queued, usbPc, usbBuf, ring, blocked, closing,
                     next, attempts, closed, late, frames, errors, closes>>
  BY DEF CloseRelease, WakeReaders, ControlAt
<1>2. permits \in Nat
  BY DEF TypeOK
<1>3. sem' \in Nat /\ parked' \in Seq(Readers) /\ reader' \in [Readers -> ReaderPlaces]
  BY <1>1, <1>2, ReleaseTypes
<1>4. TypeOK'
  BY <1>1, <1>3 DEF TypeOK, ReaderPlaces
<1>5. Places' /\ closed
  BY <1>1 DEF Places
<1>. QED
  BY <1>1, <1>2, <1>4, <1>5, ReleaseKeeps

\* Close() counts: the readers it has no token for are those between the check
\* of fClosing and the increment of fBlockedReaders.
LEMMA CloseCountKeeps ==
  ASSUME RInv, CloseCount
  PROVE  RInv'
<1>. TypeOK /\ Places
  BY DEF RInv
<1>. USE DEF loopVars, usbVars, ringVars, controlVars, boundVars
<1>1. /\ control = "closing" /\ control' = "release" /\ permits' = blocked
      /\ late' = ReadersAt({"checked"})
      /\ UNCHANGED <<running, inFlight, queued, usbPc, usbBuf, ring, sem, parked, reader, blocked,
                     closing, next, attempts, closed, frames, errors, closes>>
  BY DEF CloseCount, ControlAt, ReadersAt
<1>2. /\ Number(Registered)' = Number(Registered) /\ Number(Holding)' = Number(Holding)
      /\ Number(Unserved)' = Number(Unserved)
  BY <1>1, ReadersStay
<1>3. late' \in SUBSET Readers /\ blocked \in Nat
  BY <1>1, RxStreamAssumption, FS_CardinalityType DEF ReadersAt, TypeOK
<1>4. TypeOK'
  BY <1>1, <1>3 DEF TypeOK
<1>5. Places' /\ InFlightExact' /\ Waiting' /\ Counted'
  BY <1>1, <1>2 DEF RInv, Places, InFlightExact, Waiting, Counted
<1>6. FramesHaveTokens'
  BY <1>1, <1>2 DEF RInv, FramesHaveTokens, Number, Holding
<1>7. Number(Unserved) <= blocked + Cardinality(ReadersAt({"checked"}))
  <2>1. ReadersAt(Unserved) \in SUBSET (ReadersAt(Registered) \cup ReadersAt({"checked"}))
    BY DEF ReadersAt, Unserved, Registered
  <2>2. IsFiniteSet(ReadersAt(Registered)) /\ IsFiniteSet(ReadersAt({"checked"}))
    BY Numbers
  <2>. DEFINE A == ReadersAt(Registered)
              B == ReadersAt({"checked"})
  <2>3. /\ IsFiniteSet(A \cup B)
        /\ Cardinality(A \cup B) = Cardinality(A) + Cardinality(B) - Cardinality(A \cap B)
    BY <2>2, FS_Union
  <2>4. IsFiniteSet(A \cap B)
    BY <2>2, FS_Intersection
  <2>5. Cardinality(A) \in Nat /\ Cardinality(B) \in Nat /\ Cardinality(A \cap B) \in Nat
    BY <2>2, <2>4, FS_CardinalityType
  <2>6. Number(Unserved) <= Cardinality(A \cup B)
    BY <2>1, <2>3, FS_Subset DEF Number
  <2>7. Number(Unserved) \in Nat /\ Cardinality(A) = blocked
    BY Numbers DEF RInv, Counted, Number
  <2>. HIDE DEF A, B
  <2>8. Number(Unserved) <= blocked + Cardinality(B)
    BY <2>3, <2>5, <2>6, <2>7
  <2>. QED
    BY <2>8 DEF B
<1>8. Served'
  BY <1>1, <1>2, <1>7 DEF Served
<1>. QED
  BY <1>4, <1>5, <1>6, <1>8 DEF RInv

------------------------------------------------------------------------------
(* The theorems.                                                           *)

LEMMA InitInv == Init => RInv
<1>. SUFFICES ASSUME Init PROVE RInv
  OBVIOUS
<1>. USE DEF Init
<1>1. \A W \in {Registered, Holding, Unserved} : Number(W) = 0
  <2>1. \A W \in {Registered, Holding, Unserved} : ReadersAt(W) = {}
    BY DEF ReadersAt, Registered, Holding, Unserved
  <2>. QED
    BY <2>1, FS_EmptySet DEF Number
<1>2. TypeOK
  <2>1. /\ 0 \in BufferIds /\ 0 \in 0 .. Buffers /\ 0 \in 0 .. RingSlots - 1
        /\ 0 \in 0 .. Cardinality(Readers) /\ Buffers \in Int
    BY RxStreamAssumption, FS_CardinalityType DEF BufferIds
  <2>2. queued \in [BufferIds -> Nat] /\ parked \in Seq(Readers)
    OBVIOUS
  <2>. QED
    BY <2>1, <2>2, RxStreamAssumption DEF TypeOK
<1>3. Places /\ Waiting /\ Counted
  BY <1>1 DEF Places, Waiting, Counted
<1>4. InFlightExact
  BY BufferSums, RxStreamAssumption DEF InFlightExact
<1>5. FramesHaveTokens
  <2>1. Cardinality(ReadersAt({"woken", "dequeue"})) = 0
    BY <1>1 DEF Number, Holding
  <2>. QED
    BY <2>1 DEF FramesHaveTokens
<1>6. Served
  BY DEF Served
<1>. QED
  BY <1>2, <1>3, <1>4, <1>5, <1>6 DEF RInv

LEMMA Inductive == RInv /\ [Next]_vars => RInv'
<1>. SUFFICES ASSUME RInv, [Next]_vars PROVE RInv'
  OBVIOUS
<1>1. CASE \E r \in Readers : Read(r)
  BY <1>1, ReadKeeps
<1>2. CASE (\E b \in BufferIds : Complete(b)) \/ Callback
  BY <1>2, UsbQuiet, EnqueueKeeps, SignalKeeps DEF Callback
<1>3. CASE Control
  BY <1>3, ControlQuiet, CloseCountKeeps, CloseReleaseKeeps DEF Control
<1>4. CASE UNCHANGED vars
  <2>1. UNCHANGED <<running, inFlight, queued, usbPc, usbBuf, ring, sem, parked, reader, blocked,
                    closing, control, permits, next, attempts, closed, late, frames, errors, closes>>
    BY <1>4 DEF vars, loopVars, usbVars, ringVars, controlVars, boundVars
  <2>2. TypeOK' /\ Places' /\ InFlightExact' /\ (Woken' => Woken)
    BY <2>1 DEF RInv, TypeOK, Places, InFlightExact, Woken
  <2>. QED
    BY <2>1, <2>2, QuietKeeps
<1>. QED
  BY <1>1, <1>2, <1>3, <1>4 DEF Next

LEMMA Holds == Spec => []RInv
BY InitInv, Inductive, PTL DEF Spec

\* The variables of the receive stream keep their types: the ring never holds
\* more than RingSlots - 1 frames, fBlockedReaders is never negative and never
\* more than the readers there are, the drain loop of Stop() never counts below
\* zero, and no buffer is taken off the endpoint that was not queued.
THEOREM StreamTypes == Spec => []TypeOK
<1>1. RInv => TypeOK
  BY DEF RInv
<1>. QED
  BY <1>1, Holds, PTL

\* fTransfersInFlight is the number of transfers the USB stack holds, but for
\* the one each of two threads may be between queueing and counting: what
\* Start() refuses by and Stop() drains by, over every resubmission, failed
\* submission and cancel pass of RxPath.cpp.
THEOREM TransfersCounted == Spec => []InFlightExact
<1>1. RInv => InFlightExact
  BY DEF RInv
<1>. QED
  BY <1>1, Holds, PTL

\* Until the first Close() every frame in fRxRing has a token in fRxDataReady,
\* or with a reader that has taken one, or about to be released by
\* _RxFrameReceived: no frame waits for a reader that is never woken.
THEOREM NoFrameStranded == Spec => []FramesHaveTokens
<1>1. RInv => FramesHaveTokens
  BY DEF RInv
<1>. QED
  BY <1>1, Holds, PTL

\* Once Close() has released the semaphore, no more readers stay parked than
\* had passed the check of fClosing and not yet registered when it counted
\* them, and one whose token a full ring has taken back for the moment.
THEOREM CloseWakes == Spec => []CloseWakesReaders
<1>1. RInv => CloseWakesReaders
  <2>. SUFFICES ASSUME RInv, Woken
                PROVE  Len(parked) <= Cardinality(late) + (IF usbPc = "signal" THEN 1 ELSE 0)
    BY DEF CloseWakesReaders, Woken
  <2>1. /\ parked \in Seq(Readers) /\ sem \in Nat /\ Cardinality(late) \in Nat
        /\ Len(parked) \in Nat /\ DOMAIN parked = 1 .. Len(parked)
    <3>1. parked \in Seq(Readers) /\ sem \in Nat
      BY DEF RInv, TypeOK
    <3>2. Cardinality(late) \in Nat
      BY RxStreamAssumption, FS_Subset, FS_CardinalityType DEF RInv, TypeOK
    <3>. QED
      BY <3>1, <3>2
  <2>2. PICK d \in {0, 1} : d = IF usbPc = "signal" THEN 1 ELSE 0
    OBVIOUS
  <2>3. Number(Unserved) <= sem + Cardinality(late) + d
    BY <2>2 DEF RInv, Served, Woken
  <2>. DEFINE K == {parked[i] : i \in 1 .. Len(parked)}
              f == [i \in 1 .. Len(parked) |-> parked[i]]
  <2>4. f \in Bijection(1 .. Len(parked), K)
    <3>1. f \in [1 .. Len(parked) -> K] /\ \A k \in K : \E i \in 1 .. Len(parked) : f[i] = k
      OBVIOUS
    <3>2. \A i, j \in 1 .. Len(parked) : f[i] = f[j] => i = j
      BY <2>1 DEF RInv, Waiting
    <3>. QED
      BY <3>1, <3>2 DEF Bijection, Injection, Surjection, IsInjective
  <2>5. IsFiniteSet(K) /\ Cardinality(K) = Len(parked)
    <3>1. ExistsBijection(1 .. Len(parked), K)
      BY <2>4 DEF ExistsBijection
    <3>. QED
      BY <2>1, <3>1, FS_CountingElements, FS_Interval, FS_Bijection
  <2>6. K \in SUBSET ReadersAt(Unserved)
    <3>1. \A i \in 1 .. Len(parked) : parked[i] \in Readers /\ reader[parked[i]] = "parked"
      BY <2>1 DEF RInv, Waiting
    <3>. QED
      BY <3>1 DEF ReadersAt, Unserved
  <2>. HIDE DEF K
  <2>7. Len(parked) <= Number(Unserved) /\ Number(Unserved) \in Nat
    BY <2>5, <2>6, Numbers, FS_Subset DEF Number
  <2>8. Len(parked) > 0 => sem = 0
    BY <2>1 DEF RInv, Waiting
  <2>9. Len(parked) <= Cardinality(late) + d
    BY <2>1, <2>2, <2>3, <2>7, <2>8
  <2>. QED
    BY <2>2, <2>9
<1>. QED
  BY <1>1, Holds, PTL

=============================================================================
