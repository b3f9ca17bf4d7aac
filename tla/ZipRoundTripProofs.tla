------------------------- MODULE ZipRoundTripProofs -------------------------
(***************************************************************************)
(* Proofs about ZipRoundTrip, for all limits, files and numbers of entries: *)
(* what deflate makes of a file decodes to it, in one stream or in blocks;  *)
(* each entry lies where its record says; the headers of a healthy archive  *)
(* agree; and of a damaged one, or one cut into disks, the parser recovers  *)
(* the entries that are not hit.                                            *)
(***************************************************************************)
EXTENDS ZipRoundTrip, SequencesExt, SequenceTheorems, FiniteSetTheorems,
        WellFoundedInduction, TLAPS

-----------------------------------------------------------------------------
(* Sequences of whatever they are of.                                      *)

IsSeq(s) == \E A : s \in Seq(A)

\* Sequences joined are a sequence: the one, then the other.
LEMMA Joined ==
  ASSUME NEW s, NEW t, IsSeq(s), IsSeq(t)
  PROVE  /\ IsSeq(s \o t) /\ Len(s \o t) = Len(s) + Len(t)
         /\ Len(s) \in Nat /\ Len(t) \in Nat
         /\ \A i \in 1..Len(s) : (s \o t)[i] = s[i]
         /\ \A i \in 1..Len(t) : (s \o t)[Len(s) + i] = t[i]
         /\ s \o <<>> = s /\ <<>> \o s = s
<1>1. PICK A : s \in Seq(A)
  BY DEF IsSeq
<1>2. PICK T : t \in Seq(T)
  BY DEF IsSeq
<1>3. s \in Seq(A \cup T) /\ t \in Seq(A \cup T)
  BY <1>1, <1>2, SeqMonotonic
<1>4. /\ s \o t \in Seq(A \cup T) /\ Len(s \o t) = Len(s) + Len(t)
      /\ \A i \in 1..Len(s) + Len(t) : (s \o t)[i] = IF i <= Len(s) THEN s[i] ELSE t[i - Len(s)]
      /\ Len(s) \in Nat /\ Len(t) \in Nat
  BY <1>3, ConcatProperties, LenProperties
<1>5. s \o <<>> = s /\ <<>> \o s = s
  BY <1>1, ConcatEmptySeq
<1>6. \A i \in 1..Len(s) : (s \o t)[i] = s[i]
  BY <1>4
<1>7. \A i \in 1..Len(t) : (s \o t)[Len(s) + i] = t[i]
  <2> TAKE i \in 1..Len(t)
  <2>1. /\ Len(s) + i \in 1..Len(s) + Len(t) /\ ~(Len(s) + i <= Len(s))
        /\ (Len(s) + i) - Len(s) = i
    BY <1>4
  <2> QED
    BY <1>4, <2>1
<1> QED
  BY <1>4, <1>5, <1>6, <1>7 DEF IsSeq

\* Sequences that say the same are the same.
LEMMA SameSeq ==
  ASSUME NEW s, NEW t, IsSeq(s), IsSeq(t), Len(s) = Len(t), \A i \in 1..Len(s) : s[i] = t[i]
  PROVE  s = t
<1>1. PICK A : s \in Seq(A)
  BY DEF IsSeq
<1>2. PICK T : t \in Seq(T)
  BY DEF IsSeq
<1>3. s \in Seq(A \cup T) /\ t \in Seq(A \cup T)
  BY <1>1, <1>2, SeqMonotonic
<1> QED
  BY <1>3, SeqEqual

\* A function of the numbers up to n is one.
LEMMA FunctionIs ==
  ASSUME NEW n \in Nat, NEW f, f = [k \in 1..n |-> f[k]]
  PROVE  IsSeq(f) /\ Len(f) = n /\ DOMAIN f = 1..n
<1> DEFINE A == {f[k] : k \in 1..n}
<1>1. \A k \in 1..n : f[k] \in A
  OBVIOUS
<1> HIDE DEF A
<1>2. f \in [1..n -> A]
  BY <1>1
<1>3. f \in Seq(A) /\ Len(f) = n
  BY <1>2
<1> QED
  BY <1>2, <1>3 DEF IsSeq

\* One more at the end.
LEMMA Appended ==
  ASSUME NEW s, NEW x, IsSeq(s)
  PROVE  /\ IsSeq(Append(s, x)) /\ Len(Append(s, x)) = Len(s) + 1 /\ Len(s) \in Nat
         /\ DOMAIN s = 1..Len(s) /\ DOMAIN Append(s, x) = 1..(Len(s) + 1)
         /\ \A i \in 1..Len(s) : Append(s, x)[i] = s[i]
         /\ Append(s, x)[Len(s) + 1] = x
<1>1. PICK A : s \in Seq(A)
  BY DEF IsSeq
<1>2. s \in Seq(A \cup {x}) /\ x \in A \cup {x}
  BY <1>1, SeqMonotonic
<1>3. Append(s, x) \in Seq(A \cup {x})
  BY <1>2, AppendProperties
<1> QED
  BY <1>2, <1>3 DEF IsSeq

\* The cells of a name, an extra field or a comment.
LEMMA FillerIs ==
  ASSUME NEW n \in Nat
  PROVE  /\ IsSeq(H!Filler(n)) /\ Len(H!Filler(n)) = n
         /\ \A i \in 1..n : H!Filler(n)[i].t = "other"
<1>1. H!Filler(n) \in Seq([t : {"other"}]) /\ Len(H!Filler(n)) = n
  BY DEF H!Filler
<1> QED
  BY <1>1 DEF IsSeq, H!Filler

-----------------------------------------------------------------------------
(* FlattenSeq, whose recursive function exists because numbers have no     *)
(* smallest one at which it fails.                                         *)

\* A set of numbers has a smallest member.
LEMMA Smallest ==
  ASSUME NEW T, T \subseteq Nat, T # {}
  PROVE  \E n \in T : \A m \in T : n <= m
<1>1. PICK n \in T : \A m \in T : ~(<<m, n>> \in OpToRel(<, Nat))
  BY NatLessThanWellFounded, WFMin
<1>2. \A m \in T : ~(m < n)
  BY <1>1 DEF OpToRel
<1>3. n \in Int /\ \A m \in T : m \in Int
  OBVIOUS
<1> QED
  BY <1>2, <1>3

JoinedIn(s) ==
  LET joined[i \in 1..Len(s)] == IF i = 1 THEN s[i] ELSE joined[i - 1] \o s[i]
  IN joined
Joins(f, s, n) == f = [i \in 1..n |-> IF i = 1 THEN s[i] ELSE f[i - 1] \o s[i]]

\* Some sequences can be joined one by one.
LEMMA JoinsExist ==
  ASSUME NEW s, NEW n \in Nat
  PROVE  \E f : Joins(f, s, n)
<1> DEFINE T == {m \in Nat : ~\E f : Joins(f, s, m)}
<1> SUFFICES ASSUME T # {} PROVE FALSE
  OBVIOUS
<1>1. T \subseteq Nat
  OBVIOUS
<1>2. PICK m \in T : \A k \in T : m <= k
  BY <1>1, Smallest
<1>3. m \in Nat /\ ~\E f : Joins(f, s, m)
  BY <1>2
<1>4. m # 0
  <2> DEFINE f == [i \in 1..0 |-> <<>>]
  <2>1. Joins(f, s, 0)
    BY DEF Joins
  <2> QED
    BY <1>3, <2>1
<1>5. m - 1 \in Nat /\ ~(m <= m - 1)
  BY <1>3, <1>4
<1>6. PICK g : Joins(g, s, m - 1)
  BY <1>2, <1>5
<1> DEFINE f == [i \in 1..m |-> IF i = m THEN IF m = 1 THEN s[m] ELSE g[m - 1] \o s[m] ELSE g[i]]
<1>7. \A i \in 1..m : f[i] = IF i = 1 THEN s[i] ELSE f[i - 1] \o s[i]
  <2> TAKE i \in 1..m
  <2>1. CASE i = m
    BY <1>3, <1>4, <2>1
  <2>2. CASE i # m
    <3>1. i \in 1..(m - 1)
      BY <1>3, <2>2
    <3>2. g[i] = IF i = 1 THEN s[i] ELSE g[i - 1] \o s[i]
      BY <1>6, <3>1 DEF Joins
    <3>3. i # 1 => i - 1 \in 1..m /\ i - 1 # m
      BY <3>1, <1>3
    <3> QED
      BY <2>2, <3>2, <3>3
  <2> QED
    BY <2>1, <2>2
<1>8. Joins(f, s, m)
  BY <1>7 DEF Joins
<1> QED
  BY <1>3, <1>8

\* The sequences of s joined, one by one.
LEMMA JoinedGoes ==
  ASSUME NEW s, Len(s) \in Nat
  PROVE  \A i \in 1..Len(s) :
           JoinedIn(s)[i] = IF i = 1 THEN s[i] ELSE JoinedIn(s)[i - 1] \o s[i]
<1> DEFINE f == JoinedIn(s)
<1>1. \E g : Joins(g, s, Len(s))
  BY JoinsExist
<1>2. f = CHOOSE g : Joins(g, s, Len(s))
  BY DEF JoinedIn, Joins
<1>3. Joins(f, s, Len(s))
  BY <1>1, <1>2
<1> HIDE DEF f
<1>4. \A i \in 1..Len(s) : f[i] = IF i = 1 THEN s[i] ELSE f[i - 1] \o s[i]
  BY <1>3 DEF Joins
<1> QED
  BY <1>4 DEF f

FirstN(s, n) == [k \in 1..n |-> s[k]]
Flat(s, n) == FlattenSeq(FirstN(s, n))

\* The three modules have the library's operator.
LEMMA SameFlatten ==
  /\ \A s : H!FlattenSeq(s) = FlattenSeq(s)
  /\ \A s : L!FlattenSeq(s) = FlattenSeq(s)
BY DEF H!FlattenSeq, L!FlattenSeq, FlattenSeq

\* Two that agree as far as they are joined are joined alike.
LEMMA JoinedAlike ==
  ASSUME NEW s, NEW n \in Nat, NEW m \in n..(n + 1)
  PROVE  \A i \in 1..n : JoinedIn(FirstN(s, m))[i] = JoinedIn(FirstN(s, n))[i]
<1>1. /\ Len(FirstN(s, m)) = m /\ \A i \in 1..m : FirstN(s, m)[i] = s[i]
      /\ Len(FirstN(s, n)) = n /\ \A i \in 1..n : FirstN(s, n)[i] = s[i]
  BY DEF FirstN
<1> DEFINE f == JoinedIn(FirstN(s, m))
           g == JoinedIn(FirstN(s, n))
           T == {i \in 1..n : f[i] # g[i]}
<1>2. \A i \in 1..m : f[i] = IF i = 1 THEN s[i] ELSE f[i - 1] \o s[i]
  BY <1>1, JoinedGoes
<1>3. \A i \in 1..n : g[i] = IF i = 1 THEN s[i] ELSE g[i - 1] \o s[i]
  BY <1>1, JoinedGoes
<1> HIDE DEF f, g
<1>4. SUFFICES ASSUME T # {} PROVE FALSE
  BY DEF f, g
<1>5. T \subseteq Nat
  OBVIOUS
<1>6. PICK i \in T : \A j \in T : i <= j
  BY <1>4, <1>5, Smallest
<1>7. i \in 1..n /\ i \in 1..m /\ f[i] # g[i]
  OBVIOUS
<1>8. i # 1
  BY <1>2, <1>3, <1>7
<1>9. i - 1 \in 1..n /\ ~(i <= i - 1)
  BY <1>7, <1>8
<1>10. f[i - 1] = g[i - 1]
  BY <1>6, <1>9
<1> QED
  BY <1>2, <1>3, <1>7, <1>8, <1>10

\* No sequences joined, and one more.
LEMMA FlatGoes ==
  ASSUME NEW s, NEW n \in Nat, \A k \in 1..(n + 1) : IsSeq(s[k])
  PROVE  Flat(s, 0) = <<>> /\ Flat(s, n + 1) = Flat(s, n) \o s[n + 1]
<1>1. ASSUME NEW m \in Nat
      PROVE  Flat(s, m) = IF m = 0 THEN <<>> ELSE JoinedIn(FirstN(s, m))[m]
  <2> DEFINE f == FirstN(s, m)
  <2>1. Len(f) = m /\ (m = 0 => f = <<>>)
    BY DEF FirstN
  <2> HIDE DEF f
  <2>2. FlattenSeq(f) = IF Len(f) = 0 THEN f ELSE JoinedIn(f)[Len(f)]
    BY DEF FlattenSeq, JoinedIn
  <2> QED
    BY <2>1, <2>2 DEF Flat, f
<1>2. Flat(s, 0) = <<>>
  BY <1>1
<1> DEFINE g == JoinedIn(FirstN(s, n + 1))
<1>3. Len(FirstN(s, n + 1)) = n + 1 /\ \A i \in 1..(n + 1) : FirstN(s, n + 1)[i] = s[i]
  BY DEF FirstN
<1>4. \A i \in 1..(n + 1) : g[i] = IF i = 1 THEN FirstN(s, n + 1)[i] ELSE g[i - 1] \o FirstN(s, n + 1)[i]
  BY <1>3, JoinedGoes
<1>5. g[n + 1] = IF n + 1 = 1 THEN s[n + 1] ELSE g[(n + 1) - 1] \o s[n + 1]
  <2> HIDE DEF g
  <2>1. n + 1 \in 1..(n + 1)
    OBVIOUS
  <2> QED
    BY <1>3, <1>4, <2>1
<1>6. Flat(s, n + 1) = g[n + 1]
  <2>1. n + 1 \in Nat /\ n + 1 # 0
    OBVIOUS
  <2> QED
    BY <1>1, <2>1
<1> HIDE DEF g
<1>7. CASE n = 0
  <2>1. IsSeq(s[1]) /\ <<>> \o s[1] = s[1]
    <3>1. IsSeq(s[1])
      BY <1>7
    <3> QED
      BY <3>1, Joined
  <2>2. n + 1 = 1 /\ Flat(s, n) = <<>>
    BY <1>2, <1>7
  <2>3. Flat(s, n + 1) = s[1]
    BY <1>5, <1>6, <2>2
  <2>4. s[n + 1] = s[1]
    BY <2>2
  <2> QED
    BY <1>2, <2>1, <2>2, <2>3, <2>4
<1>8. CASE n # 0
  <2>1. g[n] = JoinedIn(FirstN(s, n))[n]
    BY <1>8, JoinedAlike DEF g
  <2>2. Flat(s, n) = g[n]
    BY <1>1, <1>8, <2>1
  <2>3. (n + 1) - 1 = n /\ n + 1 # 1
    BY <1>8
  <2> QED
    BY <1>2, <1>5, <1>6, <2>2, <2>3
<1> QED
  BY <1>7, <1>8

\* The joined sequences are one sequence, for each n up to which they are some.
LEMMA FlatIs ==
  ASSUME NEW s, NEW n \in Nat, \A k \in 1..n : IsSeq(s[k])
  PROVE  \A m \in 0..n : IsSeq(Flat(s, m))
<1> DEFINE T == {m \in 0..n : ~IsSeq(Flat(s, m))}
<1>1. SUFFICES ASSUME T # {} PROVE FALSE
  OBVIOUS
<1>2. T \subseteq Nat
  OBVIOUS
<1>3. PICK m \in T : \A j \in T : m <= j
  BY <1>1, <1>2, Smallest
<1>4. m \in 0..n /\ ~IsSeq(Flat(s, m))
  BY <1>3
<1>5. m # 0
  <2>1. IsSeq(<<>>)
    BY EmptySeq DEF IsSeq
  <2>2. Len(FirstN(s, 0)) = 0 /\ FirstN(s, 0) = <<>>
    BY DEF FirstN
  <2>3. Flat(s, 0) = <<>>
    BY <2>2 DEF Flat, FlattenSeq
  <2> QED
    BY <1>4, <2>1, <2>3
<1>6. m - 1 \in 0..n /\ ~(m <= m - 1) /\ (m - 1) + 1 = m /\ m - 1 \in Nat
  BY <1>4, <1>5
<1>7. IsSeq(Flat(s, m - 1))
  BY <1>3, <1>6
<1>8. IsSeq(s[m])
  BY <1>4, <1>5
<1>9. Flat(s, m) = Flat(s, m - 1) \o s[m]
  <2>1. \A k \in 1..((m - 1) + 1) : IsSeq(s[k])
    BY <1>4, <1>6
  <2> QED
    BY <1>6, <2>1, FlatGoes
<1> QED
  BY <1>4, <1>7, <1>8, <1>9, Joined

-----------------------------------------------------------------------------
(* The writer                                                              *)

MaxOK == Max16 \in Nat \ {0} /\ Max32 \in Nat \ {0}

\* A deflated stream: each cell stands for some bytes, one may be the last.
Cells == [t : {"byte"}, bytes : Seq(DataCells), last : BOOLEAN]

\* The smaller of two numbers.
LEMMA MinIs ==
  ASSUME NEW a \in Nat, NEW b \in Nat
  PROVE  H!Min({a, b}) = IF a <= b THEN a ELSE b
<1> DEFINE P(x) == x \in {a, b} /\ \A y \in {a, b} : x <= y
<1>1. H!Min({a, b}) = CHOOSE x \in {a, b} : \A y \in {a, b} : x <= y
  BY DEF H!Min
<1>2. \E x \in {a, b} : \A y \in {a, b} : x <= y
  OBVIOUS
<1>3. H!Min({a, b}) \in {a, b} /\ \A y \in {a, b} : H!Min({a, b}) <= y
  <2> DEFINE m == CHOOSE x \in {a, b} : \A y \in {a, b} : x <= y
  <2>1. m \in {a, b} /\ \A y \in {a, b} : m <= y
    BY <1>2
  <2> QED
    BY <1>1, <2>1
<1> QED
  BY <1>3

\* How many parts of a size a length has.
LEMMA PartsAre ==
  ASSUME NEW len \in Nat, NEW size \in Nat \ {0}
  PROVE  /\ (len + size - 1) \div size \in Nat
         /\ len <= ((len + size - 1) \div size) * size
         /\ len # 0 => /\ (len + size - 1) \div size # 0
                       /\ ((len + size - 1) \div size - 1) * size < len
         /\ len = 0 => (len + size - 1) \div size = 0
OBVIOUS
Parts(len, size) == (len + size - 1) \div size
Chunk(data, size, k) == SubSeq(data, (k - 1) * size + 1, H!Min({k * size, Len(data)}))
Chunks(data, size) == [k \in 1..Parts(Len(data), size) |-> Chunk(data, size, k)]

\* Each chunk is what follows the chunks before it.
LEMMA ChunkIs ==
  ASSUME NEW A, NEW data \in Seq(A), NEW size \in Nat \ {0}, NEW k \in 1..Parts(Len(data), size)
  PROVE  /\ Parts(Len(data), size) \in Nat
         /\ (k - 1) * size \in Nat /\ (k - 1) * size < Len(data)
         /\ k * size = (k - 1) * size + size
         /\ H!Min({k * size, Len(data)}) \in ((k - 1) * size + 1)..Len(data)
         /\ Chunk(data, size, k) \in Seq(A)
<1>1. Len(data) \in Nat
  OBVIOUS
<1> DEFINE n == Parts(Len(data), size)
<1>2. n \in Nat /\ (n # 0 => (n - 1) * size < Len(data))
  BY <1>1, PartsAre DEF Parts
<1> HIDE DEF n
<1>3. k \in 1..n /\ k \in Nat /\ k - 1 \in Nat /\ n # 0 /\ n - 1 \in Nat /\ k - 1 <= n - 1
  BY <1>2 DEF n
<1>4. \A a, b \in Nat : a <= b => a * size <= b * size /\ a * size \in Nat
  OBVIOUS
<1>5. (k - 1) * size <= (n - 1) * size /\ (k - 1) * size \in Nat /\ (n - 1) * size \in Nat
  BY <1>3, <1>4
<1>6. (k - 1) * size < Len(data)
  BY <1>1, <1>2, <1>3, <1>5
<1>7. k * size = (k - 1) * size + size /\ k * size \in Nat
  BY <1>3
<1> DEFINE a == (k - 1) * size
           b == H!Min({k * size, Len(data)})
<1>8. b = IF k * size <= Len(data) THEN k * size ELSE Len(data)
  BY <1>1, <1>7, MinIs
<1>9. a \in Nat /\ a < Len(data) /\ k * size = a + size
  BY <1>5, <1>6, <1>7
<1> HIDE DEF a
<1>10. b \in (a + 1)..Len(data)
  BY <1>1, <1>8, <1>9
<1> HIDE DEF b
<1>11. SubSeq(data, a + 1, b) \in Seq(A)
  <2>1. a + 1 \in Int /\ b \in Int /\ \A i \in (a + 1)..b : data[i] \in A
    BY <1>1, <1>9, <1>10
  <2> QED
    BY <2>1, SubSeqProperties
<1> QED
  BY <1>2, <1>5, <1>6, <1>7, <1>10, <1>11 DEF a, b, n, Chunk

\* What is cut into chunks is what they are together.
LEMMA ChunksJoined ==
  ASSUME NEW A, NEW data \in Seq(A), NEW size \in Nat \ {0}
  PROVE  Flat(Chunks(data, size), Parts(Len(data), size)) = data
<1> DEFINE n == Parts(Len(data), size)
           c == Chunks(data, size)
           upTo(m) == IF m = 0 THEN 0 ELSE H!Min({m * size, Len(data)})
           T == {m \in 0..n : Flat(c, m) # SubSeq(data, 1, upTo(m))}
<1>1. Len(data) \in Nat
  OBVIOUS
<1>2. n \in Nat /\ (n # 0 => (n - 1) * size < Len(data)) /\ Len(data) <= n * size
      /\ (Len(data) = 0 => n = 0)
  BY <1>1, PartsAre DEF Parts
<1>3. \A k \in 1..n : c[k] = Chunk(data, size, k) /\ c[k] \in Seq(A)
  BY ChunkIs DEF Chunks
<1>4. \A k \in 1..n : IsSeq(c[k])
  BY <1>3 DEF IsSeq
<1> HIDE DEF c, n, T
<1>5. Flat(c, 0) = <<>>
  <2>1. FirstN(c, 0) = <<>> /\ Len(FirstN(c, 0)) = 0
    BY DEF FirstN
  <2> QED
    BY <2>1 DEF Flat, FlattenSeq
<1>6. \A m \in 1..n : Flat(c, m) = Flat(c, m - 1) \o c[m]
  <2> TAKE m \in 1..n
  <2>1. m - 1 \in Nat /\ (m - 1) + 1 = m /\ \A k \in 1..((m - 1) + 1) : IsSeq(c[k])
    BY <1>2, <1>4
  <2> QED
    BY <2>1, FlatGoes
<1>7. T = {}
  <2> SUFFICES ASSUME T # {} PROVE FALSE
    OBVIOUS
  <2>1. T \subseteq Nat
    BY DEF T
  <2>2. PICK m \in T : \A j \in T : m <= j
    BY <2>1, Smallest
  <2>3. m \in 0..n /\ Flat(c, m) # SubSeq(data, 1, upTo(m))
    BY <2>2 DEF T
  <2>4. m # 0
    <3>1. SubSeq(data, 1, 0) = <<>>
      BY SubSeqEmpty
    <3> QED
      BY <1>5, <2>3, <3>1
  <2>5. m \in 1..n /\ m - 1 \in 0..n /\ ~(m <= m - 1)
    BY <1>2, <2>3, <2>4
  <2>6. Flat(c, m - 1) = SubSeq(data, 1, upTo(m - 1))
    BY <2>2, <2>5 DEF T
  <2>7. upTo(m - 1) = (m - 1) * size
    <3>1. CASE m = 1
      BY <3>1
    <3>2. CASE m # 1
      <4>1. m - 1 \in 1..n /\ m \in 1..Parts(Len(data), size) /\ m - 1 # 0
        BY <1>2, <2>5, <3>2 DEF n
      <4>2. (m - 1) * size \in Nat /\ (m - 1) * size < Len(data)
        BY <4>1, ChunkIs
      <4>3. H!Min({(m - 1) * size, Len(data)}) = (m - 1) * size
        BY <1>1, <4>2, MinIs
      <4> QED
        BY <4>1, <4>3
    <3> QED
      BY <3>1, <3>2
  <2>8. c[m] = SubSeq(data, (m - 1) * size + 1, upTo(m))
    BY <1>3, <2>4, <2>5 DEF Chunk
  <2> DEFINE a == (m - 1) * size
             b == upTo(m)
  <2>9. a \in Nat /\ a < Len(data) /\ b \in (a + 1)..Len(data)
    <3>1. m \in 1..Parts(Len(data), size)
      BY <2>5 DEF n
    <3> QED
      BY <2>4, <3>1, ChunkIs
  <2> HIDE DEF a, b
  <2>10. SubSeq(data, 1, a) \o SubSeq(data, a + 1, b) = SubSeq(data, 1, b)
    <3>1. /\ 1 \in 1..(Len(data) + 1) /\ a \in (1 - 1)..Len(data) /\ b \in a..Len(data)
      BY <1>1, <2>9
    <3> QED
      BY <3>1, ConcatAdjacentSubSeq
  <2>11. Flat(c, m) = SubSeq(data, 1, a) \o SubSeq(data, a + 1, b)
    BY <1>6, <2>5, <2>6, <2>7, <2>8 DEF a, b
  <2> QED
    BY <2>3, <2>10, <2>11 DEF b
<1>8. n \in 0..n
  BY <1>2
<1>9. Flat(c, n) = SubSeq(data, 1, upTo(n))
  BY <1>7, <1>8 DEF T
<1>10. upTo(n) = Len(data)
  <2>1. CASE n = 0
    <3>1. Len(data) <= 0 * size
      BY <1>2, <2>1
    <3>2. Len(data) = 0
      BY <1>1, <3>1
    <3> QED
      BY <2>1, <3>2
  <2>2. CASE n # 0
    <3>1. n * size \in Nat /\ Len(data) <= n * size
      BY <1>2
    <3>2. H!Min({n * size, Len(data)}) = Len(data)
      BY <1>1, <3>1, MinIs
    <3> QED
      BY <2>2, <3>2
  <2> QED
    BY <2>1, <2>2
<1>11. SubSeq(data, 1, Len(data)) = data
  BY SubSeqFull
<1> QED
  BY <1>9, <1>10, <1>11 DEF c, n

BytesEach(s) == [k \in 1..Len(s) |-> s[k].bytes]
Bytes(s) == FlattenSeq(BytesEach(s))

\* The bytes of cells, cell by cell.
LEMMA BytesAre ==
  ASSUME NEW s \in Seq(Cells)
  PROVE  /\ \A k \in 1..Len(s) : BytesEach(s)[k] = s[k].bytes /\ IsSeq(BytesEach(s)[k])
         /\ Bytes(s) = Flat(BytesEach(s), Len(s)) /\ IsSeq(Bytes(s))
         /\ Flat(BytesEach(s), 0) = <<>>
         /\ \A m \in 1..Len(s) :
              /\ Flat(BytesEach(s), m) = Flat(BytesEach(s), m - 1) \o s[m].bytes
              /\ IsSeq(Flat(BytesEach(s), m))
<1> DEFINE c == BytesEach(s)
           n == Len(s)
<1>1. n \in Nat
  OBVIOUS
<1>2. \A k \in 1..n : c[k] = s[k].bytes /\ IsSeq(c[k])
  <2> TAKE k \in 1..n
  <2>1. s[k] \in Cells
    OBVIOUS
  <2> QED
    BY <2>1 DEF BytesEach, Cells, IsSeq
<1>3. FirstN(c, n) = c
  BY DEF FirstN, BytesEach
<1> HIDE DEF c, n
<1>4. \A k \in 1..n : IsSeq(c[k])
  BY <1>2
<1>5. \A m \in 0..n : IsSeq(Flat(c, m))
  BY <1>1, <1>4, FlatIs
<1>6. Flat(c, 0) = <<>>
  <2>1. FirstN(c, 0) = <<>> /\ Len(FirstN(c, 0)) = 0
    BY DEF FirstN
  <2> QED
    BY <2>1 DEF Flat, FlattenSeq
<1>7. \A m \in 1..n : Flat(c, m) = Flat(c, m - 1) \o c[m]
  <2> TAKE m \in 1..n
  <2>1. m - 1 \in Nat /\ (m - 1) + 1 = m /\ \A k \in 1..((m - 1) + 1) : IsSeq(c[k])
    BY <1>1, <1>4
  <2> QED
    BY <2>1, FlatGoes
<1>8. n \in 0..n /\ \A m \in 1..n : m \in 0..n
  BY <1>1
<1>9. Bytes(s) = Flat(c, n) /\ IsSeq(Bytes(s))
  BY <1>3, <1>5, <1>8 DEF Bytes, Flat, c
<1>10. \A m \in 1..n : Flat(c, m) = Flat(c, m - 1) \o s[m].bytes /\ IsSeq(Flat(c, m))
  BY <1>2, <1>5, <1>7, <1>8
<1> QED
  BY <1>2, <1>6, <1>9, <1>10 DEF c, n

\* Three sequences joined.
LEMMA Associative ==
  ASSUME NEW s, NEW t, NEW u, IsSeq(s), IsSeq(t), IsSeq(u)
  PROVE  (s \o t) \o u = s \o (t \o u)
<1>1. PICK A : s \in Seq(A)
  BY DEF IsSeq
<1>2. PICK T : t \in Seq(T)
  BY DEF IsSeq
<1>3. PICK U : u \in Seq(U)
  BY DEF IsSeq
<1> DEFINE V == A \cup T \cup U
<1>4. s \in Seq(V) /\ t \in Seq(V) /\ u \in Seq(V)
  BY <1>1, <1>2, <1>3, SeqMonotonic
<1> HIDE DEF V
<1> QED
  BY <1>4, ConcatAssociative

\* The bytes of cells that are joined are joined.
LEMMA BytesJoined ==
  ASSUME NEW s \in Seq(Cells), NEW t \in Seq(Cells)
  PROVE  s \o t \in Seq(Cells) /\ Bytes(s \o t) = Bytes(s) \o Bytes(t)
<1> DEFINE u == s \o t
<1>1. /\ u \in Seq(Cells) /\ Len(u) = Len(s) + Len(t) /\ Len(s) \in Nat /\ Len(t) \in Nat
      /\ \A i \in 1..Len(s) : u[i] = s[i]
      /\ \A i \in 1..Len(t) : u[Len(s) + i] = t[i]
  <2>1. IsSeq(s) /\ IsSeq(t)
    BY DEF IsSeq
  <2>2. u \in Seq(Cells)
    BY ConcatProperties
  <2>3. /\ Len(u) = Len(s) + Len(t) /\ Len(s) \in Nat /\ Len(t) \in Nat
        /\ \A i \in 1..Len(s) : u[i] = s[i]
        /\ \A i \in 1..Len(t) : u[Len(s) + i] = t[i]
    BY <2>1, Joined
  <2> QED
    BY <2>2, <2>3
<1> HIDE DEF u
<1> DEFINE T == {m \in 0..Len(t) :
                   Flat(BytesEach(u), Len(s) + m) # Bytes(s) \o Flat(BytesEach(t), m)}
<1>2. Flat(BytesEach(u), Len(s)) = Bytes(s)
  <2>1. \A k \in 1..Len(s) : k \in 1..Len(u)
    BY <1>1
  <2>2. FirstN(BytesEach(u), Len(s)) = BytesEach(s)
    <3>1. \A k \in 1..Len(s) : BytesEach(u)[k] = s[k].bytes
      BY <1>1, <2>1 DEF BytesEach
    <3> QED
      BY <3>1 DEF FirstN, BytesEach
  <2> QED
    BY <2>2 DEF Flat, Bytes
<1>3. T = {}
  <2> SUFFICES ASSUME T # {} PROVE FALSE
    OBVIOUS
  <2>1. T \subseteq Nat
    BY <1>1
  <2> HIDE DEF T
  <2>2. PICK m \in T : \A j \in T : m <= j
    BY <2>1, Smallest
  <2>3. /\ m \in 0..Len(t)
        /\ Flat(BytesEach(u), Len(s) + m) # Bytes(s) \o Flat(BytesEach(t), m)
    BY <2>2 DEF T
  <2>4. m # 0
    <3>1. Bytes(s) \o <<>> = Bytes(s)
      <4>1. IsSeq(Bytes(s))
        BY BytesAre
      <4> QED
        BY <4>1, Joined
    <3>2. Flat(BytesEach(t), 0) = <<>>
      BY BytesAre
    <3>3. Len(s) + 0 = Len(s)
      BY <1>1
    <3>4. SUFFICES ASSUME m = 0 PROVE FALSE
      OBVIOUS
    <3>5. Flat(BytesEach(u), Len(s) + m) = Bytes(s)
      BY <1>2, <3>3, <3>4
    <3>6. Bytes(s) \o Flat(BytesEach(t), m) = Bytes(s)
      BY <3>1, <3>2, <3>4
    <3> QED
      BY <2>3, <3>5, <3>6
  <2>5. m \in 1..Len(t) /\ m - 1 \in 0..Len(t) /\ ~(m <= m - 1)
    BY <1>1, <2>3, <2>4
  <2>6. Flat(BytesEach(u), Len(s) + (m - 1)) = Bytes(s) \o Flat(BytesEach(t), m - 1)
    BY <2>2, <2>5 DEF T
  <2>7. /\ Len(s) + m \in 1..Len(u) /\ (Len(s) + m) - 1 = Len(s) + (m - 1)
        /\ u[Len(s) + m] = t[m]
    BY <1>1, <2>5
  <2>8. Flat(BytesEach(u), Len(s) + m) = Flat(BytesEach(u), Len(s) + (m - 1)) \o t[m].bytes
    BY <1>1, <2>7, BytesAre
  <2>9. Flat(BytesEach(t), m) = Flat(BytesEach(t), m - 1) \o t[m].bytes
    BY <2>5, BytesAre
  <2>10. IsSeq(Bytes(s)) /\ IsSeq(Flat(BytesEach(t), m - 1)) /\ IsSeq(t[m].bytes)
    <3>1. IsSeq(t[m].bytes)
      BY <2>5, BytesAre
    <3>2. CASE m = 1
      <4>1. IsSeq(<<>>)
        BY EmptySeq DEF IsSeq
      <4>2. m - 1 = 0
        BY <3>2
      <4>3. Flat(BytesEach(t), 0) = <<>>
        BY BytesAre
      <4> QED
        <5>1. Flat(BytesEach(t), m - 1) = <<>>
          BY <4>2, <4>3
        <5>2. IsSeq(Bytes(s))
          BY BytesAre
        <5> QED
          BY <3>1, <4>1, <5>1, <5>2
    <3>3. CASE m # 1
      <4>1. m - 1 \in 1..Len(t)
        BY <2>5, <3>3
      <4>2. IsSeq(Flat(BytesEach(t), m - 1)) /\ IsSeq(Bytes(s))
        BY <4>1, BytesAre
      <4> QED
        BY <3>1, <4>2
    <3> QED
      BY <3>2, <3>3
  <2>11. (Bytes(s) \o Flat(BytesEach(t), m - 1)) \o t[m].bytes
           = Bytes(s) \o (Flat(BytesEach(t), m - 1) \o t[m].bytes)
    <3> DEFINE p == Bytes(s)
               q == Flat(BytesEach(t), m - 1)
               r == t[m].bytes
    <3>1. IsSeq(p) /\ IsSeq(q) /\ IsSeq(r)
      BY <2>10
    <3> HIDE DEF p, q, r
    <3>2. (p \o q) \o r = p \o (q \o r)
      BY <3>1, Associative
    <3> QED
      BY <3>2 DEF p, q, r
  <2>12. Flat(BytesEach(u), Len(s) + m) = (Bytes(s) \o Flat(BytesEach(t), m - 1)) \o t[m].bytes
    BY <2>6, <2>8
  <2>13. Flat(BytesEach(u), Len(s) + m) = Bytes(s) \o Flat(BytesEach(t), m)
    BY <2>9, <2>11, <2>12
  <2> QED
    BY <2>3, <2>13
<1>4. Len(t) \in 0..Len(t)
  BY <1>1
<1>5. Flat(BytesEach(u), Len(s) + Len(t)) = Bytes(s) \o Flat(BytesEach(t), Len(t))
  BY <1>3, <1>4
<1>6. Bytes(u) = Flat(BytesEach(u), Len(u)) /\ Bytes(t) = Flat(BytesEach(t), Len(t))
  BY <1>1, BytesAre
<1> QED
  BY <1>1, <1>5, <1>6 DEF u

\* The last cell of a stream, and no other, ends it if it is final.
Ends(s, final) == s # <<>> /\ \A k \in 1..Len(s) : s[k].last = (final /\ k = Len(s))

\* A block decodes to its data and ends the stream if it is told to.
LEMMA BlockIs ==
  ASSUME NEW data \in Seq(DataCells), NEW rate \in Nat \ {0}, NEW final \in BOOLEAN,
         NEW b, b = H!DeflateBlock(data, rate, final)
  PROVE  b \in Seq(Cells) /\ Bytes(b) = data /\ Ends(b, final)
<1> DEFINE n == Parts(Len(data), rate)
           body == [k \in 1..n |-> [t |-> "byte", bytes |-> Chunk(data, rate, k), last |-> FALSE]]
           end == [t |-> "byte", bytes |-> <<>>, last |-> final]
<1>1. b = body \o <<end>>
  BY DEF H!DeflateBlock, Parts, Chunk
<1>2. n \in Nat
  BY PartsAre DEF Parts
<1>3. \A k \in 1..n : Chunk(data, rate, k) \in Seq(DataCells)
  BY ChunkIs
<1>4. end \in Cells /\ end.bytes = <<>> /\ end.last = final
  BY DEF Cells
<1>5. \A k \in 1..n : body[k] \in Cells /\ body[k].bytes = Chunk(data, rate, k) /\ ~body[k].last
  BY <1>3 DEF Cells
<1>6. body = [k \in 1..n |-> body[k]]
  OBVIOUS
<1> HIDE DEF n, body, end
<1>7. body \in Seq(Cells) /\ Len(body) = n
  BY <1>2, <1>5, <1>6
<1>8. <<end>> \in Seq(Cells) /\ Len(<<end>>) = 1 /\ <<end>>[1] = end
  BY <1>4
<1>9. Bytes(body) = data
  <2>1. BytesEach(body) = Chunks(data, rate)
    BY <1>5, <1>7 DEF BytesEach, Chunks, n
  <2>2. FirstN(Chunks(data, rate), n) = Chunks(data, rate)
    BY DEF FirstN, Chunks, n
  <2> QED
    BY <2>1, <2>2, ChunksJoined DEF Bytes, Flat, n
<1>10. Bytes(<<end>>) = <<>>
  <2> DEFINE one == <<end>>
  <2>1. one \in Seq(Cells) /\ Len(one) = 1 /\ one[1].bytes = <<>>
    BY <1>4, <1>8
  <2> HIDE DEF one
  <2>2. /\ Bytes(one) = Flat(BytesEach(one), 1) /\ Flat(BytesEach(one), 0) = <<>>
        /\ Flat(BytesEach(one), 1) = Flat(BytesEach(one), 1 - 1) \o <<>>
    <3>1. Bytes(one) = Flat(BytesEach(one), Len(one))
      BY <2>1, BytesAre
    <3>2. Flat(BytesEach(one), 0) = <<>>
      BY <2>1, BytesAre
    <3>3. \A k \in 1..Len(one) :
            Flat(BytesEach(one), k) = Flat(BytesEach(one), k - 1) \o one[k].bytes
      BY <2>1, BytesAre
    <3>4. 1 \in 1..Len(one)
      BY <2>1
    <3> QED
      BY <2>1, <3>1, <3>2, <3>3, <3>4
  <2>3. 1 - 1 = 0 /\ <<>> \o <<>> = <<>>
    OBVIOUS
  <2>4. Flat(BytesEach(one), 1 - 1) = <<>>
    BY <2>2
  <2>5. Bytes(one) = <<>>
    BY <2>2, <2>3, <2>4
  <2> QED
    BY <2>5 DEF one
<1>11. b \in Seq(Cells) /\ Bytes(b) = Bytes(body) \o Bytes(<<end>>)
  BY <1>1, <1>7, <1>8, BytesJoined
<1>12. data \o <<>> = data
  BY ConcatEmptySeq
<1>13. Ends(b, final)
  <2>1. /\ Len(b) = n + 1 /\ \A k \in 1..n : b[k] = body[k]
        /\ b[n + 1] = end
    <3>1. IsSeq(body) /\ IsSeq(<<end>>)
      BY <1>7, <1>8 DEF IsSeq
    <3>2. /\ Len(body \o <<end>>) = Len(body) + Len(<<end>>)
          /\ \A i \in 1..Len(body) : (body \o <<end>>)[i] = body[i]
          /\ \A i \in 1..Len(<<end>>) : (body \o <<end>>)[Len(body) + i] = <<end>>[i]
      BY <3>1, Joined
    <3>3. 1 \in 1..Len(<<end>>)
      BY <1>8
    <3>4. (body \o <<end>>)[Len(body) + 1] = end
      BY <1>8, <3>2, <3>3
    <3> QED
      BY <1>1, <1>7, <1>8, <3>2, <3>4
  <2>2. \A k \in 1..n : ~b[k].last /\ k # n + 1
    BY <1>2, <1>5, <2>1
  <2>3. \A k \in 1..(n + 1) : k \in 1..n \/ k = n + 1
    BY <1>2
  <2>4. b[n + 1].last = final
    BY <1>4, <2>1
  <2>5. b # <<>>
    BY <1>2, <2>1
  <2>6. \A k \in 1..(n + 1) : b[k].last = (final /\ k = n + 1)
    <3> TAKE k \in 1..(n + 1)
    <3>1. CASE k \in 1..n
      <4>1. b[k] \in Cells /\ ~b[k].last
        BY <1>5, <2>1, <3>1
      <4>2. b[k].last \in BOOLEAN
        BY <4>1 DEF Cells
      <4> QED
        BY <2>2, <3>1, <4>1, <4>2
    <3>2. CASE k = n + 1
      BY <2>4, <3>2
    <3> QED
      BY <2>3, <3>1, <3>2
  <2> QED
    BY <2>1, <2>5, <2>6 DEF Ends
<1> QED
  BY <1>9, <1>10, <1>11, <1>12, <1>13

\* A stream that a decoder turns into the data, and that ends where it ends.
Decodes(s, data) == s \in Seq(Cells) /\ Bytes(s) = data /\ Ends(s, TRUE)

\* A file deflated at once decodes to what it held.
LEMMA DeflateDecodes ==
  ASSUME NEW e, e.data \in Seq(DataCells), e.rate \in Nat \ {0}
  PROVE  Decodes(H!Deflate(e), e.data)
BY BlockIs DEF H!Deflate, Decodes

\* So does a file deflated in blocks, of which only the last ends the stream:
\* concatenated they are one stream (add_entry_pigz_parallel).
LEMMA PigzDecodes ==
  ASSUME NEW e, e.data \in Seq(DataCells), e.data # <<>>, e.rate \in Nat \ {0},
         Block \in Nat \ {0}
  PROVE  Decodes(H!Pigz(e), e.data)
<1> DEFINE data == e.data
           n == Parts(Len(data), Block)
           c == Chunks(data, Block)
           b == [k \in 1..n |-> H!DeflateBlock(Chunk(data, Block, k), e.rate, k = n)]
           Good(m) == LET f == Flat(b, m) IN
             /\ f \in Seq(Cells) /\ Bytes(f) = Flat(c, m)
             /\ m < n => \A k \in 1..Len(f) : ~f[k].last
             /\ m = n => Ends(f, TRUE)
           T == {m \in 0..n : ~Good(m)}
<1>1. data \in Seq(DataCells) /\ Len(data) \in Nat /\ Len(data) # 0
  BY EmptySeq
<1>2. n \in Nat /\ n # 0
  BY <1>1, PartsAre DEF Parts
<1>3. H!Pigz(e) = FlattenSeq(b)
  BY SameFlatten DEF H!Pigz, Chunk, Parts
<1>4. FirstN(b, n) = b
  BY DEF FirstN
<1>5. \A k \in 1..n : /\ b[k] \in Seq(Cells) /\ Bytes(b[k]) = c[k] /\ Ends(b[k], k = n)
                      /\ IsSeq(b[k]) /\ IsSeq(c[k])
  <2> TAKE k \in 1..n
  <2>1. Chunk(data, Block, k) \in Seq(DataCells)
    BY <1>1, ChunkIs
  <2>2. (k = n) \in BOOLEAN
    OBVIOUS
  <2>3. b[k] = H!DeflateBlock(Chunk(data, Block, k), e.rate, k = n)
    OBVIOUS
  <2>4. c[k] = Chunk(data, Block, k)
    BY DEF Chunks
  <2> HIDE DEF b, c, n, data
  <2>5. b[k] \in Seq(Cells) /\ Bytes(b[k]) = Chunk(data, Block, k) /\ Ends(b[k], k = n)
    BY <2>1, <2>2, <2>3, BlockIs
  <2> QED
    BY <2>1, <2>4, <2>5 DEF IsSeq
<1>6. Flat(c, n) = data
  BY <1>1, ChunksJoined
<1> HIDE DEF b, c, n, data, Good
<1>7. T = {}
  <2> SUFFICES ASSUME T # {} PROVE FALSE
    OBVIOUS
  <2>1. T \subseteq Nat
    BY <1>2
  <2>2. PICK m \in T : \A j \in T : m <= j
    BY <2>1, Smallest
  <2>3. m \in 0..n /\ ~Good(m)
    BY <2>2
  <2> HIDE DEF T
  <2>4. m # 0
    <3>1. Flat(b, 0) = <<>> /\ Flat(c, 0) = <<>>
      <4>1. \A k \in 1..(0 + 1) : IsSeq(b[k]) /\ IsSeq(c[k])
        BY <1>2, <1>5
      <4> QED
        BY <4>1, FlatGoes
    <3>2. <<>> \in Seq(Cells) /\ Len(<<>>) = 0
      BY EmptySeq
    <3>3. Bytes(<<>>) = <<>>
      <4>1. Bytes(<<>>) = Flat(BytesEach(<<>>), Len(<<>>))
        BY <3>2, BytesAre
      <4>2. Flat(BytesEach(<<>>), 0) = <<>>
        BY <3>2, BytesAre
      <4> QED
        BY <3>2, <4>1, <4>2
    <3>4. SUFFICES ASSUME m = 0 PROVE FALSE
      OBVIOUS
    <3>5. Flat(b, m) = <<>> /\ Flat(c, m) = <<>>
      BY <3>1, <3>4
    <3>6. m # n
      BY <1>2, <3>4
    <3>7. \A k \in 1..Len(<<>>) : FALSE
      BY <3>2
    <3>8. Good(m)
      BY <3>2, <3>3, <3>5, <3>6, <3>7 DEF Good
    <3> QED
      BY <2>3, <3>8
  <2>5. m - 1 \in 0..n /\ ~(m <= m - 1) /\ m - 1 \in Nat /\ (m - 1) + 1 = m /\ m \in 1..n
        /\ m - 1 < n /\ m \in Nat
    BY <1>2, <2>3, <2>4
  <2>6. Good(m - 1)
    BY <2>2, <2>5 DEF T
  <2> DEFINE f == Flat(b, m - 1)
             g == b[m]
  <2>7. Flat(b, m) = f \o g /\ Flat(c, m) = Flat(c, m - 1) \o c[m]
    <3>1. \A k \in 1..((m - 1) + 1) : IsSeq(b[k]) /\ IsSeq(c[k])
      BY <1>2, <1>5, <2>5
    <3>2. /\ Flat(b, (m - 1) + 1) = Flat(b, m - 1) \o b[(m - 1) + 1]
          /\ Flat(c, (m - 1) + 1) = Flat(c, m - 1) \o c[(m - 1) + 1]
      BY <2>5, <3>1, FlatGoes
    <3> QED
      BY <2>5, <3>2
  <2>8. f \in Seq(Cells) /\ Bytes(f) = Flat(c, m - 1) /\ \A k \in 1..Len(f) : ~f[k].last
    BY <2>5, <2>6 DEF Good
  <2>9. g \in Seq(Cells) /\ Bytes(g) = c[m] /\ Ends(g, m = n)
    BY <1>5, <2>5
  <2> HIDE DEF f, g
  <2>10. f \o g \in Seq(Cells) /\ Bytes(f \o g) = Bytes(f) \o Bytes(g)
    BY <2>8, <2>9, BytesJoined
  <2>11. IsSeq(f) /\ IsSeq(g)
    BY <2>8, <2>9 DEF IsSeq
  <2>12. /\ Len(f \o g) = Len(f) + Len(g) /\ Len(f) \in Nat /\ Len(g) \in Nat
         /\ \A i \in 1..Len(f) : (f \o g)[i] = f[i]
         /\ \A i \in 1..Len(g) : (f \o g)[Len(f) + i] = g[i]
    BY <2>11, Joined
  <2>13. Len(g) # 0 /\ \A k \in 1..Len(g) : g[k].last = (m = n /\ k = Len(g))
    <3>1. g # <<>>
      BY <2>9 DEF Ends
    <3>2. Len(g) # 0
      BY <2>9, <3>1, EmptySeq
    <3> QED
      BY <2>9, <3>2 DEF Ends
  <2> DEFINE x == f \o g
  <2>14. \A k \in 1..Len(x) : x[k].last = (m = n /\ k = Len(x))
    <3> TAKE k \in 1..Len(x)
    <3>1. CASE k \in 1..Len(f)
      <4>1. x[k] = f[k] /\ ~f[k].last
        BY <2>8, <2>12, <3>1
      <4>2. f[k].last \in BOOLEAN
        <5>1. f[k] \in Cells
          BY <2>8, <3>1
        <5> QED
          BY <5>1 DEF Cells
      <4>3. k # Len(x)
        BY <2>12, <2>13, <3>1
      <4> QED
        BY <4>1, <4>2, <4>3
    <3>2. CASE k \notin 1..Len(f)
      <4>1. k - Len(f) \in 1..Len(g) /\ Len(f) + (k - Len(f)) = k
        BY <2>12, <3>2
      <4>2. x[k] = g[k - Len(f)]
        BY <2>12, <4>1
      <4>3. (k - Len(f) = Len(g)) = (k = Len(x))
        BY <2>12, <4>1
      <4> QED
        BY <2>13, <4>1, <4>2, <4>3
    <3> QED
      BY <3>1, <3>2
  <2>15. x # <<>>
    BY <2>12, <2>13
  <2>16. m < n => \A k \in 1..Len(x) : ~x[k].last
    <3> SUFFICES ASSUME m < n, NEW k \in 1..Len(x) PROVE ~x[k].last
      OBVIOUS
    <3>1. m # n
      BY <1>2, <2>5
    <3> QED
      BY <2>14, <3>1
  <2>17. m = n => Ends(x, TRUE)
    BY <2>14, <2>15 DEF Ends
  <2>18. Bytes(x) = Flat(c, m)
    BY <2>7, <2>8, <2>9, <2>10
  <2> HIDE DEF x
  <2>19. Flat(b, m) = x
    BY <2>7 DEF x
  <2>20. x \in Seq(Cells)
    BY <2>10 DEF x
  <2>21. Good(m)
    BY <2>16, <2>17, <2>18, <2>19, <2>20 DEF Good
  <2> QED
    BY <2>3, <2>21
<1>8. Good(n)
  <2>1. n \in 0..n
    BY <1>2
  <2> QED
    BY <1>7, <2>1
<1>9. Flat(b, n) \in Seq(Cells) /\ Bytes(Flat(b, n)) = Flat(c, n) /\ Ends(Flat(b, n), TRUE)
  BY <1>8 DEF Good
<1>10. H!Pigz(e) = Flat(b, n)
  BY <1>3, <1>4 DEF Flat
<1> QED
  BY <1>6, <1>9, <1>10 DEF Decodes, data

\* Each entry begins behind those before it.
Rising(cd, end) ==
  \A k \in 1..Len(cd) : /\ cd[k].lfh \in Nat /\ cd[k].lfh < end
                        /\ \A j \in 1..(k - 1) : cd[j].lfh < cd[k].lfh

\* What the writer has is sequences, its cursor is where the next cell goes,
\* and nothing in front of the directory looks like a part of it.
WriterOK(v) ==
  /\ IsSeq(v.inner) /\ IsSeq(v.cd) /\ v.cursor = Len(v.inner) /\ Rising(v.cd, v.cursor)
  /\ \A i \in 1..Len(v.inner) : v.inner[i].t \in {"lfh", "byte", "other"}

Lead(zip64) == IF zip64 THEN 3 ELSE 1

\* A local header and its entry's cells from `at` on.
LiesAt(inner, at, size, payload, zip64) ==
  LET h == inner[at + 1] IN
  /\ at \in Nat /\ at + 1 + Lead(zip64) + Len(payload) <= Len(inner)
  /\ "t" \in DOMAIN h /\ h.t = "lfh" /\ h.tail = Lead(zip64)
  /\ h.extra = IF zip64 THEN <<size, Len(payload)>> ELSE <<>>
  /\ ~zip64 => h.size = H!AsU32(size) /\ h.comp = H!AsU32(Len(payload))
  /\ \A i \in 1..Len(payload) : inner[at + 1 + Lead(zip64) + i] = payload[i]

\* What was there stays, and there is one more record.
Grown(v, x, rec) ==
  /\ Len(v.inner) \in Nat /\ Len(v.inner) <= Len(x.inner)
  /\ \A i \in 1..Len(v.inner) : x.inner[i] = v.inner[i]
  /\ Len(v.cd) \in Nat /\ Len(x.cd) = Len(v.cd) + 1
  /\ \A k \in 1..Len(v.cd) : x.cd[k] = v.cd[k]
  /\ x.cd[Len(v.cd) + 1] = rec

\* An entry that is written lies behind what was there, and what was there
\* stays.
LEMMA Splices ==
  ASSUME NEW v, WriterOK(v), NEW e, NEW method, NEW crc, NEW size, NEW zip64 \in BOOLEAN,
         NEW payload, IsSeq(payload), \A i \in 1..Len(payload) : payload[i].t = "byte",
         NEW x, x = H!Splice(v, e, method, crc, size, payload, zip64),
         NEW rec,
         rec = [name |-> e.name, method |-> method, crc |-> crc, date |-> H!DosDate(e.day),
                time |-> H!DosTime(e.sec), size |-> size, comp |-> Len(payload),
                lfh |-> v.cursor, zip64 |-> zip64]
  PROVE  /\ WriterOK(x) /\ LiesAt(x.inner, v.cursor, size, payload, zip64)
         /\ Grown(v, x, rec)
<1> DEFINE lfh == H!WriteLfh(size, Len(payload), zip64)
           head == [t |-> "lfh", size |-> IF zip64 THEN Max32 ELSE H!AsU32(size),
                    comp |-> IF zip64 THEN Max32 ELSE H!AsU32(Len(payload)),
                    extra |-> IF zip64 THEN <<size, Len(payload)>> ELSE <<>>, tail |-> Lead(zip64)]
           n == Lead(zip64)
<1>1. /\ x.inner = v.inner \o lfh \o payload /\ x.cd = Append(v.cd, rec)
      /\ x.cursor = v.cursor + 1 + n + Len(payload)
  BY DEF H!Splice, Lead
<1>2. n \in Nat /\ n \in {1, 3}
  BY DEF Lead
<1>3. lfh = <<head>> \o H!Filler(n)
  BY DEF H!WriteLfh, Lead
<1> HIDE DEF lfh, head, n
<1>4. IsSeq(<<head>>) /\ Len(<<head>>) = 1 /\ <<head>>[1] = head
  <2>1. <<head>> \in Seq({head})
    OBVIOUS
  <2> QED
    BY <2>1 DEF IsSeq
<1>5. /\ IsSeq(lfh) /\ Len(lfh) = 1 + n /\ lfh[1] = head
      /\ \A i \in 1..n : lfh[1 + i].t = "other"
  BY <1>2, <1>3, <1>4, Joined, FillerIs
<1> DEFINE y == v.inner \o lfh
<1>6. /\ IsSeq(y) /\ Len(y) = Len(v.inner) + 1 + n /\ Len(v.inner) \in Nat
      /\ \A i \in 1..Len(v.inner) : y[i] = v.inner[i]
      /\ \A i \in 1..(1 + n) : y[Len(v.inner) + i] = lfh[i]
  <2>1. IsSeq(v.inner)
    BY DEF WriterOK
  <2>2. /\ IsSeq(y) /\ Len(y) = Len(v.inner) + Len(lfh) /\ Len(v.inner) \in Nat
        /\ \A i \in 1..Len(v.inner) : y[i] = v.inner[i]
        /\ \A i \in 1..Len(lfh) : y[Len(v.inner) + i] = lfh[i]
    BY <1>5, <2>1, Joined
  <2> HIDE DEF y
  <2>3. Len(y) = Len(v.inner) + 1 + n
    <3>1. PICK a \in Nat : a = Len(v.inner)
      BY <2>2
    <3>2. Len(lfh) = 1 + n
      BY <1>5
    <3>3. Len(y) = Len(v.inner) + Len(lfh)
      BY <2>2
    <3>4. Len(y) = a + (1 + n)
      BY <3>1, <3>2, <3>3, Zenon
    <3>5. Len(v.inner) + 1 + n = a + 1 + n
      BY <3>1, Zenon
    <3>6. a + 1 + n = a + (1 + n)
      BY <1>2
    <3> QED
      BY <3>4, <3>5, <3>6, Zenon
  <2>4. \A i \in 1..(1 + n) : y[Len(v.inner) + i] = lfh[i]
    BY <1>5, <2>2
  <2> QED
    BY <2>2, <2>3, <2>4
<1>7. x.inner = y \o payload
  BY <1>1
<1> HIDE DEF y
<1>8. /\ IsSeq(x.inner) /\ Len(x.inner) = Len(y) + Len(payload) /\ Len(payload) \in Nat
      /\ \A i \in 1..Len(y) : x.inner[i] = y[i]
      /\ \A i \in 1..Len(payload) : x.inner[Len(y) + i] = payload[i]
  <2>1. IsSeq(y)
    BY <1>6
  <2> QED
    BY <1>7, <2>1, Joined
<1>a. PICK a \in Nat : a = Len(v.inner)
  BY <1>6
<1>b. PICK b \in Nat : b = Len(payload)
  BY <1>8
<1>c. Len(y) = a + 1 + n /\ Len(x.inner) = a + 1 + n + b
  BY <1>6, <1>8, <1>a, <1>b
<1>d. /\ \A i \in 1..a : y[i] = v.inner[i]
      /\ \A i \in 1..(1 + n) : y[a + i] = lfh[i]
      /\ \A i \in 1..(a + 1 + n) : x.inner[i] = y[i]
      /\ \A i \in 1..b : x.inner[a + 1 + n + i] = payload[i]
  BY <1>6, <1>8, <1>a, <1>b, <1>c
<1>9. \A i \in 1..a : x.inner[i] = v.inner[i]
  BY <1>2, <1>d
<1>10. x.inner[a + 1] = head
  <2>1. 1 \in 1..(1 + n) /\ a + 1 \in 1..(a + 1 + n)
    BY <1>2
  <2> QED
    BY <1>5, <1>d, <2>1
<1>11. \A i \in 1..n : x.inner[a + 1 + i].t = "other"
  <2> TAKE i \in 1..n
  <2>1. 1 + i \in 1..(1 + n) /\ a + (1 + i) = a + 1 + i /\ a + 1 + i \in 1..(a + 1 + n)
    BY <1>2
  <2>2. x.inner[a + 1 + i] = lfh[1 + i]
    BY <1>d, <2>1
  <2> QED
    BY <1>5, <2>2
<1>12. /\ IsSeq(x.cd) /\ Len(x.cd) = Len(v.cd) + 1 /\ Len(v.cd) \in Nat
       /\ \A k \in 1..Len(v.cd) : x.cd[k] = v.cd[k]
       /\ x.cd[Len(v.cd) + 1] = rec
  BY <1>1, Appended DEF WriterOK
<1>13. x.cursor = Len(x.inner)
  BY <1>1, <1>2, <1>6, <1>8 DEF WriterOK
<1>14. \A i \in 1..Len(x.inner) : x.inner[i].t \in {"lfh", "byte", "other"}
  <2> TAKE i \in 1..Len(x.inner)
  <2>0. i \in 1..(a + 1 + n + b)
    BY <1>c
  <2>1. CASE i \in 1..a
    BY <1>9, <1>a, <2>1 DEF WriterOK
  <2>2. CASE i = a + 1
    BY <1>10, <2>2 DEF head
  <2>3. CASE i \in (a + 2)..(a + 1 + n)
    <3>1. i - (a + 1) \in 1..n /\ a + 1 + (i - (a + 1)) = i
      BY <1>2, <2>3
    <3> QED
      BY <1>11, <3>1
  <2>4. CASE i \in (a + 1 + n + 1)..(a + 1 + n + b)
    <3>1. i - (a + 1 + n) \in 1..b /\ a + 1 + n + (i - (a + 1 + n)) = i
      BY <1>2, <2>4
    <3>2. x.inner[i] = payload[i - (a + 1 + n)]
      BY <1>d, <3>1
    <3> QED
      BY <1>b, <3>1, <3>2
  <2> QED
    BY <1>2, <2>0, <2>1, <2>2, <2>3, <2>4
<1>15. LiesAt(x.inner, v.cursor, size, payload, zip64)
  <2>1. v.cursor = a /\ v.cursor \in Nat
    BY <1>a DEF WriterOK
  <2>2. /\ "t" \in DOMAIN head /\ head.t = "lfh" /\ head.tail = n
        /\ head.extra = IF zip64 THEN <<size, Len(payload)>> ELSE <<>>
        /\ ~zip64 => head.size = H!AsU32(size) /\ head.comp = H!AsU32(Len(payload))
    BY DEF head, n
  <2>3. v.cursor + 1 + n + Len(payload) <= Len(x.inner)
    BY <1>2, <1>b, <1>c, <2>1
  <2>4. \A i \in 1..Len(payload) : x.inner[v.cursor + 1 + n + i] = payload[i]
    BY <1>b, <1>d, <2>1
  <2>5. x.inner[v.cursor + 1] = head
    BY <1>10, <2>1
  <2> QED
    BY <1>8, <2>1, <2>2, <2>3, <2>4, <2>5 DEF LiesAt, n
<1>16. Len(v.inner) <= Len(x.inner)
  BY <1>2, <1>a, <1>c
<1>17. Rising(x.cd, x.cursor)
  <2>1. /\ Rising(v.cd, a) /\ v.cursor = a /\ a < x.cursor /\ x.cursor \in Nat
    BY <1>1, <1>2, <1>a, <1>b DEF WriterOK
  <2>2. rec.lfh = a
    <3>1. rec.lfh = v.cursor
      OBVIOUS
    <3> QED
      BY <2>1, <3>1
  <2> SUFFICES ASSUME NEW k \in 1..Len(x.cd)
               PROVE  /\ x.cd[k].lfh \in Nat /\ x.cd[k].lfh < x.cursor
                      /\ \A j \in 1..(k - 1) : x.cd[j].lfh < x.cd[k].lfh
    BY DEF Rising
  <2>3. CASE k \in 1..Len(v.cd)
    <3>1. x.cd[k] = v.cd[k] /\ \A j \in 1..(k - 1) : j \in 1..Len(v.cd) /\ x.cd[j] = v.cd[j]
      BY <1>12, <2>3
    <3>2. PICK l \in Nat : l = v.cd[k].lfh /\ l < a /\ \A j \in 1..(k - 1) : v.cd[j].lfh < l
      BY <2>1, <2>3 DEF Rising
    <3>3. x.cd[k].lfh = l /\ \A j \in 1..(k - 1) : x.cd[j].lfh < l
      BY <3>1, <3>2
    <3>4. l < x.cursor
      BY <2>1, <3>2
    <3> QED
      BY <3>3, <3>4
  <2>4. CASE k = Len(v.cd) + 1
    <3>1. \A j \in 1..(k - 1) : j \in 1..Len(v.cd) /\ x.cd[j] = v.cd[j]
      BY <1>12, <2>4
    <3>2. x.cd[k].lfh = a
      BY <1>12, <2>2, <2>4
    <3>3. \A j \in 1..Len(v.cd) : v.cd[j].lfh < a
      BY <2>1 DEF Rising
    <3>4. \A j \in 1..(k - 1) : x.cd[j].lfh < a
      BY <3>1, <3>3
    <3> QED
      BY <2>1, <3>2, <3>4
  <2> QED
    BY <1>12, <2>3, <2>4
<1> QED
  BY <1>6, <1>8, <1>9, <1>a, <1>12, <1>13, <1>14, <1>15, <1>16, <1>17 DEF WriterOK, Grown

\* The ways in which the data of a file may be written.
Payloads(e) ==
  {[method |-> "store", cells |-> e.data], [method |-> "deflate", cells |-> H!Deflate(e)]}
  \cup (IF e.data = <<>> THEN {} ELSE {[method |-> "deflate", cells |-> H!Pigz(e)]})

\* An entry's record, and what lies where it says.
HasEntry(inner, r, e) ==
  /\ r.name = e.name /\ r.crc = e.data
  /\ r.date = H!DosDate(e.day) /\ r.time = H!DosTime(e.sec)
  /\ r.size \in Nat /\ r.comp \in Nat /\ r.lfh \in Nat /\ r.zip64 \in BOOLEAN
  /\ e.stat = Len(e.data) => /\ r.size = Len(e.data)
                             /\ ~r.zip64 => r.size <= Max32 /\ r.comp <= Max32
  /\ \E p \in Payloads(e) :
       /\ r.method = p.method /\ r.comp = Len(p.cells)
       /\ LiesAt(inner, r.lfh, r.size, p.cells, r.zip64)

\* A file's payload is a sequence of bytes.
LEMMA PayloadIs ==
  ASSUME NEW e \in Files, NEW p \in Payloads(e)
  PROVE  /\ IsSeq(p.cells) /\ Len(p.cells) \in Nat
         /\ \A i \in 1..Len(p.cells) : p.cells[i].t = "byte"
<1>1. e.data \in Seq(DataCells) /\ e.rate \in Nat \ {0} /\ Block \in Nat \ {0}
  <2>1. e.data \in Seq(DataCells) /\ e.rate \in Nat \ {0}
    BY FilesAssumption
  <2>2. Block \in Nat \ {0}
    BY LimitsAssumption
  <2> QED
    BY <2>1, <2>2
<1>2. ASSUME NEW A, NEW s \in Seq(A), \A x \in A : x.t = "byte"
      PROVE  IsSeq(s) /\ Len(s) \in Nat /\ \A i \in 1..Len(s) : s[i].t = "byte"
  BY <1>2 DEF IsSeq
<1>3. \A x \in Cells \cup DataCells : x.t = "byte"
  BY DEF Cells, DataCells
<1>4. p.cells = e.data \/ Decodes(p.cells, e.data)
  <2>1. CASE p = [method |-> "store", cells |-> e.data]
    BY <2>1
  <2>2. CASE p = [method |-> "deflate", cells |-> H!Deflate(e)]
    <3>1. Decodes(H!Deflate(e), e.data)
      BY <1>1, DeflateDecodes
    <3> QED
      BY <2>2, <3>1
  <2>3. CASE e.data # <<>> /\ p = [method |-> "deflate", cells |-> H!Pigz(e)]
    <3>1. Decodes(H!Pigz(e), e.data)
      BY <1>1, <2>3, PigzDecodes
    <3> QED
      BY <2>3, <3>1
  <2> QED
    BY <2>1, <2>2, <2>3 DEF Payloads
<1>5. CASE p.cells = e.data
  BY <1>1, <1>2, <1>3, <1>5
<1>6. CASE Decodes(p.cells, e.data)
  BY <1>2, <1>3, <1>6 DEF Decodes
<1> QED
  BY <1>4, <1>5, <1>6

\* What lies somewhere stays there when more is written.
LEMMA HasEntryStill ==
  ASSUME NEW a, NEW b, NEW r, NEW e \in Files, HasEntry(a, r, e), Len(a) \in Nat, Len(b) \in Nat,
         Len(a) <= Len(b), \A i \in 1..Len(a) : b[i] = a[i]
  PROVE  HasEntry(b, r, e)
<1>1. PICK p \in Payloads(e) :
        /\ r.method = p.method /\ r.comp = Len(p.cells)
        /\ LiesAt(a, r.lfh, r.size, p.cells, r.zip64)
  BY DEF HasEntry
<1> DEFINE at == r.lfh
           n == Lead(r.zip64)
<1>2. n \in {1, 3} /\ Len(p.cells) \in Nat
  BY PayloadIs DEF Lead
<1>3. at \in Nat /\ at + 1 + n + Len(p.cells) <= Len(a)
  BY <1>1 DEF LiesAt
<1> HIDE DEF n
<1>4. at + 1 \in 1..Len(a) /\ \A i \in 1..Len(p.cells) : at + 1 + n + i \in 1..Len(a)
  BY <1>2, <1>3
<1>5. b[at + 1] = a[at + 1]
  BY <1>4
<1>6. \A i \in 1..Len(p.cells) : b[at + 1 + n + i] = a[at + 1 + n + i]
  BY <1>4
<1>7. at + 1 + n + Len(p.cells) <= Len(b)
  BY <1>2, <1>3
<1>8. LiesAt(b, r.lfh, r.size, p.cells, r.zip64)
  BY <1>1, <1>3, <1>5, <1>6, <1>7 DEF LiesAt, n
<1> QED
  BY <1>1, <1>8 DEF HasEntry

\* What the writer has of each file it was given.
HasEntries(v, given) ==
  /\ WriterOK(v) /\ given \in Seq(Files) /\ Len(v.cd) = Len(given)
  /\ \A k \in 1..Len(given) : HasEntry(v.inner, v.cd[k], given[k])

\* One more entry, whose local header is ZIP64 if it must be.
LEMMA Entered ==
  ASSUME NEW v, NEW given, HasEntries(v, given), NEW e \in Files, NEW p \in Payloads(e),
         NEW size \in Nat, NEW zip64 \in BOOLEAN,
         e.stat = Len(e.data) => /\ size = Len(e.data)
                                 /\ ~zip64 => size <= Max32 /\ Len(p.cells) <= Max32
  PROVE  HasEntries(H!Splice(v, e, p.method, e.data, size, p.cells, zip64), Append(given, e))
<1> DEFINE x == H!Splice(v, e, p.method, e.data, size, p.cells, zip64)
           rec == [name |-> e.name, method |-> p.method, crc |-> e.data, date |-> H!DosDate(e.day),
                   time |-> H!DosTime(e.sec), size |-> size, comp |-> Len(p.cells),
                   lfh |-> v.cursor, zip64 |-> zip64]
<1>1. /\ IsSeq(p.cells) /\ Len(p.cells) \in Nat
      /\ \A i \in 1..Len(p.cells) : p.cells[i].t = "byte"
  BY PayloadIs
<1>2. WriterOK(v) /\ given \in Seq(Files) /\ Len(v.cd) = Len(given) /\ Len(given) \in Nat
  BY DEF HasEntries
<1>3. \E y : y = x
  OBVIOUS
<1>4. /\ WriterOK(x) /\ LiesAt(x.inner, v.cursor, size, p.cells, zip64)
      /\ Len(v.inner) \in Nat /\ Len(v.inner) <= Len(x.inner)
      /\ \A i \in 1..Len(v.inner) : x.inner[i] = v.inner[i]
      /\ Len(v.cd) \in Nat /\ Len(x.cd) = Len(v.cd) + 1
      /\ \A k \in 1..Len(v.cd) : x.cd[k] = v.cd[k]
      /\ x.cd[Len(v.cd) + 1] = rec
  <2> DEFINE cells == p.cells
             method == p.method
             crc == e.data
  <2>1. IsSeq(cells) /\ \A i \in 1..Len(cells) : cells[i].t = "byte"
    BY <1>1
  <2>2. x = H!Splice(v, e, method, crc, size, cells, zip64)
    OBVIOUS
  <2>3. rec = [name |-> e.name, method |-> method, crc |-> crc, date |-> H!DosDate(e.day),
               time |-> H!DosTime(e.sec), size |-> size, comp |-> Len(cells),
               lfh |-> v.cursor, zip64 |-> zip64]
    OBVIOUS
  <2> HIDE DEF cells, method, crc, x, rec
  <2>4. /\ WriterOK(x) /\ LiesAt(x.inner, v.cursor, size, cells, zip64)
        /\ Len(v.inner) \in Nat /\ Len(v.inner) <= Len(x.inner)
        /\ \A i \in 1..Len(v.inner) : x.inner[i] = v.inner[i]
        /\ Len(v.cd) \in Nat /\ Len(x.cd) = Len(v.cd) + 1
        /\ \A k \in 1..Len(v.cd) : x.cd[k] = v.cd[k]
        /\ x.cd[Len(v.cd) + 1] = rec
    <3>1. WriterOK(x) /\ LiesAt(x.inner, v.cursor, size, cells, zip64) /\ Grown(v, x, rec)
      BY <1>2, <2>1, <2>2, <2>3, Splices
    <3> QED
      BY <3>1 DEF Grown
  <2> QED
    BY <2>4 DEF cells
<1>5. v.cursor \in Nat /\ Len(x.inner) \in Nat
  <2>1. v.cursor \in Nat
    BY <1>4 DEF LiesAt
  <2>2. \A s : IsSeq(s) => Len(s) \in Nat
    BY DEF IsSeq
  <2>3. IsSeq(x.inner)
    BY <1>4 DEF WriterOK
  <2> QED
    BY <2>1, <2>2, <2>3
<1>6. HasEntry(x.inner, rec, e)
  <2> HIDE DEF x
  <2>1. /\ rec.name = e.name /\ rec.crc = e.data
        /\ rec.date = H!DosDate(e.day) /\ rec.time = H!DosTime(e.sec)
        /\ rec.method = p.method
        /\ rec.size = size /\ rec.comp = Len(p.cells) /\ rec.lfh = v.cursor /\ rec.zip64 = zip64
    OBVIOUS
  <2> HIDE DEF rec
  <2>2. LiesAt(x.inner, rec.lfh, rec.size, p.cells, rec.zip64)
    BY <1>4, <2>1
  <2> QED
    BY <1>1, <1>5, <2>1, <2>2 DEF HasEntry
<1> HIDE DEF x, rec
<1> DEFINE more == Append(given, e)
<1>7. /\ more \in Seq(Files) /\ Len(more) = Len(given) + 1
      /\ \A k \in 1..Len(given) : more[k] = given[k]
      /\ more[Len(given) + 1] = e
  BY <1>2, AppendProperties
<1> HIDE DEF more
<1>8. \A k \in 1..Len(more) : HasEntry(x.inner, x.cd[k], more[k])
  <2> TAKE k \in 1..Len(more)
  <2>1. CASE k \in 1..Len(given)
    <3>1. /\ more[k] = given[k] /\ x.cd[k] = v.cd[k] /\ given[k] \in Files
          /\ HasEntry(v.inner, v.cd[k], given[k])
      BY <1>2, <1>4, <1>7, <2>1 DEF HasEntries
    <3>2. HasEntry(x.inner, v.cd[k], given[k])
      BY <1>4, <1>5, <3>1, HasEntryStill
    <3> QED
      BY <3>1, <3>2
  <2>2. CASE k = Len(given) + 1
    BY <1>2, <1>4, <1>6, <1>7, <2>2
  <2> QED
    BY <1>2, <1>7, <2>1, <2>2
<1>9. Len(x.cd) = Len(more)
  BY <1>2, <1>4, <1>7
<1> QED
  BY <1>4, <1>7, <1>8, <1>9 DEF HasEntries, x, more

\* What is written as it is decided by its sizes.
LEMMA SplicedEntered ==
  ASSUME NEW v, NEW given, HasEntries(v, given), NEW e \in Files, NEW p \in Payloads(e)
  PROVE  HasEntries(H!Spliced(v, e, p.method, p.cells), Append(given, e))
<1> DEFINE z == H!NeedsZip64ForEntry(Len(e.data), Len(p.cells), v.cursor)
<1>1. Len(e.data) \in Nat /\ Len(p.cells) \in Nat /\ Max32 \in Nat
  <2>1. e.data \in Seq(DataCells)
    BY FilesAssumption
  <2> QED
    BY <2>1, PayloadIs, LimitsAssumption
<1>2. z \in BOOLEAN /\ (~z => Len(e.data) <= Max32 /\ Len(p.cells) <= Max32)
  BY <1>1 DEF H!NeedsZip64ForEntry, H!Overflows
<1>3. H!Spliced(v, e, p.method, p.cells) = H!Splice(v, e, p.method, e.data, Len(e.data), p.cells, z)
  BY DEF H!Spliced
<1> HIDE DEF z
<1>4. HasEntries(H!Splice(v, e, p.method, e.data, Len(e.data), p.cells, z), Append(given, e))
  BY <1>1, <1>2, Entered
<1> QED
  BY <1>3, <1>4

\* Each operation writes what it was given.
LEMMA Operations ==
  ASSUME \A f \in Files : Fits(f),
         NEW v, NEW given, HasEntries(v, given), NEW e \in Files, NEW deflating \in BOOLEAN
  PROVE  /\ e.directory => HasEntries(H!AddDirectory(v, e), Append(given, e))
         /\ ~e.directory => /\ HasEntries(H!AddEntryPrepared(v, e, deflating), Append(given, e))
                            /\ HasEntries(H!AddEntry(v, e, deflating), Append(given, e))
                            /\ HasEntries(H!AddEntryStreaming(v, e, deflating), Append(given, e))
                            /\ e.data # <<>> =>
                                 HasEntries(H!AddEntryPigzParallel(v, e, deflating), Append(given, e))
<1> DEFINE more == Append(given, e)
           store == [method |-> "store", cells |-> e.data]
           defl == [method |-> "deflate", cells |-> H!Deflate(e)]
           pigz == [method |-> "deflate", cells |-> H!Pigz(e)]
<1>1. /\ e.data \in Seq(DataCells) /\ Len(e.data) \in Nat /\ e.stat \in Nat
      /\ e.directory => e.data = <<>>
  BY FilesAssumption
<1>2. e.directory \in BOOLEAN /\ e.known \in BOOLEAN /\ e.probed \in BOOLEAN
  BY FlagsAssumption
<1>3. Max32 \in Nat
  BY LimitsAssumption
<1>4. store \in Payloads(e) /\ defl \in Payloads(e) /\ (e.data # <<>> => pigz \in Payloads(e))
  BY DEF Payloads
<1>5. /\ store.method = "store" /\ store.cells = e.data
      /\ defl.method = "deflate" /\ defl.cells = H!Deflate(e)
      /\ pigz.method = "deflate" /\ pigz.cells = H!Pigz(e)
  OBVIOUS
<1> HIDE DEF store, defl, pigz
<1>6. /\ HasEntries(H!Spliced(v, e, "store", e.data), more)
      /\ HasEntries(H!Spliced(v, e, "deflate", H!Deflate(e)), more)
  <2>1. HasEntries(H!Spliced(v, e, store.method, store.cells), more)
    BY <1>4, SplicedEntered
  <2>2. HasEntries(H!Spliced(v, e, defl.method, defl.cells), more)
    BY <1>4, SplicedEntered
  <2> QED
    BY <1>5, <2>1, <2>2
<1>7. e.data # <<>> => HasEntries(H!Spliced(v, e, "deflate", H!Pigz(e)), more)
  <2> SUFFICES ASSUME e.data # <<>> PROVE HasEntries(H!Spliced(v, e, "deflate", H!Pigz(e)), more)
    OBVIOUS
  <2>1. HasEntries(H!Spliced(v, e, pigz.method, pigz.cells), more)
    BY <1>4, SplicedEntered
  <2> QED
    BY <1>5, <2>1
<1>8. e.directory => HasEntries(H!AddDirectory(v, e), more)
  <2> SUFFICES ASSUME e.directory PROVE HasEntries(H!AddDirectory(v, e), more)
    OBVIOUS
  <2>1. e.data = <<>> /\ Len(e.data) = 0
    BY <1>1
  <2>2. HasEntries(H!Splice(v, e, store.method, e.data, 0, store.cells, FALSE), more)
    <3>1. 0 <= Max32 /\ 0 \in Nat /\ FALSE \in BOOLEAN /\ Len(store.cells) = 0
      BY <1>3, <1>5, <2>1
    <3>2. e.stat = Len(e.data) => /\ 0 = Len(e.data)
                                  /\ ~FALSE => 0 <= Max32 /\ Len(store.cells) <= Max32
      BY <2>1, <3>1
    <3> QED
      BY <1>4, <3>1, <3>2, Entered
  <2>3. H!AddDirectory(v, e) = H!Splice(v, e, "store", e.data, 0, e.data, FALSE)
    BY <2>1 DEF H!AddDirectory
  <2> QED
    BY <1>5, <2>2, <2>3
<1>9. HasEntries(H!AddEntryPrepared(v, e, deflating), more)
  <2>1. \/ H!AddEntryPrepared(v, e, deflating) = H!Spliced(v, e, "deflate", H!Deflate(e))
        \/ H!AddEntryPrepared(v, e, deflating) = H!Spliced(v, e, "store", e.data)
    BY DEF H!AddEntryPrepared
  <2> QED
    BY <1>6, <2>1
<1>10. HasEntries(H!AddEntry(v, e, deflating), more)
  <2>1. \/ H!AddEntry(v, e, deflating) = H!Spliced(v, e, "deflate", H!Deflate(e))
        \/ H!AddEntry(v, e, deflating) = H!Spliced(v, e, "store", e.data)
    BY DEF H!AddEntry
  <2> QED
    BY <1>6, <2>1
<1>11. ~e.directory => HasEntries(H!AddEntryStreaming(v, e, deflating), more)
  <2> SUFFICES ASSUME ~e.directory PROVE HasEntries(H!AddEntryStreaming(v, e, deflating), more)
    OBVIOUS
  <2> DEFINE stored == ~deflating \/ e.known \/ e.probed
             z == H!Overflows(e.stat) \/ H!Overflows(v.cursor)
  <2>1. z \in BOOLEAN /\ (~z => e.stat <= Max32)
    BY <1>1, <1>3 DEF H!Overflows
  <2>2. H!AddEntryStreaming(v, e, deflating)
          = H!Splice(v, e, IF stored THEN "store" ELSE "deflate", e.data, e.stat,
                     IF stored THEN e.data ELSE H!Deflate(e), z)
    BY DEF H!AddEntryStreaming
  <2> HIDE DEF z
  <2>3. CASE stored
    <3>1. e.stat = Len(e.data) => /\ e.stat = Len(e.data)
                                  /\ ~z => e.stat <= Max32 /\ Len(store.cells) <= Max32
      BY <1>5, <2>1
    <3>2. HasEntries(H!Splice(v, e, store.method, e.data, e.stat, store.cells, z), more)
      BY <1>1, <1>4, <2>1, <3>1, Entered
    <3> QED
      BY <1>5, <2>2, <2>3, <3>2
  <2>4. CASE ~stored
    <3>1. ~e.known /\ ~e.probed
      BY <2>4
    <3>2. e.stat = Len(e.data) /\ e.stat <= Max32 => Len(H!Deflate(e)) <= Max32
      <4>1. Fits(e)
        OBVIOUS
      <4> QED
        BY <3>1, <4>1 DEF Fits
    <3>3. e.stat = Len(e.data) => /\ e.stat = Len(e.data)
                                  /\ ~z => e.stat <= Max32 /\ Len(defl.cells) <= Max32
      BY <1>5, <2>1, <3>2
    <3>4. HasEntries(H!Splice(v, e, defl.method, e.data, e.stat, defl.cells, z), more)
      BY <1>1, <1>4, <2>1, <3>3, Entered
    <3> QED
      BY <1>5, <2>2, <2>4, <3>4
  <2> QED
    BY <2>3, <2>4
<1>12. ~e.directory /\ e.data # <<>> => HasEntries(H!AddEntryPigzParallel(v, e, deflating), more)
  <2>1. \/ H!AddEntryPigzParallel(v, e, deflating) = H!AddEntryStreaming(v, e, deflating)
        \/ H!AddEntryPigzParallel(v, e, deflating) = H!Spliced(v, e, "deflate", H!Pigz(e))
    BY DEF H!AddEntryPigzParallel
  <2> QED
    BY <1>7, <1>11, <2>1
<1> QED
  BY <1>8, <1>9, <1>10, <1>11, <1>12

-----------------------------------------------------------------------------
(* The directory and the end of an archive                                 *)

Slot(n) == IF H!Overflows(n) THEN Max32 ELSE n
Held(n) == IF H!Overflows(n) THEN <<n>> ELSE <<>>
Extra(r) == Held(r.size) \o Held(r.comp) \o Held(r.lfh)
Tail64(r) == IF Extra(r) = <<>> THEN 1 ELSE 2 + Len(Extra(r))

\* The cell of a record in the directory, whose name and extra field follow.
RecordCell(r) ==
  [t |-> "cdfh", name |-> r.name, method |-> r.method, encrypted |-> FALSE, disk |-> 0,
   crc |-> r.crc, date |-> r.date, time |-> r.time,
   size |-> Slot(r.size), comp |-> Slot(r.comp), lfh |-> Slot(r.lfh),
   extra |-> Extra(r), tail |-> Tail64(r)]

\* One number, or none, held for another.
LEMMA HeldIs ==
  ASSUME NEW n
  PROVE  Held(n) \in Seq({n}) /\ Len(Held(n)) \in {0, 1}
BY DEF Held

\* What a record has beside it are at most three numbers.
LEMMA ExtraIs ==
  ASSUME NEW r
  PROVE  /\ IsSeq(Extra(r)) /\ Len(Extra(r)) \in 0..3
         /\ Len(Extra(r)) = Len(Held(r.size)) + Len(Held(r.comp)) + Len(Held(r.lfh))
         /\ Tail64(r) \in 1..5
<1> DEFINE a == Held(r.size)
           b == Held(r.comp)
           c == Held(r.lfh)
<1>1. /\ IsSeq(a) /\ IsSeq(b) /\ IsSeq(c)
      /\ Len(a) \in {0, 1} /\ Len(b) \in {0, 1} /\ Len(c) \in {0, 1}
  BY HeldIs DEF IsSeq
<1> HIDE DEF a, b, c
<1>2. IsSeq(a \o b) /\ Len(a \o b) = Len(a) + Len(b)
  BY <1>1, Joined
<1>3. IsSeq((a \o b) \o c) /\ Len((a \o b) \o c) = Len(a) + Len(b) + Len(c)
  BY <1>1, <1>2, Joined
<1>4. Extra(r) = (a \o b) \o c
  BY DEF Extra, a, b, c
<1>5. IsSeq(Extra(r)) /\ Len(Extra(r)) \in 0..3 /\ Len(Extra(r)) = Len(a) + Len(b) + Len(c)
  BY <1>1, <1>3, <1>4
<1>6. Tail64(r) \in 1..5
  BY <1>5 DEF Tail64
<1> QED
  BY <1>5, <1>6 DEF a, b, c

\* A record is a cell and what its name and extra field take.
LEMMA RecordIs ==
  ASSUME NEW r, NEW c, c = H!WriteCdfh(r)
  PROVE  /\ IsSeq(c) /\ Len(c) = 1 + Tail64(r) /\ Tail64(r) \in 1..5
         /\ c[1] = RecordCell(r) /\ c[1].t = "cdfh" /\ c[1].tail = Tail64(r)
         /\ \A i \in 2..Len(c) : c[i].t = "other"
<1> DEFINE head == RecordCell(r)
           n == Tail64(r)
<1>1. c = <<head>> \o H!Filler(n)
  BY DEF H!WriteCdfh, RecordCell, Slot, Extra, Held, Tail64
<1>2. n \in 1..5 /\ n \in Nat
  BY ExtraIs
<1>3. head.t = "cdfh" /\ head.tail = n
  BY DEF RecordCell
<1> HIDE DEF head, n
<1>4. IsSeq(<<head>>) /\ Len(<<head>>) = 1 /\ <<head>>[1] = head
  <2>1. <<head>> \in Seq({head})
    OBVIOUS
  <2> QED
    BY <2>1 DEF IsSeq
<1>5. IsSeq(H!Filler(n)) /\ Len(H!Filler(n)) = n /\ \A i \in 1..n : H!Filler(n)[i].t = "other"
  BY <1>2, FillerIs
<1>6. /\ IsSeq(c) /\ Len(c) = 1 + n
      /\ \A i \in 1..1 : c[i] = <<head>>[i]
      /\ \A i \in 1..n : c[1 + i] = H!Filler(n)[i]
  BY <1>1, <1>4, <1>5, Joined
<1>7. c[1] = head
  <2>1. 1 \in 1..1
    OBVIOUS
  <2> QED
    BY <1>4, <1>6, <2>1
<1>8. \A i \in 2..Len(c) : c[i].t = "other"
  <2> TAKE i \in 2..Len(c)
  <2>1. i - 1 \in 1..n /\ 1 + (i - 1) = i
    BY <1>2, <1>6
  <2>2. c[i] = H!Filler(n)[i - 1]
    BY <1>6, <2>1
  <2> QED
    BY <1>5, <2>1, <2>2
<1> QED
  BY <1>2, <1>3, <1>6, <1>7, <1>8 DEF head, n

\* The directory is its records, one after the other, and ends in a name.
LEMMA DirectoryIs ==
  ASSUME NEW v, Len(v.cd) \in Nat
  PROVE  /\ H!Directory(v, 0) = <<>>
         /\ \A m \in 1..Len(v.cd) :
              H!Directory(v, m) = H!Directory(v, m - 1) \o H!WriteCdfh(v.cd[m])
         /\ \A m \in 0..Len(v.cd) :
              LET d == H!Directory(v, m) IN
              /\ IsSeq(d) /\ Len(d) \in Nat
              /\ \A i \in 1..Len(d) : d[i].t \in {"cdfh", "other"}
              /\ d # <<>> => Len(d) # 0 /\ d[Len(d)].t = "other"
<1> DEFINE n == Len(v.cd)
           s == [k \in 1..n |-> H!WriteCdfh(v.cd[k])]
<1>1. n \in Nat
  OBVIOUS
<1>2. \A m \in 0..n : H!Directory(v, m) = Flat(s, m)
  <2> TAKE m \in 0..n
  <2>1. [k \in 1..m |-> H!WriteCdfh(v.cd[k])] = FirstN(s, m)
    BY DEF FirstN
  <2> QED
    BY <2>1, SameFlatten DEF H!Directory, Flat
<1>3. \A k \in 1..n : s[k] = H!WriteCdfh(v.cd[k])
  OBVIOUS
<1> HIDE DEF n, s
<1>4. \A k \in 1..n : IsSeq(s[k])
  BY <1>3, RecordIs
<1>5. \A m \in 0..n : IsSeq(Flat(s, m))
  BY <1>1, <1>4, FlatIs
<1>6. H!Directory(v, 0) = <<>>
  <2>1. FirstN(s, 0) = <<>> /\ Len(FirstN(s, 0)) = 0
    BY DEF FirstN
  <2>2. Flat(s, 0) = <<>>
    BY <2>1 DEF Flat, FlattenSeq
  <2>3. 0 \in 0..n
    BY <1>1
  <2> QED
    BY <1>2, <2>2, <2>3
<1>7. \A m \in 1..n : H!Directory(v, m) = H!Directory(v, m - 1) \o H!WriteCdfh(v.cd[m])
  <2> TAKE m \in 1..n
  <2>1. m - 1 \in Nat /\ (m - 1) + 1 = m /\ m \in 0..n /\ m - 1 \in 0..n
        /\ \A k \in 1..((m - 1) + 1) : IsSeq(s[k])
    BY <1>1, <1>4
  <2>2. Flat(s, (m - 1) + 1) = Flat(s, m - 1) \o s[(m - 1) + 1]
    BY <2>1, FlatGoes
  <2> QED
    BY <1>2, <1>3, <2>1, <2>2
<1>8. \A m \in 0..n : IsSeq(H!Directory(v, m)) /\ Len(H!Directory(v, m)) \in Nat
  <2>1. \A x : IsSeq(x) => Len(x) \in Nat
    BY DEF IsSeq
  <2> QED
    BY <1>2, <1>5, <2>1
<1> DEFINE Good(m) == LET d == H!Directory(v, m) IN
             /\ \A i \in 1..Len(d) : d[i].t \in {"cdfh", "other"}
             /\ d # <<>> => Len(d) # 0 /\ d[Len(d)].t = "other"
           T == {m \in 0..n : ~Good(m)}
<1> HIDE DEF Good
<1>9. T = {}
  <2> SUFFICES ASSUME T # {} PROVE FALSE
    OBVIOUS
  <2>1. T \subseteq Nat
    BY <1>1
  <2>2. PICK m \in T : \A j \in T : m <= j
    BY <2>1, Smallest
  <2>3. m \in 0..n /\ ~Good(m)
    BY <2>2
  <2> HIDE DEF T
  <2>4. m # 0
    <3>1. SUFFICES ASSUME m = 0 PROVE FALSE
      OBVIOUS
    <3>2. H!Directory(v, m) = <<>>
      BY <1>6, <3>1
    <3>3. \A i \in 1..Len(<<>>) : FALSE
      BY EmptySeq
    <3>4. Good(m)
      BY <3>2, <3>3 DEF Good
    <3> QED
      BY <2>3, <3>4
  <2>5. m \in 1..n /\ m - 1 \in 0..n /\ ~(m <= m - 1)
    BY <1>1, <2>3, <2>4
  <2>6. Good(m - 1)
    BY <2>2, <2>5 DEF T
  <2> DEFINE d == H!Directory(v, m - 1)
             c == H!WriteCdfh(v.cd[m])
             x == d \o c
  <2>7. H!Directory(v, m) = x
    BY <1>7, <2>5
  <2>8. IsSeq(d) /\ \A i \in 1..Len(d) : d[i].t \in {"cdfh", "other"}
    BY <1>8, <2>5, <2>6 DEF Good
  <2>9. /\ IsSeq(c) /\ Len(c) \in 2..6 /\ c[1].t = "cdfh"
        /\ \A i \in 2..Len(c) : c[i].t = "other"
    <3>1. /\ IsSeq(c) /\ Len(c) = 1 + Tail64(v.cd[m]) /\ Tail64(v.cd[m]) \in 1..5
          /\ c[1].t = "cdfh" /\ \A i \in 2..Len(c) : c[i].t = "other"
      BY RecordIs
    <3> QED
      BY <3>1
  <2> HIDE DEF d, c
  <2>10. /\ Len(x) = Len(d) + Len(c) /\ Len(d) \in Nat
         /\ \A i \in 1..Len(d) : x[i] = d[i]
         /\ \A i \in 1..Len(c) : x[Len(d) + i] = c[i]
    BY <2>8, <2>9, Joined
  <2> HIDE DEF x
  <2>11. \A i \in 1..Len(x) : x[i].t \in {"cdfh", "other"}
    <3> TAKE i \in 1..Len(x)
    <3>1. CASE i \in 1..Len(d)
      BY <2>8, <2>10, <3>1
    <3>2. CASE i \notin 1..Len(d)
      <4>1. i - Len(d) \in 1..Len(c) /\ Len(d) + (i - Len(d)) = i
        BY <2>9, <2>10, <3>2
      <4>2. x[i] = c[i - Len(d)]
        BY <2>10, <4>1
      <4>3. i - Len(d) = 1 \/ i - Len(d) \in 2..Len(c)
        BY <2>9, <4>1
      <4> QED
        BY <2>9, <4>2, <4>3
    <3> QED
      BY <3>1, <3>2
  <2>12. Len(x) # 0 /\ x[Len(x)].t = "other"
    <3>a. PICK j \in 2..6 : j = Len(c)
      BY <2>9
    <3>1. Len(c) \in 1..Len(c) /\ Len(c) \in 2..Len(c) /\ Len(x) # 0
      BY <3>a, <2>10
    <3>2. x[Len(x)] = c[Len(c)]
      BY <2>10, <3>1
    <3> QED
      BY <2>9, <3>1, <3>2
  <2>13. Good(m)
    BY <2>7, <2>11, <2>12 DEF Good
  <2> QED
    BY <2>3, <2>13
<1>10. \A m \in 0..n : Good(m)
  BY <1>9
<1> QED
  BY <1>6, <1>7, <1>8, <1>10 DEF Good, n

Escalates(v) ==
  \/ Len(v.cd) > Max16
  \/ H!Overflows(Len(H!Directory(v, Len(v.cd)))) \/ H!Overflows(v.cursor)
EndCell(count, size, offset, zip64) ==
  [t |-> "eocd", count |-> IF zip64 THEN Max16 ELSE count,
   disk |-> 0, cddisk |-> 0, here |-> IF zip64 THEN Max16 ELSE count,
   size |-> IF zip64 THEN Max32 ELSE size, offset |-> IF zip64 THEN Max32 ELSE offset]

\* A finished archive: what was written, the directory, and an end record,
\* in front of which there is a locator only where the sizes ask for one.
Finished(v, f) ==
  LET d == Len(H!Directory(v, Len(v.cd)))
      c == v.cursor
      n == Len(f) IN
  /\ IsSeq(f) /\ d \in Nat /\ c \in Nat
  /\ n = c + d + (IF Escalates(v) THEN 3 ELSE 1)
  /\ \A i \in 1..c : f[i] = v.inner[i]
  /\ \A i \in 1..d : f[c + i] = H!Directory(v, Len(v.cd))[i]
  /\ f[n] = EndCell(Len(v.cd), d, c, Escalates(v))
  /\ IF Escalates(v)
     THEN /\ f[n - 1] = [t |-> "locator", target |-> c + d]
          /\ f[n - 2] = [t |-> "zip64", count |-> Len(v.cd), size |-> d, offset |-> c]
     ELSE n > 1 => f[n - 1].t # "locator"

\* Finish makes such an archive.
LEMMA FinishIs ==
  ASSUME NEW v, WriterOK(v)
  PROVE  Finished(v, H!Finish(v))
<1> DEFINE cd == H!Directory(v, Len(v.cd))
           d == Len(cd)
           c == v.cursor
           big == Escalates(v)
           rec == [t |-> "zip64", count |-> Len(v.cd), size |-> d, offset |-> c]
           loc == [t |-> "locator", target |-> c + d]
           end == EndCell(Len(v.cd), d, c, big)
           z == IF big THEN <<rec>> \o <<loc>> ELSE <<>>
           f == H!Finish(v)
           lead == v.inner \o cd
           body == lead \o z
           n == IF big THEN 2 ELSE 0
<1>1. f = body \o <<end>>
  BY DEF H!Finish, H!WriteZip64EocdRecord, H!WriteZip64EocdLocator, H!WriteEocd, EndCell, Escalates
<1>2. IsSeq(v.inner) /\ c = Len(v.inner) /\ IsSeq(v.cd)
  BY DEF WriterOK
<1>3. Len(v.cd) \in Nat /\ c \in Nat
  BY <1>2 DEF IsSeq
<1>4. /\ IsSeq(cd) /\ d \in Nat /\ \A i \in 1..d : cd[i].t \in {"cdfh", "other"}
      /\ cd # <<>> => d # 0 /\ cd[d].t = "other"
  <2>1. Len(v.cd) \in 0..Len(v.cd)
    BY <1>3
  <2> QED
    BY <1>3, <2>1, DirectoryIs
<1>5. /\ IsSeq(z) /\ Len(z) = n /\ (big => z[1] = rec /\ z[2] = loc)
  <2> HIDE DEF rec, loc, big
  <2>1. CASE big
    <3> DEFINE a == <<rec>>
               b == <<loc>>
    <3>1. z = a \o b
      BY <2>1
    <3>2. a \in Seq({rec}) /\ Len(a) = 1 /\ a[1] = rec /\ b \in Seq({loc}) /\ Len(b) = 1 /\ b[1] = loc
      OBVIOUS
    <3> HIDE DEF a, b, z, n
    <3>3. IsSeq(a) /\ IsSeq(b)
      BY <3>2 DEF IsSeq
    <3>4. /\ IsSeq(a \o b) /\ Len(a \o b) = Len(a) + Len(b)
          /\ \A i \in 1..Len(a) : (a \o b)[i] = a[i]
          /\ \A i \in 1..Len(b) : (a \o b)[Len(a) + i] = b[i]
      BY <3>3, Joined
    <3>5. 1 \in 1..Len(a) /\ 1 \in 1..Len(b) /\ Len(a) + 1 = 2 /\ Len(a) + Len(b) = 2
      BY <3>2
    <3>6. (a \o b)[1] = rec /\ (a \o b)[2] = loc
      BY <3>2, <3>4, <3>5
    <3>7. n = 2
      BY <2>1 DEF n
    <3> QED
      BY <3>1, <3>4, <3>5, <3>6, <3>7
  <2>2. CASE ~big
    <3>1. z = <<>> /\ Len(z) = 0
      BY <2>2
    <3>2. IsSeq(<<>>)
      BY EmptySeq DEF IsSeq
    <3> QED
      BY <2>2, <3>1, <3>2
  <2> QED
    BY <2>1, <2>2
<1>6. IsSeq(<<end>>) /\ Len(<<end>>) = 1 /\ <<end>>[1] = end
  <2> HIDE DEF end
  <2>1. <<end>> \in Seq({end})
    OBVIOUS
  <2> QED
    BY <2>1 DEF IsSeq
<1>7. big \in BOOLEAN /\ n \in {0, 2}
  BY <1>3, <1>4 DEF Escalates, H!Overflows
<1> HIDE DEF cd, d, c, big, rec, loc, end, z, f, lead, body
<1>8. /\ IsSeq(lead) /\ Len(lead) = c + d
      /\ \A i \in 1..c : lead[i] = v.inner[i]
      /\ \A i \in 1..d : lead[c + i] = cd[i]
  BY <1>2, <1>4, Joined DEF lead, d
<1>9. /\ IsSeq(body) /\ Len(body) = c + d + n
      /\ \A i \in 1..(c + d) : body[i] = lead[i]
      /\ \A i \in 1..n : body[c + d + i] = z[i]
  <2>1. /\ IsSeq(lead \o z) /\ Len(lead \o z) = Len(lead) + Len(z)
        /\ \A i \in 1..Len(lead) : (lead \o z)[i] = lead[i]
        /\ \A i \in 1..Len(z) : (lead \o z)[Len(lead) + i] = z[i]
    <3>1. IsSeq(lead) /\ IsSeq(z)
      BY <1>5, <1>8
    <3> QED
      BY <3>1, Joined
  <2> HIDE DEF n
  <2> QED
    BY <1>5, <1>8, <2>1 DEF body
<1>10. /\ IsSeq(f) /\ Len(f) = c + d + n + 1
       /\ \A i \in 1..(c + d + n) : f[i] = body[i]
       /\ f[c + d + n + 1] = end
  <2>1. /\ IsSeq(body \o <<end>>) /\ Len(body \o <<end>>) = Len(body) + Len(<<end>>)
        /\ \A i \in 1..Len(body) : (body \o <<end>>)[i] = body[i]
        /\ \A i \in 1..Len(<<end>>) : (body \o <<end>>)[Len(body) + i] = <<end>>[i]
    BY <1>6, <1>9, Joined
  <2>2. 1 \in 1..Len(<<end>>)
    BY <1>6
  <2>3. (body \o <<end>>)[Len(body) + 1] = end
    BY <1>6, <2>1, <2>2
  <2> HIDE DEF n
  <2> QED
    BY <1>1, <1>6, <1>9, <2>1, <2>3
<1>11. \A i \in 1..c : f[i] = v.inner[i]
  <2> TAKE i \in 1..c
  <2>1. i \in 1..(c + d) /\ i \in 1..(c + d + n)
    BY <1>3, <1>4, <1>7
  <2> QED
    BY <1>8, <1>9, <1>10, <2>1
<1>12. \A i \in 1..d : f[c + i] = cd[i]
  <2> TAKE i \in 1..d
  <2>1. c + i \in 1..(c + d) /\ c + i \in 1..(c + d + n)
    BY <1>3, <1>4, <1>7
  <2> QED
    BY <1>8, <1>9, <1>10, <2>1
<1>13. CASE big
  <2>1. n = 2 /\ Len(f) = c + d + 3
    BY <1>3, <1>4, <1>10, <1>13
  <2>2. f[c + d + 1] = rec /\ f[c + d + 2] = loc
    <3>1. 1 \in 1..n /\ 2 \in 1..n /\ c + d + 1 \in 1..(c + d + n) /\ c + d + 2 \in 1..(c + d + n)
      BY <1>3, <1>4, <2>1
    <3>2. body[c + d + 1] = z[1] /\ body[c + d + 2] = z[2]
      BY <1>9, <3>1
    <3> QED
      BY <1>5, <1>10, <1>13, <3>1, <3>2
  <2>3. f[Len(f)] = end
    <3>1. c + d + n + 1 = Len(f)
      BY <1>10
    <3> QED
      BY <1>10, <3>1
  <2>4. Len(f) - 1 = c + d + 2 /\ Len(f) - 2 = c + d + 1
    BY <1>3, <1>4, <2>1
  <2>5. f[Len(f) - 1] = loc /\ f[Len(f) - 2] = rec
    BY <2>2, <2>4
  <2> QED
    BY <1>3, <1>4, <1>10, <1>11, <1>12, <1>13, <2>1, <2>3, <2>5
       DEF Finished, f, c, d, cd, big, rec, loc, end
<1>14. CASE ~big
  <2>1. n = 0 /\ Len(f) = c + d + 1
    BY <1>3, <1>4, <1>10, <1>14
  <2>2. f[Len(f)] = end
    <3>1. c + d + n + 1 = Len(f)
      BY <1>10
    <3> QED
      BY <1>10, <3>1
  <2>3. ASSUME Len(f) > 1 PROVE f[Len(f) - 1].t # "locator"
    <3>1. Len(f) - 1 = c + d /\ c + d # 0
      BY <1>3, <1>4, <2>1, <2>3
    <3>2. CASE d # 0
      <4>1. d \in 1..d
        BY <1>4, <3>2
      <4>2. f[c + d].t \in {"cdfh", "other"}
        BY <1>4, <1>12, <4>1
      <4> QED
        BY <3>1, <4>2
    <3>3. CASE d = 0
      <4>1. c \in 1..c /\ c + d = c
        BY <1>3, <3>1, <3>3
      <4>2. v.inner[c].t \in {"lfh", "byte", "other"}
        BY <1>2, <4>1 DEF WriterOK
      <4>3. f[c + d].t \in {"lfh", "byte", "other"}
        BY <1>11, <4>1, <4>2
      <4> QED
        BY <3>1, <4>3
    <3> QED
      BY <3>2, <3>3
  <2> QED
    BY <1>3, <1>4, <1>10, <1>11, <1>12, <1>14, <2>1, <2>2, <2>3
       DEF Finished, f, c, d, cd, big, end
<1> QED
  BY <1>13, <1>14 DEF f

-----------------------------------------------------------------------------
(* What is true of an archive while it is written and read                 *)

\* The inductive invariant: the writer has every file it was given, and an
\* archive that nothing happened to is what it finished.
ArchiveInv ==
  /\ deflate \in BOOLEAN
  /\ HasEntries(w, written) /\ Len(written) <= MaxEntries
  /\ file # <<>> /\ damage = Whole => file = H!Finish(w)
  /\ damage.kind \in {"none", "directory", "lost", "unreadable", "disks"}
  /\ damage.entry \in 0..Len(written)
  /\ read.error \in {"unread", "none", "corrupted", "unsupported"}

\* The parser finds a directory or says that there is none.
LEMMA ParserSays ==
  ASSUME NEW f
  PROVE  L!Open(f).error \in {"none", "corrupted"}
<1>1. \A e : L!ScanForCdStart(f, e).error \in {"none", "corrupted"}
  BY DEF L!ScanForCdStart, L!Corrupted
<1>2. \A e : L!ResolveZip64(f, e).error \in {"none", "corrupted"}
  BY <1>1 DEF L!ResolveZip64, L!Corrupted
<1>3. L!FindCentralDirectory(f).error \in {"none", "corrupted"}
  BY <1>1, <1>2 DEF L!FindCentralDirectory, L!Corrupted
<1> QED
  BY <1>3 DEF L!Open

\* Nothing is written at first.
LEMMA InitArchive ==
  ASSUME Init
  PROVE  ArchiveInv
<1>1. WriterOK(H!Create)
  <2>1. H!Create.inner = <<>> /\ H!Create.cd = <<>> /\ H!Create.cursor = 0
    BY DEF H!Create
  <2>2. IsSeq(<<>>) /\ Len(<<>>) = 0 /\ \A i \in 1..Len(<<>>) : FALSE
    BY EmptySeq DEF IsSeq
  <2> QED
    BY <2>1, <2>2 DEF WriterOK, Rising
<1>2. <<>> \in Seq(Files) /\ Len(<<>>) = 0 /\ H!Create.cd = <<>> /\ \A i \in 1..Len(<<>>) : FALSE
  BY EmptySeq DEF H!Create
<1>3. HasEntries(w, written)
  BY <1>1, <1>2 DEF Init, HasEntries
<1>4. Len(written) <= MaxEntries
  BY <1>2, LimitsAssumption DEF Init
<1>5. /\ damage.kind \in {"none", "directory", "lost", "unreadable", "disks"}
      /\ damage.entry \in 0..Len(written)
      /\ read.error \in {"unread", "none", "corrupted", "unsupported"}
  BY <1>2 DEF Init, Whole, Nothing
<1> QED
  BY <1>3, <1>4, <1>5 DEF Init, ArchiveInv

\* The writer keeps what it has and adds what it is given.
LEMMA WriteArchive ==
  ASSUME \A e \in Files : Fits(e), ArchiveInv, Write
  PROVE  ArchiveInv'
<1>1. PICK e \in Files :
        /\ written' = Append(written, e)
        /\ \/ e.directory /\ w' = H!AddDirectory(w, e)
           \/ ~e.directory /\ e.stat = Len(e.data) /\ w' = H!AddEntryPrepared(w, e, deflate)
           \/ ~e.directory /\ e.stat = Len(e.data) /\ w' = H!AddEntry(w, e, deflate)
           \/ ~e.directory /\ w' = H!AddEntryStreaming(w, e, deflate)
           \/ ~e.directory /\ e.data # <<>> /\ w' = H!AddEntryPigzParallel(w, e, deflate)
  BY DEF Write
<1>2. HasEntries(w, written) /\ deflate \in BOOLEAN
  BY DEF ArchiveInv
<1>3. HasEntries(w', written')
  <2>1. /\ e.directory => HasEntries(H!AddDirectory(w, e), Append(written, e))
        /\ ~e.directory => /\ HasEntries(H!AddEntryPrepared(w, e, deflate), Append(written, e))
                           /\ HasEntries(H!AddEntry(w, e, deflate), Append(written, e))
                           /\ HasEntries(H!AddEntryStreaming(w, e, deflate), Append(written, e))
                           /\ e.data # <<>> =>
                                HasEntries(H!AddEntryPigzParallel(w, e, deflate), Append(written, e))
    BY <1>2, Operations
  <2> QED
    BY <1>1, <2>1
<1>4. written \in Seq(Files) /\ Len(written) \in Nat /\ Len(written') = Len(written) + 1
  BY <1>1, <1>2 DEF HasEntries
<1>5. Len(written') <= MaxEntries
  BY <1>4, LimitsAssumption DEF Write
<1>6. damage.entry \in 0..Len(written')
  BY <1>4 DEF ArchiveInv
<1> QED
  BY <1>3, <1>5, <1>6 DEF ArchiveInv, Write, HasEntries

\* What happens to an archive, whoever does it, changes no writer.
LEMMA OtherArchive ==
  ASSUME ArchiveInv, Finish \/ Damage \/ Span \/ Read \/ Done \/ UNCHANGED vars
  PROVE  ArchiveInv'
<1>1. /\ deflate' = deflate /\ w' = w /\ written' = written
  BY DEF Finish, Damage, Span, Read, Done, vars
<1>2. HasEntries(w', written') /\ Len(written') <= MaxEntries /\ deflate' \in BOOLEAN
  BY <1>1 DEF ArchiveInv
<1>3. written \in Seq(Files)
  BY DEF ArchiveInv, HasEntries
<1>4. CASE Finish
  BY <1>1, <1>2, <1>4 DEF Finish, ArchiveInv
<1>5. CASE Damage
  <2>a. /\ read' = read
        /\ \/ damage' = [kind |-> "directory", entry |-> 0]
           \/ \E k \in DOMAIN written : \/ damage' = [kind |-> "lost", entry |-> k]
                                       \/ damage' = [kind |-> "unreadable", entry |-> k]
    BY <1>5, Zenon DEF Damage
  <2>1. damage' # Whole /\ read' = read
    BY <2>a DEF Whole
  <2>2. /\ damage'.kind \in {"none", "directory", "lost", "unreadable", "disks"}
        /\ damage'.entry \in 0..Len(written)
    BY <1>3, <2>a
  <2> QED
    BY <1>1, <1>2, <2>1, <2>2 DEF ArchiveInv
<1>6. CASE Span
  <2>1. damage' = [kind |-> "disks", entry |-> 0] /\ read' = read
    BY <1>6 DEF Span
  <2>2. damage' # Whole
    BY <2>1 DEF Whole
  <2> QED
    BY <1>1, <1>2, <1>3, <2>1, <2>2 DEF ArchiveInv
<1>7. CASE Read
  <2>1. file' = file /\ damage' = damage
    BY <1>7 DEF Read
  <2>2. S!Joined(file, origins).error \in {"none", "corrupted", "unsupported"}
    BY DEF S!Joined
  <2>3. read'.error \in {"none", "corrupted", "unsupported"}
    BY <1>7, <2>2, ParserSays DEF Read, ReadOf
  <2> QED
    BY <1>1, <1>2, <2>1, <2>3 DEF ArchiveInv
<1>8. CASE Done \/ UNCHANGED vars
  BY <1>1, <1>2, <1>8 DEF ArchiveInv, Done, vars
<1> QED
  BY <1>4, <1>5, <1>6, <1>7, <1>8

\* The invariant holds whatever limits, files and number of entries there are.
THEOREM ArchiveInvariant ==
  ASSUME \A e \in Files : Fits(e)
  PROVE  Spec => []ArchiveInv
<1>1. Init => ArchiveInv
  BY InitArchive
<1>2. ArchiveInv /\ [Next]_vars => ArchiveInv'
  <2> SUFFICES ASSUME ArchiveInv, [Next]_vars PROVE ArchiveInv'
    OBVIOUS
  <2>1. Write \/ Finish \/ Damage \/ Span \/ Read \/ Done \/ UNCHANGED vars
    BY DEF Next
  <2> QED
    BY <2>1, WriteArchive, OtherArchive
<1> QED
  BY <1>1, <1>2, PTL DEF Spec

\* The state has its types.
THEOREM TypeCorrect ==
  ASSUME \A e \in Files : Fits(e)
  PROVE  Spec => []TypeOK
<1>1. ArchiveInv => TypeOK
  BY DEF ArchiveInv, TypeOK, HasEntries, WriterOK
<1> QED
  BY <1>1, ArchiveInvariant, PTL

\* A number that fits its field is written as it is.
LEMMA FieldIs ==
  ASSUME NEW n \in Nat, n <= Max32
  PROVE  H!AsU32(n) = n
<1>1. Max32 \in Nat
  BY LimitsAssumption
<1> QED
  BY <1>1 DEF H!AsU32

\* In an archive that nothing happened to the local headers, the directory
\* and the end record say the same, of however many entries of whatever size.
THEOREM HealthyArchiveAgrees ==
  ASSUME \A e \in Files : Fits(e)
  PROVE  Spec => []HeadersAgree
<1>1. ArchiveInv => HeadersAgree
  <2> SUFFICES ASSUME ArchiveInv, file # <<>>, damage = Whole
               PROVE  HeadersAgree
    BY DEF HeadersAgree
  <2>1. HasEntries(w, written) /\ file = H!Finish(w)
    BY DEF ArchiveInv
  <2>2. Finished(w, file)
    BY <2>1, FinishIs DEF HasEntries
  <2>3. /\ IsSeq(w.cd) /\ DOMAIN w.cd = 1..Len(written)
        /\ Len(w.cd) = Len(written) /\ Len(written) \in Nat
    BY <2>1 DEF HasEntries, WriterOK, IsSeq
  <2>4. ASSUME NEW k \in DOMAIN w.cd
        PROVE  LET h == file[w.cd[k].lfh + 1] IN
               /\ h.t = "lfh"
               /\ written[k].stat = Len(written[k].data) =>
                    IF h.extra = <<>> THEN h.size = w.cd[k].size /\ h.comp = w.cd[k].comp
                    ELSE h.extra = <<w.cd[k].size, w.cd[k].comp>>
    <3> DEFINE r == w.cd[k]
               e == written[k]
               h == w.inner[r.lfh + 1]
    <3>1. HasEntry(w.inner, r, e) /\ e \in Files
      BY <2>1, <2>3 DEF HasEntries
    <3> HIDE DEF r, e
    <3>2. PICK p \in Payloads(e) :
            r.comp = Len(p.cells) /\ LiesAt(w.inner, r.lfh, r.size, p.cells, r.zip64)
      BY <3>1 DEF HasEntry
    <3>3. r.lfh + 1 \in 1..Len(w.inner)
      <4>1. r.lfh \in Nat /\ r.lfh + 1 + Lead(r.zip64) + Len(p.cells) <= Len(w.inner)
        BY <3>2 DEF LiesAt
      <4>2. Lead(r.zip64) \in {1, 3} /\ Len(p.cells) \in Nat
        BY <3>1, PayloadIs DEF Lead
      <4>3. Len(w.inner) \in Nat
        BY <2>1 DEF HasEntries, WriterOK, IsSeq
      <4> QED
        BY <4>1, <4>2, <4>3
    <3>4. file[r.lfh + 1] = h
      <4>1. w.cursor = Len(w.inner)
        BY <2>1 DEF HasEntries, WriterOK
      <4> QED
        BY <2>2, <3>3, <4>1 DEF Finished
    <3>5. /\ h.t = "lfh" /\ h.extra = IF r.zip64 THEN <<r.size, r.comp>> ELSE <<>>
          /\ ~r.zip64 => h.size = H!AsU32(r.size) /\ h.comp = H!AsU32(r.comp)
      BY <3>2 DEF LiesAt
    <3> HIDE DEF h
    <3>6. ASSUME e.stat = Len(e.data)
          PROVE  IF h.extra = <<>> THEN h.size = r.size /\ h.comp = r.comp
                 ELSE h.extra = <<r.size, r.comp>>
      <4>1. CASE r.zip64
        <5>1. <<r.size, r.comp>> # <<>>
          OBVIOUS
        <5> QED
          BY <3>5, <4>1, <5>1
      <4>2. CASE ~r.zip64
        <5>1. r.size \in Nat /\ r.size <= Max32 /\ r.comp \in Nat /\ r.comp <= Max32
          BY <3>1, <3>6, <4>2 DEF HasEntry
        <5> QED
          BY <3>5, <4>2, <5>1, FieldIs
      <4> QED
        BY <4>1, <4>2
    <3> QED
      BY <3>4, <3>5, <3>6 DEF r, e
  <2>5. LET zip64 == Eocd > 1 /\ file[Eocd - 1].t = "locator"
            end == IF zip64 THEN file[file[Eocd - 1].target + 1] ELSE file[Eocd] IN
        /\ end.offset = w.cursor /\ end.count = Len(w.cd)
        /\ end.offset + end.size + (IF zip64 THEN 3 ELSE 1) = Len(file)
    <3> DEFINE d == Len(H!Directory(w, Len(w.cd)))
               c == w.cursor
               n == Len(file)
    <3>1. d \in Nat /\ c \in Nat /\ n = c + d + (IF Escalates(w) THEN 3 ELSE 1)
      BY <2>2 DEF Finished
    <3>2. CASE Escalates(w)
      <4>1. n = c + d + 3 /\ n > 1 /\ n - 2 = c + d + 1
        BY <3>1, <3>2
      <4>2. /\ file[n - 1] = [t |-> "locator", target |-> c + d]
            /\ file[n - 2] = [t |-> "zip64", count |-> Len(w.cd), size |-> d, offset |-> c]
        BY <2>2, <3>2 DEF Finished
      <4> HIDE DEF c, d, n
      <4>3. file[n - 1].t = "locator" /\ file[n - 1].target = c + d
        BY <4>2
      <4>4. /\ file[file[n - 1].target + 1].offset = c
            /\ file[file[n - 1].target + 1].count = Len(w.cd)
            /\ file[file[n - 1].target + 1].size = d
        BY <4>1, <4>2, <4>3
      <4> QED
        BY <3>1, <4>1, <4>3, <4>4 DEF Eocd, c, n
    <3>3. CASE ~Escalates(w)
      <4>1. n = c + d + 1
        BY <3>1, <3>3
      <4>2. n > 1 => file[n - 1].t # "locator"
        BY <2>2, <3>3 DEF Finished
      <4>3. file[n] = EndCell(Len(w.cd), d, c, Escalates(w))
        BY <2>2 DEF Finished
      <4> HIDE DEF c, d, n
      <4>4. file[n].offset = c /\ file[n].count = Len(w.cd) /\ file[n].size = d
        BY <3>3, <4>3 DEF EndCell
      <4> QED
        BY <3>1, <4>1, <4>2, <4>4 DEF Eocd, c, n
    <3> QED
      BY <3>2, <3>3
  <2> QED
    BY <2>4, <2>5 DEF HeadersAgree
<1> QED
  BY <1>1, ArchiveInvariant, PTL

-----------------------------------------------------------------------------
(* Functions that are defined from their end.                              *)

\* What is true of 0 and of each number after one it is true of.
LEMMA Upward ==
  ASSUME NEW n \in Nat, NEW G, 0 \in G, \A m \in 1..n : m - 1 \in G => m \in G
  PROVE  \A m \in 0..n : m \in G
<1> DEFINE T == {m \in 0..n : m \notin G}
<1>1. T = {}
  <2> SUFFICES ASSUME T # {} PROVE FALSE
    OBVIOUS
  <2>1. PICK m \in T : \A j \in T : m <= j
    <3>1. T \subseteq Nat
      OBVIOUS
    <3> HIDE DEF T
    <3> QED
      BY <3>1, Smallest
  <2>2. m \in 1..n /\ m - 1 \in 0..n /\ ~(m <= m - 1)
    BY <2>1
  <2>3. m - 1 \in G
    BY <2>1, <2>2
  <2> QED
    BY <2>1, <2>2, <2>3
<1> QED
  BY <1>1

\* What is true of n and of each number before one it is true of.
LEMMA Downward ==
  ASSUME NEW n \in Nat, NEW G, n \in G, \A m \in 1..n : m \in G => m - 1 \in G
  PROVE  \A m \in 0..n : m \in G
<1> DEFINE F == {k \in 0..n : n - k \in G}
<1>1. 0 \in F
  OBVIOUS
<1>2. ASSUME NEW k \in 1..n, k - 1 \in F PROVE k \in F
  <2>1. n - (k - 1) \in G /\ n - (k - 1) \in 1..n
    BY <1>2
  <2>2. (n - (k - 1)) - 1 \in G
    BY <2>1
  <2>3. (n - (k - 1)) - 1 = n - k /\ k \in 0..n
    OBVIOUS
  <2> QED
    BY <2>2, <2>3
<1> HIDE DEF F
<1>3. \A k \in 0..n : k \in F
  BY <1>1, <1>2, Upward
<1> QED
  <2> TAKE m \in 0..n
  <2>1. n - m \in 0..n /\ n - (n - m) = m
    OBVIOUS
  <2> QED
    BY <1>3, <2>1 DEF F

\* A function of the places up to n that stops, passes on or adds something
\* to what it gives at a later place.
Runs(f, n, stop, pass, last, item, next) ==
  f = [c \in 0..n |-> IF c \in stop THEN last[c]
                      ELSE IF c \in pass THEN f[next[c]] ELSE item[c] \o f[next[c]]]

\* There is one.
LEMMA RunsExist ==
  ASSUME NEW n \in Nat, NEW stop, NEW pass, NEW last, NEW item, NEW next,
         n \in stop, \A c \in 0..(n - 1) : next[c] \in (c + 1)..n
  PROVE  \E f : Runs(f, n, stop, pass, last, item, next)
<1> DEFINE Goes(f, m) ==
      f = [c \in m..n |-> IF c \in stop THEN last[c]
                          ELSE IF c \in pass THEN f[next[c]] ELSE item[c] \o f[next[c]]]
           G == {m \in 0..n : \E f : Goes(f, m)}
<1>1. n \in G
  <2> DEFINE f == [c \in n..n |-> last[c]]
  <2>1. Goes(f, n)
    OBVIOUS
  <2>2. n \in 0..n
    OBVIOUS
  <2> HIDE DEF f, Goes
  <2> QED
    BY <2>1, <2>2
<1>2. ASSUME NEW m \in 1..n, m \in G PROVE m - 1 \in G
  <2>1. PICK f : Goes(f, m)
    BY <1>2
  <2> DEFINE k == m - 1
             v == IF k \in stop THEN last[k]
                  ELSE IF k \in pass THEN f[next[k]] ELSE item[k] \o f[next[k]]
             g == [c \in k..n |-> IF c = k THEN v ELSE f[c]]
  <2>2. k \in 0..(n - 1) /\ \A c \in k..n : c = k \/ c \in m..n
    OBVIOUS
  <2>3. \A c \in m..n : c \in k..n /\ c # k
    OBVIOUS
  <2>4. \A c \in m..n : g[c] = f[c]
    BY <2>3
  <2>5. \A c \in k..(n - 1) : next[c] \in m..n
    BY <2>2
  <2>6. ASSUME NEW c \in k..n
        PROVE  g[c] = IF c \in stop THEN last[c]
                      ELSE IF c \in pass THEN g[next[c]] ELSE item[c] \o g[next[c]]
    <3>1. CASE c \in stop
      <4>1. CASE c = k
        BY <3>1, <4>1
      <4>2. CASE c # k
        <5>1. c \in m..n /\ g[c] = f[c]
          BY <2>2, <4>2
        <5>2. f[c] = last[c]
          BY <2>1, <3>1, <5>1
        <5> QED
          BY <3>1, <5>1, <5>2
      <4> QED
        BY <4>1, <4>2
    <3>2. CASE c \notin stop
      <4>1. c \in k..(n - 1)
        BY <3>2
      <4>2. next[c] \in m..n
        BY <2>5, <4>1
      <4>3. g[next[c]] = f[next[c]]
        BY <2>4, <4>2
      <4>4. g[c] = IF c \in pass THEN f[next[c]] ELSE item[c] \o f[next[c]]
        <5>1. CASE c = k
          <6>1. g[c] = v
            BY <5>1
          <6> HIDE DEF g
          <6> QED
            BY <3>2, <5>1, <6>1
        <5>2. CASE c # k
          <6>1. c \in m..n /\ g[c] = f[c]
            BY <2>2, <5>2
          <6> HIDE DEF g
          <6>2. f[c] = IF c \in pass THEN f[next[c]] ELSE item[c] \o f[next[c]]
            BY <2>1, <3>2, <6>1
          <6> QED
            BY <6>1, <6>2
        <5> QED
          BY <5>1, <5>2
      <4> HIDE DEF g
      <4> QED
        BY <3>2, <4>3, <4>4
    <3> QED
      BY <3>1, <3>2
  <2>7. g = [c \in k..n |-> g[c]]
    OBVIOUS
  <2> HIDE DEF g
  <2>8. Goes(g, k)
    BY <2>6, <2>7
  <2> HIDE DEF Goes
  <2> QED
    BY <2>8, <2>2
<1> HIDE DEF G
<1>3. 0 \in G
  <2>1. \A m \in 0..n : m \in G
    BY <1>1, <1>2, Downward
  <2> QED
    BY <2>1
<1> QED
  BY <1>3 DEF G, Runs

-----------------------------------------------------------------------------
(* Where the records of a directory are.                                   *)

\* The place behind the first k records.
Place(v, k) == Len(H!Directory(v, k))

\* Each record takes a cell and what its tail is.
LEMMA PlacesAre ==
  ASSUME NEW v, Len(v.cd) \in Nat
  PROVE  /\ Place(v, 0) = 0
         /\ \A k \in 0..Len(v.cd) : Place(v, k) \in Nat
         /\ \A k \in 1..Len(v.cd) : /\ Tail64(v.cd[k]) \in 1..5
                                    /\ Place(v, k) = Place(v, k - 1) + 1 + Tail64(v.cd[k])
<1>1. Place(v, 0) = 0
  BY DirectoryIs, EmptySeq DEF Place
<1>2. \A k \in 0..Len(v.cd) : Place(v, k) \in Nat
  BY DirectoryIs DEF Place
<1>3. ASSUME NEW k \in 1..Len(v.cd)
      PROVE  /\ Tail64(v.cd[k]) \in 1..5
             /\ Place(v, k) = Place(v, k - 1) + 1 + Tail64(v.cd[k])
  <2> DEFINE d == H!Directory(v, k - 1)
             c == H!WriteCdfh(v.cd[k])
  <2>1. k - 1 \in 0..Len(v.cd)
    OBVIOUS
  <2>2. H!Directory(v, k) = d \o c /\ IsSeq(d) /\ Len(d) \in Nat
    BY <2>1, DirectoryIs
  <2>3. IsSeq(c) /\ Len(c) = 1 + Tail64(v.cd[k]) /\ Tail64(v.cd[k]) \in 1..5
    BY RecordIs
  <2> HIDE DEF c, d
  <2>4. Len(d \o c) = Len(d) + Len(c)
    BY <2>2, <2>3, Joined
  <2>5. PICK a \in Nat : a = Len(d)
    BY <2>2
  <2>6. Len(d \o c) = a + (1 + Tail64(v.cd[k]))
    BY <2>3, <2>4, <2>5, Zenon
  <2>7. Place(v, k) = Len(d \o c) /\ Place(v, k - 1) = a
    BY <2>2, <2>5 DEF Place, d
  <2> QED
    BY <2>3, <2>6, <2>7
<1> QED
  BY <1>1, <1>2, <1>3

\* Places rise, by two to six cells a record.
LEMMA PlacesRise ==
  ASSUME NEW v, Len(v.cd) \in Nat, NEW n \in 0..Len(v.cd)
  PROVE  /\ Place(v, n) \in Nat /\ n <= Place(v, n) /\ Place(v, n) <= 6 * n
         /\ \A k \in 0..n : Place(v, k) <= Place(v, n)
<1> DEFINE Good(m) == /\ Place(v, m) \in Nat /\ m <= Place(v, m) /\ Place(v, m) <= 6 * m
                      /\ \A k \in 0..m : Place(v, k) <= Place(v, m)
           G == {m \in 0..n : Good(m)}
<1>1. 0 \in G
  BY PlacesAre
<1>2. ASSUME NEW m \in 1..n, m - 1 \in G PROVE m \in G
  <2>1. m - 1 \in 0..n /\ m \in 0..n /\ m \in 1..Len(v.cd)
    OBVIOUS
  <2>2. PICK p \in Nat : p = Place(v, m - 1) /\ m - 1 <= p /\ p <= 6 * (m - 1)
                         /\ \A k \in 0..(m - 1) : Place(v, k) <= p
    BY <1>2
  <2>3. PICK t \in 1..5 : Place(v, m) = p + 1 + t
    BY <2>1, <2>2, PlacesAre
  <2>4. PICK q \in Nat : q = Place(v, m) /\ q = p + 1 + t
    BY <2>3
  <2>5. \A k \in 0..m : Place(v, k) <= q
    <3> TAKE k \in 0..m
    <3>1. CASE k = m
      <4>1. Place(v, k) = q
        BY <2>4, <3>1
      <4> QED
        BY <4>1
    <3>2. CASE k # m
      <4>1. k \in 0..(m - 1) /\ Place(v, k) \in Nat
        BY <2>1, <3>2, PlacesAre
      <4>2. Place(v, k) <= p
        BY <2>2, <4>1
      <4> QED
        BY <2>4, <4>1, <4>2
    <3> QED
      BY <3>1, <3>2
  <2>6. Good(m)
    BY <2>2, <2>4, <2>5
  <2> QED
    BY <2>1, <2>6
<1>3. \A m \in 0..n : m \in G
  <2> HIDE DEF G
  <2>1. n \in Nat
    OBVIOUS
  <2> QED
    BY <1>1, <1>2, <2>1, Upward
<1>4. n \in 0..n
  OBVIOUS
<1> QED
  BY <1>3, <1>4

CellsIn(v, n) ==
  \A m \in 1..n : \A i \in 1..(1 + Tail64(v.cd[m])) :
    /\ Place(v, m - 1) + i \in 1..Place(v, n)
    /\ H!Directory(v, n)[Place(v, m - 1) + i] = H!WriteCdfh(v.cd[m])[i]
HeadsIn(v, n) ==
  \A j \in 1..Place(v, n) : \/ \E m \in 1..n : j = Place(v, m - 1) + 1
                           \/ H!Directory(v, n)[j].t = "other"

\* The cells of each record are where it is, and there are no other headers.
LEMMA DirectoryCells ==
  ASSUME NEW v, Len(v.cd) \in Nat, NEW n \in 0..Len(v.cd)
  PROVE  CellsIn(v, n) /\ HeadsIn(v, n)
<1> DEFINE G == {k \in 0..n : CellsIn(v, k) /\ HeadsIn(v, k)}
<1>1. 0 \in G
  <2>1. Place(v, 0) = 0
    BY PlacesAre
  <2>2. CellsIn(v, 0) /\ HeadsIn(v, 0)
    BY <2>1 DEF CellsIn, HeadsIn
  <2> QED
    BY <2>2
<1>2. ASSUME NEW k \in 1..n, k - 1 \in G PROVE k \in G
  <2> DEFINE d == H!Directory(v, k - 1)
             c == H!WriteCdfh(v.cd[k])
             x == H!Directory(v, k)
  <2>1. k - 1 \in 0..n /\ k \in 0..n /\ k \in 1..Len(v.cd) /\ k - 1 \in 0..Len(v.cd)
    OBVIOUS
  <2>2. CellsIn(v, k - 1) /\ HeadsIn(v, k - 1)
    BY <1>2
  <2>3. x = d \o c /\ IsSeq(d) /\ Len(d) \in Nat
    BY <2>1, DirectoryIs
  <2>4. PICK t \in 1..5 : /\ t = Tail64(v.cd[k]) /\ Len(c) = 1 + t
                          /\ \A i \in 2..Len(c) : c[i].t = "other"
    BY RecordIs
  <2>5. IsSeq(c)
    BY RecordIs
  <2>6. PICK p \in Nat : p = Place(v, k - 1) /\ p = Len(d) /\ Place(v, k) = p + 1 + t
    BY <2>1, <2>3, <2>4, PlacesAre DEF Place
  <2> HIDE DEF c, d, x
  <2>7. /\ \A i \in 1..p : x[i] = d[i]
        /\ \A i \in 1..(1 + t) : x[p + i] = c[i]
    <3>1. /\ \A i \in 1..Len(d) : (d \o c)[i] = d[i]
          /\ \A i \in 1..Len(c) : (d \o c)[Len(d) + i] = c[i]
      BY <2>3, <2>5, Joined
    <3> QED
      BY <2>3, <2>4, <2>6, <3>1
  <2>8. CellsIn(v, k)
    <3> SUFFICES ASSUME NEW m \in 1..k, NEW i \in 1..(1 + Tail64(v.cd[m]))
                 PROVE  /\ Place(v, m - 1) + i \in 1..Place(v, k)
                        /\ x[Place(v, m - 1) + i] = H!WriteCdfh(v.cd[m])[i]
      BY DEF x, CellsIn
    <3>1. CASE m = k
      <4>1. i \in 1..(1 + t) /\ Place(v, m - 1) = p /\ H!WriteCdfh(v.cd[m]) = c
        BY <2>4, <2>6, <3>1 DEF c
      <4>2. x[p + i] = c[i] /\ p + i \in 1..(p + 1 + t)
        BY <2>7, <4>1
      <4> QED
        BY <2>6, <4>1, <4>2
    <3>2. CASE m # k
      <4>1. m \in 1..(k - 1)
        BY <3>2
      <4>2. /\ Place(v, m - 1) + i \in 1..p
            /\ d[Place(v, m - 1) + i] = H!WriteCdfh(v.cd[m])[i]
        BY <2>2, <2>6, <4>1 DEF d, CellsIn
      <4>3. x[Place(v, m - 1) + i] = d[Place(v, m - 1) + i]
        BY <2>7, <4>2
      <4>4. Place(v, m - 1) + i \in 1..(p + 1 + t)
        BY <4>2
      <4> QED
        BY <2>6, <4>2, <4>3, <4>4
    <3> QED
      BY <3>1, <3>2
  <2>9. HeadsIn(v, k)
    <3> SUFFICES ASSUME NEW j \in 1..Place(v, k)
                 PROVE  \/ \E m \in 1..k : j = Place(v, m - 1) + 1
                        \/ x[j].t = "other"
      BY DEF x, HeadsIn
    <3>1. CASE j \in 1..p
      <4>1. (\E m \in 1..(k - 1) : j = Place(v, m - 1) + 1) \/ d[j].t = "other"
        BY <2>2, <2>6, <3>1 DEF d, HeadsIn
      <4>2. 1..(k - 1) \subseteq 1..k
        OBVIOUS
      <4> QED
        BY <2>7, <3>1, <4>1, <4>2
    <3>2. CASE j = p + 1
      BY <2>6, <3>2
    <3>3. CASE j \in (p + 2)..(p + 1 + t)
      <4>1. j - p \in 2..(1 + t) /\ p + (j - p) = j /\ j - p \in 1..(1 + t)
        BY <3>3
      <4>2. x[j] = c[j - p]
        BY <2>7, <4>1
      <4>3. c[j - p].t = "other"
        BY <2>4, <4>1
      <4> QED
        BY <4>2, <4>3
    <3>4. j \in 1..(p + 1 + t)
      BY <2>6
    <3> QED
      BY <3>1, <3>2, <3>3, <3>4
  <2> QED
    BY <2>1, <2>8, <2>9
<1>3. \A m \in 0..n : m \in G
  <2> HIDE DEF G
  <2>1. n \in Nat
    OBVIOUS
  <2> QED
    BY <1>1, <1>2, <2>1, Upward
<1>4. n \in 0..n
  OBVIOUS
<1> QED
  BY <1>3, <1>4

-----------------------------------------------------------------------------
(* The walk through a directory.                                           *)

WalkIn(buf, size) ==
  LET walk[c \in 0..Len(buf)] ==
        IF c = Len(buf) THEN <<>>
        ELSE IF buf[c + 1].t # "cdfh" \/ c + 1 + buf[c + 1].tail > Len(buf) THEN walk[c + 1]
        ELSE <<L!ParseCdfh(buf[c + 1], size)>> \o walk[c + 1 + buf[c + 1].tail] IN
  walk
Walks(f, buf, size) ==
  f = [c \in 0..Len(buf) |->
        IF c = Len(buf) THEN <<>>
        ELSE IF buf[c + 1].t # "cdfh" \/ c + 1 + buf[c + 1].tail > Len(buf) THEN f[c + 1]
        ELSE <<L!ParseCdfh(buf[c + 1], size)>> \o f[c + 1 + buf[c + 1].tail]]

GoesOn(f, buf, size) ==
  \A c \in 0..Len(buf) :
    f[c] = IF c = Len(buf) THEN <<>>
           ELSE IF buf[c + 1].t # "cdfh" \/ c + 1 + buf[c + 1].tail > Len(buf) THEN f[c + 1]
           ELSE <<L!ParseCdfh(buf[c + 1], size)>> \o f[c + 1 + buf[c + 1].tail]

\* The walk goes from header to header.
LEMMA WalkGoes ==
  ASSUME NEW buf, NEW size, Len(buf) \in Nat,
         \A i \in 1..Len(buf) : buf[i].t = "cdfh" => buf[i].tail \in Nat
  PROVE  GoesOn(WalkIn(buf, size), buf, size)
<1> DEFINE n == Len(buf)
           f == WalkIn(buf, size)
           pass == {c \in 0..(n - 1) : buf[c + 1].t # "cdfh" \/ c + 1 + buf[c + 1].tail > n}
           next == [c \in 0..n |-> IF c \in pass THEN c + 1 ELSE c + 1 + buf[c + 1].tail]
           item == [c \in 0..n |-> <<L!ParseCdfh(buf[c + 1], size)>>]
           last == [c \in 0..n |-> <<>>]
<1>1. \E g : Walks(g, buf, size)
  <2>1. \A c \in 0..(n - 1) : next[c] \in (c + 1)..n
    <3> TAKE c \in 0..(n - 1)
    <3>1. c \in 0..n /\ c + 1 \in 1..n
      OBVIOUS
    <3>2. CASE c \in pass
      BY <3>1, <3>2
    <3>3. CASE c \notin pass
      <4>1. buf[c + 1].t = "cdfh" /\ ~(c + 1 + buf[c + 1].tail > n)
        BY <3>3
      <4>2. PICK t \in Nat : t = buf[c + 1].tail
        BY <3>1, <4>1
      <4>3. c + 1 + t \in (c + 1)..n
        BY <4>1, <4>2
      <4>4. next[c] = c + 1 + t
        BY <3>1, <3>3, <4>2
      <4> QED
        BY <4>3, <4>4
    <3> QED
      BY <3>2, <3>3
  <2> HIDE DEF next
  <2>2. PICK g : Runs(g, n, {n}, pass, last, item, next)
    <3> DEFINE stop == {n}
    <3>1. n \in stop /\ n \in Nat
      OBVIOUS
    <3> HIDE DEF n, pass, last, item, stop
    <3>2. \E g : Runs(g, n, stop, pass, last, item, next)
      BY <2>1, <3>1, RunsExist
    <3> QED
      BY <3>2 DEF stop
  <2>3. ASSUME NEW c \in 0..n
        PROVE  (IF c \in {n} THEN last[c]
                ELSE IF c \in pass THEN g[next[c]] ELSE item[c] \o g[next[c]])
               = IF c = n THEN <<>>
                 ELSE IF buf[c + 1].t # "cdfh" \/ c + 1 + buf[c + 1].tail > n THEN g[c + 1]
                 ELSE <<L!ParseCdfh(buf[c + 1], size)>> \o g[c + 1 + buf[c + 1].tail]
    <3>1. CASE c = n
      BY <3>1
    <3>2. CASE c # n
      <4>1. c \in 0..(n - 1)
        BY <3>2
      <4>2. c \in pass <=> buf[c + 1].t # "cdfh" \/ c + 1 + buf[c + 1].tail > n
        BY <4>1
      <4>3. next[c] = IF c \in pass THEN c + 1 ELSE c + 1 + buf[c + 1].tail
        BY DEF next
      <4>4. item[c] = <<L!ParseCdfh(buf[c + 1], size)>>
        OBVIOUS
      <4> HIDE DEF item, last, pass, n
      <4> QED
        BY <3>2, <4>2, <4>3, <4>4
    <3> QED
      BY <3>1, <3>2
  <2>4. Walks(g, buf, size)
    <3> HIDE DEF pass, last, item
    <3> QED
      BY <2>2, <2>3 DEF Runs, Walks
  <2> QED
    BY <2>4
<1>2. f = CHOOSE g : Walks(g, buf, size)
  BY DEF WalkIn, Walks
<1>3. Walks(f, buf, size)
  BY <1>1, <1>2
<1> HIDE DEF f
<1>4. GoesOn(f, buf, size)
  BY <1>3 DEF Walks, GoesOn
<1> QED
  BY <1>4 DEF f

\* The entry a record that is left is of, when one is lost (none if it is 0).
Left(n, lost, k) == IF lost = 0 \/ k < lost THEN k ELSE k + 1
LeftCount(n, lost) == IF lost = 0 THEN n ELSE n - 1

\* The records behind the k-th, without the lost one.
Behind(rec, n, lost, k) ==
  [i \in 1..(IF k >= lost THEN n - k ELSE n - k - 1) |->
     rec[IF k >= lost \/ k + i < lost THEN k + i ELSE k + i + 1]]

\* A record that is not lost comes in front of those behind it.
LEMMA OneMore ==
  ASSUME NEW rec, NEW n \in Nat, NEW lost \in 0..n, NEW k \in 1..n, k # lost
  PROVE  Behind(rec, n, lost, k - 1) = <<rec[k]>> \o Behind(rec, n, lost, k)
<1> DEFINE a == Behind(rec, n, lost, k)
           b == Behind(rec, n, lost, k - 1)
           m == IF k >= lost THEN n - k ELSE n - k - 1
<1>1. m \in Nat /\ (IF k - 1 >= lost THEN n - (k - 1) ELSE n - (k - 1) - 1) = m + 1
  OBVIOUS
<1>2. /\ a = [i \in 1..m |-> rec[IF k >= lost \/ k + i < lost THEN k + i ELSE k + i + 1]]
      /\ b = [i \in 1..(m + 1) |->
               rec[IF k - 1 >= lost \/ (k - 1) + i < lost THEN (k - 1) + i ELSE (k - 1) + i + 1]]
  BY <1>1 DEF Behind
<1> HIDE DEF a, b, m
<1>3. \A i \in 1..m : a[i] = rec[IF k >= lost \/ k + i < lost THEN k + i ELSE k + i + 1]
  BY <1>2
<1>4. \A i \in 1..(m + 1) : b[i] =
               rec[IF k - 1 >= lost \/ (k - 1) + i < lost THEN (k - 1) + i ELSE (k - 1) + i + 1]
  BY <1>2
<1>5. IsSeq(a) /\ Len(a) = m /\ IsSeq(b) /\ Len(b) = m + 1
  <2>1. a = [i \in 1..m |-> a[i]] /\ b = [i \in 1..(m + 1) |-> b[i]]
    BY <1>2
  <2> QED
    BY <1>1, <2>1, FunctionIs
<1> DEFINE x == <<rec[k]>>
<1>6. IsSeq(x) /\ Len(x) = 1 /\ x[1] = rec[k]
  <2>1. x \in Seq({rec[k]})
    OBVIOUS
  <2> QED
    BY <2>1 DEF IsSeq
<1> HIDE DEF x
<1>7. /\ IsSeq(x \o a) /\ Len(x \o a) = 1 + m
      /\ \A i \in 1..1 : (x \o a)[i] = x[i]
      /\ \A i \in 1..m : (x \o a)[1 + i] = a[i]
  <2>0. IsSeq(x) /\ IsSeq(a)
    BY <1>5, <1>6
  <2>1. /\ IsSeq(x \o a) /\ Len(x \o a) = Len(x) + Len(a)
        /\ \A i \in 1..Len(x) : (x \o a)[i] = x[i]
        /\ \A i \in 1..Len(a) : (x \o a)[Len(x) + i] = a[i]
    BY <2>0, Joined
  <2> QED
    BY <1>5, <1>6, <2>1
<1>8. ASSUME NEW i \in 1..(m + 1) PROVE b[i] = (x \o a)[i]
  <2>1. CASE i = 1
    <3>1. (IF k - 1 >= lost \/ (k - 1) + i < lost THEN (k - 1) + i ELSE (k - 1) + i + 1) = k
      BY <2>1
    <3>2. b[i] = rec[k]
      BY <1>4, <3>1
    <3>3. 1 \in 1..1
      OBVIOUS
    <3> QED
      BY <1>6, <1>7, <2>1, <3>2, <3>3
  <2>2. CASE i # 1
    <3>1. i - 1 \in 1..m /\ 1 + (i - 1) = i
      BY <1>1, <2>2
    <3>2. (IF k - 1 >= lost \/ (k - 1) + i < lost THEN (k - 1) + i ELSE (k - 1) + i + 1)
            = IF k >= lost \/ k + (i - 1) < lost THEN k + (i - 1) ELSE k + (i - 1) + 1
      BY <3>1
    <3>3. b[i] = a[i - 1]
      BY <1>3, <1>4, <3>1, <3>2
    <3>4. (x \o a)[i] = a[i - 1]
      BY <1>7, <3>1
    <3> QED
      BY <3>3, <3>4
  <2> QED
    BY <2>1, <2>2
<1>9. Len(b) = Len(x \o a)
  BY <1>1, <1>5, <1>7
<1>10. b = x \o a
  BY <1>5, <1>7, <1>8, <1>9, SameSeq
<1> QED
  BY <1>10 DEF a, b, x

\* A record that is lost leaves what is behind it.
LEMMA OneLess ==
  ASSUME NEW rec, NEW n \in Nat, NEW k \in 1..n
  PROVE  Behind(rec, n, k, k - 1) = Behind(rec, n, k, k)
<1>1. (IF k - 1 >= k THEN n - (k - 1) ELSE n - (k - 1) - 1) = n - k
  OBVIOUS
<1>2. \A i \in 1..(n - k) :
        (IF k - 1 >= k \/ (k - 1) + i < k THEN (k - 1) + i ELSE (k - 1) + i + 1) = k + i
  OBVIOUS
<1>3. (IF k >= k THEN n - k ELSE n - k - 1) = n - k
  OBVIOUS
<1>4. Behind(rec, n, k, k - 1) = [i \in 1..(n - k) |-> rec[k + i]]
  BY <1>1, <1>2 DEF Behind
<1>5. Behind(rec, n, k, k) = [i \in 1..(n - k) |-> rec[k + i]]
  BY <1>3 DEF Behind
<1> QED
  BY <1>4, <1>5

\* A directory: headers where `at` says, with names and fields between, of
\* which one has a tail that does not fit.
Records(buf, n, at, lost) ==
  /\ Len(buf) \in Nat /\ n \in Nat /\ lost \in 0..n
  /\ \A k \in 0..n : at[k] \in 0..Len(buf)
  /\ at[0] = 0 /\ at[n] = Len(buf)
  /\ \A k \in 1..n :
       /\ at[k - 1] < at[k] /\ buf[at[k - 1] + 1].t = "cdfh"
       /\ \A i \in (at[k - 1] + 2)..at[k] : buf[i].t = "other"
       /\ buf[at[k - 1] + 1].tail \in Nat
       /\ IF k = lost THEN buf[at[k - 1] + 1].tail >= Len(buf)
          ELSE buf[at[k - 1] + 1].tail = at[k] - at[k - 1] - 1
  /\ \A i \in 1..Len(buf) : buf[i].t = "cdfh" => buf[i].tail \in Nat

\* The walk finds the records that are not lost, each once and in order.
LEMMA WalkFinds ==
  ASSUME NEW buf, NEW size, NEW n, NEW at, NEW lost, Records(buf, n, at, lost)
  PROVE  WalkIn(buf, size)[0]
           = Behind([k \in 1..n |-> L!ParseCdfh(buf[at[k - 1] + 1], size)], n, lost, 0)
<1> DEFINE rec == [k \in 1..n |-> L!ParseCdfh(buf[at[k - 1] + 1], size)]
           len == Len(buf)
           walk == WalkIn(buf, size)
           G == {k \in 0..n : walk[at[k]] = Behind(rec, n, lost, k)}
<1>1. /\ len \in Nat /\ n \in Nat /\ lost \in 0..n
      /\ \A k \in 0..n : at[k] \in 0..len
      /\ at[0] = 0 /\ at[n] = len
  BY DEF Records
<1>a. GoesOn(walk, buf, size)
  <2>1. len \in Nat /\ \A i \in 1..len : buf[i].t = "cdfh" => buf[i].tail \in Nat
    BY DEF Records
  <2> QED
    BY <2>1, WalkGoes
<1> HIDE DEF walk
<1>2. \A c \in 0..len :
        walk[c] = IF c = len THEN <<>>
                  ELSE IF buf[c + 1].t # "cdfh" \/ c + 1 + buf[c + 1].tail > len THEN walk[c + 1]
                  ELSE <<L!ParseCdfh(buf[c + 1], size)>> \o walk[c + 1 + buf[c + 1].tail]
  BY <1>a DEF GoesOn
<1>3. n \in G
  <2>0. len \in 0..len
    BY <1>1
  <2>1. walk[len] = <<>>
    <3> HIDE DEF len
    <3> QED
      BY <1>2, <2>0, Zenon
  <2>2. n - n = 0 /\ n >= lost /\ 1..0 = {}
    BY <1>1
  <2>3. Behind(rec, n, lost, n) = [i \in {} |-> rec[IF n >= lost \/ n + i < lost THEN n + i ELSE n + i + 1]]
    BY <2>2 DEF Behind
  <2> HIDE DEF rec
  <2>4. [i \in {} |-> rec[IF n >= lost \/ n + i < lost THEN n + i ELSE n + i + 1]] = <<>>
    OBVIOUS
  <2> QED
    BY <1>1, <2>1, <2>3, <2>4
<1>4. ASSUME NEW k \in 1..n, k \in G PROVE k - 1 \in G
  <2>1. k - 1 \in 0..n /\ k \in 0..n
    BY <1>1
  <2>2. PICK p \in 0..len : p = at[k - 1]
    BY <1>1, <2>1
  <2>3. PICK q \in 0..len : q = at[k]
    BY <1>1, <2>1
  <2>4. /\ p < q /\ buf[p + 1].t = "cdfh"
        /\ \A i \in (p + 2)..q : buf[i].t = "other"
        /\ buf[p + 1].tail \in Nat
        /\ IF k = lost THEN buf[p + 1].tail >= len
           ELSE buf[p + 1].tail = q - p - 1
    BY <2>2, <2>3 DEF Records
  <2>5. walk[q] = Behind(rec, n, lost, k)
    BY <1>4, <2>3
  <2>6. rec[k] = L!ParseCdfh(buf[p + 1], size)
    BY <2>2
  <2> HIDE DEF rec
  <2>7. PICK t \in Nat : t = buf[p + 1].tail
    BY <2>4
  <2>8. p \in 0..len /\ p # len
    BY <1>1, <2>4
  <2>9. CASE k # lost
    <3>1. p + 1 + t = q
      BY <1>1, <2>4, <2>7, <2>9
    <3>2. ~(p + 1 + t > len)
      BY <1>1, <3>1
    <3>3. walk[p] = <<rec[k]>> \o walk[q]
      BY <1>2, <2>4, <2>6, <2>7, <2>8, <3>1, <3>2
    <3>4. Behind(rec, n, lost, k - 1) = <<rec[k]>> \o Behind(rec, n, lost, k)
      BY <1>1, <2>9, OneMore
    <3> QED
      BY <2>1, <2>2, <2>5, <3>3, <3>4
  <2>10. CASE k = lost
    <3>1. p + 1 + t > len
      BY <1>1, <2>4, <2>7, <2>10
    <3>2. walk[p] = walk[p + 1]
      BY <1>2, <2>7, <2>8, <3>1
    <3> DEFINE m == q - p - 1
               F == {j \in 0..m : walk[p + 1 + j] = walk[q]}
    <3>3. m \in Nat /\ p + 1 + m = q
      BY <1>1, <2>4
    <3> HIDE DEF m
    <3>4. m \in F
      BY <3>3
    <3>5. ASSUME NEW j \in 1..m, j \in F PROVE j - 1 \in F
      <4>1. /\ p + 1 + (j - 1) \in 0..len /\ p + 1 + (j - 1) # len
            /\ p + 1 + (j - 1) + 1 \in (p + 2)..q /\ p + 1 + (j - 1) + 1 = p + 1 + j
            /\ j - 1 \in 0..m
        BY <1>1, <3>3
      <4>2. buf[p + 1 + (j - 1) + 1].t # "cdfh"
        BY <2>4, <4>1
      <4>3. walk[p + 1 + (j - 1)] = walk[p + 1 + (j - 1) + 1]
        BY <1>2, <4>1, <4>2
      <4>4. walk[p + 1 + j] = walk[q]
        BY <3>5
      <4> QED
        BY <4>1, <4>3, <4>4
    <3> HIDE DEF F
    <3>6. \A j \in 0..m : j \in F
      BY <3>3, <3>4, <3>5, Downward
    <3>7. walk[p + 1] = walk[q]
      <4>1. 0 \in 0..m /\ p + 1 + 0 = p + 1
        BY <3>3
      <4>2. 0 \in F
        BY <3>6, <4>1
      <4> QED
        BY <4>1, <4>2 DEF F
    <3>8. Behind(rec, n, lost, k - 1) = Behind(rec, n, lost, k)
      BY <1>1, <2>10, OneLess
    <3> QED
      BY <2>1, <2>2, <2>5, <3>2, <3>7, <3>8
  <2> QED
    BY <2>9, <2>10
<1> HIDE DEF G
<1>5. \A k \in 0..n : k \in G
  BY <1>1, <1>3, <1>4, Downward
<1>6. walk[0] = Behind(rec, n, lost, 0)
  <2>1. 0 \in 0..n
    BY <1>1
  <2>2. 0 \in G
    BY <1>5, <2>1
  <2> QED
    BY <1>1, <2>2 DEF G
<1> QED
  BY <1>6 DEF walk

-----------------------------------------------------------------------------
(* Finding the directory.                                                  *)

\* What is in front of the end of an archive: entries, and a directory whose
\* signatures are there.
Laid(f, v) ==
  LET c == v.cursor
      d == Place(v, Len(v.cd)) IN
  /\ IsSeq(f) /\ Len(f) \in Nat /\ c \in Nat \ {0} /\ c + d < Len(f)
  /\ \A i \in 1..c : f[i].t \in {"lfh", "byte", "other"}
  /\ \A i \in 1..d : f[c + i].t = H!Directory(v, Len(v.cd))[i].t

\* The end of an archive, some of whose fields may lie: without ZIP64 one of
\* the directory's offset, too far or none, and its size; with it, one.
EndAt(f, v, eocd) ==
  LET c == v.cursor
      d == Place(v, Len(v.cd))
      e == f[eocd + 1] IN
  /\ eocd \in Nat /\ eocd < Len(f) /\ Len(f) - TailScan <= eocd
  /\ e.t = "eocd" /\ \A i \in (eocd + 2)..Len(f) : f[i].t # "eocd"
  /\ \/ /\ eocd = c + d /\ e.offset \in Nat /\ e.size \in Nat
        /\ e.offset \in {0, c} \/ e.offset >= eocd
        /\ e.size = 0 \/ e.size >= d
     \/ /\ eocd = c + d + 2
        /\ f[eocd].t = "locator" /\ f[eocd].target = c + d
        /\ f[eocd - 1].t = "zip64" /\ f[eocd - 1].offset = c /\ f[eocd - 1].size = d
        /\ Max32 \in {e.offset, e.size} \/ e.count = Max16

\* The least and the greatest number of a set.
LEMMA EndsAre ==
  ASSUME NEW A, A \subseteq Int, NEW x \in A
  PROVE  /\ (\A y \in A : x <= y) => L!FirstOf(A) = x
         /\ (\A y \in A : x >= y) => L!LastOf(A) = x
<1>1. ASSUME \A y \in A : x <= y PROVE L!FirstOf(A) = x
  <2>1. \A z \in A : (\A y \in A : z <= y) => z = x
    BY <1>1
  <2> QED
    BY <1>1, <2>1 DEF L!FirstOf
<1>2. ASSUME \A y \in A : x >= y PROVE L!LastOf(A) = x
  <2>1. \A z \in A : (\A y \in A : z >= y) => z = x
    BY <1>2
  <2> QED
    BY <1>2, <2>1 DEF L!LastOf
<1> QED
  BY <1>1, <1>2

\* A directory begins with a header and ends with something else.
LEMMA DirectoryEnds ==
  ASSUME NEW v, NEW f, Laid(f, v), Len(v.cd) \in Nat \ {0}
  PROVE  LET c == v.cursor
             d == Place(v, Len(v.cd)) IN
         /\ c \in Nat \ {0} /\ d \in Nat \ {0} /\ Len(v.cd) <= d /\ d <= 6 * Len(v.cd)
         /\ f[c + 1].t = "cdfh" /\ f[c + d].t = "other"
         /\ \A i \in 1..c : f[i].t # "cdfh"
<1> DEFINE n == Len(v.cd)
           c == v.cursor
           d == Place(v, n)
           x == H!Directory(v, n)
<1>1. n \in 0..n /\ n \in Nat /\ 1 \in 1..n /\ n # 0
  OBVIOUS
<1>2. d \in Nat /\ n <= d /\ d <= 6 * n
  BY <1>1, PlacesRise
<1>3. d # 0
  BY <1>1, <1>2
<1>4. x[1].t = "cdfh"
  <2>1. Place(v, 1 - 1) = 0
    BY PlacesAre
  <2>2. 1 \in 1..(1 + Tail64(v.cd[1]))
    <3>1. Tail64(v.cd[1]) \in 1..5
      BY RecordIs
    <3> QED
      BY <3>1
  <2>3. x[Place(v, 1 - 1) + 1] = H!WriteCdfh(v.cd[1])[1]
    BY <1>1, <2>2, DirectoryCells DEF CellsIn
  <2>4. H!WriteCdfh(v.cd[1])[1].t = "cdfh"
    BY RecordIs
  <2> QED
    BY <2>1, <2>3, <2>4
<1>5. x[d].t = "other"
  <2>1. x # <<>> => x[Len(x)].t = "other"
    BY <1>1, DirectoryIs
  <2>2. Len(x) = d /\ x # <<>>
    <3>1. Len(x) = d
      BY DEF Place
    <3>2. Len(<<>>) = 0
      BY EmptySeq
    <3> QED
      BY <1>3, <3>1, <3>2
  <2> QED
    BY <2>1, <2>2
<1>6. c \in Nat \ {0} /\ \A i \in 1..c : f[i].t \in {"lfh", "byte", "other"}
  BY DEF Laid
<1>7. \A i \in 1..d : f[c + i].t = x[i].t
  BY DEF Laid
<1> HIDE DEF c, d, x
<1>8. 1 \in 1..d /\ d \in 1..d
  BY <1>2, <1>3
<1>9. f[c + 1].t = "cdfh" /\ f[c + d].t = "other"
  BY <1>4, <1>5, <1>7, <1>8
<1>10. \A i \in 1..c : f[i].t # "cdfh"
  BY <1>6
<1> QED
  BY <1>2, <1>3, <1>6, <1>9, <1>10 DEF c, d, n

\* A scan from the end of the directory finds its start.
LEMMA ScanFinds ==
  ASSUME NEW v, NEW f, Laid(f, v), Len(v.cd) \in Nat \ {0}, 6 * Len(v.cd) <= ScanCells,
         NEW eocd, eocd = v.cursor + Place(v, Len(v.cd))
  PROVE  L!ScanForCdStart(f, eocd)
           = [error |-> "none", offset |-> v.cursor, size |-> Place(v, Len(v.cd))]
<1>1. PICK c \in Nat : c = v.cursor /\ c # 0
  BY DirectoryEnds
<1>2. PICK d \in Nat : d = Place(v, Len(v.cd)) /\ d # 0 /\ d <= 6 * Len(v.cd)
  BY DirectoryEnds
<1>3. /\ f[c + 1].t = "cdfh" /\ \A i \in 1..c : f[i].t # "cdfh"
      /\ c + d < Len(f) /\ Len(f) \in Nat
  BY <1>1, <1>2, DirectoryEnds DEF Laid
<1>4. ScanCells \in Nat /\ d <= ScanCells
  <2>1. ScanCells \in Nat
    BY LimitsAssumption
  <2> QED
    BY <1>2, <2>1
<1> DEFINE hits == {o \in (eocd - L!Least(eocd, ScanCells))..(eocd - 1) : L!Signed(f, o, "cdfh")}
<1>5. eocd = c + d /\ eocd - L!Least(eocd, ScanCells) <= c /\ c <= eocd - 1
      /\ eocd - L!Least(eocd, ScanCells) \in Int
  BY <1>1, <1>2, <1>4 DEF L!Least
<1>6. c \in hits
  <2>1. L!Signed(f, c, "cdfh")
    BY <1>1, <1>2, <1>3 DEF L!Signed
  <2> QED
    BY <1>1, <1>2, <1>5, <2>1
<1>7. \A o \in hits : o \in Int /\ c <= o
  <2> SUFFICES ASSUME NEW o \in hits, ~(c <= o) PROVE FALSE
    BY <1>1, <1>2, <1>5
  <2>1. o \in Int /\ o >= 0 /\ f[o + 1].t = "cdfh"
    BY <1>1, <1>2, <1>5 DEF L!Signed
  <2>2. o + 1 \in 1..c
    BY <1>1, <2>1
  <2> QED
    BY <1>3, <2>1, <2>2
<1>8. L!FirstOf(hits) = c /\ hits # {}
  <2>1. hits \subseteq Int
    BY <1>7
  <2> HIDE DEF hits
  <2> QED
    BY <1>6, <1>7, <2>1, EndsAre
<1>9. L!ScanForCdStart(f, eocd)
        = IF hits = {} THEN L!Corrupted
          ELSE [error |-> "none", offset |-> L!FirstOf(hits), size |-> eocd - L!FirstOf(hits)]
  BY DEF L!ScanForCdStart
<1> HIDE DEF hits
<1>10. eocd - c = d
  BY <1>1, <1>2, <1>5
<1> QED
  BY <1>1, <1>2, <1>8, <1>9, <1>10

\* Whatever the end of the archive says, the parser finds the directory.
LEMMA DirectoryFound ==
  ASSUME NEW v, NEW f, NEW eocd, Laid(f, v), EndAt(f, v, eocd),
         Len(v.cd) \in Nat \ {0}, 6 * Len(v.cd) <= ScanCells
  PROVE  L!FindCentralDirectory(f)
           = [error |-> "none", offset |-> v.cursor, size |-> Place(v, Len(v.cd))]
<1>1. PICK c \in Nat : c = v.cursor /\ c # 0
  BY DirectoryEnds
<1>2. PICK d \in Nat : d = Place(v, Len(v.cd)) /\ d # 0
  BY DirectoryEnds
<1>3. /\ f[c + 1].t = "cdfh" /\ \A i \in 1..c : f[i].t # "cdfh"
      /\ f[c + d].t = "other" /\ c + d < Len(f) /\ Len(f) \in Nat
  BY <1>1, <1>2, DirectoryEnds DEF Laid
<1>4. TailScan \in Nat \ {0} /\ Max32 \in Nat /\ Max16 \in Nat
  BY LimitsAssumption
<1> DEFINE e == f[eocd + 1]
           answer == [error |-> "none", offset |-> c, size |-> d]
<1>5. /\ eocd \in Nat /\ eocd < Len(f) /\ Len(f) - TailScan <= eocd
      /\ e.t = "eocd" /\ \A i \in (eocd + 2)..Len(f) : f[i].t # "eocd"
  BY DEF EndAt
<1>6. \/ /\ eocd = c + d /\ e.offset \in Nat /\ e.size \in Nat
         /\ e.offset \in {0, c} \/ e.offset >= eocd
         /\ e.size = 0 \/ e.size >= d
      \/ /\ eocd = c + d + 2
         /\ f[eocd].t = "locator" /\ f[eocd].target = c + d
         /\ f[eocd - 1].t = "zip64" /\ f[eocd - 1].offset = c /\ f[eocd - 1].size = d
         /\ Max32 \in {e.offset, e.size} \/ e.count = Max16
  BY <1>1, <1>2 DEF EndAt
<1> HIDE DEF e
<1> DEFINE eocds == {o \in (Len(f) - L!Least(Len(f), TailScan))..(Len(f) - 1) : L!Signed(f, o, "eocd")}
<1>7. L!LastOf(eocds) = eocd /\ eocds # {}
  <2>0. PICK n \in Nat : n = Len(f)
    BY <1>3
  <2>1. n - L!Least(n, TailScan) \in Int /\ n - L!Least(n, TailScan) <= eocd /\ eocd \in Int
    BY <1>4, <1>5, <2>0 DEF L!Least
  <2>2. eocd \in eocds
    <3>1. L!Signed(f, eocd, "eocd")
      BY <1>5 DEF L!Signed, e
    <3> QED
      BY <1>5, <2>0, <2>1, <3>1
  <2>3. \A o \in eocds : o \in Int /\ eocd >= o
    <3> SUFFICES ASSUME NEW o \in eocds, ~(eocd >= o) PROVE FALSE
      BY <2>0, <2>1
    <3>1. o \in Int /\ o <= n - 1 /\ f[o + 1].t = "eocd"
      BY <2>0, <2>1 DEF L!Signed
    <3>2. o + 1 \in (eocd + 2)..n
      BY <2>0, <2>1, <3>1
    <3> QED
      BY <1>5, <2>0, <3>1, <3>2
  <2>4. eocds \subseteq Int
    BY <2>3
  <2> HIDE DEF eocds
  <2> QED
    BY <2>2, <2>3, <2>4, EndsAre
<1>8. L!FindCentralDirectory(f)
        = IF Max32 \in {e.offset, e.size} \/ e.count = Max16 THEN L!ResolveZip64(f, eocd)
          ELSE IF e.offset >= eocd \/ ~L!Signed(f, e.offset, "cdfh") THEN L!ScanForCdStart(f, eocd)
          ELSE [error |-> "none", offset |-> e.offset, size |-> L!Clamped(e.size, eocd - e.offset)]
  <2>1. L!FindCentralDirectory(f)
          = IF eocds = {} THEN L!Corrupted
            ELSE IF Max32 \in {f[L!LastOf(eocds) + 1].offset, f[L!LastOf(eocds) + 1].size}
                    \/ f[L!LastOf(eocds) + 1].count = Max16
            THEN L!ResolveZip64(f, L!LastOf(eocds))
            ELSE IF \/ f[L!LastOf(eocds) + 1].offset >= L!LastOf(eocds)
                    \/ ~L!Signed(f, f[L!LastOf(eocds) + 1].offset, "cdfh")
            THEN L!ScanForCdStart(f, L!LastOf(eocds))
            ELSE [error |-> "none", offset |-> f[L!LastOf(eocds) + 1].offset,
                  size |-> L!Clamped(f[L!LastOf(eocds) + 1].size,
                                     L!LastOf(eocds) - f[L!LastOf(eocds) + 1].offset)]
    BY DEF L!FindCentralDirectory
  <2> HIDE DEF eocds
  <2> QED
    BY <1>7, <2>1, Zenon DEF e
<1> HIDE DEF eocds
<1>9. CASE /\ eocd = c + d /\ e.offset \in Nat /\ e.size \in Nat
           /\ e.offset \in {0, c} \/ e.offset >= eocd
           /\ e.size = 0 \/ e.size >= d
  <2>1. L!ScanForCdStart(f, eocd) = answer
    BY <1>1, <1>2, <1>9, ScanFinds
  <2>2. L!Signed(f, c, "cdfh") /\ c < eocd /\ eocd - c = d
    BY <1>1, <1>2, <1>3, <1>9 DEF L!Signed
  <2>3. e.offset # c => e.offset >= eocd \/ ~L!Signed(f, e.offset, "cdfh")
    <3> SUFFICES ASSUME e.offset = 0 PROVE ~L!Signed(f, e.offset, "cdfh")
      BY <1>9
    <3>1. 0 + 1 \in 1..c /\ 0 + 1 = 1
      BY <1>1
    <3> QED
      BY <1>3, <3>1 DEF L!Signed
  <2>4. L!ResolveZip64(f, eocd) = answer
    <3>1. eocd # 0 /\ eocd - 1 + 1 = c + d
      BY <1>1, <1>2, <1>9
    <3>2. ~L!Signed(f, eocd - 1, "locator")
      BY <1>3, <3>1 DEF L!Signed
    <3>3. L!ResolveZip64(f, eocd)
            = IF e.offset # Max32 /\ e.offset < eocd /\ L!Signed(f, e.offset, "cdfh")
              THEN [error |-> "none", offset |-> e.offset, size |-> eocd - e.offset]
              ELSE L!ScanForCdStart(f, eocd)
      BY <3>1, <3>2 DEF L!ResolveZip64, e
    <3>4. CASE e.offset = c
      BY <2>1, <2>2, <3>3, <3>4
    <3>5. CASE e.offset # c
      <4>1. ~(e.offset < eocd /\ L!Signed(f, e.offset, "cdfh"))
        BY <1>5, <1>9, <2>3, <3>5
      <4> QED
        BY <2>1, <3>3, <4>1
    <3> QED
      BY <3>4, <3>5
  <2>5. L!Clamped(e.size, d) = d
    BY <1>2, <1>9 DEF L!Clamped
  <2>6. CASE e.offset = c
    <3>1. ~(e.offset >= eocd)
      BY <1>1, <1>9, <2>2, <2>6
    <3> QED
      BY <1>1, <1>2, <1>8, <2>2, <2>4, <2>5, <2>6, <3>1
  <2>7. CASE e.offset # c
    BY <1>1, <1>2, <1>8, <2>1, <2>3, <2>4, <2>7
  <2> QED
    BY <2>6, <2>7
<1>10. CASE /\ eocd = c + d + 2
            /\ f[eocd].t = "locator" /\ f[eocd].target = c + d
            /\ f[eocd - 1].t = "zip64" /\ f[eocd - 1].offset = c /\ f[eocd - 1].size = d
            /\ Max32 \in {e.offset, e.size} \/ e.count = Max16
  <2>1. eocd # 0 /\ eocd - 1 + 1 = eocd /\ c + d + 1 = eocd - 1 /\ eocd - 1 >= 0
        /\ eocd - 1 < Len(f) /\ c + d >= 0 /\ c + d < Len(f)
    BY <1>1, <1>2, <1>5, <1>10, <1>3
  <2>2. L!Signed(f, eocd - 1, "locator")
    BY <1>10, <2>1 DEF L!Signed
  <2>3. L!Signed(f, c + d, "zip64")
    BY <1>10, <2>1 DEF L!Signed
  <2>4. f[c + d + 1].offset = c /\ f[c + d + 1].size = d /\ ~(c > Len(f))
    BY <1>1, <1>2, <1>3, <1>10, <2>1
  <2>5. L!Clamped(d, IF c + d > c THEN c + d - c ELSE 0) = d
    BY <1>1, <1>2 DEF L!Clamped
  <2>6. L!ResolveZip64(f, eocd)
          = [error |-> "none", offset |-> f[f[eocd].target + 1].offset,
             size |-> L!Clamped(f[f[eocd].target + 1].size,
                                IF f[eocd].target > f[f[eocd].target + 1].offset
                                THEN f[eocd].target - f[f[eocd].target + 1].offset ELSE 0)]
    BY <1>10, <2>1, <2>2, <2>3, <2>4 DEF L!ResolveZip64
  <2>7. L!ResolveZip64(f, eocd) = answer
    BY <1>10, <2>4, <2>5, <2>6
  <2> QED
    BY <1>1, <1>2, <1>8, <1>10, <2>7
<1> QED
  BY <1>6, <1>9, <1>10

-----------------------------------------------------------------------------
(* Reading the directory.                                                  *)

\* The cell of the k-th record in a file.
Header(f, v, k) == f[v.cursor + Place(v, k - 1) + 1]

\* Two headers that say the same, except where the entry and the next header
\* are.
Like(h, r) ==
  /\ h.t = r.t /\ h.name = r.name /\ h.method = r.method /\ h.encrypted = r.encrypted
  /\ h.crc = r.crc /\ h.date = r.date /\ h.time = r.time
  /\ h.size = r.size /\ h.comp = r.comp /\ h.extra = r.extra

\* The headers are there, and one at most has a tail that does not fit.
Listed(f, v, lost) ==
  /\ lost \in 0..Len(v.cd)
  /\ \A k \in 1..Len(v.cd) :
       /\ Like(Header(f, v, k), RecordCell(v.cd[k]))
       /\ IF k = lost THEN Header(f, v, k).tail \in Nat /\ Header(f, v, k).tail >= Len(f)
          ELSE Header(f, v, k).tail = Tail64(v.cd[k])

\* What the parser makes of each header.
Parsed(f, v) == [k \in 1..Len(v.cd) |-> L!ParseCdfh(Header(f, v, k), Len(f))]

\* A stretch of a file.
Part(f, c, d) == SubSeq(f, c + 1, c + d)

\* It is a sequence.
LEMMA StretchIs ==
  ASSUME NEW f, IsSeq(f), NEW c \in Nat, NEW d \in Nat, c + d <= Len(f), Len(f) \in Nat
  PROVE  /\ IsSeq(Part(f, c, d)) /\ Len(Part(f, c, d)) = d
         /\ \A i \in 1..d : Part(f, c, d)[i] = f[c + i]
<1>1. PICK A : f \in Seq(A)
  BY DEF IsSeq
<1>2. c + 1 \in 1..(Len(f) + 1) /\ c + d \in 0..Len(f) /\ c + 1 <= c + d + 1
  OBVIOUS
<1>3. \A i \in (c + 1)..(c + d) : f[i] \in A
  <2>1. \A i \in 1..Len(f) : f[i] \in A
    BY <1>1, LenProperties
  <2> QED
    BY <1>2, <2>1
<1> DEFINE s == Part(f, c, d)
<1>4. s = [i \in 1..((c + d) - (c + 1) + 1) |-> f[i + (c + 1) - 1]]
  BY DEF Part
<1>5. (c + d) - (c + 1) + 1 = d /\ \A i \in 1..d : i + (c + 1) - 1 = c + i
  OBVIOUS
<1>6. s = [i \in 1..d |-> f[c + i]]
  BY <1>4, <1>5
<1> HIDE DEF s
<1>7. \A i \in 1..d : s[i] = f[c + i]
  BY <1>6
<1>8. s = [i \in 1..d |-> s[i]]
  BY <1>6
<1>9. IsSeq(s) /\ Len(s) = d
  BY <1>8, FunctionIs
<1> QED
  BY <1>7, <1>9 DEF s

Stretch(f, v) == Part(f, v.cursor, Place(v, Len(v.cd)))
PlacesOf(v) == [k \in 0..Len(v.cd) |-> Place(v, k)]

\* The stretch of the directory is records, one after the other.
LEMMA DirectoryRecords ==
  ASSUME NEW v, NEW f, NEW lost, Laid(f, v), Listed(f, v, lost), Len(v.cd) \in Nat \ {0},
         NEW buf, buf = Stretch(f, v), NEW at, at = PlacesOf(v)
  PROVE  /\ Records(buf, Len(v.cd), at, lost)
         /\ \A k \in 1..Len(v.cd) : buf[at[k - 1] + 1] = Header(f, v, k)
<1> DEFINE n == Len(v.cd)
<1>0. n \in Nat /\ n # 0 /\ n \in 0..n
  OBVIOUS
<1>1. PICK c \in Nat : c = v.cursor
  BY DirectoryEnds
<1>2. PICK d \in Nat : d = Place(v, n)
  BY DirectoryEnds
<1>3. IsSeq(f) /\ Len(f) \in Nat /\ c + d < Len(f)
      /\ \A i \in 1..d : f[c + i].t = H!Directory(v, n)[i].t
  BY <1>1, <1>2 DEF Laid
<1>4. buf = Part(f, c, d) /\ c + d <= Len(f)
  BY <1>1, <1>2, <1>3 DEF Stretch
<1>5. Len(buf) = d /\ \A i \in 1..d : buf[i] = f[c + i]
  BY <1>3, <1>4, StretchIs
<1>6. /\ \A k \in 0..n : at[k] = Place(v, k) /\ at[k] \in 0..d
      /\ at[0] = 0 /\ at[n] = d
  <2>1. \A k \in 0..n : Place(v, k) \in Nat /\ Place(v, k) <= d
    BY <1>0, <1>2, PlacesAre, PlacesRise
  <2>2. Place(v, 0) = 0 /\ 0 \in 0..n
    BY <1>0, PlacesAre
  <2> QED
    BY <1>0, <1>2, <2>1, <2>2 DEF PlacesOf
<1>7. ASSUME NEW k \in 1..n
      PROVE  /\ k - 1 \in 0..n /\ k \in 0..n
             /\ Tail64(v.cd[k]) \in 1..5 /\ at[k] = at[k - 1] + 1 + Tail64(v.cd[k])
             /\ buf[at[k - 1] + 1] = Header(f, v, k)
             /\ buf[at[k - 1] + 1].t = "cdfh"
             /\ \A i \in (at[k - 1] + 2)..at[k] : buf[i].t = "other"
  <2>1. k - 1 \in 0..n /\ k \in 0..n
    BY <1>0
  <2>2. PICK t \in 1..5 : t = Tail64(v.cd[k]) /\ Place(v, k) = Place(v, k - 1) + 1 + t
    BY PlacesAre
  <2>3. PICK p \in 0..d : p = at[k - 1] /\ p = Place(v, k - 1) /\ at[k] = p + 1 + t /\ p + 1 + t <= d
    <3>1. /\ at[k - 1] \in 0..d /\ at[k - 1] = Place(v, k - 1)
          /\ at[k] \in 0..d /\ at[k] = Place(v, k)
      BY <1>6, <2>1
    <3>2. PICK p \in 0..d : p = at[k - 1]
      BY <3>1
    <3>3. at[k] = p + 1 + t
      BY <2>2, <3>1, <3>2
    <3>4. p + 1 + t <= d
      BY <3>1, <3>3
    <3> QED
      BY <3>1, <3>2, <3>3, <3>4
  <2>4. buf[p + 1] = f[c + p + 1]
    <3>1. p + 1 \in 1..d /\ c + (p + 1) = c + p + 1
      BY <2>3
    <3> QED
      BY <1>5, <3>1
  <2>5. buf[p + 1] = Header(f, v, k)
    BY <1>1, <2>3, <2>4 DEF Header
  <2>6. Header(f, v, k).t = "cdfh"
    <3>1. RecordCell(v.cd[k]).t = "cdfh"
      BY DEF RecordCell
    <3> QED
      BY <3>1 DEF Listed, Like
  <2>7. ASSUME NEW i \in (p + 2)..(p + 1 + t) PROVE buf[i].t = "other"
    <3>1. i \in 1..d /\ i - p \in 2..(1 + t) /\ i - p \in 1..(1 + t) /\ p + (i - p) = i
      BY <2>3
    <3>2. H!Directory(v, n)[Place(v, k - 1) + (i - p)] = H!WriteCdfh(v.cd[k])[i - p]
      <4>1. i - p \in 1..(1 + Tail64(v.cd[k]))
        BY <2>2, <3>1
      <4>2. CellsIn(v, n)
        BY <1>0, DirectoryCells
      <4> QED
        BY <4>1, <4>2 DEF CellsIn
    <3>3. H!WriteCdfh(v.cd[k])[i - p].t = "other"
      <4>1. \A j \in 2..Len(H!WriteCdfh(v.cd[k])) : H!WriteCdfh(v.cd[k])[j].t = "other"
        BY RecordIs
      <4>2. Len(H!WriteCdfh(v.cd[k])) = 1 + t
        BY <2>2, RecordIs
      <4> QED
        BY <3>1, <4>1, <4>2
    <3>4. H!Directory(v, n)[i].t = "other"
      BY <2>3, <3>1, <3>2, <3>3
    <3> QED
      BY <1>3, <1>5, <3>1, <3>4
  <2> QED
    BY <2>1, <2>2, <2>3, <2>5, <2>6, <2>7
<1>8. ASSUME NEW k \in 1..n
      PROVE  /\ at[k - 1] < at[k]
             /\ buf[at[k - 1] + 1].tail \in Nat
             /\ IF k = lost THEN buf[at[k - 1] + 1].tail >= Len(buf)
                ELSE buf[at[k - 1] + 1].tail = at[k] - at[k - 1] - 1
  <2>0. k - 1 \in 0..n
    BY <1>0
  <2>a. at[k - 1] \in 0..d
    BY <1>6, <2>0
  <2>1. PICK p \in Nat : p = at[k - 1]
    BY <2>a
  <2>2. PICK t \in 1..5 : t = Tail64(v.cd[k]) /\ at[k] = p + 1 + t
    BY <1>7, <2>1
  <2>3. IF k = lost THEN Header(f, v, k).tail \in Nat /\ Header(f, v, k).tail >= Len(f)
        ELSE Header(f, v, k).tail = t
    BY <2>2 DEF Listed
  <2>4. CASE k = lost
    <3>1. PICK u \in Nat : u = Header(f, v, k).tail /\ u >= Len(f)
      BY <2>3, <2>4
    <3>2. u >= d
      BY <1>3, <3>1
    <3>3. buf[at[k - 1] + 1].tail = u
      BY <1>7, <3>1
    <3>4. at[k - 1] < at[k]
      BY <2>1, <2>2
    <3> QED
      BY <1>5, <2>4, <3>1, <3>2, <3>3, <3>4
  <2>5. CASE k # lost
    <3>1. t = p + 1 + t - p - 1 /\ p < p + 1 + t
      OBVIOUS
    <3>2. buf[at[k - 1] + 1].tail = t
      BY <1>7, <2>3, <2>5
    <3>3. t \in Nat
      OBVIOUS
    <3>4. at[k] - at[k - 1] - 1 = t
      BY <2>1, <2>2, <3>1
    <3>5. at[k - 1] < at[k]
      BY <2>1, <2>2
    <3> QED
      BY <2>5, <3>2, <3>3, <3>4, <3>5
  <2> QED
    BY <2>4, <2>5
<1>9. \A i \in 1..d : buf[i].t = "cdfh" => buf[i].tail \in Nat
  <2> SUFFICES ASSUME NEW i \in 1..d, buf[i].t = "cdfh" PROVE buf[i].tail \in Nat
    OBVIOUS
  <2>1. H!Directory(v, n)[i].t = "cdfh"
    BY <1>3, <1>5
  <2>2. PICK k \in 1..n : i = Place(v, k - 1) + 1
    <3>1. (\E k \in 1..n : i = Place(v, k - 1) + 1) \/ H!Directory(v, n)[i].t = "other"
      BY <1>0, <1>2, DirectoryCells DEF HeadsIn
    <3> QED
      BY <2>1, <3>1
  <2>3. i = at[k - 1] + 1
    BY <1>6, <1>7, <2>2
  <2> QED
    BY <1>8, <2>3
<1>10. lost \in 0..n
  BY DEF Listed
<1> QED
  BY <1>0, <1>5, <1>6, <1>7, <1>8, <1>9, <1>10 DEF Records

\* The parser lists the entries whose records are not lost.
LEMMA OpensAs ==
  ASSUME NEW v, NEW f, NEW eocd, NEW lost, Laid(f, v), EndAt(f, v, eocd), Listed(f, v, lost),
         Len(v.cd) \in Nat \ {0}, 6 * Len(v.cd) <= ScanCells
  PROVE  L!Open(f) = [error |-> "none",
                      records |-> Behind(Parsed(f, v), Len(v.cd), lost, 0)]
<1> DEFINE c == v.cursor
           d == Place(v, Len(v.cd))
           cd == [error |-> "none", offset |-> c, size |-> d]
           buf == Stretch(f, v)
           at == PlacesOf(v)
<1>1. L!FindCentralDirectory(f) = cd
  BY DirectoryFound
<1>2. Records(buf, Len(v.cd), at, lost)
      /\ \A k \in 1..Len(v.cd) : buf[at[k - 1] + 1] = Header(f, v, k)
  BY DirectoryRecords
<1>3. L!Least(c + d, Len(f)) = c + d
  <2>1. c \in Nat /\ d \in Nat /\ c + d < Len(f) /\ Len(f) \in Nat
    BY DirectoryEnds DEF Laid
  <2> QED
    BY <2>1 DEF L!Least
<1>4. L!WalkCentralDirectory(f, cd) = WalkIn(buf, Len(f))[0]
  <2>1. L!WalkCentralDirectory(f, cd)
          = WalkIn(SubSeq(f, c + 1, L!Least(c + d, Len(f))), Len(f))[0]
    <3>1. cd.offset = c /\ cd.size = d
      OBVIOUS
    <3> HIDE DEF c, d, cd
    <3> QED
      BY <3>1, Zenon DEF L!WalkCentralDirectory, WalkIn
  <2> QED
    BY <1>3, <2>1 DEF Stretch, Part
<1>5. [k \in 1..Len(v.cd) |-> L!ParseCdfh(buf[at[k - 1] + 1], Len(f))] = Parsed(f, v)
  <2> HIDE DEF buf, at
  <2> QED
    BY <1>2 DEF Parsed
<1>6. WalkIn(buf, Len(f))[0] = Behind(Parsed(f, v), Len(v.cd), lost, 0)
  <2> HIDE DEF buf, at
  <2>1. WalkIn(buf, Len(f))[0]
          = Behind([k \in 1..Len(v.cd) |-> L!ParseCdfh(buf[at[k - 1] + 1], Len(f))], Len(v.cd), lost, 0)
    BY <1>2, WalkFinds
  <2> QED
    BY <1>5, <2>1
<1>7. L!Open(f) = [error |-> "none", records |-> L!WalkCentralDirectory(f, cd)]
  BY <1>1 DEF L!Open
<1> QED
  BY <1>4, <1>6, <1>7

-----------------------------------------------------------------------------
(* Dates.                                                                  *)

\* The year of a day in an era of 400 years.
LEMMA YearOfEra ==
  ASSUME NEW doe \in Nat, doe <= 146096, NEW yoe \in Int,
         yoe = (doe - doe \div 1460 + doe \div 36524 - doe \div 146096) \div 365
  PROVE  /\ yoe \in 0..399
         /\ 365 * yoe + yoe \div 4 - yoe \div 100 <= doe
         /\ doe <= 365 * yoe + yoe \div 4 - yoe \div 100 + 365
OBVIOUS

\* The month of a day in a year that begins in March.
LEMMA MonthOfYear ==
  ASSUME NEW doy \in Nat, doy <= 365, NEW mp \in Int, mp = (5 * doy + 2) \div 153
  PROVE  /\ mp \in 0..11 /\ (mp >= 10 => doy >= 306) /\ (mp < 10 => doy < 306)
         /\ doy - (153 * mp + 2) \div 5 + 1 \in 1..31
OBVIOUS

\* The greater of two numbers, which the writer takes with the library.
LEMMA MaxIs ==
  ASSUME NEW a \in Nat, NEW b \in Nat
  PROVE  H!Max({a, b}) = IF a >= b THEN a ELSE b
<1> DEFINE m == IF a >= b THEN a ELSE b
<1>1. m \in {a, b} /\ \A y \in {a, b} : m >= y
  OBVIOUS
<1>2. \A x \in {a, b} : (\A y \in {a, b} : x >= y) => x = m
  OBVIOUS
<1>3. H!Max({a, b}) = CHOOSE x \in {a, b} : \A y \in {a, b} : x >= y
  BY DEF H!Max
<1> HIDE DEF m
<1>4. H!Max({a, b}) = m
  BY <1>1, <1>2, <1>3
<1> QED
  BY <1>4 DEF m

\* A time is kept to two seconds.
LEMMA TimeReturns ==
  ASSUME NEW sec \in Nat, sec < 86400
  PROVE  L!DosToSeconds(H!DosTime(sec)) = (sec \div 2) * 2
BY DEF L!DosToSeconds, H!DosTime

\* A day from 1980 to 2107 is kept.
LEMMA DayReturns ==
  ASSUME NEW day \in DosDays
  PROVE  L!DosToDays(H!DosDate(day)) = day
<1> DEFINE z == day + 719468
           doe == z % 146097
           era == z \div 146097
           yoe == (doe - doe \div 1460 + doe \div 36524 - doe \div 146096) \div 365
           doy == doe - (365 * yoe + yoe \div 4 - yoe \div 100)
           mp == (5 * doy + 2) \div 153
           m == IF mp < 10 THEN mp + 3 ELSE mp - 9
           y == IF m <= 2 THEN yoe + era * 400 + 1 ELSE yoe + era * 400
           d == doy - (153 * mp + 2) \div 5 + 1
           date == H!DosDate(day)
<1>1. /\ day \in Nat /\ z \in Nat /\ 723120 <= z /\ z <= 769870
      /\ z = era * 146097 + doe /\ era \in Nat /\ doe \in Nat /\ doe <= 146096
  <2>1. day \in Nat /\ z \in Nat /\ 723120 <= z /\ z <= 769870
    BY DEF DosDays
  <2> HIDE DEF z
  <2>2. z = era * 146097 + doe /\ era \in Nat /\ doe \in Nat /\ doe <= 146096
    BY <2>1
  <2> QED
    BY <2>1, <2>2
<1>2. yoe \in Int
  BY <1>1
<1>0. H!EpochToCivil(day) = [year |-> y, month |-> m, day |-> d]
  BY DEF H!EpochToCivil
<1>a. date = LET c == H!EpochToCivil(day)
                 yy == H!Min({H!Max({c.year, 1980}), 2107}) IN
             (yy - 1980) * 512 + c.month * 32 + c.day
  BY DEF H!DosDate
<1>b. z - 719468 = day
  BY <1>1
<1>c. z % 146097 = doe /\ z \div 146097 = era
  OBVIOUS
<1>d. yoe = (doe - doe \div 1460 + doe \div 36524 - doe \div 146096) \div 365
  OBVIOUS
<1> HIDE DEF date
<1> HIDE DEF z, doe, era, yoe
<1>3. /\ yoe \in 0..399
      /\ 365 * yoe + yoe \div 4 - yoe \div 100 <= doe
      /\ doe <= 365 * yoe + yoe \div 4 - yoe \div 100 + 365
  BY <1>1, <1>2, <1>d, YearOfEra
<1>4. doy \in 0..365 /\ doe = (365 * yoe + yoe \div 4 - yoe \div 100) + doy
  BY <1>1, <1>3
<1>5. doy = doe - (365 * yoe + yoe \div 4 - yoe \div 100)
  OBVIOUS
<1>6. mp \in Int /\ mp = (5 * doy + 2) \div 153
  BY <1>4
<1> HIDE DEF doy, mp
<1>7. mp \in 0..11 /\ (mp >= 10 => doy >= 306) /\ (mp < 10 => doy < 306) /\ d \in 1..31
  BY <1>4, <1>6, MonthOfYear
<1>8. m \in 1..12 /\ (m <= 2 <=> mp >= 10) /\ (IF m > 2 THEN m - 3 ELSE m + 9) = mp
  BY <1>7
<1>9. y \in Int /\ y = yoe + era * 400 + (IF doy >= 306 THEN 1 ELSE 0)
  BY <1>1, <1>3, <1>4, <1>7, <1>8
<1>10. /\ (IF m <= 2 THEN y - 1 ELSE y) = yoe + era * 400
  BY <1>1, <1>3
<1>11. doy = (153 * mp + 2) \div 5 + d - 1
  BY <1>4, <1>7
<1> HIDE DEF m, y, d
<1>12. 1980 <= y /\ y <= 2107
  <2>1. era \in {4, 5}
    BY <1>1
  <2> QED
    BY <1>1, <1>3, <1>4, <1>9, <2>1
<1>13. H!Min({H!Max({y, 1980}), 2107}) = y
  <2>1. H!Max({y, 1980}) = y
    BY <1>9, <1>12, MaxIs
  <2>2. H!Min({y, 2107}) = y
    BY <1>9, <1>12, MinIs
  <2> QED
    BY <2>1, <2>2
<1>14. date = (y - 1980) * 512 + m * 32 + d
  <2>1. /\ H!EpochToCivil(day).year = y /\ H!EpochToCivil(day).month = m
        /\ H!EpochToCivil(day).day = d
    BY <1>0
  <2> QED
    BY <1>a, <1>13, <2>1
<1>15. /\ y \in Int /\ 1980 <= y /\ y <= 2107 /\ m \in 1..12 /\ d \in 1..31
       /\ date = (y - 1980) * 512 + m * 32 + d
  BY <1>7, <1>8, <1>9, <1>12, <1>14
<1>16. L!DosToDays(date) = L!DaysFromCivil(y, m, d)
  <2>1. date \div 512 + 1980 = y
    BY <1>15
  <2>2. (date \div 32) % 16 = m
    BY <1>15
  <2>3. date % 32 = d
    BY <1>15
  <2>4. L!DosToDays(date) = L!DaysFromCivil((date \div 512) + 1980, (date \div 32) % 16, date % 32)
    BY DEF L!DosToDays
  <2> QED
    BY <2>1, <2>2, <2>3, <2>4
<1>17. (yoe + era * 400) % 400 = yoe /\ (yoe + era * 400) \div 400 = era
  BY <1>1, <1>3
<1>18. L!DaysFromCivil(y, m, d)
         = (era * 146097 + yoe * 365 + yoe \div 4 - yoe \div 100 + doy) - 719468
  <2>1. ~(m \notin 1..12 \/ d \notin 1..31)
    BY <1>7, <1>8
  <2>2. L!DaysFromCivil(y, m, d)
          = LET cy == IF m <= 2 THEN y - 1 ELSE y
                yy == cy % 400
                dd == (153 * (IF m > 2 THEN m - 3 ELSE m + 9) + 2) \div 5 + d - 1 IN
            (cy \div 400) * 146097 + yy * 365 + yy \div 4 - yy \div 100 + dd - 719468
    BY <2>1 DEF L!DaysFromCivil
  <2>3. L!DaysFromCivil(y, m, d)
          = era * 146097 + yoe * 365 + yoe \div 4 - yoe \div 100 + ((153 * mp + 2) \div 5 + d - 1) - 719468
    BY <1>8, <1>10, <1>17, <2>2
  <2> QED
    BY <1>1, <1>3, <1>4, <1>7, <1>11, <2>3
<1>19. era * 146097 + yoe * 365 + yoe \div 4 - yoe \div 100 + doy = z
  BY <1>1, <1>3, <1>4
<1>20. L!DosToDays(date) = day
  BY <1>b, <1>16, <1>18, <1>19
<1> QED
  BY <1>20 DEF date

-----------------------------------------------------------------------------
(* What the parser makes of a header.                                      *)

\* How many numbers are held for one.
Count(n) == IF H!Overflows(n) THEN 1 ELSE 0

\* The numbers a record has beside it, in order.
LEMMA ExtraHolds ==
  ASSUME NEW r
  PROVE  LET a == Count(r.size)
             b == Count(r.comp)
             c == Count(r.lfh)
             x == Extra(r) IN
         /\ DOMAIN x = 1..(a + b + c)
         /\ H!Overflows(r.size) => x[a] = r.size
         /\ H!Overflows(r.comp) => x[a + b] = r.comp
         /\ H!Overflows(r.lfh) => x[a + b + c] = r.lfh
<1> DEFINE a == Count(r.size)
           b == Count(r.comp)
           c == Count(r.lfh)
           p == Held(r.size)
           q == Held(r.comp)
           s == Held(r.lfh)
<1>1. ASSUME NEW n PROVE /\ IsSeq(Held(n)) /\ Len(Held(n)) = Count(n) /\ Count(n) \in {0, 1}
                         /\ H!Overflows(n) => Count(n) = 1 /\ Held(n)[1] = n
  <2>1. CASE H!Overflows(n)
    <3>1. Held(n) = <<n>> /\ Count(n) = 1
      BY <2>1 DEF Held, Count
    <3>2. <<n>> \in Seq({n}) /\ Len(<<n>>) = 1 /\ <<n>>[1] = n
      OBVIOUS
    <3> QED
      BY <3>1, <3>2 DEF IsSeq
  <2>2. CASE ~H!Overflows(n)
    <3>1. Held(n) = <<>> /\ Count(n) = 0
      BY <2>2 DEF Held, Count
    <3> QED
      BY <2>2, <3>1, EmptySeq DEF IsSeq
  <2> QED
    BY <2>1, <2>2
<1>2. /\ IsSeq(p) /\ Len(p) = a /\ a \in {0, 1} /\ (H!Overflows(r.size) => a = 1 /\ p[1] = r.size)
      /\ IsSeq(q) /\ Len(q) = b /\ b \in {0, 1} /\ (H!Overflows(r.comp) => b = 1 /\ q[1] = r.comp)
      /\ IsSeq(s) /\ Len(s) = c /\ c \in {0, 1} /\ (H!Overflows(r.lfh) => c = 1 /\ s[1] = r.lfh)
  BY <1>1
<1>3. Extra(r) = (p \o q) \o s
  BY DEF Extra
<1> HIDE DEF a, b, c, p, q, s
<1> DEFINE t == p \o q
           x == t \o s
<1>4. /\ IsSeq(t) /\ Len(t) = Len(p) + Len(q)
      /\ \A i \in 1..Len(p) : t[i] = p[i]
      /\ \A i \in 1..Len(q) : t[Len(p) + i] = q[i]
  BY <1>2, Joined
<1> HIDE DEF t
<1>5. /\ IsSeq(x) /\ Len(x) = Len(t) + Len(s)
      /\ \A i \in 1..Len(t) : x[i] = t[i]
      /\ \A i \in 1..Len(s) : x[Len(t) + i] = s[i]
  BY <1>2, <1>4, Joined
<1> HIDE DEF x
<1>6. Len(t) = a + b /\ Len(x) = a + b + c
  BY <1>2, <1>4, <1>5
<1>7. DOMAIN x = 1..(a + b + c)
  BY <1>5, <1>6 DEF IsSeq
<1>8. ASSUME H!Overflows(r.size) PROVE x[a] = r.size
  <2>1. a = 1 /\ p[1] = r.size /\ 1 \in 1..Len(p) /\ 1 \in 1..Len(t)
    BY <1>2, <1>6, <1>8
  <2> QED
    BY <1>4, <1>5, <2>1
<1>9. ASSUME H!Overflows(r.comp) PROVE x[a + b] = r.comp
  <2>1. b = 1 /\ q[1] = r.comp /\ 1 \in 1..Len(q) /\ Len(p) + 1 = a + b /\ a + b \in 1..Len(t)
    BY <1>2, <1>6, <1>9
  <2> QED
    BY <1>4, <1>5, <2>1
<1>10. ASSUME H!Overflows(r.lfh) PROVE x[a + b + c] = r.lfh
  <2>1. c = 1 /\ s[1] = r.lfh /\ 1 \in 1..Len(s) /\ Len(t) + 1 = a + b + c
    BY <1>2, <1>6, <1>10
  <2> QED
    BY <1>5, <2>1
<1>11. x = Extra(r)
  BY <1>3 DEF x, t
<1> QED
  BY <1>7, <1>8, <1>9, <1>10, <1>11 DEF a, b, c

\* The values of a header, in the order its extra field has them.
LEMMA EscalatedIs ==
  ASSUME NEW h
  PROVE  LET a == IF h.size = Max32 THEN 1 ELSE 0
             b == IF h.comp = Max32 THEN 1 ELSE 0
             c == IF h.lfh = Max32 THEN 1 ELSE 0
             x == h.extra IN
         /\ L!Escalated(h, "size") = IF h.size = Max32 /\ a \in DOMAIN x THEN x[a] ELSE h.size
         /\ L!Escalated(h, "comp") = IF h.comp = Max32 /\ a + b \in DOMAIN x THEN x[a + b] ELSE h.comp
         /\ L!Escalated(h, "lfh")
              = IF h.lfh = Max32 /\ a + b + c \in DOMAIN x THEN x[a + b + c] ELSE h.lfh
BY DEF L!Escalated

\* The sizes and the place of a record return, unless it is ambiguous.
LEMMA ValuesReturn ==
  ASSUME NEW r, r.size \in Nat, r.comp \in Nat, r.lfh \in Nat, ~Ambiguous(r),
         NEW h, h.size = Slot(r.size), h.comp = Slot(r.comp), h.lfh = Slot(r.lfh),
         h.extra = Extra(r)
  PROVE  /\ L!Escalated(h, "size") = r.size /\ L!Escalated(h, "comp") = r.comp
         /\ L!Escalated(h, "lfh") = r.lfh
<1> DEFINE a == IF h.size = Max32 THEN 1 ELSE 0
           b == IF h.comp = Max32 THEN 1 ELSE 0
           c == IF h.lfh = Max32 THEN 1 ELSE 0
           x == h.extra
<1>0. /\ L!Escalated(h, "size") = IF h.size = Max32 /\ a \in DOMAIN x THEN x[a] ELSE h.size
      /\ L!Escalated(h, "comp") = IF h.comp = Max32 /\ a + b \in DOMAIN x THEN x[a + b] ELSE h.comp
      /\ L!Escalated(h, "lfh")
           = IF h.lfh = Max32 /\ a + b + c \in DOMAIN x THEN x[a + b + c] ELSE h.lfh
  BY EscalatedIs
<1>1. /\ DOMAIN x = 1..(Count(r.size) + Count(r.comp) + Count(r.lfh))
      /\ H!Overflows(r.size) => x[Count(r.size)] = r.size
      /\ H!Overflows(r.comp) => x[Count(r.size) + Count(r.comp)] = r.comp
      /\ H!Overflows(r.lfh) => x[Count(r.size) + Count(r.comp) + Count(r.lfh)] = r.lfh
  BY ExtraHolds
<1> HIDE DEF x
<1>2. CASE \A n \in {r.size, r.comp, r.lfh} : ~H!Overflows(n)
  <2>1. Count(r.size) = 0 /\ Count(r.comp) = 0 /\ Count(r.lfh) = 0
    BY <1>2 DEF Count
  <2>2. DOMAIN x = {}
    BY <1>1, <2>1
  <2>3. h.size = r.size /\ h.comp = r.comp /\ h.lfh = r.lfh
    BY <1>2 DEF Slot
  <2> QED
    BY <1>0, <2>2, <2>3
<1>3. CASE Max32 \notin {r.size, r.comp, r.lfh}
  <2>1. /\ h.size = Max32 <=> H!Overflows(r.size)
        /\ h.comp = Max32 <=> H!Overflows(r.comp)
        /\ h.lfh = Max32 <=> H!Overflows(r.lfh)
    BY <1>3 DEF Slot
  <2>2. a = Count(r.size) /\ b = Count(r.comp) /\ c = Count(r.lfh)
    BY <2>1 DEF Count
  <2>3. /\ Count(r.size) \in {0, 1} /\ Count(r.comp) \in {0, 1} /\ Count(r.lfh) \in {0, 1}
        /\ H!Overflows(r.size) => Count(r.size) = 1
        /\ H!Overflows(r.comp) => Count(r.comp) = 1
        /\ H!Overflows(r.lfh) => Count(r.lfh) = 1
    BY DEF Count
  <2> HIDE DEF a, b, c
  <2>4. L!Escalated(h, "size") = r.size
    <3>1. CASE H!Overflows(r.size)
      <4>1. a \in DOMAIN x
        BY <1>1, <2>2, <2>3, <3>1
      <4> QED
        BY <1>0, <1>1, <2>1, <2>2, <3>1, <4>1
    <3>2. CASE ~H!Overflows(r.size)
      BY <1>0, <2>1, <3>2 DEF Slot
    <3> QED
      BY <3>1, <3>2
  <2>5. L!Escalated(h, "comp") = r.comp
    <3>1. CASE H!Overflows(r.comp)
      <4>1. a + b \in DOMAIN x
        BY <1>1, <2>2, <2>3, <3>1
      <4> QED
        BY <1>0, <1>1, <2>1, <2>2, <3>1, <4>1
    <3>2. CASE ~H!Overflows(r.comp)
      BY <1>0, <2>1, <3>2 DEF Slot
    <3> QED
      BY <3>1, <3>2
  <2>6. L!Escalated(h, "lfh") = r.lfh
    <3>1. CASE H!Overflows(r.lfh)
      <4>1. a + b + c \in DOMAIN x
        BY <1>1, <2>2, <2>3, <3>1
      <4> QED
        BY <1>0, <1>1, <2>1, <2>2, <3>1, <4>1
    <3>2. CASE ~H!Overflows(r.lfh)
      BY <1>0, <2>1, <3>2 DEF Slot
    <3> QED
      BY <3>1, <3>2
  <2> QED
    BY <2>4, <2>5, <2>6
<1> QED
  BY <1>2, <1>3 DEF Ambiguous

-----------------------------------------------------------------------------
(* Extracting an entry.                                                    *)

\* What is made of a header that is like a record's.
Says(p, r, h, size) ==
  /\ p.name = r.name /\ p.method = r.method /\ p.encrypted = FALSE
  /\ p.modified = [day |-> L!DosToDays(r.date), sec |-> L!DosToSeconds(r.time)]
  /\ h.lfh = Slot(r.lfh) /\ r.lfh < size /\ ~Ambiguous(r) =>
       p.size = r.size /\ p.comp = r.comp /\ p.lfh = r.lfh
  /\ h.lfh = size /\ size < Max32 => p.lfh = L!Unreadable

\* What a header says comes back.
LEMMA ParseIs ==
  ASSUME NEW r, r.size \in Nat, r.comp \in Nat, r.lfh \in Nat,
         NEW h, Like(h, RecordCell(r)), NEW size \in Nat, NEW p, p = L!ParseCdfh(h, size)
  PROVE  Says(p, r, h, size)
<1>1. /\ h.name = r.name /\ h.method = r.method /\ h.encrypted = FALSE
      /\ h.date = r.date /\ h.time = r.time
      /\ h.size = Slot(r.size) /\ h.comp = Slot(r.comp) /\ h.extra = Extra(r)
  BY DEF Like, RecordCell
<1>2. p = [name |-> h.name, size |-> L!Escalated(h, "size"), comp |-> L!Escalated(h, "comp"),
           lfh |-> IF L!Escalated(h, "lfh") >= size THEN L!Unreadable ELSE L!Escalated(h, "lfh"),
           method |-> h.method, encrypted |-> h.encrypted, crc |-> h.crc,
           modified |-> [day |-> L!DosToDays(h.date), sec |-> L!DosToSeconds(h.time)]]
  BY DEF L!ParseCdfh
<1>3. /\ p.name = r.name /\ p.method = r.method /\ p.encrypted = FALSE
      /\ p.modified = [day |-> L!DosToDays(r.date), sec |-> L!DosToSeconds(r.time)]
  BY <1>1, <1>2
<1>4. ASSUME h.lfh = Slot(r.lfh), r.lfh < size, ~Ambiguous(r)
      PROVE  p.size = r.size /\ p.comp = r.comp /\ p.lfh = r.lfh
  <2>1. /\ L!Escalated(h, "size") = r.size /\ L!Escalated(h, "comp") = r.comp
        /\ L!Escalated(h, "lfh") = r.lfh
    BY <1>1, <1>4, ValuesReturn
  <2>2. ~(r.lfh >= size)
    BY <1>4
  <2> QED
    BY <1>2, <2>1, <2>2
<1>5. ASSUME h.lfh = size, size < Max32 PROVE p.lfh = L!Unreadable
  <2>1. h.lfh # Max32
    BY <1>5, LimitsAssumption
  <2>2. L!Escalated(h, "lfh") = size
    BY <1>5, <2>1, EscalatedIs
  <2>3. size >= size
    OBVIOUS
  <2> QED
    BY <1>2, <2>2, <2>3
<1> QED
  BY <1>3, <1>4, <1>5 DEF Says

\* A deflated stream is inflated to what it decodes to.
LEMMA Inflates ==
  ASSUME NEW s, NEW data, Decodes(s, data)
  PROVE  L!Inflate(s) = data /\ \E k \in DOMAIN s : s[k].last
<1>1. /\ s \in Seq(Cells) /\ Bytes(s) = data /\ s # <<>>
      /\ \A k \in 1..Len(s) : s[k].last = (TRUE /\ k = Len(s))
  BY DEF Decodes, Ends
<1>2. PICK n \in Nat : n = Len(s) /\ n # 0 /\ DOMAIN s = 1..n
  BY <1>1, EmptySeq
<1> DEFINE finals == {k \in DOMAIN s : s[k].last}
<1>3. finals = {n}
  <2>1. \A k \in 1..n : s[k].last = (k = n)
    BY <1>1, <1>2, Zenon
  <2>2. n \in 1..n
    BY <1>2
  <2> QED
    BY <1>2, <2>1, <2>2, Zenon
<1>4. L!FirstOf({n}) = n
  <2>1. {n} \subseteq Int /\ n \in {n} /\ \A y \in {n} : n <= y
    OBVIOUS
  <2> HIDE DEF finals
  <2> QED
    BY <2>1, EndsAre
<1>5. L!Inflate(s) = L!FlattenSeq([k \in 1..(IF finals = {} THEN Len(s) ELSE L!FirstOf(finals)) |-> s[k].bytes])
  BY DEF L!Inflate
<1>6. (IF finals = {} THEN Len(s) ELSE L!FirstOf(finals)) = Len(s)
  BY <1>2, <1>3, <1>4
<1>7. L!Inflate(s) = L!FlattenSeq(BytesEach(s))
  <2> HIDE DEF finals
  <2> QED
    BY <1>5, <1>6 DEF BytesEach
<1>8. L!FlattenSeq(BytesEach(s)) = data
  <2>1. L!FlattenSeq(BytesEach(s)) = FlattenSeq(BytesEach(s))
    BY SameFlatten, Zenon
  <2> QED
    BY <1>1, <2>1 DEF Bytes
<1>9. n \in DOMAIN s /\ s[n].last
  <2>1. n \in finals
    BY <1>3
  <2> QED
    BY <2>1, Zenon
<1> QED
  BY <1>7, <1>8, <1>9

Payload(f, a, n) == SubSeq(f, a + 1, L!Least(a + n, Len(f)))

\* The cells of a payload where they lie.
LEMMA PayloadRead ==
  ASSUME NEW f, IsSeq(f), NEW at, NEW size, NEW zip64 \in BOOLEAN, NEW cells, IsSeq(cells),
         LiesAt(f, at, size, cells, zip64), NEW a, a = at + 1 + Lead(zip64)
  PROVE  /\ a \in Nat /\ a <= Len(f)
         /\ L!Signed(f, at, "lfh") /\ f[at + 1].tail = Lead(zip64)
         /\ Payload(f, a, Len(cells)) = cells
<1>1. PICK b \in {1, 3} : b = Lead(zip64)
  BY DEF Lead
<1>2. PICK n \in Nat : n = Len(cells)
  BY DEF IsSeq
<1>3. PICK m \in Nat : m = Len(f)
  BY DEF IsSeq
<1>4. PICK c \in Nat : c = at /\ c + 1 + b + n <= m
  BY <1>1, <1>2, <1>3 DEF LiesAt
<1>5. f[c + 1].t = "lfh" /\ f[c + 1].tail = b
  BY <1>1, <1>4 DEF LiesAt
<1>6. \A i \in 1..n : f[c + 1 + b + i] = cells[i]
  BY <1>1, <1>2, <1>4 DEF LiesAt
<1>7. L!Signed(f, c, "lfh")
  BY <1>3, <1>4, <1>5 DEF L!Signed
<1>8. a = c + 1 + b /\ a \in Nat /\ a + n <= m /\ a <= m
  BY <1>1, <1>4
<1>9. L!Least(a + n, m) = a + n
  BY <1>8 DEF L!Least
<1> DEFINE s == Part(f, a, n)
<1>10. s = cells
  <2>1. a + n <= Len(f) /\ Len(f) \in Nat
    BY <1>3, <1>8
  <2>2. IsSeq(s) /\ Len(s) = n /\ \A i \in 1..n : s[i] = f[a + i]
    BY <1>8, <2>1, StretchIs
  <2> HIDE DEF s
  <2>3. \A i \in 1..Len(s) : s[i] = cells[i]
    BY <1>6, <1>8, <2>2
  <2> QED
    BY <1>2, <2>2, <2>3, SameSeq
<1>11. SubSeq(f, a + 1, a + n) = cells
  BY <1>10 DEF Part
<1> QED
  BY <1>1, <1>2, <1>3, <1>4, <1>5, <1>7, <1>8, <1>9, <1>11 DEF Payload

Agrees(p, r) ==
  p.lfh = r.lfh /\ p.comp = r.comp /\ p.method = r.method /\ p.encrypted = FALSE
Returns(got, data) == got.error = "none" /\ got.data = data

\* An entry that is where its record says is extracted as its file was.
LEMMA Extracts ==
  ASSUME NEW e \in Files, Len(e.data) <= HardCap, NEW f, IsSeq(f), NEW r, HasEntry(f, r, e),
         NEW p, Agrees(p, r)
  PROVE  Returns(L!ExtractEntry(f, p), e.data)
<1>a. PICK pl \in Payloads(e) : /\ r.method = pl.method /\ r.comp = Len(pl.cells)
                               /\ LiesAt(f, r.lfh, r.size, pl.cells, r.zip64)
  BY DEF HasEntry
<1>b. PICK zip64 \in BOOLEAN : zip64 = r.zip64
  BY DEF HasEntry
<1>c. /\ LiesAt(f, p.lfh, r.size, pl.cells, zip64)
      /\ p.comp = Len(pl.cells) /\ p.method = pl.method /\ p.encrypted = FALSE
  BY <1>a, <1>b DEF Agrees
<1> DEFINE a == p.lfh + 1 + Lead(zip64)
           cells == pl.cells
<1>1. IsSeq(cells)
  BY PayloadIs
<1>2. /\ a \in Nat /\ a <= Len(f)
      /\ L!Signed(f, p.lfh, "lfh") /\ f[p.lfh + 1].tail = Lead(zip64)
      /\ Payload(f, a, Len(cells)) = cells
  <2>1. a = p.lfh + 1 + Lead(zip64)
    OBVIOUS
  <2> HIDE DEF a
  <2>2. a \in Nat /\ a <= Len(f)
    BY <1>1, <1>c, <2>1, PayloadRead
  <2>3. L!Signed(f, p.lfh, "lfh") /\ f[p.lfh + 1].tail = Lead(zip64)
    BY <1>1, <1>c, <2>1, PayloadRead
  <2>4. Payload(f, a, Len(cells)) = cells
    BY <1>1, <1>c, <2>1, PayloadRead
  <2> QED
    BY <2>2, <2>3, <2>4
<1>3. p.lfh \in Nat /\ p.lfh # L!Unreadable
  BY <1>c DEF LiesAt, L!Unreadable
<1>4. L!LocatePayload(f, p) = [error |-> "none", at |-> a]
  <2>1. Len(f) \in Nat
    BY DEF IsSeq
  <2>2. ~(a > Len(f))
    BY <1>2, <2>1
  <2> QED
    BY <1>2, <2>2 DEF L!LocatePayload
<1> HIDE DEF a
<1>5. L!ExtractEntry(f, p) = L!Decompress(p, cells)
  <2>1. L!ExtractEntry(f, p) = L!Decompress(p, Payload(f, a, p.comp))
    BY <1>3, <1>4, <1>c DEF L!ExtractEntry, Payload
  <2> QED
    BY <1>2, <1>c, <2>1
<1>6. e.data \in Seq(DataCells) /\ e.rate \in Nat \ {0} /\ Block \in Nat \ {0}
  BY FilesAssumption, LimitsAssumption
<1>7. \/ pl.method = "store" /\ cells = e.data
      \/ pl.method = "deflate" /\ Decodes(cells, e.data)
  <2>1. \/ pl = [method |-> "store", cells |-> e.data]
        \/ pl = [method |-> "deflate", cells |-> H!Deflate(e)]
        \/ e.data # <<>> /\ pl = [method |-> "deflate", cells |-> H!Pigz(e)]
    BY DEF Payloads
  <2>2. Decodes(H!Deflate(e), e.data)
    BY <1>6, DeflateDecodes
  <2>3. e.data # <<>> => Decodes(H!Pigz(e), e.data)
    BY <1>6, PigzDecodes
  <2> QED
    BY <2>1, <2>2, <2>3
<1>8. CASE pl.method = "store" /\ cells = e.data
  BY <1>5, <1>8, <1>c DEF L!Decompress, Returns
<1>9. CASE pl.method = "deflate" /\ Decodes(cells, e.data)
  <2>1. L!Inflate(cells) = e.data
    BY <1>9, Inflates
  <2>2. SubSeq(e.data, 1, L!Least(Len(e.data), HardCap)) = e.data
    <3>1. Len(e.data) \in Nat /\ HardCap \in Nat
      BY <1>6, LimitsAssumption
    <3>2. L!Least(Len(e.data), HardCap) = Len(e.data)
      BY <3>1 DEF L!Least
    <3>3. SubSeq(e.data, 1, Len(e.data)) = e.data
      BY <1>6
    <3> QED
      BY <3>2, <3>3
  <2>3. L!Decompress(p, cells).error = "none" /\ L!Decompress(p, cells).data = e.data
    BY <1>9, <1>c, <2>1, <2>2 DEF L!Decompress
  <2> QED
    BY <1>5, <2>3 DEF Returns
<1> QED
  BY <1>7, <1>8, <1>9

-----------------------------------------------------------------------------
(* What is recovered of an archive that is damaged.                        *)

\* What EveryEntryRecovered says once the archive is read.
EntryRecovered(k) ==
  LET got == L!ExtractEntry(file, read.records[k])
      e == written[Kept[k]] IN
  /\ e.day \in DosDays =>
       read.records[k].modified = [day |-> e.day, sec |-> (e.sec \div 2) * 2]
  /\ ~Ambiguous(w.cd[Kept[k]]) =>
       IF damage.kind = "unreadable" /\ damage.entry = Kept[k] THEN got.error = "corrupted"
       ELSE got.error = "none" /\ got.data = e.data
AllRecovered ==
  /\ read.error = "none"
  /\ [k \in DOMAIN read.records |-> read.records[k].name]
       = [k \in DOMAIN Kept |-> written[Kept[k]].name]
  /\ \A k \in DOMAIN Kept : EntryRecovered(k)

\* A record leads to its entry, unless that is the one that was hit.
Found(g, k) ==
  LET r == w.cd[k]
      h == Header(g, w, k) IN
  IF damage.kind = "unreadable" /\ damage.entry = k
  THEN \/ h.lfh = Len(g) /\ Len(g) < Max32
       \/ h.lfh = Slot(r.lfh) /\ file[r.lfh + 1].t # "lfh"
  ELSE h.lfh = Slot(r.lfh) /\ HasEntry(file, r, written[k])

\* An entry whose header is hit, or not there, is reported.
LEMMA ReportsCorrupted ==
  ASSUME NEW f, NEW p, p.encrypted = FALSE,
         p.lfh = L!Unreadable \/ f[p.lfh + 1].t # "lfh"
  PROVE  L!ExtractEntry(f, p).error = "corrupted"
<1>1. CASE p.lfh = L!Unreadable
  BY <1>1 DEF L!ExtractEntry, L!Corrupted
<1>2. CASE p.lfh # L!Unreadable
  <2>1. ~L!Signed(f, p.lfh, "lfh")
    BY <1>2 DEF L!Signed
  <2>2. L!LocatePayload(f, p) = [error |-> "corrupted"]
    BY <2>1 DEF L!LocatePayload, L!Corrupted
  <2> QED
    BY <1>2, <2>2 DEF L!ExtractEntry
<1> QED
  BY <1>1, <1>2

\* The record of an entry, as the parser makes it, recovers the entry.
LEMMA RecordRecovers ==
  ASSUME HasEntries(w, written), \A e \in Files : Len(e.data) <= HardCap,
         IsSeq(file), NEW g, Laid(g, w), NEW k \in 1..Len(w.cd), Found(g, k),
         Like(Header(g, w, k), RecordCell(w.cd[k])),
         NEW p, p = L!ParseCdfh(Header(g, w, k), Len(g))
  PROVE  /\ p.name = written[k].name
         /\ written[k].day \in DosDays =>
              p.modified = [day |-> written[k].day, sec |-> (written[k].sec \div 2) * 2]
         /\ ~Ambiguous(w.cd[k]) =>
              IF damage.kind = "unreadable" /\ damage.entry = k
              THEN L!ExtractEntry(file, p).error = "corrupted"
              ELSE /\ L!ExtractEntry(file, p).error = "none"
                   /\ L!ExtractEntry(file, p).data = written[k].data
<1> DEFINE r == w.cd[k]
           h == Header(g, w, k)
           e == written[k]
<1>1. HasEntry(w.inner, r, e) /\ e \in Files /\ r.lfh \in Nat /\ r.lfh < w.cursor
  BY DEF HasEntries, WriterOK, Rising
<1>2. /\ r.name = e.name /\ r.date = H!DosDate(e.day) /\ r.time = H!DosTime(e.sec)
      /\ r.size \in Nat /\ r.comp \in Nat /\ r.lfh \in Nat /\ r.zip64 \in BOOLEAN
  BY <1>1 DEF HasEntry
<1>3. Len(g) \in Nat /\ r.lfh < Len(g)
  <2>1. w.cursor \in Nat /\ Place(w, Len(w.cd)) \in Nat /\ w.cursor + Place(w, Len(w.cd)) < Len(g)
    <3>1. Len(w.cd) \in Nat /\ Len(w.cd) \in 0..Len(w.cd)
      BY DEF HasEntries
    <3>2. Place(w, Len(w.cd)) \in Nat
      BY <3>1, PlacesAre
    <3> QED
      BY <3>2 DEF Laid
  <2>2. Len(g) \in Nat
    BY DEF Laid
  <2> QED
    BY <1>1, <2>1, <2>2
<1>4. Like(h, RecordCell(r)) /\ p = L!ParseCdfh(h, Len(g)) /\ Found(g, k)
  OBVIOUS
<1>5. /\ p.name = r.name /\ p.method = r.method /\ p.encrypted = FALSE
      /\ p.modified = [day |-> L!DosToDays(r.date), sec |-> L!DosToSeconds(r.time)]
      /\ h.lfh = Slot(r.lfh) /\ r.lfh < Len(g) /\ ~Ambiguous(r) =>
           p.size = r.size /\ p.comp = r.comp /\ p.lfh = r.lfh
      /\ h.lfh = Len(g) /\ Len(g) < Max32 => p.lfh = L!Unreadable
  <2> HIDE DEF r, h
  <2>1. Says(p, r, h, Len(g))
    BY <1>2, <1>3, <1>4, ParseIs
  <2> QED
    BY <2>1 DEF Says
<1>6. IF damage.kind = "unreadable" /\ damage.entry = k
      THEN \/ h.lfh = Len(g) /\ Len(g) < Max32
           \/ h.lfh = Slot(r.lfh) /\ file[r.lfh + 1].t # "lfh"
      ELSE h.lfh = Slot(r.lfh) /\ HasEntry(file, r, e)
  BY <1>4 DEF Found
<1> HIDE DEF r, h, e
<1>7. e.day \in DosDays => p.modified = [day |-> e.day, sec |-> (e.sec \div 2) * 2]
  <2>1. e.sec \in Nat /\ e.sec < 86400
    BY <1>1, FilesAssumption
  <2>2. L!DosToSeconds(r.time) = (e.sec \div 2) * 2
    BY <1>2, <2>1, TimeReturns
  <2>3. e.day \in DosDays => L!DosToDays(r.date) = e.day
    BY <1>2, DayReturns
  <2> QED
    BY <1>5, <2>2, <2>3
<1>8. ASSUME ~Ambiguous(r), damage.kind = "unreadable" /\ damage.entry = k
      PROVE  L!ExtractEntry(file, p).error = "corrupted"
  <2>1. p.lfh = L!Unreadable \/ file[p.lfh + 1].t # "lfh"
    BY <1>3, <1>5, <1>6, <1>8
  <2> QED
    BY <1>5, <2>1, ReportsCorrupted
<1>9. ASSUME ~Ambiguous(r), ~(damage.kind = "unreadable" /\ damage.entry = k)
      PROVE  L!ExtractEntry(file, p).error = "none" /\ L!ExtractEntry(file, p).data = e.data
  <2>1. h.lfh = Slot(r.lfh) /\ HasEntry(file, r, e)
    BY <1>6, <1>9
  <2>2. p.comp = r.comp /\ p.lfh = r.lfh
    BY <1>3, <1>5, <1>9, <2>1
  <2>3. Agrees(p, r)
    BY <1>5, <2>2 DEF Agrees
  <2>4. Len(e.data) <= HardCap
    BY <1>1
  <2>5. Returns(L!ExtractEntry(file, p), e.data)
    BY <1>1, <2>1, <2>3, <2>4, Extracts
  <2> QED
    BY <2>5 DEF Returns
<1> QED
  BY <1>2, <1>5, <1>7, <1>8, <1>9 DEF r, e

\* The entry that is lost, or none.
Lost == IF damage.kind = "lost" THEN damage.entry ELSE 0

\* So all entries that are not lost are.
LEMMA Recovers ==
  ASSUME HasEntries(w, written), written # <<>>, \A e \in Files : Len(e.data) <= HardCap,
         6 * Len(w.cd) <= ScanCells, IsSeq(file),
         NEW g, NEW eocd, Laid(g, w), EndAt(g, w, eocd), Listed(g, w, Lost),
         damage.kind = "lost" => damage.entry # 0,
         \A k \in 1..Len(w.cd) : Found(g, k), read = L!Open(g)
  PROVE  AllRecovered
<1> DEFINE n == Len(w.cd)
           rec == Parsed(g, w)
<1>1. n \in Nat \ {0} /\ n = Len(written) /\ Lost \in 0..n
  <2>1. written \in Seq(Files) /\ n = Len(written)
    BY DEF HasEntries
  <2>2. Lost \in 0..n
    BY DEF Listed
  <2> QED
    BY <2>1, <2>2, EmptySeq
<1>2. read = [error |-> "none", records |-> Behind(rec, n, Lost, 0)]
  <2>1. n \in Nat \ {0} /\ 6 * n <= ScanCells
    BY <1>1
  <2>2. L!Open(g) = [error |-> "none", records |-> Behind(rec, n, Lost, 0)]
    BY <2>1, OpensAs
  <2> QED
    BY <2>2
<1>3. \A j \in 1..n : rec[j] = L!ParseCdfh(Header(g, w, j), Len(g))
  BY DEF Parsed
<1> HIDE DEF n, rec
<1>4. Behind(rec, n, Lost, 0)
        = [i \in 1..(IF 0 >= Lost THEN n - 0 ELSE n - 0 - 1) |->
            rec[IF 0 >= Lost \/ 0 + i < Lost THEN 0 + i ELSE 0 + i + 1]]
  BY DEF Behind
<1>5. /\ DOMAIN read.records = DOMAIN Kept
      /\ \A k \in DOMAIN Kept : Kept[k] \in 1..n /\ Kept[k] # Lost /\ read.records[k] = rec[Kept[k]]
  <2>1. read.records = Behind(rec, n, Lost, 0)
    BY <1>2
  <2>2. CASE damage.kind = "lost"
    <3>1. Lost \in 1..n /\ Lost = damage.entry
      BY <1>1, <2>2 DEF Lost
    <3>2. ~(0 >= Lost) /\ n - 0 - 1 = n - 1
      BY <1>1, <3>1
    <3>3. Kept = [k \in 1..(n - 1) |-> IF k < Lost THEN k ELSE k + 1]
      BY <1>1, <2>2, <3>1 DEF Kept
    <3>4. read.records = [i \in 1..(n - 1) |-> rec[IF 0 + i < Lost THEN 0 + i ELSE 0 + i + 1]]
      BY <1>4, <2>1, <3>2
    <3>5. ASSUME NEW k \in 1..(n - 1)
          PROVE  Kept[k] \in 1..n /\ Kept[k] # Lost /\ read.records[k] = rec[Kept[k]]
      <4>1. (IF 0 + k < Lost THEN 0 + k ELSE 0 + k + 1) = IF k < Lost THEN k ELSE k + 1
        OBVIOUS
      <4>2. Kept[k] = IF k < Lost THEN k ELSE k + 1
        BY <3>3
      <4>3. read.records[k] = rec[Kept[k]]
        BY <3>4, <4>1, <4>2
      <4>4. Kept[k] \in 1..n /\ Kept[k] # Lost
        BY <1>1, <3>1, <4>2
      <4> QED
        BY <4>3, <4>4
    <3>6. DOMAIN Kept = 1..(n - 1) /\ DOMAIN read.records = 1..(n - 1)
      BY <3>3, <3>4
    <3> QED
      BY <3>5, <3>6
  <2>3. CASE damage.kind # "lost"
    <3>1. Lost = 0 /\ 0 >= Lost /\ n - 0 = n
      BY <1>1, <2>3 DEF Lost
    <3>3. Kept = [k \in 1..n |-> k]
      BY <1>1, <2>3 DEF Kept
    <3>4. read.records = [i \in 1..n |-> rec[0 + i]]
      BY <1>4, <2>1, <3>1
    <3>5. ASSUME NEW k \in 1..n
          PROVE  Kept[k] \in 1..n /\ Kept[k] # Lost /\ read.records[k] = rec[Kept[k]]
      <4>1. 0 + k = k /\ k # 0
        OBVIOUS
      <4>2. Kept[k] = k
        BY <3>3
      <4>3. read.records[k] = rec[Kept[k]]
        BY <3>4, <4>1, <4>2
      <4> QED
        BY <3>1, <4>1, <4>2, <4>3
    <3>6. DOMAIN Kept = 1..n /\ DOMAIN read.records = 1..n
      BY <3>3, <3>4
    <3> QED
      BY <3>5, <3>6
  <2> QED
    BY <2>2, <2>3
<1>6. ASSUME NEW k \in DOMAIN Kept
      PROVE  read.records[k].name = written[Kept[k]].name /\ EntryRecovered(k)
  <2> DEFINE j == Kept[k]
             p == read.records[k]
  <2>1. j \in 1..n /\ p = L!ParseCdfh(Header(g, w, j), Len(g))
    BY <1>3, <1>5
  <2>2. Like(Header(g, w, j), RecordCell(w.cd[j])) /\ Found(g, j)
    BY <2>1 DEF Listed, n
  <2> HIDE DEF j, p
  <2>3. j \in 1..Len(w.cd)
    BY <2>1 DEF n
  <2>4. /\ p.name = written[j].name
        /\ written[j].day \in DosDays =>
             p.modified = [day |-> written[j].day, sec |-> (written[j].sec \div 2) * 2]
        /\ ~Ambiguous(w.cd[j]) =>
             IF damage.kind = "unreadable" /\ damage.entry = j
             THEN L!ExtractEntry(file, p).error = "corrupted"
             ELSE /\ L!ExtractEntry(file, p).error = "none"
                  /\ L!ExtractEntry(file, p).data = written[j].data
    BY <2>1, <2>2, <2>3, RecordRecovers
  <2> QED
    BY <2>4 DEF j, p, EntryRecovered
<1>7. [k \in DOMAIN read.records |-> read.records[k].name]
        = [k \in DOMAIN Kept |-> written[Kept[k]].name]
  BY <1>5, <1>6
<1> QED
  BY <1>2, <1>6, <1>7 DEF AllRecovered

-----------------------------------------------------------------------------
(* What damage leaves as it was.                                           *)

\* One place of a sequence is changed.
Put(f, i, x) == [f EXCEPT ![i] = x]
IsAltered(f, i, x, g) ==
  /\ IsSeq(g) /\ Len(g) = Len(f) /\ Len(f) \in Nat /\ g[i] = x
  /\ \A j \in 1..Len(f) : j # i => g[j] = f[j]

\* That place is what was put there, and the others are what they were.
LEMMA Altered ==
  ASSUME NEW f, IsSeq(f), NEW i \in 1..Len(f), NEW x
  PROVE  IsAltered(f, i, x, Put(f, i, x))
<1> DEFINE g == Put(f, i, x)
<1>0. g = [f EXCEPT ![i] = x]
  BY DEF Put
<1> HIDE DEF g
<1>1. PICK B : f \in Seq(B)
  BY DEF IsSeq
<1>2. DOMAIN f = 1..Len(f) /\ Len(f) \in Nat /\ \A j \in 1..Len(f) : f[j] \in B
  BY <1>1
<1>3. /\ g[i] = x /\ \A j \in 1..Len(f) : j # i => g[j] = f[j]
      /\ g = [j \in 1..Len(f) |-> g[j]]
  BY <1>0, <1>2
<1>4. IsSeq(g) /\ Len(g) = Len(f)
  <2> DEFINE n == Len(f)
  <2>1. n \in Nat /\ g = [j \in 1..n |-> g[j]]
    BY <1>2, <1>3
  <2> HIDE DEF n
  <2>2. IsSeq(g) /\ Len(g) = n
    BY <2>1, FunctionIs
  <2> QED
    BY <2>2 DEF n
<1> QED
  BY <1>2, <1>3, <1>4 DEF IsAltered, g

\* A file that has a file's cells, those of some places apart, and maybe more.
Over(f, g, places) ==
  /\ IsSeq(g) /\ Len(g) \in Nat /\ Len(f) \in Nat /\ Len(f) <= Len(g)
  /\ \A i \in 1..Len(f) : i \notin places => g[i] = f[i]

\* The end of the writer's file, whose end record may lie.
EndOK(e, v, n) ==
  LET d == Place(v, Len(v.cd)) IN
  /\ e.t = "eocd"
  /\ IF Escalates(v) THEN Max32 \in {e.offset, e.size} \/ e.count = Max16
     ELSE /\ e.offset \in Nat /\ e.size \in Nat
          /\ e.offset \in {0, v.cursor} \/ e.offset >= n - 1
          /\ e.size = 0 \/ e.size >= d

\* The cells of an archive that is finished.
Intact(f, v) ==
  LET c == v.cursor
      d == Place(v, Len(v.cd))
      n == Len(f) IN
  /\ IsSeq(f) /\ n \in Nat /\ c \in Nat \ {0} /\ d \in Nat \ {0} /\ Len(v.cd) \in Nat \ {0}
  /\ n = c + d + (IF Escalates(v) THEN 3 ELSE 1)
  /\ \A i \in 1..c : f[i] = v.inner[i] /\ f[i].t \in {"lfh", "byte", "other"}
  /\ \A i \in 1..d : f[c + i] = H!Directory(v, Len(v.cd))[i]
  /\ \A k \in 1..Len(v.cd) : Header(f, v, k) = RecordCell(v.cd[k])
  /\ f[n] = EndCell(Len(v.cd), d, c, Escalates(v))
  /\ IF Escalates(v)
     THEN /\ f[n - 1] = [t |-> "locator", target |-> c + d]
          /\ f[n - 2] = [t |-> "zip64", count |-> Len(v.cd), size |-> d, offset |-> c]
     ELSE f[n - 1].t # "locator"

\* The places of the headers, all different.
LEMMA HeaderPlaces ==
  ASSUME NEW v, Len(v.cd) \in Nat, NEW k \in 1..Len(v.cd), NEW j \in 1..Len(v.cd)
  PROVE  /\ Place(v, k - 1) + 1 \in 1..Place(v, Len(v.cd))
         /\ Place(v, k - 1) \in Nat /\ Place(v, Len(v.cd)) \in Nat
         /\ j # k => Place(v, j - 1) # Place(v, k - 1)
<1> DEFINE n == Len(v.cd)
<1>1. ASSUME NEW m \in 1..n
      PROVE  /\ Place(v, m - 1) \in Nat /\ Place(v, m) \in Nat
             /\ Place(v, m - 1) < Place(v, m) /\ Place(v, m) <= Place(v, n)
  <2>1. m - 1 \in 0..n /\ m \in 0..n /\ n \in 0..n
    OBVIOUS
  <2>2. Place(v, m - 1) \in Nat /\ Place(v, m) \in Nat
    BY <2>1, PlacesAre
  <2>3. PICK t \in 1..5 : Place(v, m) = Place(v, m - 1) + 1 + t
    BY PlacesAre
  <2>4. Place(v, m) <= Place(v, n)
    BY <2>1, PlacesRise
  <2> QED
    BY <2>2, <2>3, <2>4
<1>2. Place(v, n) \in Nat
  <2>1. n \in 0..n
    OBVIOUS
  <2> QED
    BY <2>1, PlacesAre
<1>3. ASSUME NEW a \in 1..n, NEW b \in 1..n, a < b
      PROVE  Place(v, a - 1) < Place(v, b - 1)
  <2>1. b - 1 \in 0..n /\ a \in 0..(b - 1)
    BY <1>3
  <2>2. Place(v, a) <= Place(v, b - 1)
    BY <2>1, PlacesRise
  <2> QED
    BY <1>1, <2>2
<1>4. j # k => Place(v, j - 1) # Place(v, k - 1)
  <2>1. CASE j < k
    BY <1>1, <1>3, <2>1
  <2>2. CASE k < j
    BY <1>1, <1>3, <2>2
  <2> QED
    BY <2>1, <2>2
<1> QED
  BY <1>1, <1>2, <1>4

\* The writer's archive is intact.
LEMMA FinishIntact ==
  ASSUME HasEntries(w, written), written # <<>>, NEW f, f = H!Finish(w)
  PROVE  Intact(f, w)
<1> DEFINE c == w.cursor
           d == Place(w, Len(w.cd))
           m == Len(w.cd)
           n == Len(f)
           x == H!Directory(w, Len(w.cd))
<1>1. /\ WriterOK(w) /\ m \in Nat \ {0}
  <2>1. written \in Seq(Files) /\ m = Len(written)
    BY DEF HasEntries
  <2> QED
    BY <2>1, EmptySeq DEF HasEntries
<1>2. Finished(w, f)
  BY <1>1, FinishIs
<1>3. /\ IsSeq(f) /\ d \in Nat /\ c \in Nat
      /\ n = c + d + (IF Escalates(w) THEN 3 ELSE 1)
      /\ \A i \in 1..c : f[i] = w.inner[i]
      /\ \A i \in 1..d : f[c + i] = x[i]
      /\ f[n] = EndCell(m, d, c, Escalates(w))
      /\ IF Escalates(w)
         THEN /\ f[n - 1] = [t |-> "locator", target |-> c + d]
              /\ f[n - 2] = [t |-> "zip64", count |-> m, size |-> d, offset |-> c]
         ELSE n > 1 => f[n - 1].t # "locator"
  BY <1>2 DEF Finished, Place
<1>4. c # 0
  <2>1. 1 \in 1..m
    BY <1>1
  <2>2. w.cd[1].lfh \in Nat /\ w.cd[1].lfh < c
    BY <1>1, <2>1 DEF WriterOK, Rising
  <2> QED
    BY <1>3, <2>2
<1>5. m <= d /\ m \in 0..m
  <2>1. m \in 0..m
    BY <1>1
  <2> QED
    BY <1>1, <2>1, PlacesRise
<1>6. \A i \in 1..c : f[i].t \in {"lfh", "byte", "other"}
  BY <1>1, <1>3 DEF WriterOK
<1>7. ASSUME NEW k \in 1..m PROVE Header(f, w, k) = RecordCell(w.cd[k])
  <2>1. Tail64(w.cd[k]) \in 1..5 /\ H!WriteCdfh(w.cd[k])[1] = RecordCell(w.cd[k])
    BY RecordIs
  <2>2. 1 \in 1..(1 + Tail64(w.cd[k]))
    BY <2>1
  <2>3. CellsIn(w, m)
    BY <1>1, <1>5, DirectoryCells
  <2>4. Place(w, k - 1) + 1 \in 1..d /\ x[Place(w, k - 1) + 1] = RecordCell(w.cd[k])
    BY <2>1, <2>2, <2>3 DEF CellsIn
  <2>5. PICK p \in Nat : p = Place(w, k - 1)
    <3>1. k - 1 \in 0..m
      BY <1>1
    <3> QED
      BY <1>1, <3>1, PlacesAre
  <2>6. PICK o \in Nat : o = c
    BY <1>3
  <2>7. o + (p + 1) = o + p + 1 /\ p + 1 \in 1..d
    BY <2>4, <2>5
  <2>8. f[c + (p + 1)] = RecordCell(w.cd[k])
    BY <1>3, <2>4, <2>5, <2>7
  <2> QED
    BY <2>5, <2>6, <2>7, <2>8 DEF Header
<1>8. n \in Nat /\ d # 0 /\ n > 1
  BY <1>1, <1>3, <1>4, <1>5
<1> HIDE DEF c, d, m, n, x
<1> QED
  BY <1>1, <1>3, <1>4, <1>6, <1>7, <1>8 DEF Intact, c, d, m, n, x

\* What is laid out stays, and its headers are found.
LEMMA LaidStill ==
  ASSUME NEW f, NEW v, Intact(f, v), NEW g, NEW places, Over(f, g, places),
         \A i \in places : /\ i \in 1..v.cursor => g[i].t \in {"lfh", "byte", "other"}
                           /\ i \in 1..Len(f) /\ i > v.cursor => g[i].t = f[i].t
  PROVE  Laid(g, v)
<1> DEFINE c == v.cursor
           d == Place(v, Len(v.cd))
           n == Len(f)
<1>1. /\ n \in Nat /\ c \in Nat \ {0} /\ d \in Nat \ {0}
      /\ c + d < n
      /\ \A i \in 1..c : f[i].t \in {"lfh", "byte", "other"}
      /\ \A i \in 1..d : f[c + i] = H!Directory(v, Len(v.cd))[i]
  BY DEF Intact
<1>2. /\ IsSeq(g) /\ Len(g) \in Nat /\ n <= Len(g)
      /\ \A i \in 1..n : i \notin places => g[i] = f[i]
  BY DEF Over
<1>3. ASSUME NEW i \in 1..c PROVE g[i].t \in {"lfh", "byte", "other"}
  <2>1. i \in 1..n
    BY <1>1
  <2> QED
    BY <1>1, <1>2, <2>1
<1>4. ASSUME NEW i \in 1..d PROVE g[c + i].t = H!Directory(v, Len(v.cd))[i].t
  <2>1. c + i \in 1..n /\ c + i > c
    BY <1>1
  <2>2. g[c + i].t = f[c + i].t
    BY <1>2, <2>1
  <2> QED
    BY <1>1, <2>2
<1>5. c + d < Len(g)
  BY <1>1, <1>2
<1> QED
  BY <1>1, <1>2, <1>3, <1>4, <1>5 DEF Laid

\* The end stays where it was.
LEMMA EndStill ==
  ASSUME NEW f, NEW v, Intact(f, v), NEW g, NEW places, Over(f, g, places),
         \A i \in places : i = Len(f) \/ i <= v.cursor + Place(v, Len(v.cd)),
         EndOK(g[Len(f)], v, Len(f)), Len(g) - TailScan < Len(f),
         \A i \in (Len(f) + 1)..Len(g) : g[i].t # "eocd"
  PROVE  EndAt(g, v, Len(f) - 1)
<1> DEFINE c == v.cursor
           d == Place(v, Len(v.cd))
           n == Len(f)
           e == g[n]
<1>1. /\ n \in Nat /\ c \in Nat \ {0} /\ d \in Nat \ {0} /\ n > 1
      /\ n = c + d + (IF Escalates(v) THEN 3 ELSE 1)
      /\ Escalates(v) => /\ f[n - 1] = [t |-> "locator", target |-> c + d]
                         /\ f[n - 2] = [t |-> "zip64", count |-> Len(v.cd), size |-> d, offset |-> c]
  BY DEF Intact
<1>2. /\ Len(g) \in Nat /\ n <= Len(g) /\ TailScan \in Nat
      /\ \A i \in 1..n : i \notin places => g[i] = f[i]
  BY LimitsAssumption DEF Over
<1>3. n - 1 \in Nat /\ n - 1 < Len(g) /\ Len(g) - TailScan <= n - 1 /\ n - 1 + 1 = n /\ n - 1 + 2 = n + 1
  BY <1>1, <1>2
<1>4. /\ e.t = "eocd"
      /\ IF Escalates(v) THEN Max32 \in {e.offset, e.size} \/ e.count = Max16
         ELSE /\ e.offset \in Nat /\ e.size \in Nat
              /\ e.offset \in {0, c} \/ e.offset >= n - 1
              /\ e.size = 0 \/ e.size >= d
  BY DEF EndOK
<1>5. \A i \in (n + 1)..Len(g) : g[i].t # "eocd"
  OBVIOUS
<1>6. ASSUME Escalates(v)
      PROVE  /\ n - 1 = c + d + 2
             /\ g[n - 1].t = "locator" /\ g[n - 1].target = c + d
             /\ g[n - 1 - 1].t = "zip64" /\ g[n - 1 - 1].offset = c /\ g[n - 1 - 1].size = d
  <2>1. /\ n = c + d + 3 /\ n - 1 = c + d + 2 /\ n - 2 = c + d + 1 /\ n - 1 - 1 = n - 2
        /\ n - 1 \in 1..n /\ n - 2 \in 1..n
    BY <1>1, <1>6
  <2>2. n - 1 \notin places /\ n - 2 \notin places
    <3>1. \A i \in places : i = n \/ i <= c + d
      OBVIOUS
    <3> HIDE DEF c, d, n
    <3>2. ~(n - 1 <= c + d) /\ n - 1 # n /\ ~(n - 2 <= c + d) /\ n - 2 # n
      BY <1>1, <2>1
    <3> QED
      BY <3>1, <3>2
  <2>3. g[n - 1] = f[n - 1] /\ g[n - 2] = f[n - 2]
    BY <1>2, <2>1, <2>2
  <2>4. f[n - 1] = [t |-> "locator", target |-> c + d]
        /\ f[n - 2] = [t |-> "zip64", count |-> Len(v.cd), size |-> d, offset |-> c]
    BY <1>1, <1>6
  <2> HIDE DEF c, d, n
  <2>5. g[n - 1].t = "locator" /\ g[n - 1].target = c + d
    BY <2>3, <2>4
  <2>6. g[n - 2].t = "zip64" /\ g[n - 2].offset = c /\ g[n - 2].size = d
    BY <2>3, <2>4
  <2> QED
    BY <2>1, <2>5, <2>6
<1>7. ~Escalates(v) => n - 1 = c + d
  BY <1>1
<1> HIDE DEF e, c, d, n
<1>8. /\ n - 1 \in Nat /\ n - 1 < Len(g) /\ Len(g) - TailScan <= n - 1
      /\ g[n - 1 + 1] = e /\ e.t = "eocd" /\ \A i \in (n - 1 + 2)..Len(g) : g[i].t # "eocd"
  BY <1>3, <1>4, <1>5 DEF e
<1>9. \/ /\ n - 1 = c + d /\ e.offset \in Nat /\ e.size \in Nat
         /\ e.offset \in {0, c} \/ e.offset >= n - 1
         /\ e.size = 0 \/ e.size >= d
      \/ /\ n - 1 = c + d + 2
         /\ g[n - 1].t = "locator" /\ g[n - 1].target = c + d
         /\ g[n - 1 - 1].t = "zip64" /\ g[n - 1 - 1].offset = c /\ g[n - 1 - 1].size = d
         /\ Max32 \in {e.offset, e.size} \/ e.count = Max16
  BY <1>4, <1>6, <1>7
<1> QED
  BY <1>8, <1>9 DEF EndAt, c, d, n

\* The writer's own end record is one of those.
LEMMA EndCellOK ==
  ASSUME NEW f, NEW v, Intact(f, v)
  PROVE  EndOK(f[Len(f)], v, Len(f))
<1> DEFINE c == v.cursor
           d == Place(v, Len(v.cd))
<1>1. c \in Nat /\ d \in Nat /\ f[Len(f)] = EndCell(Len(v.cd), d, c, Escalates(v))
  BY DEF Intact
<1> HIDE DEF c, d
<1>2. d >= d
  BY <1>1
<1>3. CASE Escalates(v)
  <2>1. f[Len(f)].t = "eocd" /\ f[Len(f)].count = Max16
    BY <1>1, <1>3 DEF EndCell
  <2> QED
    BY <1>3, <2>1 DEF EndOK
<1>4. CASE ~Escalates(v)
  <2>1. f[Len(f)].t = "eocd" /\ f[Len(f)].offset = c /\ f[Len(f)].size = d
    BY <1>1, <1>4 DEF EndCell
  <2> QED
    BY <1>1, <1>2, <1>4, <2>1 DEF EndOK, c, d
<1> QED
  BY <1>3, <1>4

-----------------------------------------------------------------------------
(* Each kind of damage.                                                    *)

\* The archive as it was finished, with limits the files and the directory
\* keep to.
Able(f) ==
  /\ HasEntries(w, written) /\ written # <<>> /\ f = H!Finish(w)
  /\ \A e \in Files : Len(e.data) <= HardCap
  /\ 6 * Len(w.cd) <= ScanCells

\* The cell of a header.
CellOf(k) == w.cursor + Place(w, k - 1) + 1

\* A header that is not hit is the writer's.
LEMMA HeaderStill ==
  ASSUME NEW f, Intact(f, w), NEW g, NEW places, Over(f, g, places), NEW k \in 1..Len(w.cd),
         CellOf(k) \notin places
  PROVE  Header(g, w, k) = RecordCell(w.cd[k])
<1>1. /\ w.cursor \in Nat /\ Place(w, Len(w.cd)) \in Nat /\ Len(f) \in Nat /\ Len(w.cd) \in Nat
      /\ w.cursor + Place(w, Len(w.cd)) < Len(f)
      /\ Header(f, w, k) = RecordCell(w.cd[k])
  BY DEF Intact
<1>2. Place(w, k - 1) + 1 \in 1..Place(w, Len(w.cd)) /\ Place(w, k - 1) \in Nat
  BY <1>1, HeaderPlaces
<1>3. CellOf(k) \in 1..Len(f)
  BY <1>1, <1>2 DEF CellOf
<1>4. g[CellOf(k)] = f[CellOf(k)]
  BY <1>3 DEF Over
<1> QED
  BY <1>1, <1>4 DEF Header, CellOf

\* An entry whose cells are not hit lies where it was.
LEMMA EntryStill ==
  ASSUME HasEntries(w, written), NEW f, Intact(f, w), NEW g, NEW places, Over(f, g, places),
         \A i \in places : i > w.cursor, NEW k \in 1..Len(w.cd)
  PROVE  HasEntry(g, w.cd[k], written[k])
<1>1. /\ HasEntry(w.inner, w.cd[k], written[k]) /\ written[k] \in Files
      /\ Len(w.inner) = w.cursor
  BY DEF HasEntries, WriterOK
<1>2. /\ w.cursor \in Nat /\ Len(f) \in Nat /\ w.cursor <= Len(f)
      /\ \A i \in 1..w.cursor : f[i] = w.inner[i]
  BY DEF Intact
<1>3. Len(g) \in Nat /\ Len(f) <= Len(g) /\ \A i \in 1..Len(f) : i \notin places => g[i] = f[i]
  BY DEF Over
<1>4. \A i \in 1..Len(w.inner) : g[i] = w.inner[i]
  <2> SUFFICES ASSUME NEW i \in 1..Len(w.inner) PROVE g[i] = w.inner[i]
    OBVIOUS
  <2>1. i \in 1..Len(f) /\ i \in 1..w.cursor /\ ~(i > w.cursor)
    BY <1>1, <1>2
  <2> QED
    BY <1>2, <1>3, <2>1
<1>5. Len(w.inner) \in Nat /\ Len(w.inner) <= Len(g)
  BY <1>1, <1>2, <1>3
<1> QED
  BY <1>1, <1>3, <1>4, <1>5, HasEntryStill

\* An entry lies where it was if another one's local header is hit.
LEMMA EntryBut ==
  ASSUME NEW a, NEW b, NEW r, NEW e \in Files, HasEntry(a, r, e), Len(a) \in Nat, Len(b) \in Nat,
         Len(a) <= Len(b), NEW z, a[z].t = "lfh", z # r.lfh + 1,
         \A i \in 1..Len(a) : i # z => b[i] = a[i]
  PROVE  HasEntry(b, r, e)
<1>1. PICK p \in Payloads(e) :
        /\ r.method = p.method /\ r.comp = Len(p.cells)
        /\ LiesAt(a, r.lfh, r.size, p.cells, r.zip64)
  BY DEF HasEntry
<1> DEFINE cells == p.cells
<1>2. IsSeq(cells) /\ Len(cells) \in Nat /\ \A i \in 1..Len(cells) : cells[i].t = "byte"
  BY PayloadIs
<1>3. PICK n \in {1, 3} : n = Lead(r.zip64)
  BY DEF Lead
<1>4. PICK c \in Nat : c = r.lfh
  BY DEF HasEntry
<1>5. PICK m \in Nat : m = Len(cells)
  BY <1>2
<1>6. /\ c + 1 + n + m <= Len(a)
      /\ \A i \in 1..m : a[c + 1 + n + i] = cells[i]
  BY <1>1, <1>3, <1>4, <1>5 DEF LiesAt
<1>7. b[c + 1] = a[c + 1]
  <2>1. c + 1 \in 1..Len(a) /\ c + 1 # z
    BY <1>4, <1>6
  <2> QED
    BY <2>1
<1>8. \A i \in 1..m : b[c + 1 + n + i] = cells[i]
  <2> SUFFICES ASSUME NEW i \in 1..m PROVE b[c + 1 + n + i] = cells[i]
    OBVIOUS
  <2>1. c + 1 + n + i \in 1..Len(a)
    BY <1>6
  <2>2. a[c + 1 + n + i] = cells[i] /\ cells[i].t = "byte"
    BY <1>2, <1>5, <1>6
  <2>3. c + 1 + n + i # z
    BY <2>2
  <2> QED
    BY <2>1, <2>2, <2>3
<1>9. c + 1 + n + m <= Len(b)
  BY <1>6
<1>10. LiesAt(b, r.lfh, r.size, p.cells, r.zip64)
  BY <1>1, <1>3, <1>4, <1>5, <1>7, <1>8, <1>9 DEF LiesAt
<1> QED
  BY <1>1, <1>10 DEF HasEntry

\* An archive that is read where it lies.
LEMMA ReadWell ==
  ASSUME NEW f, Able(f), NEW places, Over(f, file, places),
         \A i \in places : i = Len(f) \/ i <= w.cursor + Place(w, Len(w.cd)),
         \A i \in places : /\ i \in 1..w.cursor => file[i].t \in {"lfh", "byte", "other"}
                           /\ i \in 1..Len(f) /\ i > w.cursor => file[i].t = f[i].t,
         EndOK(file[Len(f)], w, Len(f)), Len(file) - TailScan < Len(f),
         \A i \in (Len(f) + 1)..Len(file) : file[i].t # "eocd",
         Listed(file, w, Lost), damage.kind = "lost" => damage.entry # 0,
         \A k \in 1..Len(w.cd) : Found(file, k), read = L!Open(file)
  PROVE  AllRecovered
<1>1. Intact(f, w)
  BY FinishIntact DEF Able
<1>2. Laid(file, w)
  BY <1>1, LaidStill
<1>3. EndAt(file, w, Len(f) - 1)
  BY <1>1, EndStill
<1>4. IsSeq(file)
  BY DEF Over
<1> QED
  BY <1>2, <1>3, <1>4, Recovers DEF Able

\* An archive that is whole, or whose end record lies, or behind which there
\* is a comment.
LEMMA PlainRecovered ==
  ASSUME NEW f, Able(f), NEW places, Over(f, file, places), places \subseteq {Len(f)},
         EndOK(file[Len(f)], w, Len(f)), Len(file) - TailScan < Len(f),
         \A i \in (Len(f) + 1)..Len(file) : file[i].t # "eocd",
         damage.kind \notin {"lost", "unreadable"}, file[Len(f)].t = f[Len(f)].t,
         read = L!Open(file)
  PROVE  AllRecovered
<1>1. Intact(f, w) /\ HasEntries(w, written)
  BY FinishIntact DEF Able
<1>2. /\ w.cursor \in Nat /\ Place(w, Len(w.cd)) \in Nat /\ Len(f) \in Nat /\ Len(w.cd) \in Nat
      /\ w.cursor + Place(w, Len(w.cd)) < Len(f) /\ w.cursor < Len(f)
  BY <1>1 DEF Intact
<1>3. ASSUME NEW k \in 1..Len(w.cd)
      PROVE  /\ Header(file, w, k) = RecordCell(w.cd[k])
             /\ HasEntry(file, w.cd[k], written[k])
  <2>1. Place(w, k - 1) + 1 \in 1..Place(w, Len(w.cd)) /\ Place(w, k - 1) \in Nat
    BY <1>2, HeaderPlaces
  <2>2. CellOf(k) # Len(f)
    BY <1>2, <2>1 DEF CellOf
  <2>3. CellOf(k) \notin places /\ \A i \in places : i > w.cursor
    BY <1>2, <2>2
  <2> QED
    BY <1>1, <2>3, HeaderStill, EntryStill
<1>4. Lost = 0
  BY DEF Lost
<1>5. Listed(file, w, Lost)
  <2>1. ASSUME NEW k \in 1..Len(w.cd)
        PROVE  /\ Like(Header(file, w, k), RecordCell(w.cd[k]))
               /\ k # Lost /\ Header(file, w, k).tail = Tail64(w.cd[k])
    <3>1. Header(file, w, k) = RecordCell(w.cd[k]) /\ k # 0
      BY <1>3
    <3>2. RecordCell(w.cd[k]).tail = Tail64(w.cd[k])
      BY DEF RecordCell
    <3> QED
      BY <1>4, <3>1, <3>2 DEF Like
  <2>2. Lost \in 0..Len(w.cd)
    BY <1>2, <1>4
  <2> QED
    BY <2>1, <2>2 DEF Listed
<1>6. \A k \in 1..Len(w.cd) : Found(file, k)
  BY <1>3 DEF Found, RecordCell
<1>7. /\ \A i \in places : i = Len(f) \/ i <= w.cursor + Place(w, Len(w.cd))
      /\ \A i \in places : /\ i \in 1..w.cursor => file[i].t \in {"lfh", "byte", "other"}
                           /\ i \in 1..Len(f) /\ i > w.cursor => file[i].t = f[i].t
  BY <1>2
<1> QED
  BY <1>5, <1>6, <1>7, ReadWell

\* What damage makes of a finished archive.
EndLies(f) ==
  \/ \E o \in {0, Len(f)} : file = [f EXCEPT ![Len(f)] = [@ EXCEPT !.offset = o]]
  \/ \E n \in {0, Len(f), Max32} : file = [f EXCEPT ![Len(f)] = [@ EXCEPT !.size = n]]
  \/ file = [f EXCEPT ![Len(f)] = [@ EXCEPT !.count = Max16]]
HasComment(f) == file = f \o H!Filler(TailScan - 1)
RecordIsLost(f, k) == file = [f EXCEPT ![CellOf(k)] = [@ EXCEPT !.tail = Len(f)]]
HeaderMoved(f, k) ==
  /\ ~H!Overflows(w.cd[k].lfh) /\ Len(f) < Max32
  /\ file = [f EXCEPT ![CellOf(k)] = [@ EXCEPT !.lfh = Len(f)]]
HeaderHit(f, k) == file = [f EXCEPT ![w.cd[k].lfh + 1] = [@ EXCEPT !.t = "other"]]

\* An archive that nothing happened to.
LEMMA WholeRecovered ==
  ASSUME NEW f, Able(f), file = f, damage.kind = "none", read = L!Open(file)
  PROVE  AllRecovered
<1>1. Intact(f, w)
  BY FinishIntact DEF Able
<1>2. IsSeq(f) /\ Len(f) \in Nat
  BY <1>1 DEF Intact
<1>3. Over(f, file, {}) /\ {} \subseteq {Len(f)}
  BY <1>2 DEF Over
<1>4. EndOK(file[Len(f)], w, Len(f))
  BY <1>1, EndCellOK
<1>5. Len(file) - TailScan < Len(f) /\ \A i \in (Len(f) + 1)..Len(file) : file[i].t # "eocd"
  BY <1>2, LimitsAssumption
<1>6. damage.kind \notin {"lost", "unreadable"} /\ file[Len(f)].t = f[Len(f)].t
  OBVIOUS
<1> QED
  BY <1>3, <1>4, <1>5, <1>6, PlainRecovered

\* One with a comment behind it.
LEMMA CommentRecovered ==
  ASSUME NEW f, Able(f), HasComment(f), damage.kind = "directory", read = L!Open(file)
  PROVE  AllRecovered
<1>1. Intact(f, w)
  BY FinishIntact DEF Able
<1>2. PICK n \in Nat : n = Len(f) /\ IsSeq(f) /\ n # 0
  BY <1>1 DEF Intact
<1>3. PICK m \in Nat : m = TailScan - 1
  BY LimitsAssumption
<1> DEFINE x == H!Filler(m)
<1>4. IsSeq(x) /\ Len(x) = m /\ \A i \in 1..m : x[i].t = "other"
  BY FillerIs
<1>5. file = f \o x
  BY <1>3 DEF HasComment
<1> HIDE DEF x
<1>6. /\ IsSeq(file) /\ Len(file) = n + m
      /\ \A i \in 1..n : file[i] = f[i]
      /\ \A i \in 1..m : file[n + i] = x[i]
  <2>1. /\ IsSeq(f \o x) /\ Len(f \o x) = Len(f) + Len(x)
        /\ \A i \in 1..Len(f) : (f \o x)[i] = f[i]
        /\ \A i \in 1..Len(x) : (f \o x)[Len(f) + i] = x[i]
    BY <1>2, <1>4, Joined
  <2> QED
    BY <1>2, <1>4, <1>5, <2>1
<1>7. Over(f, file, {}) /\ {} \subseteq {Len(f)}
  BY <1>2, <1>6 DEF Over
<1>8. n \in 1..n
  BY <1>2
<1>9. EndOK(file[Len(f)], w, Len(f)) /\ file[Len(f)].t = f[Len(f)].t
  <2>1. file[Len(f)] = f[Len(f)]
    BY <1>2, <1>6, <1>8
  <2>2. EndOK(f[Len(f)], w, Len(f))
    BY <1>1, EndCellOK
  <2> QED
    BY <2>1, <2>2
<1>10. Len(file) - TailScan < Len(f)
  <2>1. TailScan = m + 1
    BY <1>3, LimitsAssumption
  <2> QED
    BY <1>2, <1>6, <2>1
<1>11. \A i \in (Len(f) + 1)..Len(file) : file[i].t # "eocd"
  <2> SUFFICES ASSUME NEW i \in (n + 1)..(n + m) PROVE file[i].t # "eocd"
    BY <1>2, <1>6
  <2>1. i - n \in 1..m /\ n + (i - n) = i
    OBVIOUS
  <2>2. file[i] = x[i - n]
    BY <1>6, <2>1
  <2> QED
    BY <1>4, <2>1, <2>2
<1>12. damage.kind \notin {"lost", "unreadable"}
  OBVIOUS
<1> QED
  BY <1>7, <1>9, <1>10, <1>11, <1>12, PlainRecovered

\* One whose end record lies.
LEMMA EndLiesRecovered ==
  ASSUME NEW f, Able(f), EndLies(f), damage.kind = "directory", read = L!Open(file)
  PROVE  AllRecovered
<1>1. Intact(f, w)
  BY FinishIntact DEF Able
<1> DEFINE c == w.cursor
           d == Place(w, Len(w.cd))
           n == Len(f)
           e == f[n]
<1>2. /\ n \in Nat /\ n # 0 /\ IsSeq(f) /\ c \in Nat /\ d \in Nat /\ d < n
      /\ n = c + d + (IF Escalates(w) THEN 3 ELSE 1)
      /\ e = EndCell(Len(w.cd), d, c, Escalates(w))
  BY <1>1 DEF Intact
<1>3. Max32 \in Nat /\ Max16 \in Nat /\ TailScan \in Nat /\ TailScan > 0
  BY LimitsAssumption
<1> HIDE DEF c, d, n, e
<1>4. \E x : /\ file = [f EXCEPT ![n] = x]
             /\ \/ \E o \in {0, n} : x = [e EXCEPT !.offset = o]
                \/ \E s \in {0, n, Max32} : x = [e EXCEPT !.size = s]
                \/ x = [e EXCEPT !.count = Max16]
  BY DEF EndLies, n, e
<1>5. PICK x : /\ file = [f EXCEPT ![n] = x]
               /\ \/ \E o \in {0, n} : x = [e EXCEPT !.offset = o]
                  \/ \E s \in {0, n, Max32} : x = [e EXCEPT !.size = s]
                  \/ x = [e EXCEPT !.count = Max16]
  BY <1>4
<1>6. n \in 1..Len(f)
  BY <1>2 DEF n
<1>7. /\ IsSeq(file) /\ Len(file) = n /\ file[n] = x
      /\ \A j \in 1..n : j # n => file[j] = f[j]
  <2>1. IsAltered(f, n, x, file)
    <3>1. file = Put(f, n, x)
      BY <1>5 DEF Put
    <3> QED
      BY <1>2, <1>6, <3>1, Altered
  <2> QED
    BY <2>1 DEF IsAltered, n
<1>8. Over(f, file, {n})
  BY <1>2, <1>7 DEF Over, n
<1>9. x.t = "eocd" /\ e.t = "eocd"
  BY <1>2, <1>5 DEF EndCell
<1>10. EndOK(x, w, n)
  <2>1. CASE Escalates(w)
    <3>1. e = [t |-> "eocd", count |-> Max16, disk |-> 0, cddisk |-> 0, here |-> Max16,
               size |-> Max32, offset |-> Max32]
      BY <1>2, <2>1 DEF EndCell
    <3>2. Max32 \in {x.offset, x.size} \/ x.count = Max16
      BY <1>5, <3>1
    <3> QED
      BY <1>9, <2>1, <3>2 DEF EndOK
  <2>2. CASE ~Escalates(w)
    <3>1. e = [t |-> "eocd", count |-> Len(w.cd), disk |-> 0, cddisk |-> 0, here |-> Len(w.cd),
               size |-> d, offset |-> c]
      BY <1>2, <2>2 DEF EndCell
    <3>2. d <= Max32
      <4>1. ~H!Overflows(d)
        BY <2>2 DEF Escalates, d, Place
      <4> QED
        BY <1>2, <1>3, <4>1 DEF H!Overflows
    <3>3. /\ x.offset \in {c, 0, n} /\ x.size \in {d, 0, n, Max32}
      BY <1>5, <3>1
    <3>4. /\ x.offset \in Nat /\ x.size \in Nat
          /\ x.offset \in {0, c} \/ x.offset >= n - 1
          /\ x.size = 0 \/ x.size >= d
      BY <1>2, <1>3, <3>2, <3>3
    <3> QED
      BY <1>9, <2>2, <3>4 DEF EndOK, c, d
  <2> QED
    BY <2>1, <2>2
<1>11. Len(file) - TailScan < Len(f) /\ \A i \in (Len(f) + 1)..Len(file) : file[i].t # "eocd"
  BY <1>2, <1>3, <1>7 DEF n
<1>12. /\ damage.kind \notin {"lost", "unreadable"} /\ file[n].t = f[n].t
       /\ {n} \subseteq {Len(f)}
  BY <1>7, <1>9 DEF n, e
<1> QED
  BY <1>7, <1>8, <1>10, <1>11, <1>12, PlainRecovered DEF n

\* What one cell that is hit in front of the end leaves.
LEMMA OneCell ==
  ASSUME NEW f, Intact(f, w), NEW i \in Nat, i # 0, i <= w.cursor + Place(w, Len(w.cd)), NEW x,
         file = [f EXCEPT ![i] = x]
  PROVE  /\ Over(f, file, {i}) /\ file[i] = x
         /\ EndOK(file[Len(f)], w, Len(f)) /\ Len(file) - TailScan < Len(f)
         /\ Len(file) = Len(f)
         /\ \A j \in (Len(f) + 1)..Len(file) : file[j].t # "eocd"
<1>1. PICK n \in Nat : n = Len(f) /\ IsSeq(f) /\ i < n
  BY DEF Intact
<1>2. i \in 1..Len(f)
  BY <1>1
<1>3. /\ IsSeq(file) /\ Len(file) = Len(f) /\ Len(f) \in Nat /\ file[i] = x
      /\ \A j \in 1..Len(f) : j # i => file[j] = f[j]
  <2>1. file = Put(f, i, x)
    BY DEF Put
  <2>2. IsAltered(f, i, x, file)
    BY <1>1, <1>2, <2>1, Altered
  <2> QED
    BY <2>2 DEF IsAltered
<1>4. Over(f, file, {i})
  BY <1>3 DEF Over
<1>5. file[Len(f)] = f[Len(f)]
  BY <1>1, <1>3
<1>6. EndOK(f[Len(f)], w, Len(f))
  BY EndCellOK
<1>7. Len(file) - TailScan < Len(f) /\ \A j \in (Len(f) + 1)..Len(file) : file[j].t # "eocd"
  BY <1>3, LimitsAssumption
<1> QED
  BY <1>3, <1>4, <1>5, <1>6, <1>7

\* Where a header is, and what it is.
LEMMA CellIs ==
  ASSUME NEW f, Intact(f, w), NEW k \in 1..Len(w.cd)
  PROVE  /\ CellOf(k) \in Nat /\ CellOf(k) > w.cursor /\ w.cursor \in Nat
         /\ CellOf(k) <= w.cursor + Place(w, Len(w.cd)) /\ f[CellOf(k)] = RecordCell(w.cd[k])
         /\ \A j \in 1..Len(w.cd) : j # k => CellOf(j) # CellOf(k)
<1>1. Len(w.cd) \in Nat /\ w.cursor \in Nat /\ Header(f, w, k) = RecordCell(w.cd[k])
  BY DEF Intact
<1>2. /\ Place(w, k - 1) + 1 \in 1..Place(w, Len(w.cd))
      /\ Place(w, k - 1) \in Nat /\ Place(w, Len(w.cd)) \in Nat
  BY <1>1, HeaderPlaces
<1>3. ASSUME NEW j \in 1..Len(w.cd), j # k PROVE CellOf(j) # CellOf(k)
  <2>1. Place(w, j - 1) \in Nat /\ Place(w, j - 1) # Place(w, k - 1)
    BY <1>1, <1>3, HeaderPlaces
  <2> QED
    BY <1>1, <1>2, <2>1 DEF CellOf
<1> QED
  BY <1>1, <1>2, <1>3 DEF CellOf, Header

\* A record's cell is hit: its tail or where its entry is.
LEMMA RecordHit ==
  ASSUME NEW f, Able(f), NEW k \in 1..Len(w.cd), NEW x, file = Put(f, CellOf(k), x),
         Like(x, RecordCell(w.cd[k])),
         IF damage.kind = "lost" THEN damage.entry = k /\ x.tail \in Nat /\ x.tail >= Len(f)
         ELSE x.tail = Tail64(w.cd[k]),
         IF damage.kind = "unreadable" /\ damage.entry = k
         THEN x.lfh = Len(f) /\ Len(f) < Max32 ELSE x.lfh = Slot(w.cd[k].lfh),
         damage.kind = "unreadable" => damage.entry = k, read = L!Open(file)
  PROVE  AllRecovered
<1> DEFINE i == CellOf(k)
<1>1. Intact(f, w) /\ HasEntries(w, written)
  BY FinishIntact DEF Able
<1>2. /\ i \in Nat /\ i # 0 /\ i > w.cursor /\ w.cursor \in Nat
      /\ i <= w.cursor + Place(w, Len(w.cd)) /\ f[i] = RecordCell(w.cd[k])
      /\ \A j \in 1..Len(w.cd) : j # k => CellOf(j) # i
  BY <1>1, CellIs
<1> HIDE DEF i
<1>3. /\ Over(f, file, {i}) /\ file[i] = x
      /\ EndOK(file[Len(f)], w, Len(f)) /\ Len(file) - TailScan < Len(f)
      /\ Len(file) = Len(f)
      /\ \A j \in (Len(f) + 1)..Len(file) : file[j].t # "eocd"
  <2>1. file = [f EXCEPT ![i] = x]
    BY DEF Put, i
  <2> QED
    BY <1>1, <1>2, <2>1, OneCell
<1>4. ASSUME NEW j \in 1..Len(w.cd)
      PROVE  Header(file, w, j) = IF j = k THEN x ELSE RecordCell(w.cd[j])
  <2>1. CASE j = k
    BY <1>3, <2>1 DEF Header, CellOf, i
  <2>2. CASE j # k
    <3>1. CellOf(j) \notin {i}
      BY <1>2, <2>2
    <3> QED
      BY <1>1, <1>3, <2>2, <3>1, HeaderStill
  <2> QED
    BY <2>1, <2>2
<1>5. Listed(file, w, Lost)
  <2>1. ASSUME NEW j \in 1..Len(w.cd)
        PROVE  /\ Like(Header(file, w, j), RecordCell(w.cd[j]))
               /\ IF j = Lost
                  THEN Header(file, w, j).tail \in Nat /\ Header(file, w, j).tail >= Len(file)
                  ELSE Header(file, w, j).tail = Tail64(w.cd[j])
    <3>1. RecordCell(w.cd[j]).tail = Tail64(w.cd[j])
      BY DEF RecordCell
    <3>2. CASE j = k
      BY <1>3, <1>4, <3>2 DEF Lost
    <3>3. CASE j # k
      BY <1>4, <3>1, <3>3 DEF Lost, Like
    <3> QED
      BY <3>2, <3>3
  <2>2. Lost \in 0..Len(w.cd)
    BY DEF Lost
  <2> QED
    BY <2>1, <2>2 DEF Listed
<1>6. ASSUME NEW j \in 1..Len(w.cd) PROVE Found(file, j)
  <2>1. HasEntry(file, w.cd[j], written[j])
    BY <1>1, <1>2, <1>3, EntryStill
  <2>2. RecordCell(w.cd[j]).lfh = Slot(w.cd[j].lfh)
    BY DEF RecordCell
  <2>3. CASE j = k
    BY <1>3, <1>4, <2>1, <2>3 DEF Found
  <2>4. CASE j # k
    BY <1>4, <2>1, <2>2, <2>4 DEF Found
  <2> QED
    BY <2>3, <2>4
<1>7. /\ \A j \in {i} : j = Len(f) \/ j <= w.cursor + Place(w, Len(w.cd))
      /\ \A j \in {i} : /\ j \in 1..w.cursor => file[j].t \in {"lfh", "byte", "other"}
                        /\ j \in 1..Len(f) /\ j > w.cursor => file[j].t = f[j].t
  BY <1>2, <1>3 DEF Like
<1>8. damage.kind = "lost" => damage.entry # 0
  OBVIOUS
<1> QED
  BY <1>3, <1>5, <1>6, <1>7, <1>8, ReadWell

\* One whose record is lost.
LEMMA LostRecovered ==
  ASSUME NEW f, Able(f), NEW k \in 1..Len(w.cd), RecordIsLost(f, k),
         damage.kind = "lost", damage.entry = k, read = L!Open(file)
  PROVE  AllRecovered
<1> DEFINE x == [RecordCell(w.cd[k]) EXCEPT !.tail = Len(f)]
<1>1. Intact(f, w)
  BY FinishIntact DEF Able
<1>2. Len(f) \in Nat /\ f[CellOf(k)] = RecordCell(w.cd[k])
  BY <1>1, CellIs DEF Intact
<1>3. file = Put(f, CellOf(k), x)
  BY <1>2 DEF RecordIsLost, Put
<1>4. Like(x, RecordCell(w.cd[k])) /\ x.tail = Len(f) /\ x.lfh = Slot(w.cd[k].lfh)
  BY DEF Like, RecordCell
<1>5. x.tail \in Nat /\ x.tail >= Len(f)
  BY <1>2, <1>4
<1> HIDE DEF x
<1>6. /\ IF damage.kind = "lost" THEN damage.entry = k /\ x.tail \in Nat /\ x.tail >= Len(f)
         ELSE x.tail = Tail64(w.cd[k])
      /\ IF damage.kind = "unreadable" /\ damage.entry = k
         THEN x.lfh = Len(f) /\ Len(f) < Max32 ELSE x.lfh = Slot(w.cd[k].lfh)
      /\ damage.kind = "unreadable" => damage.entry = k
  BY <1>4, <1>5
<1> QED
  BY <1>3, <1>4, <1>6, RecordHit

\* One with a local header that is said to be past the end.
LEMMA MovedRecovered ==
  ASSUME NEW f, Able(f), NEW k \in 1..Len(w.cd), HeaderMoved(f, k),
         damage.kind = "unreadable", damage.entry = k, read = L!Open(file)
  PROVE  AllRecovered
<1> DEFINE x == [RecordCell(w.cd[k]) EXCEPT !.lfh = Len(f)]
<1>1. Intact(f, w)
  BY FinishIntact DEF Able
<1>2. f[CellOf(k)] = RecordCell(w.cd[k])
  BY <1>1, CellIs
<1>3. file = Put(f, CellOf(k), x) /\ Len(f) < Max32
  BY <1>2 DEF HeaderMoved, Put
<1>4. Like(x, RecordCell(w.cd[k])) /\ x.tail = Tail64(w.cd[k]) /\ x.lfh = Len(f)
  BY DEF Like, RecordCell
<1> HIDE DEF x
<1>6. /\ IF damage.kind = "lost" THEN damage.entry = k /\ x.tail \in Nat /\ x.tail >= Len(f)
         ELSE x.tail = Tail64(w.cd[k])
      /\ IF damage.kind = "unreadable" /\ damage.entry = k
         THEN x.lfh = Len(f) /\ Len(f) < Max32 ELSE x.lfh = Slot(w.cd[k].lfh)
      /\ damage.kind = "unreadable" => damage.entry = k
  BY <1>3, <1>4
<1> QED
  BY <1>3, <1>4, <1>6, RecordHit

\* The local headers are at different places.
LEMMA HeadersApart ==
  ASSUME HasEntries(w, written), NEW k \in 1..Len(w.cd), NEW j \in 1..Len(w.cd), j # k
  PROVE  w.cd[j].lfh \in Nat /\ w.cd[k].lfh \in Nat /\ w.cd[j].lfh # w.cd[k].lfh
<1>1. Rising(w.cd, w.cursor)
  BY DEF HasEntries, WriterOK
<1>2. Len(w.cd) \in Nat
  BY DEF HasEntries
<1>3. w.cd[j].lfh \in Nat /\ w.cd[k].lfh \in Nat
  BY <1>1 DEF Rising
<1>4. CASE j < k
  <2>1. j \in 1..(k - 1)
    BY <1>2, <1>4
  <2>2. w.cd[j].lfh < w.cd[k].lfh
    BY <1>1, <2>1 DEF Rising
  <2> QED
    BY <1>3, <2>2
<1>5. CASE k < j
  <2>1. k \in 1..(j - 1)
    BY <1>2, <1>5
  <2>2. w.cd[k].lfh < w.cd[j].lfh
    BY <1>1, <2>1 DEF Rising
  <2> QED
    BY <1>3, <2>2
<1> QED
  BY <1>2, <1>4, <1>5

\* A local header without its signature.
LEMMA HitRecovered ==
  ASSUME NEW f, Able(f), NEW k \in 1..Len(w.cd), HeaderHit(f, k),
         damage.kind = "unreadable", damage.entry = k, read = L!Open(file)
  PROVE  AllRecovered
<1> DEFINE i == w.cd[k].lfh + 1
           x == [f[i] EXCEPT !.t = "other"]
<1>1. Intact(f, w) /\ HasEntries(w, written)
  BY FinishIntact DEF Able
<1>2. /\ w.cursor \in Nat /\ Place(w, Len(w.cd)) \in Nat /\ Len(w.cd) \in Nat
      /\ Len(f) \in Nat /\ w.cursor < Len(f)
      /\ \A c \in 1..w.cursor : f[c] = w.inner[c] /\ f[c].t \in {"lfh", "byte", "other"}
  BY <1>1 DEF Intact
<1>3. /\ HasEntry(w.inner, w.cd[k], written[k]) /\ w.cd[k].lfh \in Nat /\ w.cd[k].lfh < w.cursor
      /\ Len(w.inner) = w.cursor
  BY <1>1 DEF HasEntries, WriterOK, Rising
<1>4. i \in 1..w.cursor /\ i \in Nat /\ i # 0 /\ i <= w.cursor + Place(w, Len(w.cd))
  BY <1>2, <1>3
<1>5. "t" \in DOMAIN w.inner[i] /\ w.inner[i].t = "lfh"
  BY <1>3 DEF HasEntry, LiesAt
<1>6. "t" \in DOMAIN f[i] /\ f[i].t = "lfh" /\ f[i] = w.inner[i]
  BY <1>2, <1>4, <1>5
<1>7. x.t = "other"
  BY <1>6
<1>8. file = [f EXCEPT ![i] = x]
  BY DEF HeaderHit
<1> HIDE DEF i, x
<1>9. /\ Over(f, file, {i}) /\ file[i] = x
      /\ EndOK(file[Len(f)], w, Len(f)) /\ Len(file) - TailScan < Len(f)
      /\ Len(file) = Len(f)
      /\ \A j \in (Len(f) + 1)..Len(file) : file[j].t # "eocd"
  BY <1>1, <1>4, <1>8, OneCell
<1>10. Lost = 0
  BY DEF Lost
<1>11. ASSUME NEW j \in 1..Len(w.cd)
       PROVE  Header(file, w, j) = RecordCell(w.cd[j])
  <2>1. CellOf(j) \in Nat /\ CellOf(j) > w.cursor
    BY <1>1, CellIs
  <2>2. CellOf(j) \notin {i}
    BY <1>2, <1>4, <2>1
  <2> QED
    BY <1>1, <1>9, <2>2, HeaderStill
<1>12. Listed(file, w, Lost)
  <2>1. ASSUME NEW j \in 1..Len(w.cd)
        PROVE  /\ Like(Header(file, w, j), RecordCell(w.cd[j]))
               /\ j # Lost /\ Header(file, w, j).tail = Tail64(w.cd[j])
    <3>1. Header(file, w, j) = RecordCell(w.cd[j]) /\ j # 0
      BY <1>11
    <3>2. RecordCell(w.cd[j]).tail = Tail64(w.cd[j])
      BY DEF RecordCell
    <3> QED
      BY <1>10, <3>1, <3>2 DEF Like
  <2>2. Lost \in 0..Len(w.cd)
    BY <1>2, <1>10
  <2> QED
    BY <2>1, <2>2 DEF Listed
<1>13. ASSUME NEW j \in 1..Len(w.cd) PROVE Found(file, j)
  <2>1. Header(file, w, j).lfh = Slot(w.cd[j].lfh)
    BY <1>11 DEF RecordCell
  <2>2. CASE j = k
    <3>1. file[w.cd[k].lfh + 1].t # "lfh"
      BY <1>7, <1>9 DEF i
    <3> QED
      BY <2>1, <2>2, <3>1 DEF Found
  <2>3. CASE j # k
    <3>1. w.cd[j].lfh \in Nat /\ i # w.cd[j].lfh + 1
      BY <1>1, <2>3, HeadersApart DEF i
    <3>2. HasEntry(f, w.cd[j], written[j]) /\ written[j] \in Files
      <4>1. Over(f, f, {})
        BY <1>1, <1>2 DEF Over, Intact
      <4>2. HasEntry(f, w.cd[j], written[j])
        BY <1>1, <4>1, EntryStill
      <4> QED
        BY <1>1, <4>2 DEF HasEntries
    <3>3. Len(file) \in Nat /\ Len(f) <= Len(file) /\ \A c \in 1..Len(f) : c # i => file[c] = f[c]
      BY <1>9 DEF Over
    <3>4. HasEntry(file, w.cd[j], written[j])
      BY <1>2, <1>6, <3>1, <3>2, <3>3, EntryBut
    <3> QED
      BY <2>1, <2>3, <3>4 DEF Found
  <2> QED
    BY <2>2, <2>3
<1>14. /\ \A j \in {i} : j = Len(f) \/ j <= w.cursor + Place(w, Len(w.cd))
       /\ \A j \in {i} : /\ j \in 1..w.cursor => file[j].t \in {"lfh", "byte", "other"}
                         /\ j \in 1..Len(f) /\ j > w.cursor => file[j].t = f[j].t
  BY <1>2, <1>4, <1>7, <1>9
<1>15. damage.kind = "lost" => damage.entry # 0
  OBVIOUS
<1> QED
  BY <1>9, <1>12, <1>13, <1>14, <1>15, ReadWell

-----------------------------------------------------------------------------
(* An archive cut into disks.                                              *)

\* Where the disks of a file begin.
Starts(s, n) ==
  \E c \in 1..(n - 1) : \E d \in c..(n - 1) : s = IF c = d THEN <<0, c>> ELSE <<0, c, d>>

\* Every place is on a disk, the last one not on the first.
LEMMA DisksAre ==
  ASSUME NEW n \in Nat, NEW s, Starts(s, n), NEW o \in Nat
  PROVE  /\ Len(s) # 1 /\ DiskOf(s, o) \in Nat /\ s[DiskOf(s, o) + 1] \in Nat
         /\ o >= n - 1 => DiskOf(s, o) # 0
<1> DEFINE T == {k \in DOMAIN s : s[k] <= o}
<1>1. PICK c \in 1..(n - 1) : \E d \in c..(n - 1) : s = IF c = d THEN <<0, c>> ELSE <<0, c, d>>
  BY DEF Starts
<1>2. PICK d \in c..(n - 1) : s = IF c = d THEN <<0, c>> ELSE <<0, c, d>>
  BY <1>1
<1>3. PICK m \in {2, 3} : /\ m = Len(s) /\ DOMAIN s = 1..m
                          /\ \A k \in 1..m : s[k] \in 0..(n - 1)
                          /\ s[1] = 0 /\ s[2] <= n - 1
  <2>1. CASE c = d
    BY <1>2, <2>1
  <2>2. CASE c # d
    BY <1>2, <2>2
  <2> QED
    BY <2>1, <2>2
<1>4. IsFiniteSet(1..m) /\ Cardinality(1..m) = m
  BY FS_Interval
<1>5. T \subseteq 1..m /\ 1 \in T /\ (o >= n - 1 => 2 \in T)
  BY <1>3
<1> HIDE DEF T
<1>6. IsFiniteSet(T) /\ Cardinality(T) \in Nat /\ Cardinality(T) <= m
  BY <1>4, <1>5, FS_Subset, FS_CardinalityType
<1>7. Cardinality(T) # 0
  BY <1>5, <1>6, FS_EmptySet
<1>8. o >= n - 1 => Cardinality(T) # 1
  <2>1. ASSUME o >= n - 1, Cardinality(T) = 1 PROVE FALSE
    <3>1. PICK x : T = {x}
      BY <1>6, <2>1, FS_Singleton
    <3> QED
      BY <1>5, <2>1, <3>1
  <2> QED
    BY <2>1
<1>9. DiskOf(s, o) = Cardinality(T) - 1
  BY DEF DiskOf, T
<1>10. DiskOf(s, o) \in Nat /\ DiskOf(s, o) + 1 \in 1..m /\ (o >= n - 1 => DiskOf(s, o) # 0)
  BY <1>6, <1>7, <1>8, <1>9
<1>11. s[DiskOf(s, o) + 1] \in 0..(n - 1)
  <2> HIDE DEF T
  <2>1. PICK x \in 1..m : x = DiskOf(s, o) + 1
    BY <1>10
  <2>2. s[x] \in 0..(n - 1)
    BY <1>3
  <2> QED
    BY <2>1, <2>2
<1>12. Len(s) # 1
  BY <1>3
<1>13. \A x \in 0..(n - 1) : x \in Nat
  OBVIOUS
<1> QED
  BY <1>10, <1>11, <1>12, <1>13

\* What of a header there is on disks, and what is made of it again.
CutCell(s, r) ==
  [RecordCell(r) EXCEPT !.disk = DiskOf(s, r.lfh), !.lfh = r.lfh - s[DiskOf(s, r.lfh) + 1]]
JoinedCell(h, s) == [h EXCEPT !.disk = 0, !.lfh = S!DiskOrigin(s, h.disk) + @]
JoinedEnd(e, start) == [e EXCEPT !.disk = 0, !.cddisk = 0, !.here = e.count, !.offset = start]

\* A header that is cut and joined is what it was.
LEMMA CutJoins ==
  ASSUME NEW n \in Nat, NEW s, Starts(s, n), NEW r, r.lfh \in Nat, Slot(r.lfh) = r.lfh
  PROVE  JoinedCell(CutCell(s, r), s) = RecordCell(r)
<1>1. DiskOf(s, r.lfh) \in Nat /\ s[DiskOf(s, r.lfh) + 1] \in Nat
  BY DisksAre
<1> DEFINE h == RecordCell(r)
           k == DiskOf(s, r.lfh)
           g == CutCell(s, r)
<1>2. g = [t |-> "cdfh", name |-> r.name, method |-> r.method, encrypted |-> FALSE, disk |-> k,
           crc |-> r.crc, date |-> r.date, time |-> r.time,
           size |-> Slot(r.size), comp |-> Slot(r.comp), lfh |-> r.lfh - s[k + 1],
           extra |-> Extra(r), tail |-> Tail64(r)]
  <2>1. g = [h EXCEPT !.disk = k, !.lfh = r.lfh - s[k + 1]]
    BY DEF CutCell
  <2> DEFINE l == r.lfh - s[k + 1]
  <2>2. g = [h EXCEPT !.disk = k, !.lfh = l]
    BY <2>1
  <2>3. h = [t |-> "cdfh", name |-> r.name, method |-> r.method, encrypted |-> FALSE, disk |-> 0,
             crc |-> r.crc, date |-> r.date, time |-> r.time,
             size |-> Slot(r.size), comp |-> Slot(r.comp), lfh |-> Slot(r.lfh),
             extra |-> Extra(r), tail |-> Tail64(r)]
    BY DEF RecordCell
  <2> HIDE DEF g, h, k, l
  <2>4. g = [t |-> "cdfh", name |-> r.name, method |-> r.method, encrypted |-> FALSE, disk |-> k,
             crc |-> r.crc, date |-> r.date, time |-> r.time,
             size |-> Slot(r.size), comp |-> Slot(r.comp), lfh |-> l,
             extra |-> Extra(r), tail |-> Tail64(r)]
    BY <2>2, <2>3
  <2> QED
    BY <2>4 DEF l
<1> HIDE DEF g, k
<1>3. s[k + 1] + (r.lfh - s[k + 1]) = r.lfh
  BY <1>1 DEF k
<1>4. S!DiskOrigin(s, g.disk) + g.lfh = r.lfh
  BY <1>2, <1>3 DEF S!DiskOrigin
<1>5. JoinedCell(g, s) = [g EXCEPT !.disk = 0, !.lfh = r.lfh]
  BY <1>4 DEF JoinedCell
<1>6. JoinedCell(g, s) = RecordCell(r)
  BY <1>2, <1>5 DEF RecordCell
<1> QED
  BY <1>6 DEF g

\* What an end record on disks is joined as.
JoinsEnd(e, s, d, c, last) ==
  /\ e.t = "eocd" /\ e.disk # 0 /\ e.size = d /\ S!DiskOrigin(s, e.cddisk) + e.offset = c
  /\ JoinedEnd(e, c) = last

\* What is left of an archive on disks.
IsCut(f, g, s) ==
  LET c == w.cursor
      d == Place(w, Len(w.cd))
      e == g[Len(f)] IN
  /\ IsSeq(g) /\ Len(g) = Len(f)
  /\ \A i \in 1..c : g[i] = f[i]
  /\ \A i \in 1..d : f[c + i].t # "cdfh" => g[c + i] = f[c + i]
  /\ \A k \in 1..Len(w.cd) : Header(g, w, k) = CutCell(s, w.cd[k])
  /\ JoinsEnd(e, s, d, c, f[Len(f)])

\* Not one with a ZIP64 end record, and with places that are known as they are.
Small(f) == ~Escalates(w) /\ w.cursor # Max32

\* Places in such an archive are written as they are.
LEMMA PlacesSmall ==
  ASSUME HasEntries(w, written), NEW f, Intact(f, w), Small(f), NEW k \in 1..Len(w.cd)
  PROVE  w.cd[k].lfh \in Nat /\ Slot(w.cd[k].lfh) = w.cd[k].lfh /\ w.cd[k].lfh # Max32
<1>1. w.cd[k].lfh \in Nat /\ w.cd[k].lfh < w.cursor /\ w.cursor \in Nat
  BY DEF HasEntries, WriterOK, Rising, Intact
<1>2. w.cursor <= Max32 /\ Max32 \in Nat
  BY <1>1, LimitsAssumption DEF Small, Escalates, H!Overflows
<1>3. w.cd[k].lfh < Max32
  BY <1>1, <1>2
<1>4. ~H!Overflows(w.cd[k].lfh)
  BY <1>1, <1>2, <1>3 DEF H!Overflows
<1> QED
  BY <1>1, <1>2, <1>3, <1>4 DEF Slot

\* The end record of such a one, cut.
PlainEnd(m, d, c) == [t |-> "eocd", count |-> m, disk |-> 0, cddisk |-> 0, here |-> m,
                      size |-> d, offset |-> c]
CutEnd(e, s, n, here) ==
  [e EXCEPT !.disk = DiskOf(s, n - 1), !.cddisk = DiskOf(s, w.cursor),
            !.offset = OnDisk(s, e.offset), !.here = here]

\* The end record of such a one, cut.
LEMMA EndCut ==
  ASSUME NEW n \in Nat, n > 0, NEW s, Starts(s, n), NEW m, NEW d, w.cursor \in Nat,
         w.cursor # Max32, NEW here
  PROVE  JoinsEnd(CutEnd(PlainEnd(m, d, w.cursor), s, n, here), s, d, w.cursor,
                  PlainEnd(m, d, w.cursor))
<1> DEFINE c == w.cursor
           e == CutEnd(PlainEnd(m, d, c), s, n, here)
<1>0. c \in Nat /\ c # Max32
  OBVIOUS
<1>e. e = [PlainEnd(m, d, c) EXCEPT !.disk = DiskOf(s, n - 1), !.cddisk = DiskOf(s, c),
                                    !.offset = OnDisk(s, c), !.here = here]
  <2>1. PlainEnd(m, d, c).offset = c
    BY DEF PlainEnd
  <2> QED
    BY <2>1 DEF CutEnd
<1> HIDE DEF c, e
<1>1. PICK a : a = DiskOf(s, n - 1) /\ a # 0
  <2>1. n - 1 \in Nat /\ n - 1 >= n - 1
    OBVIOUS
  <2> QED
    BY <2>1, DisksAre
<1>2. PICK b \in Nat : b = DiskOf(s, c) /\ s[b + 1] \in Nat
  BY <1>0, DisksAre
<1>3. PICK o : o = OnDisk(s, c) /\ s[b + 1] + o = c
  <2>1. OnDisk(s, c) = c - s[b + 1]
    BY <1>0, <1>2 DEF OnDisk
  <2>2. s[b + 1] + (c - s[b + 1]) = c
    BY <1>0, <1>2
  <2> QED
    BY <2>1, <2>2
<1>4. e = [t |-> "eocd", count |-> m, disk |-> a, cddisk |-> b, here |-> here,
           size |-> d, offset |-> o]
  BY <1>e, <1>1, <1>2, <1>3 DEF PlainEnd
<1>5. JoinedEnd(e, c) = PlainEnd(m, d, c)
  <2>1. e.count = m
    BY <1>4
  <2>2. JoinedEnd(e, c) = [e EXCEPT !.disk = 0, !.cddisk = 0, !.here = m, !.offset = c]
    BY <2>1 DEF JoinedEnd
  <2> QED
    BY <1>4, <2>2 DEF PlainEnd
<1>6. e.t = "eocd" /\ e.disk = a /\ e.size = d /\ e.cddisk = b /\ e.offset = o
  BY <1>4
<1>7. S!DiskOrigin(s, b) + o = c
  BY <1>3 DEF S!DiskOrigin
<1>8. JoinsEnd(e, s, d, c, PlainEnd(m, d, c))
  BY <1>1, <1>5, <1>6, <1>7 DEF JoinsEnd
<1> QED
  BY <1>8 DEF e, c

\* The cells of an archive that is cut.
LEMMA CutIs ==
  ASSUME HasEntries(w, written), NEW f, Intact(f, w), Small(f), NEW s, Starts(s, Len(f))
  PROVE  IsCut(f, Cut(f, s), s)
<1> DEFINE c == w.cursor
           d == Place(w, Len(w.cd))
           n == Len(f)
           g == Cut(f, s)
           here == Cardinality({p \in DOMAIN f : /\ p > w.cursor /\ f[p].t = "cdfh"
                                                 /\ DiskOf(s, p - 1) = DiskOf(s, n - 1)})
<1>1. /\ IsSeq(f) /\ n \in Nat /\ c \in Nat \ {0} /\ d \in Nat \ {0} /\ n = c + d + 1
      /\ f[n] = PlainEnd(Len(w.cd), d, c)
  <2>1. /\ IsSeq(f) /\ n \in Nat /\ c \in Nat \ {0} /\ d \in Nat \ {0} /\ n = c + d + 1
        /\ f[n] = EndCell(Len(w.cd), d, c, Escalates(w)) /\ ~Escalates(w)
    BY DEF Intact, Small
  <2>2. f[n] = PlainEnd(Len(w.cd), d, c)
    BY <2>1 DEF EndCell, PlainEnd
  <2> QED
    BY <2>1, <2>2
<1>2. DOMAIN f = 1..n
  BY <1>1 DEF IsSeq
<1>3. g = [o \in 1..n |->
             IF o <= c THEN f[o]
             ELSE IF f[o].t = "cdfh"
             THEN [f[o] EXCEPT !.disk = DiskOf(s, f[o].lfh), !.lfh = OnDisk(s, f[o].lfh)]
             ELSE IF f[o].t = "eocd"
             THEN [f[o] EXCEPT
                     !.disk = DiskOf(s, n - 1), !.cddisk = DiskOf(s, c),
                     !.offset = OnDisk(s, f[o].offset), !.here = here]
             ELSE f[o]]
  BY <1>2 DEF Cut
<1> HIDE DEF g, here, c, d, n
<1>4. IsSeq(g) /\ Len(g) = n
  <2>1. g = [o \in 1..n |-> g[o]]
    BY <1>3
  <2> QED
    BY <1>1, <2>1, FunctionIs
<1>5. ASSUME NEW i \in 1..c PROVE g[i] = f[i]
  <2>1. i \in 1..n /\ i <= c
    BY <1>1
  <2> QED
    BY <1>3, <2>1
<1>6. ASSUME NEW i \in 1..d, f[c + i].t # "cdfh" PROVE g[c + i] = f[c + i]
  <2>1. c + i \in 1..n /\ ~(c + i <= c)
    BY <1>1
  <2>2. f[c + i].t # "eocd"
    <3>1. f[c + i] = H!Directory(w, Len(w.cd))[i] /\ i \in 1..Len(H!Directory(w, Len(w.cd)))
      BY DEF Intact, c, d, Place
    <3>2. Len(w.cd) \in Nat /\ Len(w.cd) \in 0..Len(w.cd)
      BY DEF Intact
    <3>3. H!Directory(w, Len(w.cd))[i].t \in {"cdfh", "other"}
      BY <3>1, <3>2, DirectoryIs
    <3> QED
      BY <3>1, <3>3
  <2> QED
    BY <1>3, <1>6, <2>1, <2>2
<1>7. ASSUME NEW k \in 1..Len(w.cd) PROVE Header(g, w, k) = CutCell(s, w.cd[k])
  <2> DEFINE o == CellOf(k)
             r == w.cd[k]
  <2>1. o \in Nat /\ o > c /\ o <= c + d /\ f[o] = RecordCell(r)
    BY CellIs DEF c, d
  <2>2. o \in 1..n /\ ~(o <= c)
    BY <1>1, <2>1
  <2>3. r.lfh \in Nat /\ Slot(r.lfh) = r.lfh /\ r.lfh # Max32
    BY PlacesSmall
  <2> HIDE DEF o, r
  <2>4. f[o].t = "cdfh" /\ f[o].lfh = r.lfh
    BY <2>1, <2>3 DEF RecordCell
  <2>5. g[o] = [f[o] EXCEPT !.disk = DiskOf(s, f[o].lfh), !.lfh = OnDisk(s, f[o].lfh)]
    BY <1>3, <2>2, <2>4
  <2>6. OnDisk(s, r.lfh) = r.lfh - s[DiskOf(s, r.lfh) + 1]
    BY <2>3 DEF OnDisk
  <2>7. g[o] = CutCell(s, r)
    BY <2>1, <2>4, <2>5, <2>6 DEF CutCell
  <2> QED
    BY <2>7 DEF Header, CellOf, o, r
<1>8. JoinsEnd(g[n], s, d, c, f[n])
  <2>1. PlainEnd(Len(w.cd), d, c).t = "eocd"
    BY DEF PlainEnd
  <2>2. n \in 1..n /\ ~(n <= c) /\ n > 0 /\ f[n].t = "eocd"
    BY <1>1, <2>1
  <2>3. g[n] = CutEnd(f[n], s, n, here)
    BY <1>3, <2>2 DEF CutEnd, c
  <2>4. c \in Nat /\ c # Max32 /\ Starts(s, n)
    BY <1>1 DEF Small, c, n
  <2>5. JoinsEnd(CutEnd(PlainEnd(Len(w.cd), d, w.cursor), s, n, here), s, d, w.cursor,
                 PlainEnd(Len(w.cd), d, w.cursor))
    BY <1>1, <2>2, <2>4, EndCut DEF c
  <2> QED
    BY <1>1, <2>3, <2>5 DEF c
<1> QED
  BY <1>4, <1>5, <1>6, <1>7, <1>8 DEF IsCut, c, d, n, g

\* The directory of an archive on disks, patched from a place on.
PatchIn(cd, s) ==
  LET patched[c \in 0..Len(cd)] ==
        IF c = Len(cd) \/ ~S!Signed(cd, c, "cdfh") THEN SubSeq(cd, c + 1, Len(cd))
        ELSE LET next == c + 1 + cd[c + 1].tail IN
             <<[cd[c + 1] EXCEPT !.disk = 0, !.lfh = S!DiskOrigin(s, cd[c + 1].disk) + @]>>
             \o SubSeq(cd, c + 2, next) \o patched[next] IN
  patched
Turned(cd, s, c) ==
  <<JoinedCell(cd[c + 1], s)>> \o SubSeq(cd, c + 2, c + 1 + cd[c + 1].tail)
Patches(f, cd, s) ==
  f = [c \in 0..Len(cd) |->
        IF c = Len(cd) \/ ~S!Signed(cd, c, "cdfh") THEN SubSeq(cd, c + 1, Len(cd))
        ELSE Turned(cd, s, c) \o f[c + 1 + cd[c + 1].tail]]
PatchesOn(f, cd, s) ==
  \A c \in 0..Len(cd) :
    f[c] = IF c = Len(cd) \/ ~S!Signed(cd, c, "cdfh") THEN SubSeq(cd, c + 1, Len(cd))
           ELSE Turned(cd, s, c) \o f[c + 1 + cd[c + 1].tail]

\* The patch goes from header to header.
LEMMA PatchGoes ==
  ASSUME NEW cd, NEW s, Len(cd) \in Nat,
         \A i \in 1..Len(cd) : cd[i].t = "cdfh" => cd[i].tail \in Nat /\ i + cd[i].tail <= Len(cd)
  PROVE  PatchesOn(PatchIn(cd, s), cd, s)
<1> DEFINE n == Len(cd)
           f == PatchIn(cd, s)
           stop == {c \in 0..n : c = n \/ ~S!Signed(cd, c, "cdfh")}
           next == [c \in 0..n |-> IF c \in stop THEN c + 1 ELSE c + 1 + cd[c + 1].tail]
           item == [c \in 0..n |-> Turned(cd, s, c)]
           last == [c \in 0..n |-> SubSeq(cd, c + 1, n)]
<1>1. \E g : Patches(g, cd, s)
  <2>1. \A c \in 0..(n - 1) : next[c] \in (c + 1)..n
    <3> TAKE c \in 0..(n - 1)
    <3>1. c \in 0..n /\ c + 1 \in 1..n
      OBVIOUS
    <3>2. CASE c \in stop
      BY <3>1, <3>2
    <3>3. CASE c \notin stop
      <4>1. cd[c + 1].t = "cdfh"
        BY <3>1, <3>3 DEF S!Signed
      <4>2. PICK t \in Nat : t = cd[c + 1].tail /\ c + 1 + t <= n
        BY <3>1, <4>1
      <4>3. c + 1 + t \in (c + 1)..n
        BY <4>2
      <4>4. next[c] = c + 1 + t
        BY <3>1, <3>3, <4>2
      <4> QED
        BY <4>3, <4>4
    <3> QED
      BY <3>2, <3>3
  <2> HIDE DEF next
  <2>2. PICK g : Runs(g, n, stop, {}, last, item, next)
    <3> DEFINE pass == {}
    <3>1. n \in stop /\ n \in Nat
      OBVIOUS
    <3> HIDE DEF n, pass, last, item, stop
    <3>2. \E g : Runs(g, n, stop, pass, last, item, next)
      BY <2>1, <3>1, RunsExist
    <3> QED
      BY <3>2 DEF pass
  <2>3. ASSUME NEW c \in 0..n
        PROVE  (IF c \in stop THEN last[c]
                ELSE IF c \in {} THEN g[next[c]] ELSE item[c] \o g[next[c]])
               = IF c = n \/ ~S!Signed(cd, c, "cdfh") THEN SubSeq(cd, c + 1, n)
                 ELSE Turned(cd, s, c) \o g[c + 1 + cd[c + 1].tail]
    <3>1. c \in stop <=> c = n \/ ~S!Signed(cd, c, "cdfh")
      OBVIOUS
    <3>2. next[c] = IF c \in stop THEN c + 1 ELSE c + 1 + cd[c + 1].tail
      BY DEF next
    <3>3. item[c] = Turned(cd, s, c) /\ last[c] = SubSeq(cd, c + 1, n)
      OBVIOUS
    <3> HIDE DEF stop, item, last, n
    <3> QED
      BY <3>1, <3>2, <3>3
  <2>4. Patches(g, cd, s)
    <3> HIDE DEF stop, last, item
    <3> QED
      BY <2>2, <2>3 DEF Runs, Patches
  <2> QED
    BY <2>4
<1>2. f = CHOOSE g : Patches(g, cd, s)
  BY DEF PatchIn, Patches, Turned, JoinedCell
<1>3. Patches(f, cd, s)
  BY <1>1, <1>2
<1> HIDE DEF f
<1>4. PatchesOn(f, cd, s)
  BY <1>3 DEF Patches, PatchesOn
<1> QED
  BY <1>4 DEF f

\* A sequence that is as a stretch of a file.
AsIn(q, f, c, m) == IsSeq(q) /\ Len(q) = m /\ \A i \in 1..m : q[i] = f[c + i]

\* Two stretches joined are one.
LEMMA AsInJoined ==
  ASSUME NEW f, NEW c \in Nat, NEW m \in Nat, NEW l \in Nat, NEW q, NEW p,
         AsIn(q, f, c, m), AsIn(p, f, c + m, l)
  PROVE  AsIn(q \o p, f, c, m + l)
<1>1. /\ IsSeq(q \o p) /\ Len(q \o p) = m + l
      /\ \A i \in 1..m : (q \o p)[i] = q[i]
      /\ \A i \in 1..l : (q \o p)[m + i] = p[i]
  <2>1. IsSeq(q) /\ IsSeq(p) /\ Len(q) = m /\ Len(p) = l
    BY DEF AsIn
  <2>2. /\ IsSeq(q \o p) /\ Len(q \o p) = Len(q) + Len(p)
        /\ \A i \in 1..Len(q) : (q \o p)[i] = q[i]
        /\ \A i \in 1..Len(p) : (q \o p)[Len(q) + i] = p[i]
    BY <2>1, Joined
  <2> QED
    BY <2>1, <2>2
<1>2. ASSUME NEW i \in 1..(m + l) PROVE (q \o p)[i] = f[c + i]
  <2>1. CASE i \in 1..m
    BY <1>1, <2>1 DEF AsIn
  <2>2. CASE i \in (m + 1)..(m + l)
    <3>1. i - m \in 1..l /\ m + (i - m) = i /\ c + m + (i - m) = c + i
      BY <2>2
    <3>2. p[i - m] = f[c + m + (i - m)]
      BY <3>1 DEF AsIn
    <3>3. (q \o p)[m + (i - m)] = p[i - m]
      BY <1>1, <3>1
    <3> QED
      BY <3>1, <3>2, <3>3
  <2>3. i \in 1..m \/ i \in (m + 1)..(m + l)
    OBVIOUS
  <2> QED
    BY <2>1, <2>2, <2>3
<1> QED
  BY <1>1, <1>2 DEF AsIn

\* A stretch of one file is as one of another.
LEMMA PartAsIn ==
  ASSUME NEW g, IsSeq(g), Len(g) \in Nat, NEW a \in Nat, NEW m \in Nat, a + m <= Len(g),
         NEW f, NEW c \in Nat, \A i \in 1..m : g[a + i] = f[c + i]
  PROVE  AsIn(Part(g, a, m), f, c, m)
<1>1. /\ IsSeq(Part(g, a, m)) /\ Len(Part(g, a, m)) = m
      /\ \A i \in 1..m : Part(g, a, m)[i] = g[a + i]
  BY StretchIs
<1> QED
  BY <1>1 DEF AsIn

\* One cell is, too.
LEMMA OneAsIn ==
  ASSUME NEW x, NEW f, NEW c \in Nat, x = f[c + 1]
  PROVE  AsIn(<<x>>, f, c, 1)
<1>1. <<x>> \in Seq({x}) /\ Len(<<x>>) = 1 /\ <<x>>[1] = x
  OBVIOUS
<1>2. IsSeq(<<x>>)
  BY <1>1 DEF IsSeq
<1>3. \A i \in 1..1 : i = 1
  OBVIOUS
<1> QED
  BY <1>1, <1>2, <1>3 DEF AsIn

\* The cells of a directory on disks.
CutDirectory(f, cd, s) ==
  LET c == w.cursor
      d == Place(w, Len(w.cd)) IN
  /\ IsSeq(cd) /\ Len(cd) = d
  /\ \A k \in 1..Len(w.cd) :
       LET x == Place(w, k - 1)
           t == Tail64(w.cd[k]) IN
       /\ x \in Nat /\ t \in 1..5 /\ Place(w, k) = x + 1 + t /\ x + 1 + t <= d
       /\ cd[x + 1].t = "cdfh" /\ cd[x + 1].tail = t
       /\ JoinedCell(cd[x + 1], s) = f[c + x + 1]
       /\ \A i \in 1..t : cd[x + 1 + i] = f[c + x + 1 + i]
  /\ \A i \in 1..d : cd[i].t = "cdfh" => cd[i].tail \in Nat /\ i + cd[i].tail <= d

\* That is what the directory of such an archive is.
LEMMA CutDirectoryIs ==
  ASSUME HasEntries(w, written), NEW f, Intact(f, w), Small(f), NEW s, Starts(s, Len(f)),
         NEW g, IsCut(f, g, s)
  PROVE  CutDirectory(f, Stretch(g, w), s)
<1> DEFINE c == w.cursor
           d == Place(w, Len(w.cd))
           n == Len(w.cd)
           cd == Stretch(g, w)
<1>1. /\ c \in Nat /\ d \in Nat /\ n \in Nat /\ n \in 0..n /\ Len(f) \in Nat /\ c + d <= Len(f)
      /\ IsSeq(g) /\ Len(g) = Len(f)
      /\ \A i \in 1..d : f[c + i].t # "cdfh" => g[c + i] = f[c + i]
      /\ \A i \in 1..d : f[c + i] = H!Directory(w, n)[i]
  BY DEF Intact, IsCut
<1>2. IsSeq(cd) /\ Len(cd) = d /\ \A i \in 1..d : cd[i] = g[c + i]
  BY <1>1, StretchIs DEF Stretch
<1> HIDE DEF cd, c, d
<1>3. ASSUME NEW k \in 1..n
      PROVE  LET x == Place(w, k - 1)
                 t == Tail64(w.cd[k]) IN
             /\ x \in Nat /\ t \in 1..5 /\ Place(w, k) = x + 1 + t /\ x + 1 + t <= d
             /\ cd[x + 1].t = "cdfh" /\ cd[x + 1].tail = t
             /\ JoinedCell(cd[x + 1], s) = f[c + x + 1]
             /\ \A i \in 1..t : cd[x + 1 + i] = f[c + x + 1 + i]
  <2> DEFINE r == w.cd[k]
  <2>0. c \in Nat /\ d \in Nat
    BY <1>1
  <2>1. PICK t \in 1..5 : t = Tail64(r) /\ Place(w, k) = Place(w, k - 1) + 1 + t
    BY <1>1, PlacesAre
  <2>2. PICK x \in Nat : x = Place(w, k - 1) /\ Place(w, k) = x + 1 + t /\ x + 1 + t <= d
    <3>1. k - 1 \in 0..n /\ k \in 0..n
      OBVIOUS
    <3>2. Place(w, k - 1) \in Nat /\ Place(w, k) <= d
      BY <1>1, <3>1, PlacesAre, PlacesRise DEF d
    <3> QED
      BY <2>1, <3>2
  <2>3. cd[x + 1] = CutCell(s, r)
    <3>1. x + 1 \in 1..d /\ c + (x + 1) = c + x + 1
      BY <2>0, <2>2
    <3>2. Header(g, w, k) = CutCell(s, r)
      BY DEF IsCut
    <3>3. Header(g, w, k) = g[c + x + 1]
      BY <2>2 DEF Header, c
    <3> QED
      BY <1>2, <3>1, <3>2, <3>3
  <2>4. r.lfh \in Nat /\ Slot(r.lfh) = r.lfh
    BY PlacesSmall
  <2>5. JoinedCell(cd[x + 1], s) = RecordCell(r)
    BY <1>1, <2>3, <2>4, CutJoins
  <2>6. f[c + x + 1] = RecordCell(r)
    <3>1. Header(f, w, k) = RecordCell(r)
      BY DEF Intact
    <3> QED
      BY <2>2, <3>1 DEF Header, c
  <2>7. cd[x + 1].t = "cdfh" /\ cd[x + 1].tail = t
    BY <2>1, <2>3 DEF CutCell, RecordCell
  <2>8. ASSUME NEW i \in 1..t PROVE cd[x + 1 + i] = f[c + x + 1 + i]
    <3>1. /\ x + 1 + i \in 1..d /\ c + (x + 1 + i) = c + x + 1 + i
          /\ x + (1 + i) = x + 1 + i /\ 1 + i \in 1..(1 + t) /\ 1 + i \in 2..(1 + t)
      BY <2>0, <2>2
    <3>2. H!Directory(w, n)[x + 1 + i] = H!WriteCdfh(r)[1 + i]
      <4>1. CellsIn(w, n)
        BY <1>1, DirectoryCells
      <4>2. H!Directory(w, n)[Place(w, k - 1) + (1 + i)] = H!WriteCdfh(r)[1 + i]
        BY <2>1, <3>1, <4>1 DEF CellsIn
      <4> QED
        BY <2>2, <3>1, <4>2
    <3>3. H!WriteCdfh(r)[1 + i].t = "other"
      <4>1. \A j \in 2..Len(H!WriteCdfh(r)) : H!WriteCdfh(r)[j].t = "other"
        BY RecordIs
      <4>2. Len(H!WriteCdfh(r)) = 1 + t
        BY <2>1, RecordIs
      <4> QED
        BY <3>1, <4>1, <4>2
    <3>4. f[c + (x + 1 + i)].t # "cdfh"
      BY <1>1, <3>1, <3>2, <3>3
    <3>5. cd[x + 1 + i] = f[c + (x + 1 + i)]
      BY <1>1, <1>2, <3>1, <3>4
    <3> QED
      BY <3>1, <3>5
  <2> QED
    BY <2>1, <2>2, <2>5, <2>6, <2>7, <2>8
<1>4. ASSUME NEW i \in 1..d, cd[i].t = "cdfh"
      PROVE  cd[i].tail \in Nat /\ i + cd[i].tail <= d
  <2>1. HeadsIn(w, n)
    BY <1>1, DirectoryCells
  <2>2. (\E k \in 1..n : i = Place(w, k - 1) + 1) \/ H!Directory(w, n)[i].t = "other"
    BY <2>1 DEF HeadsIn, d
  <2>3. CASE H!Directory(w, n)[i].t = "other"
    <3>1. f[c + i].t = "other"
      BY <1>1, <2>3
    <3>2. cd[i].t = "other"
      BY <1>1, <1>2, <3>1
    <3> QED
      BY <1>4, <3>2
  <2>4. CASE \E k \in 1..n : i = Place(w, k - 1) + 1
    <3>1. PICK k \in 1..n : i = Place(w, k - 1) + 1
      BY <2>4
    <3>2. PICK x \in Nat, t \in 1..5 : /\ x = Place(w, k - 1) /\ x + 1 + t <= d
                                       /\ cd[x + 1].tail = t
      BY <1>3
    <3> QED
      BY <3>1, <3>2
  <2> QED
    BY <2>2, <2>3, <2>4
<1> QED
  BY <1>2, <1>3, <1>4 DEF CutDirectory, c, d, cd

\* The patched directory is the one that was cut.
LEMMA PatchedIs ==
  ASSUME NEW f, Len(w.cd) \in Nat, w.cursor \in Nat, NEW s, NEW cd, CutDirectory(f, cd, s)
  PROVE  AsIn(S!PatchCentralDirectory(cd, s), f, w.cursor, Place(w, Len(w.cd)))
<1> DEFINE c == w.cursor
           d == Place(w, Len(w.cd))
           n == Len(w.cd)
           F == PatchIn(cd, s)
           Good(k) == AsIn(F[Place(w, k)], f, c + Place(w, k), d - Place(w, k))
           G == {k \in 0..n : Good(k)}
<1>1. /\ c \in Nat /\ n \in Nat /\ n \in 0..n /\ 0 \in 0..n
  OBVIOUS
<1>2. d \in Nat /\ IsSeq(cd) /\ Len(cd) = d
  BY <1>1, PlacesAre DEF CutDirectory
<1>3. PatchesOn(F, cd, s)
  <2>1. \A i \in 1..Len(cd) : cd[i].t = "cdfh" => cd[i].tail \in Nat /\ i + cd[i].tail <= Len(cd)
    BY <1>2 DEF CutDirectory
  <2>2. Len(cd) \in Nat
    BY <1>2
  <2> QED
    BY <2>1, <2>2, PatchGoes
<1>4. S!PatchCentralDirectory(cd, s) = F[0]
  BY Zenon DEF S!PatchCentralDirectory, PatchIn
<1> HIDE DEF F, c, d
<1>5. n \in G
  <2>0. d \in 0..d
    BY <1>2
  <2>1. F[d] = SubSeq(cd, d + 1, d)
    BY <1>2, <1>3, <2>0 DEF PatchesOn
  <2>2. F[d] = Part(cd, d, 0)
    BY <1>2, <2>1 DEF Part
  <2>3. AsIn(Part(cd, d, 0), f, c + d, 0)
    <3>1. \A i \in 1..0 : cd[d + i] = f[c + d + i]
      OBVIOUS
    <3>2. c + d \in Nat /\ d + 0 <= Len(cd) /\ Len(cd) \in Nat
      BY <1>1, <1>2
    <3> QED
      BY <1>2, <3>1, <3>2, PartAsIn
  <2>4. d - d = 0 /\ Place(w, n) = d
    BY <1>2 DEF d
  <2> QED
    BY <1>1, <2>2, <2>3, <2>4
<1>6. ASSUME NEW k \in 1..n, k \in G PROVE k - 1 \in G
  <2> DEFINE r == w.cd[k]
  <2>1. PICK x \in Nat, t \in 1..5 :
          /\ x = Place(w, k - 1) /\ t = Tail64(r) /\ Place(w, k) = x + 1 + t /\ x + 1 + t <= d
          /\ cd[x + 1].t = "cdfh" /\ cd[x + 1].tail = t
          /\ JoinedCell(cd[x + 1], s) = f[c + x + 1]
          /\ \A i \in 1..t : cd[x + 1 + i] = f[c + x + 1 + i]
    BY DEF CutDirectory, c, d
  <2>2. AsIn(F[x + 1 + t], f, c + (x + 1 + t), d - (x + 1 + t))
    BY <1>6, <2>1
  <2>3. F[x] = (<<JoinedCell(cd[x + 1], s)>> \o Part(cd, x + 1, t)) \o F[x + 1 + t]
    <3>1. x \in 0..d /\ x # d /\ x < d /\ x >= 0
      BY <1>2, <2>1
    <3>2. S!Signed(cd, x, "cdfh")
      BY <1>2, <2>1, <3>1 DEF S!Signed
    <3>3. F[x] = Turned(cd, s, x) \o F[x + 1 + cd[x + 1].tail]
      BY <1>2, <1>3, <3>1, <3>2 DEF PatchesOn
    <3>4. x + 2 = x + 1 + 1
      OBVIOUS
    <3>5. Turned(cd, s, x) = <<JoinedCell(cd[x + 1], s)>> \o Part(cd, x + 1, t)
      BY <2>1, <3>4 DEF Turned, Part
    <3> QED
      BY <2>1, <3>3, <3>5
  <2>4. AsIn(<<JoinedCell(cd[x + 1], s)>>, f, c + x, 1)
    <3>1. c + x \in Nat
      BY <1>1
    <3> QED
      BY <2>1, <3>1, OneAsIn
  <2>5. AsIn(Part(cd, x + 1, t), f, c + x + 1, t)
    <3>1. c + x + 1 \in Nat /\ x + 1 \in Nat /\ t \in Nat /\ Len(cd) \in Nat /\ x + 1 + t <= Len(cd)
      BY <1>1, <1>2, <2>1
    <3> QED
      BY <1>2, <2>1, <3>1, PartAsIn
  <2>6. AsIn(<<JoinedCell(cd[x + 1], s)>> \o Part(cd, x + 1, t), f, c + x, 1 + t)
    <3>1. c + x \in Nat /\ 1 \in Nat /\ t \in Nat
      BY <1>1
    <3> QED
      BY <2>4, <2>5, <3>1, AsInJoined
  <2>7. AsIn(F[x], f, c + x, d - x)
    <3>0. c \in Nat /\ d \in Nat /\ x + 1 + t <= d
      BY <1>1, <1>2, <2>1
    <3>1. /\ c + x \in Nat /\ 1 + t \in Nat /\ d - (x + 1 + t) \in Nat
          /\ c + x + (1 + t) = c + (x + 1 + t) /\ 1 + t + (d - (x + 1 + t)) = d - x
      BY <3>0
    <3>2. AsIn(F[x + 1 + t], f, c + x + (1 + t), d - (x + 1 + t))
      BY <2>2, <3>1
    <3>3. AsIn((<<JoinedCell(cd[x + 1], s)>> \o Part(cd, x + 1, t)) \o F[x + 1 + t], f, c + x,
               1 + t + (d - (x + 1 + t)))
      BY <2>6, <3>1, <3>2, AsInJoined
    <3> QED
      BY <2>3, <3>1, <3>3
  <2>8. k - 1 \in 0..n
    OBVIOUS
  <2> QED
    BY <2>1, <2>7, <2>8
<1>7. 0 \in G
  <2> HIDE DEF G
  <2>1. \A m \in 0..n : m \in G
    BY <1>1, <1>5, <1>6, Downward
  <2> QED
    BY <1>1, <2>1
<1>8. Place(w, 0) = 0
  BY PlacesAre
<1>9. AsIn(F[0], f, c + 0, d - 0) /\ c + 0 = c /\ d - 0 = d
  BY <1>1, <1>2, <1>7, <1>8
<1> QED
  BY <1>4, <1>9 DEF c, d

\* Joined again, the archive has the cells it had.
LEMMA JoinedIs ==
  ASSUME HasEntries(w, written), NEW f, Intact(f, w), Small(f), NEW s, Starts(s, Len(f)),
         NEW g, IsCut(f, g, s)
  PROVE  S!Joined(g, s).error = "none" /\ AsIn(S!Joined(g, s).file, f, 0, Len(f))
<1> DEFINE c == w.cursor
           d == Place(w, Len(w.cd))
           n == Len(f)
           e == g[n]
           q == S!PatchCentralDirectory(Stretch(g, w), s)
<1>1. /\ c \in Nat /\ d \in Nat /\ d # 0 /\ n \in Nat /\ n = c + d + 1 /\ Len(w.cd) \in Nat
      /\ g[n - 1].t = "other"
      /\ IsSeq(g) /\ Len(g) = n /\ \A i \in 1..c : g[i] = f[i]
  <2>1. /\ c \in Nat /\ d \in Nat /\ d # 0 /\ n \in Nat /\ n = c + d + 1 /\ Len(w.cd) \in Nat
        /\ f[c + d] = H!Directory(w, Len(w.cd))[d]
    BY DEF Intact, Small
  <2>2. H!Directory(w, Len(w.cd))[d].t = "other"
    <3>1. Len(w.cd) \in 0..Len(w.cd) /\ d = Len(H!Directory(w, Len(w.cd)))
          /\ H!Directory(w, Len(w.cd)) # <<>>
      BY <2>1, EmptySeq DEF Place
    <3> QED
      BY <2>1, <3>1, DirectoryIs
  <2>3. n - 1 = c + d /\ d \in 1..d
    BY <2>1
  <2>4. g[c + d] = f[c + d]
    BY <2>1, <2>2, <2>3 DEF IsCut
  <2> QED
    BY <2>1, <2>2, <2>3, <2>4 DEF IsCut
<1>2. AsIn(q, f, c, d)
  BY <1>1, CutDirectoryIs, PatchedIs
<1>3. JoinsEnd(e, s, d, c, f[n])
  BY DEF IsCut
<1> HIDE DEF c, d, n, e, q
<1> DEFINE h == Part(g, 0, c) \o q \o Part(g, c + d, 0) \o <<JoinedEnd(e, c)>>
<1>4. S!Joined(g, s) = [error |-> "none", file |-> h]
  <2> DEFINE eocd == Len(g) - 1
             x == g[eocd + 1]
             start == S!DiskOrigin(s, x.cddisk) + x.offset
             end == start + x.size
             out == SubSeq(g, 1, start)
                    \o S!PatchCentralDirectory(SubSeq(g, start + 1, end), s)
                    \o SubSeq(g, end + 1, eocd)
                    \o <<[x EXCEPT !.disk = 0, !.cddisk = 0, !.here = x.count, !.offset = start]>>
  <2>1. S!Joined(g, s) = IF ~S!Signed(g, eocd, "eocd") THEN [error |-> "corrupted"]
                         ELSE IF S!Signed(g, eocd - 1, "locator") THEN [error |-> "unsupported"]
                         ELSE IF ~S!IsRealSpanned(x) THEN [error |-> "none", file |-> g]
                         ELSE IF end > eocd THEN [error |-> "corrupted"]
                         ELSE [error |-> "none", file |-> out]
    BY Zenon DEF S!Joined
  <2>2. eocd = c + d /\ eocd + 1 = n /\ eocd - 1 + 1 = n - 1 /\ x = e
    BY <1>1 DEF e
  <2>3. start = c /\ end = c + d /\ e.t = "eocd" /\ e.disk # 0
    BY <1>3, <2>2 DEF JoinsEnd
  <2>4. out = h
    <3>1. [x EXCEPT !.disk = 0, !.cddisk = 0, !.here = x.count, !.offset = start] = JoinedEnd(e, c)
      BY <2>2, <2>3 DEF JoinedEnd
    <3>2. SubSeq(g, start + 1, end) = Stretch(g, w)
      BY <2>3 DEF Stretch, Part, c, d
    <3>3. SubSeq(g, 1, start) = Part(g, 0, c)
      <4>1. 0 + 1 = 1 /\ 0 + c = c
        BY <1>1
      <4> QED
        BY <2>3, <4>1 DEF Part
    <3>4. SubSeq(g, end + 1, eocd) = Part(g, c + d, 0)
      <4>1. c + d + 0 = c + d
        BY <1>1
      <4> QED
        BY <2>2, <2>3, <4>1 DEF Part
    <3> HIDE DEF x, start, end, eocd
    <3> QED
      BY <3>1, <3>2, <3>3, <3>4 DEF q
  <2> HIDE DEF out, x, start, end, eocd, h
  <2>5. S!Signed(g, eocd, "eocd") /\ ~S!Signed(g, eocd - 1, "locator")
    <3>1. eocd >= 0 /\ eocd < Len(g) /\ g[eocd + 1].t = "eocd" /\ g[eocd - 1 + 1].t = "other"
      BY <1>1, <2>2, <2>3 DEF e
    <3> QED
      BY <3>1 DEF S!Signed
  <2>6. S!IsRealSpanned(x) /\ ~(end > eocd)
    <3>1. ~(c + d > c + d)
      BY <1>1
    <3> QED
      BY <2>2, <2>3, <3>1 DEF S!IsRealSpanned
  <2> QED
    BY <2>1, <2>4, <2>5, <2>6
<1>5. AsIn(h, f, 0, n)
  <2>1. AsIn(Part(g, 0, c), f, 0, c)
    <3>1. \A i \in 1..c : g[0 + i] = f[0 + i]
      BY <1>1
    <3>2. 0 + c <= Len(g) /\ Len(g) \in Nat /\ 0 \in Nat /\ c \in Nat
      BY <1>1
    <3> QED
      BY <1>1, <3>1, <3>2, PartAsIn
  <2>2. AsIn(q, f, 0 + c, d) /\ 0 + c = c
    BY <1>1, <1>2
  <2>3. AsIn(Part(g, 0, c) \o q, f, 0, c + d)
    BY <1>1, <2>1, <2>2, AsInJoined
  <2>4. AsIn(Part(g, c + d, 0), f, 0 + (c + d), 0)
    <3>1. /\ c + d \in Nat /\ 0 + (c + d) \in Nat /\ c + d + 0 <= Len(g) /\ Len(g) \in Nat
          /\ 0 \in Nat /\ \A i \in 1..0 : g[c + d + i] = f[0 + (c + d) + i]
      BY <1>1
    <3> QED
      BY <1>1, <3>1, PartAsIn
  <2>5. AsIn(Part(g, 0, c) \o q \o Part(g, c + d, 0), f, 0, c + d + 0)
    <3>1. c + d \in Nat /\ 0 \in Nat
      BY <1>1
    <3> QED
      BY <2>3, <2>4, <3>1, AsInJoined
  <2>6. AsIn(<<JoinedEnd(e, c)>>, f, 0 + (c + d + 0), 1)
    <3>1. 0 + (c + d + 0) \in Nat /\ 0 + (c + d + 0) + 1 = n
      BY <1>1
    <3>2. JoinedEnd(e, c) = f[0 + (c + d + 0) + 1]
      BY <1>3, <3>1 DEF JoinsEnd
    <3> QED
      BY <3>1, <3>2, OneAsIn
  <2>7. AsIn(h, f, 0, c + d + 0 + 1)
    <3>1. c + d + 0 \in Nat /\ 1 \in Nat /\ 0 \in Nat
      BY <1>1
    <3> QED
      BY <2>5, <2>6, <3>1, AsInJoined
  <2>8. c + d + 0 + 1 = n
    BY <1>1
  <2> QED
    BY <2>7, <2>8
<1> QED
  BY <1>4, <1>5 DEF n

\* An end record that says nothing of where the directory is says so on disks.
LEMMA CutEndKept ==
  ASSUME NEW f, Intact(f, w), f[Len(f)].offset = Max32, NEW s
  PROVE  LET g == Cut(f, s) IN Len(g) = Len(f) /\ g[Len(f)].offset = Max32
<1> DEFINE n == Len(f)
           g == Cut(f, s)
           here == Cardinality({p \in DOMAIN f : /\ p > w.cursor /\ f[p].t = "cdfh"
                                                 /\ DiskOf(s, p - 1) = DiskOf(s, n - 1)})
<1>1. /\ IsSeq(f) /\ n \in Nat /\ n # 0 /\ w.cursor \in Nat /\ ~(n <= w.cursor)
      /\ f[n] = EndCell(Len(w.cd), Place(w, Len(w.cd)), w.cursor, Escalates(w))
  BY DEF Intact
<1>2. DOMAIN f = 1..n
  BY <1>1 DEF IsSeq
<1>3. f[n].t = "eocd" /\ "offset" \in DOMAIN f[n]
  BY <1>1 DEF EndCell
<1>4. n \in 1..n
  BY <1>1
<1> HIDE DEF here
<1>5. g = [o \in 1..n |->
             IF o <= w.cursor THEN f[o]
             ELSE IF f[o].t = "cdfh"
             THEN [f[o] EXCEPT !.disk = DiskOf(s, f[o].lfh), !.lfh = OnDisk(s, f[o].lfh)]
             ELSE IF f[o].t = "eocd"
             THEN [f[o] EXCEPT
                     !.disk = DiskOf(s, n - 1), !.cddisk = DiskOf(s, w.cursor),
                     !.offset = OnDisk(s, f[o].offset), !.here = here]
             ELSE f[o]]
  BY <1>2 DEF Cut, here
<1> HIDE DEF g, n
<1>6. Len(g) = n
  <2>1. g = [o \in 1..n |-> g[o]]
    BY <1>5
  <2> QED
    BY <1>1, <2>1, FunctionIs
<1>7. g[n] = [f[n] EXCEPT !.disk = DiskOf(s, n - 1), !.cddisk = DiskOf(s, w.cursor),
                          !.offset = OnDisk(s, f[n].offset), !.here = here]
  BY <1>1, <1>3, <1>4, <1>5
<1>8. g[n].offset = OnDisk(s, f[n].offset)
  BY <1>3, <1>7
<1>9. f[n].offset = Max32
  BY DEF n
<1>10. g[n].offset = Max32
  BY <1>8, <1>9 DEF OnDisk
<1> QED
  BY <1>6, <1>10 DEF g, n

\* An archive on disks.
LEMMA DisksRecovered ==
  ASSUME NEW f, Able(f), Starts(origins, Len(f)), file = Cut(f, origins),
         damage.kind = "disks", file[Len(file)].offset # Max32, read = ReadOf(file, origins)
  PROVE  AllRecovered
<1> DEFINE n == Len(f)
           g == S!Joined(file, origins).file
<1>1. Intact(f, w) /\ HasEntries(w, written)
  BY FinishIntact DEF Able
<1>2. /\ n \in Nat /\ w.cursor \in Nat /\ w.cursor <= n /\ Len(w.cd) \in Nat
      /\ w.cursor + Place(w, Len(w.cd)) < n
  BY <1>1 DEF Intact
<1>3. f[n].offset # Max32
  <2> SUFFICES ASSUME f[n].offset = Max32 PROVE FALSE
    OBVIOUS
  <2>1. Len(file) = Len(f) /\ file[Len(f)].offset = Max32
    BY <1>1, CutEndKept
  <2> QED
    BY <2>1
<1>4. Small(f)
  <2>1. f[n] = EndCell(Len(w.cd), Place(w, Len(w.cd)), w.cursor, Escalates(w))
    BY <1>1 DEF Intact
  <2>2. f[n].offset = IF Escalates(w) THEN Max32 ELSE w.cursor
    BY <2>1 DEF EndCell
  <2> QED
    BY <1>3, <2>2 DEF Small
<1>5. IsCut(f, file, origins)
  BY <1>1, <1>4, CutIs
<1>6. S!Joined(file, origins).error = "none" /\ AsIn(g, f, 0, n)
  BY <1>1, <1>4, <1>5, JoinedIs
<1>7. read = L!Open(g)
  <2>1. Len(origins) # 1
    BY <1>2, DisksAre
  <2> QED
    BY <1>6, <2>1 DEF ReadOf
<1> HIDE DEF g
<1>8. Over(f, g, {}) /\ Len(g) = n /\ g[n] = f[n]
  <2>1. IsSeq(g) /\ Len(g) = n /\ \A i \in 1..n : g[i] = f[i]
    BY <1>2, <1>6 DEF AsIn
  <2>2. n \in 1..n
    BY <1>2, <1>1 DEF Intact
  <2> QED
    BY <1>2, <2>1, <2>2 DEF Over
<1>9. Laid(g, w)
  BY <1>1, <1>8, LaidStill
<1>10. EndAt(g, w, n - 1)
  <2>1. EndOK(g[n], w, n)
    BY <1>1, <1>8, EndCellOK
  <2>2. Len(g) - TailScan < n /\ \A i \in (n + 1)..Len(g) : g[i].t # "eocd"
    BY <1>2, <1>8, LimitsAssumption
  <2>3. \A i \in {} : i = Len(f) \/ i <= w.cursor + Place(w, Len(w.cd))
    OBVIOUS
  <2> QED
    BY <1>1, <1>8, <2>1, <2>2, <2>3, EndStill
<1>11. Over(f, file, (w.cursor + 1)..n)
  <2>1. IsSeq(file) /\ Len(file) = n /\ \A i \in 1..w.cursor : file[i] = f[i]
    BY <1>5 DEF IsCut
  <2>2. \A i \in 1..n : i \notin (w.cursor + 1)..n => i \in 1..w.cursor
    BY <1>2
  <2> QED
    BY <1>2, <2>1, <2>2 DEF Over
<1>12. ASSUME NEW k \in 1..Len(w.cd)
       PROVE  Header(g, w, k) = RecordCell(w.cd[k]) /\ HasEntry(file, w.cd[k], written[k])
  <2>1. CellOf(k) \notin {} /\ \A i \in (w.cursor + 1)..n : i > w.cursor
    BY <1>2
  <2>2. Header(g, w, k) = RecordCell(w.cd[k])
    BY <1>1, <1>8, <2>1, HeaderStill
  <2>3. HasEntry(file, w.cd[k], written[k])
    BY <1>1, <1>11, <2>1, EntryStill
  <2> QED
    BY <2>2, <2>3
<1>13. Lost = 0
  BY DEF Lost
<1>14. Listed(g, w, Lost)
  <2>1. ASSUME NEW k \in 1..Len(w.cd)
        PROVE  /\ Like(Header(g, w, k), RecordCell(w.cd[k]))
               /\ k # Lost /\ Header(g, w, k).tail = Tail64(w.cd[k])
    <3>1. Header(g, w, k) = RecordCell(w.cd[k]) /\ k # 0
      BY <1>12
    <3>2. RecordCell(w.cd[k]).tail = Tail64(w.cd[k])
      BY DEF RecordCell
    <3> QED
      BY <1>13, <3>1, <3>2 DEF Like
  <2>2. Lost \in 0..Len(w.cd)
    BY <1>2, <1>13
  <2> QED
    BY <2>1, <2>2 DEF Listed
<1>15. \A k \in 1..Len(w.cd) : Found(g, k)
  BY <1>12 DEF Found, RecordCell
<1>16. IsSeq(file)
  BY <1>11 DEF Over
<1>17. damage.kind = "lost" => damage.entry # 0
  OBVIOUS
<1> QED
  BY <1>7, <1>9, <1>10, <1>14, <1>15, <1>16, <1>17, Recovers DEF Able

-----------------------------------------------------------------------------
(* What is true of an archive while it is damaged and read.                *)

\* What a finished archive is, whatever happened to it.
Shape(f) ==
  \/ damage = Whole /\ origins = <<0>> /\ file = f
  \/ /\ damage = [kind |-> "directory", entry |-> 0] /\ origins = <<0>>
     /\ EndLies(f) \/ HasComment(f)
  \/ \E k \in DOMAIN written :
       /\ damage = [kind |-> "lost", entry |-> k] /\ origins = <<0>>
       /\ RecordIsLost(f, k)
  \/ \E k \in DOMAIN written :
       /\ damage = [kind |-> "unreadable", entry |-> k] /\ origins = <<0>>
       /\ HeaderMoved(f, k) \/ HeaderHit(f, k)
  \/ /\ damage = [kind |-> "disks", entry |-> 0]
     /\ Starts(origins, Len(f)) /\ file = Cut(f, origins)

\* The inductive invariant: what was written is what was finished, damaged or
\* cut once, and what is read is what the parser makes of it.
RecoverInv ==
  /\ ArchiveInv
  /\ file = <<>> => damage = Whole /\ origins = <<0>> /\ read = Nothing
  /\ file # <<>> => Shape(H!Finish(w))
  /\ read # Nothing => file # <<>> /\ read = ReadOf(file, origins)

\* A file that is changed in a place is no less of one.
LEMMA StillThere ==
  ASSUME NEW f, IsSeq(f), f # <<>>
  PROVE  /\ \A i, x : Put(f, i, x) # <<>>
         /\ \A m \in Nat : f \o H!Filler(m) # <<>>
         /\ \A s : Cut(f, s) # <<>>
<1>1. PICK B : f \in Seq(B)
  BY DEF IsSeq
<1>2. Len(f) \in Nat /\ Len(f) # 0 /\ DOMAIN f = 1..Len(f)
  BY <1>1, EmptySeq
<1>3. 1 \in DOMAIN f
  BY <1>2
<1>4. DOMAIN <<>> = {}
  OBVIOUS
<1>5. \A g : DOMAIN g = DOMAIN f => g # <<>>
  BY <1>3, <1>4
<1>6. ASSUME NEW i, NEW x PROVE Put(f, i, x) # <<>>
  <2>1. DOMAIN Put(f, i, x) = DOMAIN f
    BY DEF Put
  <2> QED
    BY <1>5, <2>1
<1>7. ASSUME NEW m \in Nat PROVE f \o H!Filler(m) # <<>>
  <2> DEFINE x == H!Filler(m)
  <2>1. IsSeq(x)
    BY FillerIs
  <2> HIDE DEF x
  <2>2. IsSeq(f \o x) /\ Len(f \o x) = Len(f) + Len(x) /\ Len(x) \in Nat
    BY <2>1, Joined
  <2>3. Len(f \o x) # 0
    BY <1>2, <2>2
  <2>4. f \o x # <<>>
    BY <2>3, EmptySeq
  <2> QED
    BY <2>4 DEF x
<1>8. ASSUME NEW s PROVE Cut(f, s) # <<>>
  <2>1. DOMAIN Cut(f, s) = DOMAIN f
    BY DEF Cut
  <2> QED
    BY <1>5, <2>1
<1> QED
  BY <1>6, <1>7, <1>8

\* Nothing has happened yet, so there is only one shape.
LEMMA DamageShapes ==
  ASSUME RecoverInv, Damage
  PROVE  Shape(H!Finish(w))' /\ file' # <<>>
<1> DEFINE f == H!Finish(w)
<1>1. file = f /\ f # <<>> /\ IsSeq(f) /\ origins = <<0>> /\ HasEntries(w, written)
  <2>1. file = f /\ f # <<>> /\ HasEntries(w, written) /\ damage = Whole
    BY DEF RecoverInv, ArchiveInv, Damage
  <2>2. Finished(w, f)
    BY <2>1, FinishIs DEF HasEntries
  <2>3. origins = <<0>>
    BY <2>1 DEF RecoverInv, Shape, Whole
  <2> QED
    BY <2>1, <2>2, <2>3 DEF Finished
<1>2. w' = w /\ written' = written /\ origins' = origins /\ f' = f
  BY DEF Damage
<1> HIDE DEF f
<1> DEFINE lied == \/ \E o \in {0, Len(f)} :
                       file' = Put(f, Len(f), [f[Len(f)] EXCEPT !.offset = o])
                  \/ \E n \in {0, Len(f), Max32} :
                       file' = Put(f, Len(f), [f[Len(f)] EXCEPT !.size = n])
                  \/ file' = Put(f, Len(f), [f[Len(f)] EXCEPT !.count = Max16])
                  \/ file' = f \o H!Filler(TailScan - 1)
           lost(k) == file' = Put(f, CellOf(k), [f[CellOf(k)] EXCEPT !.tail = Len(f)])
           moved(k) == /\ ~H!Overflows(w.cd[k].lfh) /\ Len(f) < Max32
                       /\ file' = Put(f, CellOf(k), [f[CellOf(k)] EXCEPT !.lfh = Len(f)])
           hit(k) == file' = Put(f, w.cd[k].lfh + 1, [f[w.cd[k].lfh + 1] EXCEPT !.t = "other"])
<1>3. \/ lied /\ damage' = [kind |-> "directory", entry |-> 0]
      \/ \E k \in DOMAIN written :
           \/ lost(k) /\ damage' = [kind |-> "lost", entry |-> k]
           \/ (moved(k) \/ hit(k)) /\ damage' = [kind |-> "unreadable", entry |-> k]
  BY <1>1 DEF Damage, Put, CellOf, CdfhAt, Place, Eocd
<1>4. lied => file' # <<>>
  <2>1. TailScan - 1 \in Nat
    BY LimitsAssumption
  <2> QED
    BY <1>1, <2>1, StillThere
<1>5. lied => (EndLies(f) \/ HasComment(f))'
  BY <1>2 DEF Put, EndLies, HasComment
<1> HIDE DEF lied, lost, moved, hit
<1>7. Shape(f)' /\ file' # <<>>
  <2>1. CASE lied /\ damage' = [kind |-> "directory", entry |-> 0]
    BY <1>1, <1>2, <1>4, <1>5, <2>1 DEF Shape
  <2>2. ASSUME NEW k \in DOMAIN written, lost(k), damage' = [kind |-> "lost", entry |-> k]
        PROVE  Shape(f)' /\ file' # <<>>
    <3>1. k \in DOMAIN written' /\ origins' = <<0>>
      BY <1>1, <1>2
    <3>2. RecordIsLost(f, k)'
      BY <1>2, <2>2 DEF lost, Put, RecordIsLost, CellOf
    <3>3. file' # <<>>
      BY <1>1, <2>2, StillThere DEF lost
    <3> QED
      BY <2>2, <3>1, <3>2, <3>3 DEF Shape
  <2>3. ASSUME NEW k \in DOMAIN written, moved(k) \/ hit(k),
               damage' = [kind |-> "unreadable", entry |-> k]
        PROVE  Shape(f)' /\ file' # <<>>
    <3>1. k \in DOMAIN written' /\ origins' = <<0>>
      BY <1>1, <1>2
    <3>2. moved(k) => HeaderMoved(f, k)'
      BY <1>2 DEF moved, Put, HeaderMoved, CellOf
    <3>3. hit(k) => HeaderHit(f, k)'
      BY <1>2 DEF hit, Put, HeaderHit
    <3>4. file' # <<>>
      BY <1>1, <2>3, StillThere DEF moved, hit
    <3> QED
      BY <2>3, <3>1, <3>2, <3>3, <3>4 DEF Shape
  <2> QED
    BY <1>3, <2>1, <2>2, <2>3
<1> QED
  BY <1>7 DEF f

\* Nor is there more than one way to be cut.
LEMMA SpanShapes ==
  ASSUME RecoverInv, Span
  PROVE  Shape(H!Finish(w))' /\ file' # <<>>
<1> DEFINE f == H!Finish(w)
<1>1. file = f /\ f # <<>> /\ IsSeq(f)
  <2>1. file = f /\ f # <<>> /\ HasEntries(w, written) /\ damage = Whole
    BY DEF RecoverInv, ArchiveInv, Span
  <2>2. Finished(w, f)
    BY <2>1, FinishIs DEF HasEntries
  <2> QED
    BY <2>1, <2>2 DEF Finished
<1>2. w' = w /\ f' = f
  BY DEF Span
<1> HIDE DEF f
<1>3. file' = Cut(f, origins') /\ damage' = [kind |-> "disks", entry |-> 0]
  BY <1>1 DEF Span
<1>4. Starts(origins', Len(f))
  BY <1>1 DEF Span, Starts, Eocd
<1>5. file' # <<>>
  BY <1>1, <1>3, StillThere
<1>6. Shape(f)'
  <2>1. Cut(f, origins)' = Cut(f, origins')
    BY <1>2 DEF Cut
  <2>2. Starts(origins, Len(f))' <=> Starts(origins', Len(f))
    BY <1>2 DEF Starts
  <2> QED
    BY <1>3, <1>4, <2>1, <2>2 DEF Shape
<1> QED
  BY <1>5, <1>6 DEF f

\* The invariant is kept.
LEMMA InitRecover ==
  ASSUME Init
  PROVE  RecoverInv
<1>1. ArchiveInv
  BY InitArchive
<1>2. file = <<>> /\ damage = Whole /\ origins = <<0>> /\ read = Nothing
  BY DEF Init
<1> QED
  BY <1>1, <1>2 DEF RecoverInv

\* Every step keeps the invariant.
LEMMA RecoverStep ==
  ASSUME \A e \in Files : Fits(e), RecoverInv, [Next]_vars
  PROVE  RecoverInv'
<1>1. Write \/ Finish \/ Damage \/ Span \/ Read \/ Done \/ UNCHANGED vars
  BY DEF Next
<1>2. ArchiveInv'
  BY <1>1, WriteArchive, OtherArchive DEF RecoverInv
<1>3. CASE Write
  BY <1>2, <1>3 DEF Write, RecoverInv
<1>4. CASE Finish
  <2>1. file = <<>> /\ damage = Whole /\ origins = <<0>> /\ read = Nothing
    BY <1>4 DEF Finish, RecoverInv
  <2>2. damage' = Whole /\ origins' = <<0>> /\ read' = Nothing
    BY <1>4, <2>1 DEF Finish
  <2>3. file' = H!Finish(w)'
    BY <1>4 DEF Finish
  <2>4. Shape(H!Finish(w))'
    BY <2>2, <2>3 DEF Shape, Whole
  <2> QED
    BY <1>2, <2>2, <2>4 DEF RecoverInv
<1>5. CASE Damage
  <2>1. read' = Nothing
    BY <1>5 DEF Damage
  <2>2. Shape(H!Finish(w))' /\ file' # <<>>
    BY <1>5, DamageShapes
  <2> QED
    BY <1>2, <2>1, <2>2 DEF RecoverInv
<1>6. CASE Span
  <2>1. read' = Nothing
    BY <1>6 DEF Span
  <2>2. Shape(H!Finish(w))' /\ file' # <<>>
    BY <1>6, SpanShapes
  <2> QED
    BY <1>2, <2>1, <2>2 DEF RecoverInv
<1>7. ASSUME UNCHANGED <<deflate, w, written, file, origins, damage>>, file # <<>>
      PROVE  Shape(H!Finish(w))'
  <2> DEFINE f == H!Finish(w)
  <2>1. Shape(f)
    BY <1>7 DEF RecoverInv
  <2>2. /\ w' = w /\ written' = written /\ file' = file /\ origins' = origins
        /\ damage' = damage /\ f' = f
    BY <1>7
  <2> HIDE DEF f
  <2>3. EndLies(f) \/ HasComment(f) => (EndLies(f) \/ HasComment(f))'
    BY <2>2 DEF EndLies, HasComment
  <2>4. ASSUME NEW k
        PROVE  /\ RecordIsLost(f, k) => RecordIsLost(f, k)'
               /\ HeaderMoved(f, k) \/ HeaderHit(f, k) => (HeaderMoved(f, k) \/ HeaderHit(f, k))'
    BY <2>2 DEF RecordIsLost, HeaderMoved, HeaderHit, CellOf
  <2>5. Cut(f, origins)' = Cut(f, origins)
    BY <2>2 DEF Cut
  <2>6. Starts(origins, Len(f)) => Starts(origins, Len(f))'
    BY <2>2 DEF Starts
  <2>7. Shape(f)'
    BY <2>1, <2>2, <2>3, <2>4, <2>5, <2>6 DEF Shape
  <2> QED
    BY <2>7 DEF f
<1>8. CASE Read
  <2>1. /\ UNCHANGED <<deflate, w, written, file, origins, damage>> /\ file # <<>>
        /\ read' = ReadOf(file, origins)
    BY <1>8 DEF Read
  <2>2. read' = ReadOf(file', origins')
    BY <2>1
  <2>3. file' # <<>>
    BY <2>1
  <2> QED
    BY <1>2, <1>7, <2>1, <2>2, <2>3 DEF RecoverInv
<1>9. CASE Done \/ UNCHANGED vars
  <2>1. UNCHANGED <<deflate, w, written, file, origins, damage>> /\ read' = read
    BY <1>9 DEF Done, vars
  <2>2. /\ file = <<>> => damage = Whole /\ origins = <<0>> /\ read = Nothing
        /\ read # Nothing => file # <<>> /\ read = ReadOf(file, origins)
    BY DEF RecoverInv
  <2>3. /\ file' = <<>> => damage' = Whole /\ origins' = <<0>> /\ read' = Nothing
        /\ read' # Nothing => file' # <<>> /\ read' = ReadOf(file', origins')
    BY <2>1, <2>2
  <2>4. file' # <<>> => Shape(H!Finish(w))'
    BY <1>7, <2>1
  <2> QED
    BY <1>2, <2>3, <2>4 DEF RecoverInv
<1> QED
  BY <1>1, <1>3, <1>4, <1>5, <1>6, <1>8, <1>9

\* The invariant holds, of whatever sizes, offsets and counts.
THEOREM RecoverInvariant ==
  ASSUME \A e \in Files : Fits(e)
  PROVE  Spec => []RecoverInv
<1>1. Init => RecoverInv
  BY InitRecover
<1>2. RecoverInv /\ [Next]_vars => RecoverInv'
  BY RecoverStep
<1> QED
  BY <1>1, <1>2, PTL DEF Spec

\* Each shape of an archive is recovered.
LEMMA ShapeRecovers ==
  ASSUME RecoverInv, read # Nothing, written # <<>>,
         ~(damage.kind = "disks" /\ file[Eocd].offset = Max32),
         6 * MaxEntries <= ScanCells, \A e \in Files : Len(e.data) <= HardCap
  PROVE  AllRecovered
<1> DEFINE f == H!Finish(w)
<1>1. Shape(f) /\ HasEntries(w, written) /\ read = ReadOf(file, origins)
  BY DEF RecoverInv, ArchiveInv
<1>2. Len(written) \in Nat /\ Len(w.cd) = Len(written) /\ Len(written) <= MaxEntries
      /\ DOMAIN written = 1..Len(w.cd)
  <2>1. written \in Seq(Files) /\ Len(w.cd) = Len(written) /\ Len(written) <= MaxEntries
    BY DEF RecoverInv, ArchiveInv, HasEntries
  <2> QED
    BY <2>1
<1>3. 6 * Len(w.cd) <= ScanCells
  BY <1>2, LimitsAssumption
<1>4. Able(f)
  BY <1>1, <1>3 DEF Able
<1>5. origins = <<0>> => read = L!Open(file)
  <2>1. Len(<<0>>) = 1
    OBVIOUS
  <2> QED
    BY <1>1, <2>1 DEF ReadOf
<1> HIDE DEF f
<1>6. CASE damage = Whole /\ origins = <<0>> /\ file = f
  BY <1>4, <1>5, <1>6, WholeRecovered DEF Whole
<1>7. CASE /\ damage = [kind |-> "directory", entry |-> 0] /\ origins = <<0>>
           /\ EndLies(f) \/ HasComment(f)
  BY <1>4, <1>5, <1>7, EndLiesRecovered, CommentRecovered
<1>8. ASSUME NEW k \in DOMAIN written, damage = [kind |-> "lost", entry |-> k],
             origins = << 0 >>, RecordIsLost(f, k)
      PROVE  AllRecovered
  BY <1>2, <1>4, <1>5, <1>8, LostRecovered
<1>9. ASSUME NEW k \in DOMAIN written, damage = [kind |-> "unreadable", entry |-> k],
             origins = << 0 >>, HeaderMoved(f, k) \/ HeaderHit(f, k)
      PROVE  AllRecovered
  BY <1>2, <1>4, <1>5, <1>9, MovedRecovered, HitRecovered
<1>10. CASE /\ damage = [kind |-> "disks", entry |-> 0]
            /\ Starts(origins, Len(f)) /\ file = Cut(f, origins)
  <2>1. damage.kind = "disks" /\ file[Len(file)].offset # Max32
    BY <1>10 DEF Eocd
  <2> QED
    BY <1>1, <1>4, <1>10, <2>1, DisksRecovered
<1> QED
  BY <1>1, <1>6, <1>7, <1>8, <1>9, <1>10 DEF Shape

\* Of files that the streaming decoder does not cut off, in an archive whose
\* directory is found by its signature, every entry is recovered that is not
\* hit, whatever sizes, offsets and counts they have and however many they are.
THEOREM EntriesRecovered ==
  ASSUME \A e \in Files : Fits(e), 6 * MaxEntries <= ScanCells,
         \A e \in Files : Len(e.data) <= HardCap
  PROVE  Spec => []EveryEntryRecovered
<1>1. RecoverInv => EveryEntryRecovered
  <2> SUFFICES ASSUME RecoverInv, read # Nothing, written # <<>>,
                      ~(damage.kind = "disks" /\ file[Eocd].offset = Max32)
               PROVE  EveryEntryRecovered
    BY DEF EveryEntryRecovered
  <2>1. AllRecovered
    BY ShapeRecovers
  <2> QED
    BY <2>1 DEF EveryEntryRecovered, AllRecovered, EntryRecovered
<1> QED
  BY <1>1, RecoverInvariant, PTL
=============================================================================
