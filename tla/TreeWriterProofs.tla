-------------------------- MODULE TreeWriterProofs --------------------------
(***************************************************************************)
(* Proofs about TreeWriter, for every tree, format, cap of the solid block *)
(* and number of calls: a commit that succeeds has listed each tree in the *)
(* order of the walk, and the totals told before the walk are met.         *)
(*                                                                         *)
(* The walk keeps a stack, the totals and the listing go through the nodes *)
(* by number.  That both agree is what the invariant says: the stack holds *)
(* exactly what is ahead of its top, in order (Stands), and what has been  *)
(* counted and written is what lies before the top (Past).                 *)
(***************************************************************************)
EXTENDS TreeWriter, FiniteSetTheorems, SequenceTheorems, WellFoundedInduction, TLAPS

-----------------------------------------------------------------------------
(* The recursive functions of the model.  Each exists, and does what its   *)
(* equation says, because numbers have no smallest one at which it fails.  *)

\* A set of numbers has a smallest member.
LEMMA Smallest ==
  ASSUME NEW T, T \subseteq Nat, T # {}
  PROVE  \E n \in T : \A m \in T : n <= m
<1>1. PICK n \in T : \A m \in T : ~(<<m, n>> \in OpToRel(<, Nat))
  BY NatLessThanWellFounded, WFMin
<1>2. \A m \in T : ~(m < n)
  BY <1>1 DEF OpToRel
<1>3. n \in Int /\ \A m \in T : m \in Int
  OBVIOUS
<1> QED
  BY <1>2, <1>3

\* FirstOf, BytesOf and Kept as functions of what they depend on.
FirstIn(last, S) ==
  LET first[n \in 0..last] ==
        IF n = 0 THEN <<>>
        ELSE IF n \in S THEN Append(first[n - 1], n) ELSE first[n - 1]
  IN first
BytesIn(stat, last, S) ==
  LET bytes[n \in 0..last] == IF n = 0 THEN 0 ELSE bytes[n - 1] + (IF n \in S THEN stat[n] ELSE 0)
  IN bytes
Out(s, n) == s.exclude /\ n # 1 /\ n \in s.tree.meta
KeptIn(s) ==
  LET kept[n \in 1..Len(s.tree.kind)] == n = 1 \/ (~Out(s, n) /\ kept[s.tree.parent[n]])
  IN kept

\* FirstOf is that function.
LEMMA FirstIs == \A S : FirstOf(S) = FirstIn(Len(tree.kind), S)
BY DEF FirstOf, FirstIn

\* Kept is that function, before a step and after it.
LEMMA KeptIs == Kept = KeptIn(setup) /\ Kept' = KeptIn(setup')
BY DEF Kept, KeptIn, Out, Metadata, Nodes, tree

\* A function that takes each number but 0 from the one before exists.
LEMMA FirstExists ==
  ASSUME NEW last \in Nat, NEW S
  PROVE  \E f : f = [n \in 0..last |-> IF n = 0 THEN <<>>
                                    ELSE IF n \in S THEN Append(f[n - 1], n) ELSE f[n - 1]]
<1> DEFINE Goes(f, m) == f = [n \in 0..m |-> IF n = 0 THEN <<>>
                                    ELSE IF n \in S THEN Append(f[n - 1], n) ELSE f[n - 1]]
           T == {m \in Nat : ~\E f : Goes(f, m)}
<1> SUFFICES T = {}
  OBVIOUS
<1> SUFFICES ASSUME T # {} PROVE FALSE
  OBVIOUS
<1>1. PICK m \in T : \A k \in T : m <= k
  BY Smallest
<1>2. m # 0
  <2> DEFINE f == [i \in 0..0 |-> <<>>]
  <2>1. Goes(f, 0)
    OBVIOUS
  <2> QED
    BY <1>1, <2>1
<1>3. m - 1 \in Nat /\ m - 1 \notin T
  <2> HIDE DEF T
  <2>1. T \subseteq Nat
    BY DEF T
  <2>2. m \in Nat /\ m - 1 \in Nat
    BY <1>1, <1>2, <2>1
  <2>3. ~(m <= m - 1)
    BY <2>2
  <2> QED
    BY <1>1, <2>2, <2>3
<1>4. PICK g : Goes(g, m - 1)
  BY <1>3
<1> DEFINE f == [i \in 0..m |-> IF i = m THEN IF m \in S THEN Append(g[m - 1], m) ELSE g[m - 1]
                                ELSE g[i]]
<1>5. \A i \in 0..m : f[i] = IF i = 0 THEN <<>>
                             ELSE IF i \in S THEN Append(f[i - 1], i) ELSE f[i - 1]
  <2> TAKE i \in 0..m
  <2>1. CASE i = m
    BY <1>2, <1>3, <2>1
  <2>2. CASE i # m
    <3>1. i \in 0..(m - 1)
      BY <1>3, <2>2
    <3>2. g[i] = IF i = 0 THEN <<>> ELSE IF i \in S THEN Append(g[i - 1], i) ELSE g[i - 1]
      BY <1>4, <3>1
    <3>3. i # 0 => i - 1 \in 0..m /\ i - 1 # m
      BY <3>1, <1>3
    <3> QED
      BY <2>2, <3>2, <3>3
  <2> QED
    BY <2>1, <2>2
<1>6. Goes(f, m)
  BY <1>5
<1> QED
  BY <1>1, <1>6

\* The first of S, number by number.
LEMMA FirstGoes ==
  ASSUME NEW last \in Nat, NEW S
  PROVE  /\ FirstIn(last, S)[0] = <<>>
         /\ \A n \in 1..last : FirstIn(last, S)[n] = IF n \in S THEN Append(FirstIn(last, S)[n - 1], n)
                                                        ELSE FirstIn(last, S)[n - 1]
<1> DEFINE Goes(f) == f = [n \in 0..last |-> IF n = 0 THEN <<>>
                                    ELSE IF n \in S THEN Append(f[n - 1], n) ELSE f[n - 1]]
           f == FirstIn(last, S)
<1>1. \E g : Goes(g)
  BY FirstExists
<1>2. f = CHOOSE g : Goes(g)
  BY DEF FirstIn
<1>3. Goes(f)
  BY <1>1, <1>2
<1> HIDE DEF f
<1>4. \A n \in 0..last : f[n] = IF n = 0 THEN <<>>
                             ELSE IF n \in S THEN Append(f[n - 1], n) ELSE f[n - 1]
  BY <1>3
<1>5. f[0] = <<>> /\ \A n \in 1..last : f[n] = IF n \in S THEN Append(f[n - 1], n) ELSE f[n - 1]
  BY <1>4
<1> QED
  BY <1>5 DEF f

Adds(f, stat, last, S) ==
  f = [n \in 0..last |-> IF n = 0 THEN 0 ELSE f[n - 1] + (IF n \in S THEN stat[n] ELSE 0)]

\* The sums exist.
LEMMA BytesExist ==
  ASSUME NEW last \in Nat, NEW S, NEW stat
  PROVE  \E f : Adds(f, stat, last, S)
<1> USE DEF Adds
<1> DEFINE T == {m \in Nat : ~\E f : Adds(f, stat, m, S)}
<1> SUFFICES T = {}
  OBVIOUS
<1> SUFFICES ASSUME T # {} PROVE FALSE
  OBVIOUS
<1>1. PICK m \in T : \A k \in T : m <= k
  BY Smallest
<1>2. m # 0
  <2> DEFINE f == [i \in 0..0 |-> 0]
  <2>1. Adds(f, stat, 0, S)
    OBVIOUS
  <2> QED
    BY <1>1, <2>1
<1>3. m - 1 \in Nat /\ m - 1 \notin T
  <2> HIDE DEF T
  <2>1. T \subseteq Nat
    BY DEF T
  <2>2. m \in Nat /\ m - 1 \in Nat
    BY <1>1, <1>2, <2>1
  <2>3. ~(m <= m - 1)
    BY <2>2
  <2> QED
    BY <1>1, <2>2, <2>3
<1>4. PICK g : Adds(g, stat, m - 1, S)
  BY <1>3
<1> DEFINE f == [i \in 0..m |-> IF i = m THEN g[m - 1] + (IF m \in S THEN stat[m] ELSE 0) ELSE g[i]]
<1>5. \A i \in 0..m : f[i] = IF i = 0 THEN 0 ELSE f[i - 1] + (IF i \in S THEN stat[i] ELSE 0)
  <2> TAKE i \in 0..m
  <2>1. CASE i = m
    BY <1>2, <1>3, <2>1
  <2>2. CASE i # m
    <3>1. i \in 0..(m - 1)
      BY <1>3, <2>2
    <3>2. g[i] = IF i = 0 THEN 0 ELSE g[i - 1] + (IF i \in S THEN stat[i] ELSE 0)
      BY <1>4, <3>1
    <3>3. i # 0 => i - 1 \in 0..m /\ i - 1 # m
      BY <3>1, <1>3
    <3> QED
      BY <2>2, <3>2, <3>3
  <2> QED
    BY <2>1, <2>2
<1>6. Adds(f, stat, m, S)
  BY <1>5
<1> QED
  BY <1>1, <1>6

\* The bytes of S, number by number: a count that never falls.
LEMMA BytesAdd ==
  ASSUME NEW last \in Nat, NEW S, NEW stat \in [1..last -> Nat]
  PROVE  /\ BytesIn(stat, last, S)[0] = 0
         /\ \A n \in 1..last : BytesIn(stat, last, S)[n] =
                              BytesIn(stat, last, S)[n - 1] + (IF n \in S THEN stat[n] ELSE 0)
         /\ \A n \in 0..last : BytesIn(stat, last, S)[n] \in Nat
         /\ \A n \in 0..last : BytesIn(stat, last, S)[n] <= BytesIn(stat, last, S)[last]
<1> DEFINE f == BytesIn(stat, last, S)
<1>1. \E g : Adds(g, stat, last, S)
  BY BytesExist
<1>2. f = CHOOSE g : Adds(g, stat, last, S)
  BY DEF BytesIn, Adds
<1>3. Adds(f, stat, last, S)
  BY <1>1, <1>2
<1> HIDE DEF f
<1>4. \A n \in 0..last : f[n] = IF n = 0 THEN 0 ELSE f[n - 1] + (IF n \in S THEN stat[n] ELSE 0)
  BY <1>3 DEF Adds
<1>5. f[0] = 0 /\ \A n \in 1..last : f[n] = f[n - 1] + (IF n \in S THEN stat[n] ELSE 0)
  BY <1>4
<1>6. \A n \in 0..last : f[n] \in Nat
  <2> DEFINE T == {n \in 0..last : f[n] \notin Nat}
  <2> SUFFICES ASSUME T # {} PROVE FALSE
    OBVIOUS
  <2>0. T \subseteq Nat
    OBVIOUS
  <2>1. PICK m \in T : \A k \in T : m <= k
    BY <2>0, Smallest
  <2>2. m \in 0..last /\ f[m] \notin Nat
    BY <2>1
  <2>3. m \in 1..last /\ m - 1 \in 0..last /\ ~(m <= m - 1)
    BY <1>5, <2>2
  <2>4. f[m - 1] \in Nat
    BY <2>1, <2>3
  <2>5. f[m] = f[m - 1] + (IF m \in S THEN stat[m] ELSE 0)
    BY <1>5, <2>3
  <2>6. (IF m \in S THEN stat[m] ELSE 0) \in Nat
    BY <2>3
  <2> QED
    BY <2>2, <2>4, <2>5, <2>6
<1>7. \A n \in 0..last : f[n] <= f[last]
  <2> DEFINE T == {k \in 0..last : ~(f[last - k] <= f[last])}
  <2>0. T = {}
    <3> SUFFICES ASSUME T # {} PROVE FALSE
      OBVIOUS
    <3>0. T \subseteq Nat
      OBVIOUS
    <3>1. PICK m \in T : \A k \in T : m <= k
      BY <3>0, Smallest
    <3>2. m # 0
      BY <1>6, <3>1
    <3>3. m \in 0..last /\ m - 1 \in 0..last /\ ~(m <= m - 1) /\ last - (m - 1) \in 1..last /\ last - m \in 0..last
      BY <3>1, <3>2
    <3>4. f[last - (m - 1)] <= f[last]
      BY <3>1, <3>3
    <3>5. f[last - (m - 1)] = f[(last - (m - 1)) - 1] + (IF last - (m - 1) \in S THEN stat[last - (m - 1)] ELSE 0)
      BY <1>5, <3>3
    <3>6. (last - (m - 1)) - 1 = last - m
      BY <3>3
    <3>7. (IF last - (m - 1) \in S THEN stat[last - (m - 1)] ELSE 0) \in Nat
      BY <3>3
    <3>8. f[last - m] <= f[last - (m - 1)]
      BY <1>6, <3>3, <3>5, <3>6, <3>7
    <3>9. f[last - m] \in Nat /\ f[last] \in Nat /\ f[last - (m - 1)] \in Nat
      BY <1>6, <3>3
    <3> QED
      BY <3>1, <3>4, <3>8, <3>9
  <2> TAKE n \in 0..last
  <2>1. last - n \in 0..last /\ last - (last - n) = n
    OBVIOUS
  <2>2. last - n \notin T
    BY <2>0
  <2> QED
    BY <2>1, <2>2
<1> QED
  BY <1>5, <1>6, <1>7 DEF f

-----------------------------------------------------------------------------
(* The trees                                                               *)

N == Len(tree.kind)

\* The arguments of the calls are what a caller can give.
SetupOK ==
  /\ tree \in Trees
  /\ setup.real \in [Nodes -> Nat]
  /\ setup.sink \in BOOLEAN /\ setup.follow \in BOOLEAN /\ setup.exclude \in BOOLEAN

\* What the assumption says of the tree of this state.
LEMMA TreeIs ==
  ASSUME SetupOK
  PROVE  /\ N \in Nat /\ N >= 1 /\ Nodes = 1..N /\ 1 \in Nodes
         /\ tree.parent \in [Nodes -> Nodes] /\ tree.stat \in [Nodes -> Nat]
         /\ setup.real \in [Nodes -> Nat] /\ tree.parent[1] = 1
         /\ \A n \in Nodes : n # 1 => tree.parent[n] < n /\ IsDir(tree.parent[n])
         /\ \A n, m \in Nodes : n # 1 /\ tree.parent[n] < m /\ m <= n
              => tree.parent[m] >= tree.parent[n]
<1>1. IsTree(tree)
  BY TreeAssumption DEF SetupOK
<1>2. N \in Nat /\ N >= 1
  BY <1>1 DEF IsTree, N
<1>3. Nodes = 1..N /\ 1 \in Nodes
  BY <1>2 DEF Nodes, N
<1>4. /\ tree.parent \in [Nodes -> Nodes] /\ tree.parent[1] = 1 /\ tree.stat \in [Nodes -> Nat]
      /\ \A n \in Nodes \ {1} :
           /\ tree.parent[n] < n /\ tree.kind[tree.parent[n]] = "dir"
           /\ \A m \in (tree.parent[n] + 1)..n : tree.parent[m] >= tree.parent[n]
  BY <1>1 DEF IsTree, Nodes
<1>5. ASSUME NEW n \in Nodes, NEW m \in Nodes, n # 1, tree.parent[n] < m, m <= n
      PROVE  tree.parent[m] >= tree.parent[n]
  <2>1. tree.parent[n] \in Nat /\ n \in Nat /\ m \in Nat
    <3>1. tree.parent[n] \in Nodes
      BY <1>4
    <3> QED
      BY <1>2, <1>3, <3>1
  <2>2. m \in (tree.parent[n] + 1)..n
    BY <1>5, <2>1
  <2> QED
    BY <1>4, <1>5, <2>2
<1>6. setup.real \in [Nodes -> Nat]
  BY DEF SetupOK
<1> QED
  BY <1>2, <1>3, <1>4, <1>5, <1>6 DEF IsDir

Keeps(f, s, k) == f = [n \in 1..k |-> n = 1 \/ (~Out(s, n) /\ f[s.tree.parent[n]])]

\* Whether a node is kept can be told from its parent, which comes before it.
LEMMA KeptExists ==
  ASSUME SetupOK
  PROVE  \E f : Keeps(f, setup, N)
<1> DEFINE up == tree.parent
           T == {k \in 0..N : ~\E f : Keeps(f, setup, k)}
<1>0. N \in Nat /\ up \in [1..N -> 1..N] /\ \A n \in 1..N : n # 1 => up[n] < n
  BY TreeIs
<1>1. up = setup.tree.parent
  BY DEF tree
<1> SUFFICES ASSUME T # {} PROVE FALSE
  BY <1>0
<1>2. T \subseteq Nat
  OBVIOUS
<1>3. PICK m \in T : \A k \in T : m <= k
  BY <1>2, Smallest
<1>4. m \in 0..N /\ ~\E f : Keeps(f, setup, m)
  BY <1>3
<1>5. m # 0
  <2> DEFINE f == [n \in 1..0 |-> TRUE]
  <2>1. f = [n \in 1..0 |-> n = 1 \/ (~Out(setup, n) /\ f[setup.tree.parent[n]])]
    OBVIOUS
  <2>2. Keeps(f, setup, 0)
    BY <2>1 DEF Keeps
  <2> QED
    BY <1>4, <2>2
<1>6. m \in 1..N /\ m - 1 \in 0..N /\ ~(m <= m - 1)
  BY <1>0, <1>4, <1>5
<1>7. PICK g : Keeps(g, setup, m - 1)
  BY <1>3, <1>6
<1> DEFINE f == [n \in 1..m |-> IF n = m THEN n = 1 \/ (~Out(setup, n) /\ g[up[n]]) ELSE g[n]]
<1>8. \A n \in 1..m : f[n] = (n = 1 \/ (~Out(setup, n) /\ f[up[n]]))
  <2> TAKE n \in 1..m
  <2>1. n # 1 => up[n] \in 1..(m - 1) /\ up[n] # m
    <3>1. n \in 1..N /\ n <= m
      BY <1>0, <1>6
    <3>2. up[n] \in 1..N /\ (n # 1 => up[n] < n)
      BY <1>0, <3>1
    <3> HIDE DEF up
    <3> QED
      BY <1>0, <1>6, <3>1, <3>2
  <2>2. n # 1 => f[up[n]] = g[up[n]]
    <3> HAVE n # 1
    <3>1. up[n] \in 1..m /\ up[n] # m
      BY <1>6, <2>1
    <3> QED
      BY <3>1
  <2>3. CASE n = m
    <3>1. f[n] = (n = 1 \/ (~Out(setup, n) /\ g[up[n]]))
      BY <2>3
    <3> HIDE DEF f
    <3> QED
      BY <3>1, <2>2
  <2>4. CASE n # m
    <3>1. n \in 1..(m - 1)
      BY <1>6, <2>4
    <3>2. g[n] = (n = 1 \/ (~Out(setup, n) /\ g[up[n]]))
      BY <1>1, <1>7, <3>1 DEF Keeps
    <3>3. f[n] = g[n]
      BY <2>4
    <3> HIDE DEF f
    <3> QED
      BY <3>2, <3>3, <2>2
  <2> QED
    BY <2>3, <2>4
<1>9. Keeps(f, setup, m)
  <2>1. f = [n \in 1..m |-> f[n]]
    OBVIOUS
  <2>2. f = [n \in 1..m |-> n = 1 \/ (~Out(setup, n) /\ f[up[n]])]
    <3> HIDE DEF f
    <3> QED
      BY <2>1, <1>8
  <2> QED
    BY <1>1, <2>2 DEF Keeps
<1> QED
  BY <1>4, <1>9

\* Whether a node is kept, by its own name and its parent.
LEMMA KeptGoes ==
  ASSUME SetupOK
  PROVE  /\ Kept[1]
         /\ \A n \in Nodes : n # 1 => (Kept[n] <=> ~Metadata(n) /\ Kept[tree.parent[n]])
<1>1. Kept = CHOOSE f : Keeps(f, setup, N)
  BY KeptIs DEF KeptIn, Keeps, N, tree
<1>2. Keeps(Kept, setup, N)
  BY <1>1, KeptExists
<1>3. Nodes = 1..N /\ 1 \in Nodes
  BY TreeIs
<1>4. \A n \in Nodes : Kept[n] = (n = 1 \/ (~Out(setup, n) /\ Kept[setup.tree.parent[n]]))
  BY <1>2, <1>3 DEF Keeps
<1>5. \A n : Out(setup, n) <=> Metadata(n)
  BY DEF Out, Metadata, tree
<1> QED
  BY <1>3, <1>4, <1>5 DEF tree

-----------------------------------------------------------------------------
(* What depends on the arguments of the calls alone does not change.       *)

FilesIn(s) ==
  {n \in 1..Len(s.tree.kind) :
     KeptIn(s)[n] /\ ~(s.tree.kind[n] = "dir") /\ ~(s.tree.kind[n] = "link" /\ ~s.follow)}
ListedIn(s) ==
  {n \in 1..Len(s.tree.kind) :
     n \in FilesIn(s) \/ (n # 1 /\ KeptIn(s)[n] /\ s.tree.kind[n] = "dir")}

\* Files is that set, before a step and after it.
LEMMA FilesAre == Files = FilesIn(setup) /\ Files' = FilesIn(setup')
<1>1. Files = FilesIn(setup)
  BY KeptIs DEF Files, FilesIn, Nodes, IsDir, SkippedLink, tree
<1>2. Files' = FilesIn(setup')
  BY KeptIs DEF Files, FilesIn, Nodes, IsDir, SkippedLink, tree
<1> QED
  BY <1>1, <1>2

\* Listed is that set, before a step and after it.
LEMMA ListedAre == Listed = ListedIn(setup) /\ Listed' = ListedIn(setup')
<1>1. Listed = ListedIn(setup)
  BY KeptIs, FilesAre DEF Listed, ListedIn, Nodes, IsDir, tree
<1>2. Listed' = ListedIn(setup')
  BY KeptIs, FilesAre DEF Listed, ListedIn, Nodes, IsDir, tree
<1> QED
  BY <1>1, <1>2

FirstListed == FirstOf(Listed)
BytesOfFiles == BytesOf(Files)

\* The listing and the totals are those functions, before a step and after it.
LEMMA ListingIs ==
  /\ FirstListed = FirstIn(N, Listed) /\ FirstListed' = FirstIn(N', Listed')
  /\ BytesOfFiles = BytesIn(tree.stat, N, Files) /\ BytesOfFiles' = BytesIn(tree'.stat, N', Files')
  /\ Listing = FirstListed[N] /\ Listing' = FirstListed'[N']
  /\ PreScan = [entries |-> Cardinality(Files), bytes |-> BytesOfFiles[N]]
  /\ PreScan' = [entries |-> Cardinality(Files'), bytes |-> BytesOfFiles'[N']]
<1>1. FirstListed = FirstIn(N, Listed) /\ FirstListed' = FirstIn(N', Listed')
  BY DEF FirstOf, FirstIn, FirstListed, N
<1>2. BytesOfFiles = BytesIn(tree.stat, N, Files) /\ BytesOfFiles' = BytesIn(tree'.stat, N', Files')
  BY DEF BytesOf, BytesIn, BytesOfFiles, N
<1>3. Listing = FirstListed[N] /\ Listing' = FirstListed'[N']
  BY DEF Listing, InOrder, FirstListed, N
<1>4. /\ PreScan = [entries |-> Cardinality(Files), bytes |-> BytesOfFiles[N]]
      /\ PreScan' = [entries |-> Cardinality(Files'), bytes |-> BytesOfFiles'[N']]
  BY DEF PreScan, BytesOfFiles, N
<1> QED
  BY <1>1, <1>2, <1>3, <1>4

\* The arguments stay, so does what is made of them.
LEMMA Fixed ==
  ASSUME setup' = setup
  PROVE  /\ tree' = tree /\ N' = N /\ Nodes' = Nodes /\ Kept' = Kept /\ Files' = Files
         /\ Listed' = Listed /\ FirstListed' = FirstListed /\ BytesOfFiles' = BytesOfFiles
         /\ Listing' = Listing /\ PreScan' = PreScan /\ Unchanged' = Unchanged /\ Solid' = Solid
         /\ (SetupOK => SetupOK')
<1>1. tree' = tree /\ N' = N /\ Nodes' = Nodes
  BY DEF tree, N, Nodes
<1>2. Kept' = Kept /\ Files' = Files /\ Listed' = Listed
  BY KeptIs, FilesAre, ListedAre
<1>3. FirstListed' = FirstListed /\ BytesOfFiles' = BytesOfFiles
  BY <1>1, <1>2, ListingIs
<1>4. Listing' = Listing /\ PreScan' = PreScan
  BY <1>1, <1>2, <1>3, ListingIs
<1>5. Unchanged' = Unchanged /\ Solid' = Solid
  BY DEF Unchanged, Solid, tree
<1>6. SetupOK => SetupOK'
  BY <1>1 DEF SetupOK
<1> QED
  BY <1>1, <1>2, <1>3, <1>4, <1>5, <1>6

-----------------------------------------------------------------------------
(* Listing the members of a set in order                                   *)

Rises(s) == \A i, j \in DOMAIN s : i < j => s[i] < s[j]

\* s is the members of S up to n, in their order.
Orders(s, S, n) ==
  /\ s \in Seq(Nat) /\ Rises(s)
  /\ \A i \in DOMAIN s : s[i] \in S /\ 1 <= s[i] /\ s[i] <= n
  /\ \A m \in 1..n : m \in S => \E i \in DOMAIN s : s[i] = m

\* One more number.
LEMMA OrdersMore ==
  ASSUME NEW s, NEW S, NEW n \in Nat, n >= 1, Orders(s, S, n - 1)
  PROVE  Orders(IF n \in S THEN Append(s, n) ELSE s, S, n)
<1>1. /\ s \in Seq(Nat) /\ Rises(s) /\ Len(s) \in Nat /\ DOMAIN s = 1..Len(s)
      /\ \A i \in DOMAIN s : s[i] \in S /\ 1 <= s[i] /\ s[i] <= n - 1 /\ s[i] \in Nat
      /\ \A m \in 1..(n - 1) : m \in S => \E i \in DOMAIN s : s[i] = m
  BY DEF Orders
<1>2. CASE n \in S
  <2> DEFINE t == Append(s, n)
  <2>1. /\ t \in Seq(Nat) /\ DOMAIN t = 1..(Len(s) + 1) /\ t[Len(s) + 1] = n
        /\ \A i \in 1..Len(s) : t[i] = s[i]
    BY <1>1
  <2> HIDE DEF t
  <2>2. Rises(t)
    <3> SUFFICES ASSUME NEW i \in 1..(Len(s) + 1), NEW j \in 1..(Len(s) + 1), i < j
                 PROVE  t[i] < t[j]
      BY <2>1 DEF Rises
    <3>1. i \in DOMAIN s
      BY <1>1
    <3>2. CASE j \in DOMAIN s
      BY <1>1, <2>1, <3>1, <3>2 DEF Rises
    <3>3. CASE j \notin DOMAIN s
      <4>1. j = Len(s) + 1
        BY <1>1, <3>3
      <4> QED
        BY <1>1, <2>1, <3>1, <4>1
    <3> QED
      BY <3>2, <3>3
  <2>3. \A i \in DOMAIN t : t[i] \in S /\ 1 <= t[i] /\ t[i] <= n
    <3> TAKE i \in DOMAIN t
    <3>1. CASE i \in DOMAIN s
      BY <1>1, <2>1, <3>1
    <3>2. CASE i \notin DOMAIN s
      <4>1. i = Len(s) + 1
        BY <1>1, <2>1, <3>2
      <4> QED
        BY <1>2, <2>1, <4>1
    <3> QED
      BY <3>1, <3>2
  <2>4. \A m \in 1..n : m \in S => \E i \in DOMAIN t : t[i] = m
    <3> TAKE m \in 1..n
    <3> HAVE m \in S
    <3>1. CASE m = n
      <4>1. Len(s) + 1 \in DOMAIN t
        BY <1>1, <2>1
      <4> QED
        BY <2>1, <3>1, <4>1
    <3>2. CASE m # n
      <4>1. m \in 1..(n - 1)
        BY <3>2
      <4>2. PICK i \in DOMAIN s : s[i] = m
        BY <1>1, <4>1
      <4>3. i \in DOMAIN t /\ t[i] = m
        BY <1>1, <2>1, <4>2
      <4> QED
        BY <4>3
    <3> QED
      BY <3>1, <3>2
  <2> QED
    BY <1>2, <2>1, <2>2, <2>3, <2>4 DEF Orders, t
<1>3. CASE n \notin S
  <2>1. \A i \in DOMAIN s : s[i] \in S /\ 1 <= s[i] /\ s[i] <= n
    BY <1>1
  <2>2. \A m \in 1..n : m \in S => \E i \in DOMAIN s : s[i] = m
    <3> TAKE m \in 1..n
    <3> HAVE m \in S
    <3>1. m \in 1..(n - 1)
      BY <1>3
    <3> QED
      BY <1>1, <3>1
  <2> QED
    BY <1>1, <1>3, <2>1, <2>2 DEF Orders
<1> QED
  BY <1>2, <1>3

\* FirstOf lists the members in order.
LEMMA FirstOrders ==
  ASSUME NEW n \in Nat, NEW S
  PROVE  \A k \in 0..n : Orders(FirstIn(n, S)[k], S, k)
<1> DEFINE f == FirstIn(n, S)
           T == {k \in 0..n : ~Orders(f[k], S, k)}
<1>1. /\ f[0] = <<>>
      /\ \A k \in 1..n : f[k] = IF k \in S THEN Append(f[k - 1], k) ELSE f[k - 1]
  BY FirstGoes
<1> HIDE DEF f
<1> SUFFICES ASSUME T # {} PROVE FALSE
  BY DEF f
<1>2. T \subseteq Nat
  OBVIOUS
<1>3. PICK m \in T : \A k \in T : m <= k
  BY <1>2, Smallest
<1>4. m \in 0..n /\ ~Orders(f[m], S, m)
  BY <1>3
<1>5. m # 0
  <2>1. Orders(<<>>, S, 0)
    BY DEF Orders, Rises
  <2> QED
    BY <1>1, <1>4, <2>1
<1>6. m \in 1..n /\ m - 1 \in 0..n /\ ~(m <= m - 1) /\ m \in Nat /\ m >= 1
  BY <1>4, <1>5
<1>7. Orders(f[m - 1], S, m - 1)
  BY <1>3, <1>6
<1>8. Orders(IF m \in S THEN Append(f[m - 1], m) ELSE f[m - 1], S, m)
  BY <1>6, <1>7, OrdersMore
<1> QED
  BY <1>1, <1>4, <1>6, <1>8

\* Where S has no members nothing is listed or added.
LEMMA NoneThere ==
  ASSUME NEW k \in Nat, NEW S, NEW stat \in [1..k -> Nat],
         NEW a \in 0..k, NEW b \in a..k, \A n \in (a + 1)..b : n \notin S
  PROVE  /\ FirstIn(k, S)[b] = FirstIn(k, S)[a]
         /\ BytesIn(stat, k, S)[b] = BytesIn(stat, k, S)[a]
<1> DEFINE f == FirstIn(k, S)
           g == BytesIn(stat, k, S)
           T == {n \in a..b : ~(f[n] = f[a] /\ g[n] = g[a])}
<1>1. \A n \in 1..k : n \notin S => f[n] = f[n - 1]
  BY FirstGoes
<1>2. \A n \in 1..k : n \notin S => g[n] = g[n - 1]
  <2> TAKE n \in 1..k
  <2> HAVE n \notin S
  <2>1. g[n] = g[n - 1] + (IF n \in S THEN stat[n] ELSE 0)
    BY BytesAdd
  <2>2. g[n - 1] \in Nat
    <3>1. n - 1 \in 0..k
      OBVIOUS
    <3> QED
      BY <3>1, BytesAdd
  <2> HIDE DEF g
  <2> QED
    BY <2>1, <2>2
<1> HIDE DEF f, g
<1> SUFFICES ASSUME T # {} PROVE FALSE
  <2>1. b \in a..b
    OBVIOUS
  <2> QED
    BY <2>1 DEF f, g
<1>3. T \subseteq Nat
  OBVIOUS
<1>4. PICK m \in T : \A n \in T : m <= n
  BY <1>3, Smallest
<1>5. m \in a..b /\ ~(f[m] = f[a] /\ g[m] = g[a])
  BY <1>4
<1>6. m # a
  BY <1>5
<1>7. m - 1 \in a..b /\ ~(m <= m - 1) /\ m \in 1..k /\ m \in (a + 1)..b
  BY <1>5, <1>6
<1>8. f[m - 1] = f[a] /\ g[m - 1] = g[a]
  BY <1>4, <1>7
<1> QED
  BY <1>1, <1>2, <1>5, <1>7, <1>8

\* How many members of a set of numbers do not exceed n.
Below(S, n) == {m \in S : m <= n}

\* From one number to a later one, with no members between them.
LEMMA Onward ==
  ASSUME NEW k \in Nat, NEW S, S \subseteq 1..k, NEW stat \in [1..k -> Nat],
         NEW n \in 1..k, NEW e \in n..k, \A m \in (n + 1)..e : m \notin S
  PROVE  /\ FirstIn(k, S)[e] = IF n \in S THEN Append(FirstIn(k, S)[n - 1], n)
                                          ELSE FirstIn(k, S)[n - 1]
         /\ BytesIn(stat, k, S)[e] = BytesIn(stat, k, S)[n - 1] + (IF n \in S THEN stat[n] ELSE 0)
         /\ Cardinality(Below(S, e)) = Cardinality(Below(S, n - 1)) + (IF n \in S THEN 1 ELSE 0)
         /\ Cardinality(Below(S, n - 1)) \in Nat
<1>1. n \in 0..k /\ e \in Nat /\ n \in Nat
  OBVIOUS
<1>2. /\ FirstIn(k, S)[e] = FirstIn(k, S)[n]
      /\ BytesIn(stat, k, S)[e] = BytesIn(stat, k, S)[n]
  BY <1>1, NoneThere
<1>3. FirstIn(k, S)[n] = IF n \in S THEN Append(FirstIn(k, S)[n - 1], n)
                                    ELSE FirstIn(k, S)[n - 1]
  BY FirstGoes
<1>4. BytesIn(stat, k, S)[n] = BytesIn(stat, k, S)[n - 1] + (IF n \in S THEN stat[n] ELSE 0)
  BY BytesAdd
<1>5. IsFiniteSet(Below(S, n - 1))
  <2>1. IsFiniteSet(1..k)
    BY FS_Interval
  <2>2. Below(S, n - 1) \subseteq 1..k
    BY DEF Below
  <2> QED
    BY <2>1, <2>2, FS_Subset
<1>6. Cardinality(Below(S, n - 1)) \in Nat
  BY <1>5, FS_CardinalityType
<1>7. \A m \in S : m <= e <=> m <= n - 1 \/ m = n
  <2> TAKE m \in S
  <2>1. m \in Nat /\ m \in 1..k
    OBVIOUS
  <2>2. m \notin (n + 1)..e
    OBVIOUS
  <2> QED
    BY <1>1, <2>1, <2>2
<1>8. n \notin Below(S, n - 1)
  BY <1>1 DEF Below
<1>9. CASE n \in S
  <2>1. Below(S, e) = Below(S, n - 1) \cup {n}
    BY <1>7, <1>9 DEF Below
  <2>2. Cardinality(Below(S, e)) = Cardinality(Below(S, n - 1)) + 1
    BY <1>5, <1>8, <2>1, FS_AddElement
  <2> QED
    BY <1>2, <1>3, <1>4, <1>6, <1>9, <2>2
<1>10. CASE n \notin S
  <2>1. Below(S, e) = Below(S, n - 1)
    BY <1>7, <1>10 DEF Below
  <2> QED
    BY <1>2, <1>3, <1>4, <1>6, <1>10, <2>1
<1> QED
  BY <1>9, <1>10

-----------------------------------------------------------------------------
(* The walk goes through the nodes in their order.                         *)

\* The walk looks at the children of kept directories.
Reached(n) == n = 1 \/ Kept[tree.parent[n]]

\* What the stack holds when the walk has come to f: the nodes from f on whose
\* parent has been visited.
Ahead(f) == {n \in Nodes : n >= f /\ Reached(n) /\ (n = 1 \/ tree.parent[n] < f)}

Falls(s) == \A i, j \in DOMAIN s : i < j => s[j] < s[i]

\* The next node of a stack; behind the last one when there is none.
Top(s) == IF s = <<>> THEN N + 1 ELSE Last(s)

\* s holds what is ahead, in order.
Stands(s) == Falls(s) /\ \A n \in Nodes : n \in Ahead(Top(s)) <=> \E i \in DOMAIN s : s[i] = n

\* The nodes below a directory, in their order.
LEMMA KidsAre ==
  ASSUME SetupOK, NEW n \in Nodes
  PROVE  /\ Kids(n) \in Seq(Nodes) /\ Rises(Kids(n))
         /\ \A m \in Nodes : m # n /\ tree.parent[m] = n <=> \E i \in DOMAIN Kids(n) : Kids(n)[i] = m
<1> DEFINE S == {m \in Nodes : m # n /\ tree.parent[m] = n}
           s == Kids(n)
<1>1. N \in Nat /\ Nodes = 1..N
  BY TreeIs
<1>2. s = FirstIn(N, S)[N]
  BY FirstIs DEF Kids, InOrder, N
<1>3. Orders(s, S, N)
  BY <1>1, <1>2, FirstOrders
<1> HIDE DEF s
<1>4. \A i \in DOMAIN s : s[i] \in Nodes
  BY <1>3 DEF Orders
<1>5. s \in Seq(Nodes)
  <2>1. s \in Seq(Nat)
    BY <1>3 DEF Orders
  <2> QED
    BY <2>1, <1>4
<1>6. \A m \in Nodes : m \in S <=> \E i \in DOMAIN s : s[i] = m
  BY <1>1, <1>3 DEF Orders
<1> QED
  BY <1>3, <1>5, <1>6 DEF Orders, s

\* The last element of a falling sequence is the least.
LEMMA TopIsLeast ==
  ASSUME SetupOK, NEW s \in Seq(Nodes), Falls(s)
  PROVE  /\ Top(s) \in 1..(N + 1)
         /\ \A i \in DOMAIN s : Top(s) <= s[i]
         /\ s # <<>> => Top(s) = s[Len(s)] /\ Len(s) \in DOMAIN s
<1>1. N \in Nat /\ Nodes = 1..N
  BY TreeIs
<1>2. CASE s = <<>>
  BY <1>1, <1>2 DEF Top
<1>3. CASE s # <<>>
  <2>1. Len(s) \in DOMAIN s /\ Top(s) = s[Len(s)] /\ Top(s) \in Nodes
    BY <1>3 DEF Top, Last
  <2>2. ASSUME NEW i \in DOMAIN s PROVE Top(s) <= s[i]
    <3>1. i \in 1..Len(s) /\ s[i] \in Nodes
      OBVIOUS
    <3>2. CASE i = Len(s)
      BY <1>1, <2>1, <3>1, <3>2
    <3>3. CASE i # Len(s)
      <4>1. i < Len(s)
        BY <3>1, <3>3
      <4>2. s[Len(s)] < s[i]
        BY <2>1, <4>1 DEF Falls
      <4> QED
        BY <1>1, <2>1, <3>1, <4>2
    <3> QED
      BY <3>2, <3>3
  <2> QED
    BY <1>1, <2>1, <2>2
<1> QED
  BY <1>2, <1>3

\* Visiting the top of the stack: the children take its place, and no kept
\* node lies between it and the next top.
LEMMA VisitStands ==
  ASSUME SetupOK, NEW s \in Seq(Nodes), s # <<>>, Stands(s),
         NEW kids \in Seq(Nodes), Rises(kids),
         \A m \in Nodes : (m # Last(s) /\ tree.parent[m] = Last(s) /\ Reached(m))
                            <=> \E i \in DOMAIN kids : kids[i] = m
  PROVE  LET t == Front(s) \o Reverse(kids) IN
         /\ t \in Seq(Nodes) /\ Stands(t)
         /\ Last(s) \in Nodes /\ Reached(Last(s)) /\ Last(s) < Top(t) /\ Top(t) <= N + 1
         /\ \A m \in Nodes : Last(s) < m /\ m < Top(t) => ~Kept[m]
<1> DEFINE n == Last(s)
           k == Len(kids)
           l == Len(s) - 1
           t == Front(s) \o Reverse(kids)
           up == tree.parent
           Kid(m) == m # n /\ up[m] = n /\ Reached(m)
<1>1. /\ N \in Nat /\ N >= 1 /\ Nodes = 1..N /\ 1 \in Nodes
      /\ up \in [Nodes -> Nodes] /\ up[1] = 1
      /\ \A a \in Nodes : a # 1 => up[a] < a
      /\ \A a, b \in Nodes : a # 1 /\ up[a] < b /\ b <= a => up[b] >= up[a]
  BY TreeIs
<1>2. /\ n = Top(s) /\ n = s[Len(s)] /\ n \in Nodes /\ l \in Nat /\ k \in Nat /\ Len(s) \in DOMAIN s
      /\ DOMAIN s = 1..(l + 1) /\ DOMAIN kids = 1..k /\ Len(s) = l + 1
  BY TopIsLeast DEF Last, Stands, Top
<1>3. /\ Falls(s)
      /\ \A m \in Nodes : m \in Ahead(n) <=> \E i \in DOMAIN s : s[i] = m
  BY <1>2 DEF Stands
<1>4. /\ t \in Seq(Nodes) /\ DOMAIN t = 1..(l + k)
      /\ \A i \in 1..l : t[i] = s[i]
      /\ \A i \in 1..k : t[l + i] = kids[(k - i) + 1] /\ (k - i) + 1 \in DOMAIN kids
  <2> DEFINE a == Front(s)
             b == Reverse(kids)
  <2>1. a \in Seq(Nodes) /\ Len(a) = l /\ \A i \in 1..l : a[i] = s[i]
    BY <1>2 DEF Front
  <2>2. Len(b) = k /\ b \in Seq(Nodes) /\ \A i \in 1..k : b[i] = kids[(k - i) + 1] /\ (k - i) + 1 \in 1..k
    <3>1. \A i \in 1..k : (k - i) + 1 \in 1..k
      BY <1>2
    <3>2. b = [i \in 1..k |-> kids[(k - i) + 1]]
      BY DEF Reverse
    <3>3. \A i \in 1..k : kids[(k - i) + 1] \in Nodes
      BY <1>2, <3>1
    <3> HIDE DEF b
    <3> QED
      BY <1>2, <3>1, <3>2, <3>3
  <2>3. t = a \o b
    OBVIOUS
  <2>0. l \in Nat /\ k \in Nat
    BY <1>2
  <2> HIDE DEF a, b, t, l, k
  <2>4. t \in Seq(Nodes) /\ Len(t) = l + k
    BY <2>0, <2>1, <2>2, <2>3, ConcatProperties
  <2>5. \A i \in 1..l : t[i] = s[i]
    BY <2>1, <2>2, <2>3, <1>2
  <2>6. \A i \in 1..k : t[l + i] = b[i]
    BY <2>1, <2>2, <2>3, <1>2
  <2> QED
    BY <1>2, <2>2, <2>4, <2>5, <2>6
<1> HIDE DEF t
<1>5. \A m \in Nodes : Kid(m) <=> \E i \in DOMAIN kids : kids[i] = m
  OBVIOUS
<1>6. \A i \in 1..l : s[i] \in Nodes /\ s[i] > n /\ up[s[i]] < n /\ s[i] # 1 /\ Reached(s[i])
  <2> TAKE i \in 1..l
  <2>1. i \in DOMAIN s /\ i < Len(s)
    BY <1>2
  <2>2. s[i] \in Nodes /\ n < s[i]
    BY <1>2, <1>3, <2>1 DEF Falls
  <2>3. s[i] \in Ahead(n)
    BY <1>3, <2>1, <2>2
  <2>4. s[i] # 1
    BY <1>1, <1>2, <2>2
  <2> QED
    BY <1>1, <1>2, <2>2, <2>3, <2>4 DEF Ahead
<1>7. \A i \in DOMAIN kids : kids[i] \in Nodes /\ kids[i] > n /\ up[kids[i]] = n /\ Reached(kids[i])
  <2> TAKE i \in DOMAIN kids
  <2>1. kids[i] \in Nodes /\ Kid(kids[i])
    BY <1>5
  <2>2. kids[i] # 1
    BY <1>1, <2>1
  <2>3. up[kids[i]] < kids[i]
    BY <1>1, <2>1, <2>2
  <2> QED
    BY <1>1, <1>2, <2>1, <2>3
<1>8. \A i \in 1..l, j \in DOMAIN kids : kids[j] < s[i]
  <2> TAKE i \in 1..l, j \in DOMAIN kids
  <2> DEFINE x == s[i]
             y == kids[j]
  <2>1. x \in Nodes /\ x > n /\ up[x] < n
    BY <1>6
  <2>2. y \in Nodes /\ y > n /\ up[y] = n
    BY <1>7
  <2> HIDE DEF x, y
  <2>3. y # 1
    BY <1>1, <1>2, <2>2
  <2>4. ~(x <= y)
    <3> SUFFICES ASSUME x <= y PROVE FALSE
      OBVIOUS
    <3>1. up[x] >= up[y]
      BY <1>1, <2>1, <2>2, <2>3
    <3>2. up[x] \in Int /\ n \in Int
      BY <1>1, <1>2, <2>1
    <3> QED
      BY <2>1, <2>2, <3>1, <3>2
  <2>5. y < x
    BY <1>1, <2>1, <2>2, <2>4
  <2> QED
    BY <2>5 DEF x, y
<1>9. Falls(t)
  <2> SUFFICES ASSUME NEW i \in 1..(l + k), NEW j \in 1..(l + k), i < j
               PROVE  t[j] < t[i]
    BY <1>4 DEF Falls
  <2>1. CASE j <= l
    <3>1. i \in 1..l /\ j \in 1..l /\ i \in DOMAIN s /\ j \in DOMAIN s
      BY <1>2, <2>1
    <3> QED
      BY <1>3, <1>4, <3>1 DEF Falls
  <2>2. CASE i <= l /\ l < j
    <3>1. i \in 1..l /\ j - l \in 1..k /\ l + (j - l) = j
      BY <1>2, <2>2
    <3>2. t[j] = kids[(k - (j - l)) + 1] /\ (k - (j - l)) + 1 \in DOMAIN kids
      BY <1>4, <3>1
    <3> QED
      BY <1>4, <1>8, <3>1, <3>2
  <2>3. CASE l < i
    <3>1. i - l \in 1..k /\ l + (i - l) = i /\ j - l \in 1..k /\ l + (j - l) = j
      BY <1>2, <2>3
    <3>2. t[j] = kids[(k - (j - l)) + 1] /\ (k - (j - l)) + 1 \in DOMAIN kids
      BY <1>4, <3>1
    <3>3. t[i] = kids[(k - (i - l)) + 1] /\ (k - (i - l)) + 1 \in DOMAIN kids
      BY <1>4, <3>1
    <3>4. (k - (j - l)) + 1 < (k - (i - l)) + 1
      BY <1>2
    <3> QED
      BY <3>2, <3>3, <3>4 DEF Rises
  <2> QED
    BY <1>2, <2>1, <2>2, <2>3
<1> DEFINE f == Top(t)
           In(m) == \E i \in DOMAIN t : t[i] = m
<1>10. \A m \in Nodes : In(m) <=> (m \in Ahead(n) /\ m # n) \/ Kid(m)
  <2> TAKE m \in Nodes
  <2>1. ASSUME In(m) PROVE (m \in Ahead(n) /\ m # n) \/ Kid(m)
    <3>1. PICK i \in 1..(l + k) : t[i] = m
      BY <1>4, <2>1
    <3>2. CASE i <= l
      <4>1. i \in 1..l /\ i \in DOMAIN s /\ s[i] = m
        BY <1>2, <1>4, <3>1, <3>2
      <4>2. m > n
        BY <1>6, <4>1
      <4>3. m # n
        BY <1>1, <1>2, <4>2
      <4>4. m \in Ahead(n)
        BY <1>3, <4>1
      <4> QED
        BY <4>3, <4>4
    <3>3. CASE l < i
      <4>1. i - l \in 1..k /\ l + (i - l) = i
        BY <1>2, <3>3
      <4>2. m = kids[(k - (i - l)) + 1] /\ (k - (i - l)) + 1 \in DOMAIN kids
        BY <1>4, <3>1, <4>1
      <4> QED
        BY <1>5, <4>2
    <3> QED
      BY <1>2, <3>2, <3>3
  <2>2. ASSUME m \in Ahead(n), m # n PROVE In(m)
    <3>1. PICK i \in DOMAIN s : s[i] = m
      BY <1>3, <2>2
    <3>2. i # Len(s)
      BY <1>2, <2>2, <3>1
    <3>3. i \in 1..l /\ i \in 1..(l + k)
      BY <1>2, <3>1, <3>2
    <3> QED
      BY <1>4, <3>1, <3>3
  <2>3. ASSUME Kid(m) PROVE In(m)
    <3>1. PICK i \in 1..k : kids[i] = m
      BY <1>2, <1>5, <2>3
    <3> DEFINE j == (k - i) + 1
    <3>2. j \in 1..k /\ (k - j) + 1 = i /\ l + j \in 1..(l + k)
      BY <1>2
    <3>3. t[l + j] = kids[i]
      BY <1>4, <3>2
    <3> QED
      BY <1>4, <3>1, <3>2, <3>3
  <2> QED
    BY <2>1, <2>2, <2>3
<1>11. /\ f \in 1..(N + 1)
       /\ \A m \in Nodes : In(m) => f <= m
       /\ t # <<>> => f \in Nodes /\ In(f)
       /\ t = <<>> => f = N + 1
  <2>1. /\ f \in 1..(N + 1) /\ \A i \in DOMAIN t : f <= t[i]
        /\ t # <<>> => f = t[Len(t)] /\ Len(t) \in DOMAIN t
    BY <1>4, <1>9, TopIsLeast
  <2>2. t # <<>> => f \in Nodes /\ In(f)
    BY <1>4, <2>1
  <2> QED
    BY <2>1, <2>2 DEF Top
<1> HIDE DEF f, In
<1>12. n < f
  <2>1. CASE t = <<>>
    BY <1>1, <1>2, <1>11, <2>1
  <2>2. CASE t # <<>>
    <3>1. f \in Nodes /\ ((f \in Ahead(n) /\ f # n) \/ Kid(f))
      BY <1>10, <1>11, <2>2
    <3>2. CASE f \in Ahead(n) /\ f # n
      BY <1>1, <1>2, <3>1, <3>2 DEF Ahead
    <3>3. CASE Kid(f)
      <4>1. f # 1 /\ up[f] < f
        BY <1>1, <3>1, <3>3
      <4> QED
        BY <3>3, <4>1
    <3> QED
      BY <3>1, <3>2, <3>3
  <2> QED
    BY <2>1, <2>2
<1>13. \A m \in Nodes : n < m /\ m < f => ~Kept[m]
  <2> DEFINE T == {m \in Nodes : n < m /\ m < f /\ Kept[m]}
  <2> SUFFICES ASSUME T # {} PROVE FALSE
    OBVIOUS
  <2>1. T \subseteq Nat
    BY <1>1
  <2>2. PICK m \in T : \A a \in T : m <= a
    BY <2>1, Smallest
  <2>3. m \in Nodes /\ n < m /\ m < f /\ Kept[m]
    BY <2>2
  <2>4. m # 1
    BY <1>1, <1>2, <2>3
  <2>5. up[m] \in Nodes /\ up[m] < m /\ Kept[up[m]]
    BY <1>1, <2>3, <2>4, KeptGoes
  <2>6. ~(n < up[m])
    <3>0. m \in Int /\ n \in Int /\ f \in Int /\ up[m] \in Int
      BY <1>1, <1>2, <1>11, <2>3, <2>5
    <3>1. ~(m <= up[m]) /\ (n < up[m] => up[m] < f)
      BY <2>3, <2>5, <3>0
    <3>2. up[m] \notin T
      BY <2>2, <3>1
    <3> QED
      BY <2>5, <3>1, <3>2
  <2>7. In(m)
    <3>1. CASE up[m] = n
      <4>1. Kid(m)
        BY <1>1, <1>2, <2>3, <2>5, <3>1 DEF Reached
      <4> QED
        BY <1>10, <2>3, <4>1
    <3>2. CASE up[m] # n
      <4>0. m \in Int /\ n \in Int /\ up[m] \in Int
        BY <1>1, <1>2, <2>3, <2>5
      <4>1. up[m] < n /\ m >= n /\ m # n
        BY <2>3, <2>6, <3>2, <4>0
      <4>2. m \in Ahead(n)
        BY <2>3, <2>5, <4>1 DEF Ahead, Reached
      <4> QED
        BY <1>10, <2>3, <4>1, <4>2
    <3> QED
      BY <3>1, <3>2
  <2>8. f <= m
    BY <1>11, <2>3, <2>7
  <2> QED
    BY <1>1, <1>11, <2>3, <2>8
<1>14. \A m \in Nodes : m \in Ahead(f) <=> In(m)
  <2> TAKE m \in Nodes
  <2>1. ASSUME In(m) PROVE m \in Ahead(f)
    <3>1. m >= f
      BY <1>1, <1>11, <2>1
    <3>2. CASE m \in Ahead(n) /\ m # n
      <4>1. up[m] \in Int /\ n \in Int /\ f \in Int
        BY <1>1, <1>2, <1>11
      <4> QED
        BY <1>12, <3>1, <3>2, <4>1 DEF Ahead
    <3>3. CASE Kid(m)
      BY <1>12, <3>1, <3>3 DEF Ahead
    <3> QED
      BY <1>10, <2>1, <3>2, <3>3
  <2>2. ASSUME m \in Ahead(f) PROVE In(m)
    <3>1. m >= f /\ Reached(m) /\ (m = 1 \/ up[m] < f)
      BY <2>2 DEF Ahead
    <3>0. m \in Int /\ n \in Int /\ f \in Int /\ n >= 1
      BY <1>1, <1>2, <1>11
    <3>2. m # 1 /\ m # n /\ m >= n
      BY <1>12, <3>0, <3>1
    <3>3. up[m] \in Nodes /\ Kept[up[m]] /\ up[m] < f
      BY <1>1, <3>1, <3>2 DEF Reached
    <3>4. ~(n < up[m])
      BY <1>13, <3>3
    <3>5. CASE up[m] = n
      <4>1. Kid(m)
        BY <3>1, <3>2, <3>5
      <4> QED
        BY <1>10, <4>1
    <3>6. CASE up[m] # n
      <4>0. up[m] \in Int
        BY <1>1, <3>3
      <4>1. up[m] < n
        BY <3>0, <3>4, <3>6, <4>0
      <4>2. m \in Ahead(n)
        BY <3>1, <3>2, <4>1 DEF Ahead
      <4> QED
        BY <1>10, <3>2, <4>2
    <3> QED
      BY <3>5, <3>6
  <2> QED
    BY <2>1, <2>2
<1>15. Reached(n)
  <2>1. n \in Ahead(n)
    BY <1>2, <1>3
  <2> QED
    BY <2>1 DEF Ahead
<1>16. Stands(t)
  BY <1>9, <1>14 DEF Stands, f, In
<1>17. t \in Seq(Nodes) /\ n < Top(t) /\ Top(t) <= N + 1
  BY <1>1, <1>4, <1>11, <1>12 DEF f
<1>18. \A m \in Nodes : n < m /\ m < Top(t) => ~Kept[m]
  BY <1>13 DEF f
<1> QED
  BY <1>2, <1>15, <1>16, <1>17, <1>18 DEF t

-----------------------------------------------------------------------------
(* One listing after the other                                             *)

Joins(f, s, n) == f = [i \in 1..n |-> IF i = 1 THEN s[i] ELSE f[i - 1] \o s[i]]
JoinedIn(s) ==
  LET flatten[i \in 1..Len(s)] == IF i = 1 THEN s[i] ELSE flatten[i - 1] \o s[i] IN flatten

\* Some sequences can be joined one by one.
LEMMA JoinsExist ==
  ASSUME NEW s, NEW n \in Nat
  PROVE  \E f : Joins(f, s, n)
<1> DEFINE T == {m \in Nat : ~\E f : Joins(f, s, m)}
<1> SUFFICES ASSUME T # {} PROVE FALSE
  OBVIOUS
<1>1. T \subseteq Nat
  OBVIOUS
<1>2. PICK m \in T : \A k \in T : m <= k
  BY <1>1, Smallest
<1>3. m \in Nat /\ ~\E f : Joins(f, s, m)
  BY <1>2
<1>4. m # 0
  <2> DEFINE f == [i \in 1..0 |-> <<>>]
  <2>1. Joins(f, s, 0)
    BY DEF Joins
  <2> QED
    BY <1>3, <2>1
<1>5. m - 1 \in Nat /\ ~(m <= m - 1)
  BY <1>3, <1>4
<1>6. PICK g : Joins(g, s, m - 1)
  BY <1>2, <1>5
<1> DEFINE f == [i \in 1..m |-> IF i = m THEN IF m = 1 THEN s[m] ELSE g[m - 1] \o s[m] ELSE g[i]]
<1>7. \A i \in 1..m : f[i] = IF i = 1 THEN s[i] ELSE f[i - 1] \o s[i]
  <2> TAKE i \in 1..m
  <2>1. CASE i = m
    BY <1>3, <1>4, <2>1
  <2>2. CASE i # m
    <3>1. i \in 1..(m - 1)
      BY <1>3, <2>2
    <3>2. g[i] = IF i = 1 THEN s[i] ELSE g[i - 1] \o s[i]
      BY <1>6, <3>1 DEF Joins
    <3>3. i # 1 => i - 1 \in 1..m /\ i - 1 # m
      BY <3>1, <1>3
    <3> QED
      BY <2>2, <3>2, <3>3
  <2> QED
    BY <2>1, <2>2
<1>8. Joins(f, s, m)
  BY <1>7 DEF Joins
<1> QED
  BY <1>3, <1>8

\* The sequences of s joined, one by one.
LEMMA JoinedGoes ==
  ASSUME NEW s, Len(s) \in Nat
  PROVE  \A i \in 1..Len(s) :
           JoinedIn(s)[i] = IF i = 1 THEN s[i] ELSE JoinedIn(s)[i - 1] \o s[i]
<1> DEFINE f == JoinedIn(s)
<1>1. \E g : Joins(g, s, Len(s))
  BY JoinsExist
<1>2. f = CHOOSE g : Joins(g, s, Len(s))
  BY DEF JoinedIn, Joins
<1>3. Joins(f, s, Len(s))
  BY <1>1, <1>2
<1> HIDE DEF f
<1>4. \A i \in 1..Len(s) : f[i] = IF i = 1 THEN s[i] ELSE f[i - 1] \o s[i]
  BY <1>3 DEF Joins
<1> QED
  BY <1>4 DEF f

Copies(k, list) == [c \in 1..k |-> list]

\* The same list some times, and once more.
LEMMA OnceMore ==
  ASSUME NEW k \in Nat, NEW list \in Seq(Nat)
  PROVE  /\ FlattenSeq(Copies(k, list)) \in Seq(Nat)
         /\ FlattenSeq(Copies(0, list)) = <<>>
         /\ FlattenSeq(Copies(k + 1, list)) = FlattenSeq(Copies(k, list)) \o list
<1>1. ASSUME NEW n \in Nat
      PROVE  /\ Copies(n, list) \in Seq(Seq(Nat)) /\ Len(Copies(n, list)) = n
             /\ \A i \in 1..n : Copies(n, list)[i] = list
  BY DEF Copies
<1>2. ASSUME NEW n \in Nat
      PROVE  /\ n = 0 => FlattenSeq(Copies(n, list)) = <<>>
             /\ n # 0 => FlattenSeq(Copies(n, list)) = JoinedIn(Copies(n, list))[n]
  <2> DEFINE s == Copies(n, list)
  <2>1. s \in Seq(Seq(Nat)) /\ Len(s) = n
    BY <1>1
  <2> HIDE DEF s
  <2>2. n = 0 => s = <<>>
    BY <2>1
  <2>3. FlattenSeq(s) = IF Len(s) = 0 THEN s ELSE JoinedIn(s)[Len(s)]
    BY DEF FlattenSeq, JoinedIn
  <2> QED
    BY <2>1, <2>2, <2>3 DEF s
<1>3. ASSUME NEW n \in Nat
      PROVE  \A i \in 1..n : JoinedIn(Copies(n, list))[i] =
                IF i = 1 THEN list ELSE JoinedIn(Copies(n, list))[i - 1] \o list
  <2> DEFINE s == Copies(n, list)
  <2>1. Len(s) = n /\ \A i \in 1..n : s[i] = list
    BY <1>1
  <2> HIDE DEF s
  <2>2. \A i \in 1..n : JoinedIn(s)[i] = IF i = 1 THEN s[i] ELSE JoinedIn(s)[i - 1] \o s[i]
    BY <2>1, JoinedGoes
  <2> QED
    BY <2>1, <2>2 DEF s
<1> DEFINE f == JoinedIn(Copies(k, list))
           g == JoinedIn(Copies(k + 1, list))
<1>4. k + 1 \in Nat /\ k + 1 \in 1..(k + 1)
  OBVIOUS
<1>5. /\ \A i \in 1..k : f[i] = IF i = 1 THEN list ELSE f[i - 1] \o list
      /\ \A i \in 1..(k + 1) : g[i] = IF i = 1 THEN list ELSE g[i - 1] \o list
  BY <1>3, <1>4
<1> HIDE DEF f, g
<1> DEFINE T == {i \in 1..k : ~(f[i] = g[i] /\ f[i] \in Seq(Nat))}
<1>6. T = {}
  <2> SUFFICES ASSUME T # {} PROVE FALSE
    OBVIOUS
  <2>1. T \subseteq Nat
    OBVIOUS
  <2>2. PICK m \in T : \A i \in T : m <= i
    BY <2>1, Smallest
  <2>3. m \in 1..k /\ m \in 1..(k + 1) /\ ~(f[m] = g[m] /\ f[m] \in Seq(Nat))
    BY <2>2
  <2>4. m # 1
    BY <1>5, <2>3
  <2>5. m - 1 \in 1..k /\ ~(m <= m - 1)
    BY <2>3, <2>4
  <2>6. f[m - 1] = g[m - 1] /\ f[m - 1] \in Seq(Nat)
    BY <2>2, <2>5
  <2>7. f[m] = f[m - 1] \o list /\ g[m] = g[m - 1] \o list
    BY <1>5, <2>3, <2>4
  <2> QED
    BY <2>3, <2>6, <2>7
<1>7. CASE k = 0
  <2>1. g[1] = list
    BY <1>5, <1>7
  <2>2. FlattenSeq(Copies(k + 1, list)) = list
    <3>1. k + 1 # 0 /\ k + 1 = 1
      BY <1>7
    <3>2. FlattenSeq(Copies(k + 1, list)) = g[k + 1]
      BY <1>2, <1>4, <3>1 DEF g
    <3> QED
      BY <2>1, <3>1, <3>2
  <2>3. FlattenSeq(Copies(0, list)) = <<>> /\ FlattenSeq(Copies(k, list)) = <<>>
    BY <1>2, <1>7
  <2>4. <<>> \o list = list /\ <<>> \in Seq(Nat)
    OBVIOUS
  <2> QED
    BY <2>2, <2>3, <2>4
<1>8. CASE k # 0
  <2>1. k \in 1..k
    BY <1>8
  <2>2. f[k] = g[k] /\ f[k] \in Seq(Nat)
    BY <1>6, <2>1
  <2>3. g[k + 1] = g[k] \o list
    <3>1. g[k + 1] = IF k + 1 = 1 THEN list ELSE g[(k + 1) - 1] \o list
      BY <1>4, <1>5
    <3>2. k + 1 # 1 /\ (k + 1) - 1 = k
      BY <1>8
    <3> QED
      BY <3>1, <3>2
  <2>4. FlattenSeq(Copies(k, list)) = f[k]
    BY <1>2, <1>8 DEF f
  <2>5. FlattenSeq(Copies(k + 1, list)) = g[k + 1]
    <3>1. k + 1 # 0
      OBVIOUS
    <3> QED
      BY <1>2, <1>4, <3>1 DEF g
  <2>6. FlattenSeq(Copies(0, list)) = <<>>
    BY <1>2
  <2> QED
    BY <2>2, <2>3, <2>4, <2>5, <2>6
<1> QED
  BY <1>7, <1>8

-----------------------------------------------------------------------------
(* The members of the archive                                              *)

Items == [node : Nodes, size : Nat, data : Nat]
NodesOf(s) == [i \in DOMAIN s |-> s[i].node]

\* A member has the node, the size and the data it is made of.
LEMMA ItemIs ==
  ASSUME SetupOK, NEW n \in Nodes, NEW a \in Nat, NEW b \in Nat
  PROVE  /\ Item(n, a, b) \in Items /\ <<Item(n, a, b)>> \in Seq(Items)
         /\ Item(n, a, b).node = n /\ Item(n, a, b).size = a /\ Item(n, a, b).data = b
         /\ NodesOf(<<Item(n, a, b)>>) = <<n>>
<1>1. /\ Item(n, a, b) \in Items
      /\ Item(n, a, b).node = n /\ Item(n, a, b).size = a /\ Item(n, a, b).data = b
  BY DEF Item, Items
<1> DEFINE x == Item(n, a, b)
<1> HIDE DEF x
<1>2. <<x>> \in Seq(Items)
  BY <1>1 DEF x
<1>3. NodesOf(<<x>>) = <<n>>
  <2>1. DOMAIN <<x>> = 1..1 /\ <<x>>[1].node = n
    BY <1>1 DEF x
  <2>2. NodesOf(<<x>>) = [i \in 1..1 |-> n]
    BY <2>1 DEF NodesOf
  <2> QED
    BY <2>2
<1> QED
  BY <1>1, <1>2, <1>3 DEF x

\* The nodes of members behind each other.
LEMMA NodesOfJoined ==
  ASSUME SetupOK, NEW s \in Seq(Items), NEW t \in Seq(Items)
  PROVE  /\ NodesOf(s \o t) = NodesOf(s) \o NodesOf(t)
         /\ NodesOf(s) \in Seq(Nat) /\ NodesOf(<<>>) = <<>>
<1>1. /\ s \o t \in Seq(Items) /\ Len(s \o t) = Len(s) + Len(t)
      /\ \A i \in 1..Len(s) : (s \o t)[i] = s[i]
      /\ \A i \in (Len(s) + 1)..(Len(s) + Len(t)) : (s \o t)[i] = t[i - Len(s)]
  BY ConcatProperties
<1>2. Nodes \subseteq Nat
  BY TreeIs
<1>3. ASSUME NEW u \in Seq(Items)
      PROVE  NodesOf(u) \in Seq(Nat) /\ Len(NodesOf(u)) = Len(u) /\ DOMAIN NodesOf(u) = 1..Len(u)
             /\ \A i \in 1..Len(u) : NodesOf(u)[i] = u[i].node
  <2>1. \A i \in 1..Len(u) : u[i].node \in Nat
    <3> TAKE i \in 1..Len(u)
    <3>1. u[i] \in Items
      OBVIOUS
    <3> QED
      BY <1>2, <3>1 DEF Items
  <2>2. NodesOf(u) = [i \in 1..Len(u) |-> u[i].node]
    BY DEF NodesOf
  <2> QED
    BY <2>1, <2>2
<1> DEFINE a == NodesOf(s)
           b == NodesOf(t)
           c == NodesOf(s \o t)
<1>4. /\ a \in Seq(Nat) /\ b \in Seq(Nat) /\ c \in Seq(Nat)
      /\ Len(a) = Len(s) /\ Len(b) = Len(t) /\ Len(c) = Len(s) + Len(t)
  BY <1>1, <1>3
<1>5. \A i \in 1..(Len(s) + Len(t)) : c[i] = (a \o b)[i]
  <2> TAKE i \in 1..(Len(s) + Len(t))
  <2>1. c[i] = (s \o t)[i].node
    BY <1>1, <1>3
  <2>2. CASE i \in 1..Len(s)
    <3>1. a[i] = s[i].node
      BY <1>3, <2>2
    <3>2. (a \o b)[i] = a[i]
      BY <1>4, <2>2, ConcatProperties
    <3> QED
      BY <1>1, <2>1, <2>2, <3>1, <3>2
  <2>3. CASE i \notin 1..Len(s)
    <3>1. i \in (Len(s) + 1)..(Len(s) + Len(t)) /\ i - Len(s) \in 1..Len(t)
      BY <2>3
    <3>2. b[i - Len(s)] = t[i - Len(s)].node
      BY <1>3, <3>1
    <3>3. (a \o b)[i] = b[i - Len(s)]
      BY <1>4, <3>1, ConcatProperties
    <3> QED
      BY <1>1, <2>1, <3>1, <3>2, <3>3
  <2> QED
    BY <2>2, <2>3
<1>6. c = a \o b
  <2>1. a \o b \in Seq(Nat) /\ Len(a \o b) = Len(s) + Len(t)
    BY <1>4, ConcatProperties
  <2> HIDE DEF a, b, c
  <2> QED
    BY <1>4, <1>5, <2>1
<1>7. NodesOf(<<>>) = <<>>
  BY DEF NodesOf
<1> QED
  BY <1>3, <1>6, <1>7

-----------------------------------------------------------------------------
(* The inductive invariant                                                 *)

StackInv == pc \in {"walk", "stream"} => Stands(stack)

\* The file that is read is the last kept node before the top of the stack.
StreamInv ==
  pc = "stream" =>
    /\ cur.node \in Files /\ cur.node < Top(stack)
    /\ \A n \in Nodes : cur.node < n /\ n < Top(stack) => ~Kept[n]
    /\ cur.last <= cur.read /\ cur.read <= setup.real[cur.node]
    /\ tree.stat[cur.node] >= BlockCap => pending = <<>>

\* How many nodes the call has dealt with.
Past ==
  IF pc = "scanned" THEN 0
  ELSE IF pc = "walk" THEN Top(stack) - 1
  ELSE IF pc = "stream" THEN cur.node - 1
  ELSE N

Running == pc \in {"scanned", "walk", "stream"}
Succeeded == pc = "returned" /\ result = "ok"

CountTo(n) == [entries |-> Cardinality(Below(Files, n)), bytes |-> BytesOfFiles[n]]

CountInv ==
  /\ Running => calls > 0
  /\ Running \/ (Succeeded /\ calls > 0) => done = CountTo(Past)
  /\ setup.sink /\ calls > 0 => total = PreScan

Listings(k) == FlattenSeq(Copies(k, Listing))

\* A file is in the archive as it was read, and is as long as it says.
IsWhole(m) ==
  ~IsDir(m.node) => /\ m.data = setup.real[m.node]
                    /\ Unchanged \/ setup.fmt # "tar" => m.size = m.data
Whole(s) == \A i \in DOMAIN s : IsWhole(s[i])

WrittenInv ==
  /\ Whole(out) /\ Whole(pending)
  /\ ~Solid => pending = <<>>
  /\ Running => NodesOf(out \o pending) = Listings(calls - 1) \o FirstListed[Past]
  /\ Succeeded => NodesOf(out \o pending) = Listings(calls)
  /\ result = "committed" => NodesOf(out) = Listings(calls)

ToldInv ==
  setup.sink /\ calls > 0 /\ Unchanged =>
    /\ pc = "scanned" => told = 0
    /\ pc = "walk" \/ Succeeded => told = done.bytes
    /\ pc # "closed" => told <= total.bytes

CancelInv ==
  /\ refused => pc = "returned" /\ result = "canceled"
  /\ Running => result = "ok"
  /\ result = "committed" => pc = "closed"

\* The types of everything but whole, which only a commit sets.
WalkTyped ==
  /\ pc \in {"returned", "scanned", "walk", "stream", "closed"}
  /\ result \in {"ok", "failed", "canceled", "committed"}
  /\ calls \in 0..Calls /\ stack \in Seq(Nodes)
  /\ total \in [entries : Nat, bytes : Nat] /\ done \in [entries : Nat, bytes : Nat]
  /\ cur \in [node : Nodes \cup {0}, read : Nat, last : Nat]
  /\ pending \in Seq([node : Nodes, size : Nat, data : Nat])
  /\ pending_bytes \in 0..(BlockCap - 1)
  /\ out \in Seq([node : Nodes, size : Nat, data : Nat])
  /\ told \in Nat /\ refused \in BOOLEAN

\* An Ok of a writer that hands the last flush's error on is true.
FlushInv ==
  /\ whole \in BOOLEAN
  /\ result = "committed" /\ ~DropsLastBuffer => whole

IInv == /\ WalkTyped /\ SetupOK /\ StackInv /\ StreamInv /\ CountInv /\ WrittenInv
        /\ ToldInv /\ CancelInv

-----------------------------------------------------------------------------
(* What the counts and the listing are, to any node.                       *)

Counts == [entries : Nat, bytes : Nat]

\* The listing and the counts are typed and stay below the totals; at the last
\* node they are complete, and before the first there is nothing.
LEMMA Bounds ==
  ASSUME SetupOK
  PROVE  /\ \A k \in 0..N : /\ FirstListed[k] \in Seq(Nat) /\ CountTo(k) \in Counts
                            /\ CountTo(k).bytes <= PreScan.bytes
         /\ CountTo(N) = PreScan /\ PreScan \in Counts /\ CountTo(0) = NoCount
         /\ FirstListed[0] = <<>> /\ Listing = FirstListed[N] /\ Listing \in Seq(Nat)
<1>1. N \in Nat /\ Nodes = 1..N /\ tree.stat \in [1..N -> Nat]
  BY TreeIs
<1>2. Files \subseteq 1..N /\ IsFiniteSet(1..N)
  BY <1>1, FS_Interval DEF Files
<1>3. ASSUME NEW k \in 0..N
      PROVE  FirstListed[k] \in Seq(Nat) /\ CountTo(k) \in Counts
             /\ BytesOfFiles[k] <= BytesOfFiles[N]
  <2>1. FirstListed[k] \in Seq(Nat)
    BY <1>1, FirstOrders, ListingIs DEF Orders
  <2>2. BytesOfFiles[k] \in Nat /\ BytesOfFiles[k] <= BytesOfFiles[N]
    BY <1>1, BytesAdd, ListingIs
  <2>3. IsFiniteSet(Below(Files, k))
    <3>1. Below(Files, k) \subseteq 1..N
      BY <1>2 DEF Below
    <3> QED
      BY <1>2, <3>1, FS_Subset
  <2>4. Cardinality(Below(Files, k)) \in Nat
    BY <2>3, FS_CardinalityType
  <2> QED
    BY <2>1, <2>2, <2>4 DEF CountTo, Counts
<1>4. Below(Files, N) = Files /\ Below(Files, 0) = {}
  <2>1. \A n \in Files : n <= N /\ ~(n <= 0)
    BY <1>1, <1>2
  <2> QED
    BY <2>1 DEF Below
<1>5. CountTo(N) = PreScan
  BY <1>4, ListingIs DEF CountTo
<1>6. CountTo(0) = NoCount
  <2>1. BytesOfFiles[0] = 0
    BY <1>1, BytesAdd, ListingIs
  <2>2. Cardinality(Below(Files, 0)) = 0
    BY <1>4, FS_EmptySet
  <2> QED
    BY <2>1, <2>2 DEF CountTo, NoCount
<1>7. FirstListed[0] = <<>>
  BY <1>1, FirstGoes, ListingIs
<1>8. N \in 0..N /\ Listing = FirstListed[N]
  BY <1>1, ListingIs
<1>9. \A k \in 0..N : CountTo(k).bytes <= PreScan.bytes
  BY <1>3, <1>5 DEF CountTo
<1> QED
  BY <1>3, <1>5, <1>6, <1>7, <1>8, <1>9

\* Having dealt with node n, when nothing is kept from there to e.
LEMMA Dealt ==
  ASSUME SetupOK, NEW n \in Nodes, NEW e \in n..N, \A m \in Nodes : n < m /\ m <= e => ~Kept[m]
  PROVE  /\ n \in Listed => FirstListed[e] = FirstListed[n - 1] \o <<n>>
         /\ n \notin Listed => FirstListed[e] = FirstListed[n - 1]
         /\ n \in Files => CountTo(e) = [entries |-> CountTo(n - 1).entries + 1,
                                         bytes |-> CountTo(n - 1).bytes + tree.stat[n]]
         /\ n \notin Files => CountTo(e) = CountTo(n - 1)
<1>1. N \in Nat /\ Nodes = 1..N /\ tree.stat \in [1..N -> Nat] /\ n \in 1..N
  BY TreeIs
<1>2. Files \subseteq 1..N /\ Listed \subseteq 1..N
  BY <1>1 DEF Files, Listed
<1>3. \A m \in (n + 1)..e : m \notin Files /\ m \notin Listed
  <2> TAKE m \in (n + 1)..e
  <2>1. m \in Nodes /\ n < m /\ m <= e
    BY <1>1
  <2>2. ~Kept[m]
    BY <2>1
  <2> QED
    BY <2>2 DEF Files, Listed
<1> DEFINE Goes(S) ==
  /\ FirstIn(N, S)[e] = IF n \in S THEN Append(FirstIn(N, S)[n - 1], n) ELSE FirstIn(N, S)[n - 1]
  /\ BytesIn(tree.stat, N, S)[e] =
       BytesIn(tree.stat, N, S)[n - 1] + (IF n \in S THEN tree.stat[n] ELSE 0)
  /\ Cardinality(Below(S, e)) = Cardinality(Below(S, n - 1)) + (IF n \in S THEN 1 ELSE 0)
  /\ Cardinality(Below(S, n - 1)) \in Nat
<1>10. Goes(Files)
  <2>1. \A m \in (n + 1)..e : m \notin Files
    BY <1>3
  <2> QED
    BY <1>1, <1>2, <2>1, Onward
<1>11. Goes(Listed)
  <2>1. \A m \in (n + 1)..e : m \notin Listed
    BY <1>3
  <2> QED
    BY <1>1, <1>2, <2>1, Onward
<1>4. FirstListed[e] = IF n \in Listed THEN Append(FirstListed[n - 1], n) ELSE FirstListed[n - 1]
  BY <1>11, ListingIs
<1>5. /\ BytesOfFiles[e] = BytesOfFiles[n - 1] + (IF n \in Files THEN tree.stat[n] ELSE 0)
      /\ Cardinality(Below(Files, e)) = Cardinality(Below(Files, n - 1)) + (IF n \in Files THEN 1 ELSE 0)
      /\ Cardinality(Below(Files, n - 1)) \in Nat
  BY <1>10, ListingIs
<1>6. n - 1 \in 0..N
  BY <1>1
<1>7. FirstListed[n - 1] \in Seq(Nat) /\ CountTo(n - 1) \in Counts
  BY <1>6, Bounds
<1>8. BytesOfFiles[n - 1] \in Nat
  BY <1>7 DEF CountTo, Counts
<1>9. Append(FirstListed[n - 1], n) = FirstListed[n - 1] \o <<n>>
  <2>1. n \in Nat /\ FirstListed[n - 1] \in Seq(Nat)
    BY <1>1, <1>7
  <2> QED
    BY <2>1, AppendIsConcat
<1> QED
  BY <1>4, <1>5, <1>8, <1>9 DEF CountTo

\* A stack that stands where the walk is still does after the step.
LEMMA StandsStill ==
  ASSUME setup' = setup, NEW t, t = stack', Stands(t)
  PROVE  Stands(stack)' /\ Top(stack)' = Top(t)
<1>1. tree' = tree /\ N' = N /\ Nodes' = Nodes /\ Kept' = Kept
  BY Fixed
<1>2. Top(stack)' = Top(t)
  BY <1>1 DEF Top
<1>3. \A n : Reached(n)' <=> Reached(n)
  BY <1>1 DEF Reached
<1>4. Ahead(Top(stack))' = Ahead(Top(t))
  BY <1>1, <1>2, <1>3 DEF Ahead
<1> QED
  BY <1>1, <1>2, <1>4 DEF Stands

-----------------------------------------------------------------------------
(* What the writers do: members are added behind the others, and the solid *)
(* block is closed where the order asks for it.                            *)

WriterOK ==
  /\ out \in Seq(Items) /\ pending \in Seq(Items) /\ pending_bytes \in 0..(BlockCap - 1)
  /\ Whole(out) /\ Whole(pending)
  /\ ~Solid => pending = <<>>

Written == NodesOf(out \o pending)

\* Whole members behind whole members.
LEMMA WholeJoined ==
  ASSUME NEW s \in Seq(Items), NEW t \in Seq(Items), Whole(s), Whole(t)
  PROVE  Whole(s \o t)
<1>1. /\ Len(s \o t) = Len(s) + Len(t) /\ DOMAIN (s \o t) = 1..(Len(s) + Len(t))
      /\ \A i \in 1..Len(s) : (s \o t)[i] = s[i]
      /\ \A i \in (Len(s) + 1)..(Len(s) + Len(t)) : (s \o t)[i] = t[i - Len(s)]
  BY ConcatProperties
<1>2. \A i \in 1..(Len(s) + Len(t)) : IsWhole((s \o t)[i])
  <2> TAKE i \in 1..(Len(s) + Len(t))
  <2>1. CASE i \in 1..Len(s)
    BY <1>1, <2>1 DEF Whole
  <2>2. CASE i \notin 1..Len(s)
    <3>1. i \in (Len(s) + 1)..(Len(s) + Len(t)) /\ i - Len(s) \in DOMAIN t
      BY <2>2
    <3> QED
      BY <1>1, <3>1 DEF Whole
  <2> QED
    BY <2>1, <2>2
<1> QED
  BY <1>1, <1>2 DEF Whole

\* One member alone is whole.
LEMMA WholeOne ==
  ASSUME NEW x, IsWhole(x)
  PROVE  Whole(<<x>>)
BY DEF Whole

\* What the writers hold after a step.
LEMMA WriterHolds ==
  ASSUME SetupOK, setup' = setup, out' \in Seq(Items), pending' \in Seq(Items),
         pending_bytes' \in 0..(BlockCap - 1), Whole(out'), Whole(pending'),
         ~Solid => pending' = <<>>
  PROVE  WriterOK' /\ Written' = NodesOf(out' \o pending')
<1>1. Items' = Items
  BY Fixed DEF Items
<1>2. Whole(out)' /\ Whole(pending)'
  BY Fixed DEF Whole, IsWhole, IsDir
<1>3. Written' = NodesOf(out' \o pending')
  BY DEF Written
<1>4. Solid' = Solid
  BY Fixed
<1> QED
  BY <1>1, <1>2, <1>3, <1>4 DEF WriterOK

\* A writer that is left alone.
LEMMA WriterStays ==
  ASSUME SetupOK, WriterOK, setup' = setup, UNCHANGED writerVars
  PROVE  WriterOK' /\ Written' = Written
<1>1. out' = out /\ pending' = pending /\ pending_bytes' = pending_bytes
  BY DEF writerVars
<1> QED
  BY <1>1, WriterHolds DEF WriterOK, Written

\* Flushing the solid block, with a member behind it or none.
LEMMA Flushes ==
  ASSUME SetupOK, WriterOK, setup' = setup,
         NEW extra \in Seq(Items), Whole(extra), FlushSolidBlock(extra)
  PROVE  WriterOK' /\ Written' = Written \o NodesOf(extra) /\ pending' = <<>>
<1>1. out' = (out \o pending) \o extra /\ pending' = <<>> /\ pending_bytes' = 0
  BY DEF FlushSolidBlock
<1>2. out \o pending \in Seq(Items) /\ Whole(out \o pending)
  BY WholeJoined DEF WriterOK
<1>3. out' \in Seq(Items) /\ Whole(out')
  <2> DEFINE b == out \o pending
  <2>1. out' = b \o extra /\ b \in Seq(Items) /\ Whole(b)
    BY <1>1, <1>2
  <2> HIDE DEF b
  <2>2. b \o extra \in Seq(Items) /\ Whole(b \o extra)
    BY <2>1, WholeJoined
  <2> QED
    BY <2>1, <2>2
<1>4. pending' \in Seq(Items) /\ Whole(pending') /\ pending_bytes' \in 0..(BlockCap - 1)
  BY <1>1, TreeAssumption DEF Whole
<1>5. WriterOK' /\ Written' = NodesOf(out' \o pending')
  BY <1>1, <1>3, <1>4, WriterHolds
<1>6. out' \o pending' = out'
  BY <1>1, <1>3
<1>7. NodesOf(out') = NodesOf(out \o pending) \o NodesOf(extra)
  BY <1>1, <1>2, NodesOfJoined
<1> QED
  BY <1>1, <1>5, <1>6, <1>7 DEF Written

\* A member written behind the others, while no block is open.
LEMMA Appends ==
  ASSUME SetupOK, WriterOK, setup' = setup, NEW x \in Items, IsWhole(x), pending = <<>>,
         out' = Append(out, x), pending' = pending, pending_bytes' = pending_bytes
  PROVE  WriterOK' /\ Written' = Written \o NodesOf(<<x>>)
<1>1. out \in Seq(Items) /\ <<x>> \in Seq(Items) /\ Whole(out) /\ Whole(<<x>>)
  BY WholeOne DEF WriterOK
<1>2. out' = out \o <<x>>
  BY <1>1, AppendIsConcat
<1>3. out' \in Seq(Items) /\ Whole(out')
  BY <1>1, <1>2, WholeJoined
<1>4. WriterOK' /\ Written' = NodesOf(out' \o pending')
  BY <1>3, WriterHolds DEF WriterOK
<1>5. out' \o pending' = out' /\ out \o pending = out
  BY <1>1, <1>3
<1>6. NodesOf(out') = NodesOf(out) \o NodesOf(<<x>>)
  BY <1>1, <1>2, NodesOfJoined
<1> QED
  BY <1>4, <1>5, <1>6 DEF Written

\* A directory.
LEMMA AddsDirectory ==
  ASSUME SetupOK, WriterOK, setup' = setup, NEW n \in Nodes, IsDir(n), AddDirectory(n)
  PROVE  WriterOK' /\ Written' = Written \o <<n>>
<1> DEFINE x == Item(n, 0, 0)
<1>1. /\ x \in Items /\ <<x>> \in Seq(Items) /\ x.node = n
      /\ NodesOf(<<x>>) = <<n>>
  BY ItemIs
<1>2. IsWhole(x) /\ Whole(<<x>>)
  <2>1. IsWhole(x)
    BY <1>1 DEF IsWhole
  <2> QED
    BY <2>1, WholeOne
<1>3. CASE Solid
  <2>1. FlushSolidBlock(<<x>>)
    BY <1>3 DEF AddDirectory
  <2> QED
    BY <1>1, <1>2, <2>1, Flushes
<1>4. CASE ~Solid
  <2>1. out' = Append(out, x) /\ pending' = pending /\ pending_bytes' = pending_bytes
        /\ pending = <<>>
    BY <1>4 DEF AddDirectory, WriterOK
  <2> QED
    BY <1>1, <1>2, <2>1, Appends
<1> QED
  BY <1>3, <1>4

\* A file whose data has been read to the end.
LEMMA AddsFile ==
  ASSUME SetupOK, WriterOK, setup' = setup, NEW n \in Nodes, AddFile(n, setup.real[n]),
         tree.stat[n] >= BlockCap => pending = <<>>
  PROVE  WriterOK' /\ Written' = Written \o <<n>>
<1> DEFINE a == setup.real[n]
<1>0. a \in Nat /\ tree.stat[n] \in Nat /\ BlockCap \in Nat
  BY TreeIs, TreeAssumption
<1>1. CASE Solid /\ tree.stat[n] < BlockCap
  <2> DEFINE x == Item(n, a, a)
  <2>1. /\ x \in Items /\ <<x>> \in Seq(Items) /\ NodesOf(<<x>>) = <<n>>
        /\ x.node = n /\ x.size = a /\ x.data = a
    BY <1>0, ItemIs
  <2>2. IsWhole(x) /\ Whole(<<x>>)
    <3>1. IsWhole(x)
      BY <2>1 DEF IsWhole
    <3> QED
      BY <3>1, WholeOne
  <2>3. AddSmall(n, a)
    BY <1>1 DEF AddFile
  <2>4. CASE pending_bytes + a >= BlockCap
    <3>1. FlushSolidBlock(<<x>>)
      BY <2>3, <2>4 DEF AddSmall
    <3> QED
      BY <2>1, <2>2, <3>1, Flushes
  <2>5. CASE ~(pending_bytes + a >= BlockCap)
    <3>1. /\ pending' = Append(pending, x) /\ pending_bytes' = pending_bytes + a /\ out' = out
      BY <2>3, <2>5 DEF AddSmall
    <3> HIDE DEF x, a
    <3>2. out \in Seq(Items) /\ pending \in Seq(Items) /\ Whole(out) /\ Whole(pending)
          /\ pending_bytes \in 0..(BlockCap - 1)
      BY DEF WriterOK
    <3>3. pending' = pending \o <<x>>
      BY <2>1, <3>1, <3>2, AppendIsConcat
    <3>4. pending' \in Seq(Items) /\ Whole(pending')
      <4> DEFINE y == <<x>>
      <4>1. y \in Seq(Items) /\ Whole(y) /\ pending' = pending \o y
        BY <2>1, <2>2, <3>3
      <4> HIDE DEF y
      <4>2. pending \o y \in Seq(Items) /\ Whole(pending \o y)
        BY <3>2, <4>1, WholeJoined
      <4> QED
        BY <4>1, <4>2
    <3>5. pending_bytes' \in 0..(BlockCap - 1)
      BY <1>0, <2>5, <3>1, <3>2
    <3>6. WriterOK' /\ Written' = NodesOf(out' \o pending')
      BY <1>1, <3>1, <3>2, <3>4, <3>5, WriterHolds
    <3>7. out' \o pending' = (out \o pending) \o <<x>>
      BY <2>1, <3>1, <3>2, <3>3, ConcatAssociative
    <3>8. out \o pending \in Seq(Items)
      BY <3>2
    <3>9. NodesOf((out \o pending) \o <<x>>) = NodesOf(out \o pending) \o <<n>>
      BY <2>1, <3>8, NodesOfJoined
    <3> QED
      BY <3>6, <3>7, <3>9 DEF Written
  <2> QED
    BY <2>4, <2>5
<1>2. CASE ~(Solid /\ tree.stat[n] < BlockCap)
  <2> DEFINE size == IF setup.fmt = "tar" THEN tree.stat[n] ELSE a
             x == Item(n, size, a)
  <2>1. out' = Append(out, x) /\ pending' = pending /\ pending_bytes' = pending_bytes
    BY <1>2 DEF AddFile
  <2>2. pending = <<>>
    BY <1>0, <1>2 DEF WriterOK
  <2>3. size \in Nat
    BY <1>0
  <2>4. setup.fmt = "tar" /\ Unchanged => size = a
    BY DEF Unchanged
  <2>5. setup.fmt # "tar" => size = a
    OBVIOUS
  <2> HIDE DEF size
  <2>6. /\ x \in Items /\ NodesOf(<<x>>) = <<n>> /\ x.node = n /\ x.size = size /\ x.data = a
    BY <1>0, <2>3, ItemIs
  <2>7. IsWhole(x)
    BY <2>4, <2>5, <2>6 DEF IsWhole
  <2> HIDE DEF x
  <2> QED
    BY <2>1, <2>2, <2>6, <2>7, Appends
<1> QED
  BY <1>1, <1>2

\* Before a file is read a large one closes the block.
LEMMA OpensFile ==
  ASSUME SetupOK, WriterOK, setup' = setup, NEW n \in Nodes, OpenFile(n)
  PROVE  WriterOK' /\ Written' = Written /\ (tree.stat[n] >= BlockCap => pending' = <<>>)
<1>1. CASE Solid /\ tree.stat[n] >= BlockCap
  <2>1. FlushSolidBlock(<<>>) /\ <<>> \in Seq(Items) /\ Whole(<<>>)
    BY <1>1 DEF OpenFile, Whole
  <2>2. WriterOK' /\ Written' = Written \o NodesOf(<<>>) /\ pending' = <<>>
    BY <2>1, Flushes
  <2>3. out \o pending \in Seq(Items)
    BY DEF WriterOK
  <2>4. Written \in Seq(Nat) /\ NodesOf(<<>>) = <<>>
    BY <2>1, <2>3, NodesOfJoined DEF Written
  <2> HIDE DEF Written
  <2>5. Written \o NodesOf(<<>>) = Written
    BY <2>4
  <2> QED
    BY <2>2, <2>5
<1>2. CASE ~(Solid /\ tree.stat[n] >= BlockCap)
  <2>1. UNCHANGED writerVars
    BY <1>2 DEF OpenFile
  <2>2. WriterOK' /\ Written' = Written
    BY <2>1, WriterStays
  <2>3. tree.stat[n] >= BlockCap => pending' = <<>>
    BY <1>2, <2>1 DEF writerVars, WriterOK
  <2> QED
    BY <2>2, <2>3
<1> QED
  BY <1>1, <1>2

-----------------------------------------------------------------------------
(* Every step keeps the invariant                                          *)

\* The types of all but the writer's variables.
TypeRest ==
  /\ pc \in {"returned", "scanned", "walk", "stream", "closed"}
  /\ result \in {"ok", "failed", "canceled", "committed"}
  /\ calls \in 0..Calls /\ stack \in Seq(Nodes)
  /\ total \in Counts /\ done \in Counts
  /\ cur \in [node : Nodes \cup {0}, read : Nat, last : Nat]
  /\ told \in Nat /\ refused \in BOOLEAN

\* What the archive holds, by the walk.
ByTheWalk ==
  /\ Running => Written = Listings(calls - 1) \o FirstListed[Past]
  /\ Succeeded => Written = Listings(calls)
  /\ result = "committed" => NodesOf(out) = Listings(calls)

\* The invariant in the parts that the steps keep, before a step and after it.
LEMMA Parts ==
  /\ IInv <=> /\ TypeRest /\ WriterOK /\ ByTheWalk /\ SetupOK /\ StackInv /\ StreamInv /\ CountInv
              /\ ToldInv /\ CancelInv
  /\ IInv' <=> /\ TypeRest' /\ WriterOK' /\ ByTheWalk' /\ SetupOK' /\ StackInv' /\ StreamInv' /\ CountInv'
               /\ ToldInv' /\ CancelInv'
<1>1. WalkTyped /\ WrittenInv <=> TypeRest /\ WriterOK /\ ByTheWalk
  BY DEF WalkTyped, WrittenInv, TypeRest, WriterOK, ByTheWalk, Items, Counts, Written
<1>2. (WalkTyped /\ WrittenInv <=> TypeRest /\ WriterOK /\ ByTheWalk)'
  BY DEF WalkTyped, WrittenInv, TypeRest, WriterOK, ByTheWalk, Items, Counts, Written
<1> QED
  BY <1>1, <1>2 DEF IInv

\* The walk has moved from node n on, and passed nothing that is kept.
Moves(n) ==
  /\ stack' \in Seq(Nodes) /\ Stands(stack)'
  /\ n < Top(stack)' /\ Top(stack)' \in 1..(N + 1)
  /\ \A m \in Nodes : n < m /\ m < Top(stack)' => ~Kept[m]

\* Popping the top and pushing its children moves the walk on.
LEMMA MovesOn ==
  ASSUME SetupOK, setup' = setup, stack \in Seq(Nodes), stack # <<>>, Stands(stack),
         NEW kids \in Seq(Nodes), Rises(kids),
         \A m \in Nodes : (m # Last(stack) /\ tree.parent[m] = Last(stack) /\ Reached(m))
                            <=> \E i \in DOMAIN kids : kids[i] = m,
         stack' = Front(stack) \o Reverse(kids)
  PROVE  Moves(Last(stack))
<1> DEFINE t == Front(stack) \o Reverse(kids)
           n == Last(stack)
<1>1. /\ t \in Seq(Nodes) /\ Stands(t) /\ n < Top(t) /\ Top(t) <= N + 1 /\ n \in Nodes
      /\ \A m \in Nodes : n < m /\ m < Top(t) => ~Kept[m]
  BY VisitStands
<1>2. Top(t) \in 1..(N + 1)
  BY <1>1, TopIsLeast DEF Stands
<1> HIDE DEF t
<1>3. t = stack'
  BY DEF t
<1>4. Stands(stack)' /\ Top(stack)' = Top(t)
  BY <1>1, <1>3, StandsStill
<1> QED
  BY <1>1, <1>2, <1>3, <1>4 DEF Moves

\* What a visit does with the node on top.
LEMMA VisitTurns ==
  ASSUME SetupOK, stack \in Seq(Nodes), Stands(stack), Visit
  PROVE  LET n == Last(stack) IN
         /\ n \in Nodes /\ Top(stack) = n
         /\ \/ /\ Moves(n) /\ n \notin Files /\ n \notin Listed
               /\ UNCHANGED <<pc, cur, writerVars, result>>
            \/ stack' = <<>> /\ Return("failed") /\ UNCHANGED <<cur, writerVars>>
            \/ /\ Moves(n) /\ n \notin Files /\ IsDir(n)
               /\ UNCHANGED <<pc, cur, result>>
               /\ \/ n = 1 /\ n \notin Listed /\ UNCHANGED writerVars
                  \/ n # 1 /\ n \in Listed /\ AddDirectory(n)
            \/ /\ Moves(n) /\ n \in Files /\ n \in Listed
               /\ cur' = [NoEntry EXCEPT !.node = n] /\ OpenFile(n)
               /\ pc' = "stream" /\ result' = result
<1> DEFINE n == Last(stack)
<1>0. stack # <<>> /\ setup' = setup
  BY DEF Visit
<1>1. n \in Nodes /\ Reached(n) /\ Top(stack) = n
  <2>1. n \in Ahead(n)
    <3>1. n = stack[Len(stack)] /\ Len(stack) \in DOMAIN stack /\ n \in Nodes /\ Top(stack) = n
      BY <1>0 DEF Last, Top
    <3> QED
      BY <3>1 DEF Stands
  <2> QED
    BY <1>0, <2>1 DEF Ahead, Top
<1>2. Kept[n] <=> ~Metadata(n)
  <2>1. CASE n = 1
    BY <2>1, KeptGoes DEF Metadata
  <2>2. CASE n # 1
    BY <1>1, <2>2, KeptGoes DEF Reached
  <2> QED
    BY <2>1, <2>2
<1>3. \A m \in Nodes : m # 1 /\ m # n /\ tree.parent[m] = n => IsDir(n)
  BY TreeIs
<1>4. \A m \in Nodes : m # n /\ tree.parent[m] = n => m # 1
  BY TreeIs
<1>5. ASSUME Metadata(n) \/ ~IsDir(n), stack' = Front(stack)
      PROVE  Moves(n)
  <2>1. \A m \in Nodes : ~(m # n /\ tree.parent[m] = n /\ Reached(m))
    BY <1>2, <1>3, <1>4, <1>5 DEF Reached
  <2>2. <<>> \in Seq(Nodes) /\ Rises(<<>>) /\ \A m \in Nodes : ~\E i \in DOMAIN <<>> : <<>>[i] = m
    BY DEF Rises
  <2>3. Front(stack) = Front(stack) \o Reverse(<<>>)
    <3>1. Reverse(<<>>) = <<>>
      BY DEF Reverse
    <3>2. Front(stack) \in Seq(Nodes)
      BY <1>0 DEF Front
    <3> QED
      BY <3>1, <3>2
  <2>4. stack' = Front(stack) \o Reverse(<<>>)
    BY <1>5, <2>3
  <2> QED
    BY <1>0, <2>1, <2>2, <2>4, MovesOn
<1>6. ASSUME IsDir(n), ~Metadata(n), stack' = Front(stack) \o Reverse(Kids(n))
      PROVE  Moves(n)
  <2>1. /\ Kids(n) \in Seq(Nodes) /\ Rises(Kids(n))
        /\ \A m \in Nodes : m # n /\ tree.parent[m] = n <=> \E i \in DOMAIN Kids(n) : Kids(n)[i] = m
    BY <1>1, KidsAre
  <2>2. \A m \in Nodes : m # n /\ tree.parent[m] = n => Reached(m)
    BY <1>2, <1>6 DEF Reached
  <2>3. \A m \in Nodes : (m # n /\ tree.parent[m] = n /\ Reached(m))
                            <=> \E i \in DOMAIN Kids(n) : Kids(n)[i] = m
    BY <2>1, <2>2
  <2> QED
    BY <1>0, <1>6, <2>1, <2>3, MovesOn
<1>7. CASE Metadata(n) \/ (~IsDir(n) /\ SkippedLink(n))
  <2>1. stack' = Front(stack) /\ UNCHANGED <<pc, cur, writerVars, result>>
    BY <1>7 DEF Visit
  <2>2. Moves(n)
    BY <1>5, <1>7, <2>1
  <2>3. n \notin Files /\ n \notin Listed
    BY <1>2, <1>7 DEF Files, Listed
  <2> QED
    BY <1>1, <2>1, <2>2, <2>3
<1>8. CASE ~(Metadata(n) \/ (~IsDir(n) /\ SkippedLink(n))) /\ RefusesEntry(n)
  <2>1. stack' = <<>> /\ Return("failed") /\ UNCHANGED <<cur, writerVars>>
    BY <1>8 DEF Visit
  <2> QED
    BY <1>1, <2>1
<1>9. CASE ~(Metadata(n) \/ (~IsDir(n) /\ SkippedLink(n))) /\ ~RefusesEntry(n) /\ IsDir(n)
  <2>1. /\ stack' = Front(stack) \o Reverse(Kids(n)) /\ UNCHANGED <<pc, cur, result>>
        /\ IF n = 1 THEN UNCHANGED writerVars ELSE AddDirectory(n)
    BY <1>9 DEF Visit
  <2>2. Moves(n)
    BY <1>6, <1>9, <2>1
  <2>3. n \notin Files /\ (n \in Listed <=> n # 1)
    BY <1>1, <1>2, <1>9 DEF Files, Listed
  <2> QED
    BY <1>1, <1>9, <2>1, <2>2, <2>3
<1>10. CASE ~(Metadata(n) \/ (~IsDir(n) /\ SkippedLink(n))) /\ ~RefusesEntry(n) /\ ~IsDir(n)
  <2>1. /\ stack' = Front(stack) /\ cur' = [NoEntry EXCEPT !.node = n] /\ OpenFile(n)
        /\ pc' = "stream" /\ result' = result
    BY <1>10 DEF Visit
  <2>2. Moves(n)
    BY <1>5, <1>10, <2>1
  <2>3. n \in Files /\ n \in Listed
    BY <1>1, <1>2, <1>10 DEF Files, Listed
  <2> QED
    BY <1>1, <2>1, <2>2, <2>3
<1> QED
  BY <1>7, <1>8, <1>9, <1>10

\* The listings of some trees, and of one more.
LEMMA ListingsMore ==
  ASSUME SetupOK, NEW k \in Nat
  PROVE  /\ Listings(k) \in Seq(Nat) /\ Listings(0) = <<>>
         /\ Listings(k + 1) = Listings(k) \o Listing
  BY Bounds, OnceMore DEF Listings

\* At the beginning nothing has been added.
LEMMA InitInv == Init => IInv
<1> SUFFICES ASSUME Init PROVE IInv
  OBVIOUS
<1>1. /\ pc = "returned" /\ result = "ok" /\ calls = 0 /\ stack = <<>> /\ total = NoCount
      /\ done = NoCount /\ cur = NoEntry /\ pending = <<>> /\ pending_bytes = 0 /\ out = <<>>
      /\ told = 0 /\ refused = FALSE
  BY DEF Init
<1>2. SetupOK
  <2>1. PICK t \in Trees, f \in Formats, s \in BOOLEAN, l \in BOOLEAN, x \in BOOLEAN, g \in Growth :
          setup = [tree |-> t, fmt |-> f, sink |-> s, follow |-> l, exclude |-> x,
                   real |-> [n \in 1..Len(t.stat) |-> IF n = Len(t.stat) THEN t.stat[n] + g
                                                      ELSE t.stat[n]]]
    BY DEF Init
  <2>2. tree = t /\ setup.sink = s /\ setup.follow = l /\ setup.exclude = x
    BY <2>1 DEF tree
  <2>3. IsTree(t) /\ g \in Nat
    BY TreeAssumption
  <2>4. Len(t.kind) \in Nat /\ t.stat \in [1..Len(t.kind) -> Nat]
    BY <2>3 DEF IsTree
  <2>5. Len(t.stat) = Len(t.kind) /\ Nodes = 1..Len(t.stat)
    BY <2>2, <2>4 DEF Nodes
  <2>6. setup.real = [n \in 1..Len(t.stat) |-> IF n = Len(t.stat) THEN t.stat[n] + g ELSE t.stat[n]]
    BY <2>1
  <2>7. setup.real \in [Nodes -> Nat]
    BY <2>3, <2>4, <2>5, <2>6
  <2> QED
    BY <2>2, <2>7 DEF SetupOK
<1>3. TypeRest
  <2>1. NoCount \in Counts
    BY DEF Counts, NoCount
  <2>2. NoEntry \in [node : Nodes \cup {0}, read : Nat, last : Nat]
    BY DEF NoEntry
  <2>3. <<>> \in Seq(Nodes) /\ 0 \in 0..Calls /\ 0 \in Nat
    BY TreeAssumption
  <2> QED
    BY <1>1, <2>1, <2>2, <2>3 DEF TypeRest
<1>4. WriterOK
  BY <1>1, TreeAssumption DEF WriterOK, Whole
<1>5. ByTheWalk
  <2>1. Written = <<>>
    BY <1>1 DEF Written, NodesOf
  <2>2. Listings(0) = <<>>
    BY <1>2, ListingsMore
  <2> QED
    BY <1>1, <2>1, <2>2 DEF ByTheWalk, Running
<1>6. StackInv /\ StreamInv /\ CountInv /\ ToldInv /\ CancelInv
  BY <1>1 DEF StackInv, StreamInv, CountInv, ToldInv, CancelInv, Running
<1> QED
  BY <1>2, <1>3, <1>4, <1>5, <1>6, Parts

\* A call begins.
LEMMA BeginInv == IInv /\ Begin => IInv'
<1> SUFFICES ASSUME IInv, Begin PROVE IInv'
  OBVIOUS
<1>1. /\ pc = "returned" /\ result = "ok" /\ calls < Calls /\ calls' = calls + 1
      /\ total' = IF setup.sink THEN PreScan ELSE NoCount
      /\ done' = NoCount /\ told' = 0 /\ setup' = setup /\ stack' = stack /\ cur' = cur
      /\ refused' = refused /\ UNCHANGED writerVars
      /\ (pc' = "scanned" /\ result' = result) \/ (pc' = "returned" /\ result' = "failed")
  BY DEF Begin, Return
<1>2. /\ SetupOK /\ TypeRest /\ WriterOK /\ ByTheWalk /\ CancelInv
  BY Parts
<1>3. SetupOK' /\ Nodes' = Nodes /\ N' = N /\ PreScan' = PreScan
  BY <1>1, <1>2, Fixed
<1>4. PreScan \in Counts /\ NoCount \in Counts
  BY <1>2, Bounds DEF NoCount, Counts
<1>5. calls \in Nat /\ calls' \in 0..Calls /\ calls' > 0 /\ calls' - 1 = calls
  BY <1>1, <1>2, TreeAssumption DEF TypeRest
<1>6. TypeRest'
  BY <1>1, <1>2, <1>3, <1>4, <1>5 DEF TypeRest
<1>7. WriterOK' /\ Written' = Written
  BY <1>1, <1>2, WriterStays
<1>8. ByTheWalk'
  <2>1. pc' = "scanned" => Written' = Listings(calls - 1)' \o FirstListed'[Past']
    <3> HAVE pc' = "scanned"
    <3>1. Past' = 0
      BY DEF Past
    <3>2. FirstListed'[Past'] = <<>> /\ Listings(calls - 1)' = Listings(calls)
      BY <1>1, <1>2, <1>5, <3>1, Fixed, Bounds DEF Listings
    <3>3. Listings(calls) \in Seq(Nat)
      BY <1>2, <1>5, ListingsMore
    <3>4. Written = Listings(calls)
      BY <1>1, <1>2 DEF ByTheWalk, Succeeded
    <3> QED
      BY <1>7, <3>2, <3>3, <3>4
  <2>2. result' # "committed" /\ ~Succeeded' /\ (Running' <=> pc' = "scanned")
    BY <1>1 DEF Succeeded, Running
  <2> QED
    BY <2>1, <2>2 DEF ByTheWalk
<1>9. StackInv' /\ StreamInv'
  BY <1>1 DEF StackInv, StreamInv
<1>10. CountInv'
  <2>1. pc' = "scanned" => done' = CountTo(Past)'
    <3> HAVE pc' = "scanned"
    <3>1. Past' = 0
      BY DEF Past
    <3>2. CountTo(Past)' = NoCount
      BY <1>1, <1>2, <3>1, Fixed, Bounds DEF CountTo
    <3> QED
      BY <1>1, <3>2
  <2>2. ~Succeeded' /\ (Running' <=> pc' = "scanned")
    BY <1>1 DEF Succeeded, Running
  <2>3. setup.sink' => total' = PreScan'
    BY <1>1, <1>3
  <2> QED
    BY <1>1, <1>5, <2>1, <2>2, <2>3 DEF CountInv
<1>11. ToldInv'
  <2>1. setup.sink => total'.bytes \in Nat
    BY <1>1, <1>4 DEF Counts
  <2>2. setup.sink' <=> setup.sink
    BY <1>1
  <2>3. told' = 0 /\ ~Succeeded' /\ pc' # "walk"
    BY <1>1 DEF Succeeded
  <2>4. total'.bytes \in Nat => told' <= total'.bytes
    BY <2>3
  <2> QED
    BY <2>1, <2>2, <2>3, <2>4 DEF ToldInv
<1>12. CancelInv'
  BY <1>1, <1>2 DEF CancelInv, Running
<1> QED
  BY <1>3, <1>6, <1>7, <1>8, <1>9, <1>10, <1>11, <1>12, Parts

\* The walk stands at the root.
LEMMA RootStands == SetupOK => Stands(<<1>>) /\ Top(<<1>>) = 1
<1> SUFFICES ASSUME SetupOK PROVE Stands(<<1>>) /\ Top(<<1>>) = 1
  OBVIOUS
<1>1. Nodes = 1..N /\ 1 \in Nodes /\ N \in Nat /\ tree.parent \in [Nodes -> Nodes]
  BY TreeIs
<1>2. Top(<<1>>) = 1
  BY DEF Top, Last
<1>3. Falls(<<1>>)
  BY DEF Falls
<1>4. \A n \in Nodes : n \in Ahead(1) <=> n = 1
  <2> TAKE n \in Nodes
  <2>1. tree.parent[n] \in Nat /\ tree.parent[n] >= 1 /\ n \in Nat /\ n >= 1
    BY <1>1
  <2> QED
    BY <2>1 DEF Ahead, Reached
<1> QED
  BY <1>2, <1>3, <1>4 DEF Stands

\* The host is told that the walk begins.
LEMMA ScanningInv == IInv /\ ScanningTick => IInv'
<1> SUFFICES ASSUME IInv, ScanningTick PROVE IInv'
  OBVIOUS
<1>1. /\ pc = "scanned" /\ calls' = calls /\ total' = total /\ done' = done /\ setup' = setup
      /\ cur' = cur /\ UNCHANGED writerVars
      /\ Tell(0, Return("canceled") /\ UNCHANGED stack,
                 pc' = "walk" /\ stack' = <<1>> /\ UNCHANGED result)
  BY DEF ScanningTick
<1>2. /\ SetupOK /\ TypeRest /\ WriterOK /\ ByTheWalk /\ CancelInv /\ CountInv /\ ToldInv
  BY Parts
<1>3. /\ told' \in Nat /\ (setup.sink => told' = 0) /\ (~setup.sink => told' = told)
      /\ \/ pc' = "walk" /\ stack' = <<1>> /\ result' = result /\ refused' = refused
         \/ pc' = "returned" /\ result' = "canceled" /\ stack' = stack /\ refused' = TRUE
  BY <1>1, <1>2 DEF Tell, Return, TypeRest
<1>4. /\ SetupOK' /\ Nodes' = Nodes /\ N' = N /\ PreScan' = PreScan /\ 1 \in Nodes /\ N \in Nat
      /\ Unchanged' = Unchanged
  BY <1>1, <1>2, Fixed, TreeIs
<1>5. TypeRest'
  <2>1. stack' \in Seq(Nodes)
    <3>1. <<1>> \in Seq(Nodes) /\ stack \in Seq(Nodes)
      BY <1>2, <1>4 DEF TypeRest
    <3> QED
      BY <1>3, <3>1
  <2>2. refused' \in BOOLEAN
    BY <1>2, <1>3 DEF TypeRest
  <2>3. pc' \in {"walk", "returned"} /\ result' \in {"ok", "failed", "canceled", "committed"}
    BY <1>2, <1>3 DEF TypeRest
  <2> QED
    BY <1>1, <1>2, <1>3, <1>4, <2>1, <2>2, <2>3 DEF TypeRest
<1>6. WriterOK' /\ Written' = Written
  BY <1>1, <1>2, WriterStays
<1>7. Past = 0
  BY <1>1 DEF Past
<1>8. pc' = "walk" => Stands(stack)' /\ Top(stack)' = 1 /\ Past' = 0
  <2> HAVE pc' = "walk"
  <2>1. stack' = <<1>>
    BY <1>3
  <2>2. Stands(stack)' /\ Top(stack)' = 1
    BY <1>1, <1>2, <2>1, RootStands, StandsStill
  <2>3. Past' = Top(stack)' - 1
    BY DEF Past
  <2> QED
    BY <2>2, <2>3
<1>9. StackInv' /\ StreamInv'
  BY <1>3, <1>8 DEF StackInv, StreamInv
<1>10. ByTheWalk'
  <2>1. pc' = "walk" => /\ Listings(calls - 1)' = Listings(calls - 1)
                        /\ FirstListed'[Past'] = FirstListed[Past]
    BY <1>1, <1>7, <1>8, Fixed DEF Listings
  <2>2. ~Succeeded' /\ (Running' <=> pc' = "walk") /\ Running
    BY <1>1, <1>3 DEF Succeeded, Running
  <2>3. result' # "committed"
    BY <1>1, <1>2, <1>3 DEF CancelInv, Running
  <2> QED
    BY <1>2, <1>6, <2>1, <2>2, <2>3 DEF ByTheWalk
<1>11. CountInv'
  <2>1. pc' = "walk" => CountTo(Past)' = CountTo(Past)
    BY <1>1, <1>7, <1>8, Fixed DEF CountTo
  <2>2. ~Succeeded' /\ (Running' <=> pc' = "walk") /\ Running
    BY <1>1, <1>3 DEF Succeeded, Running
  <2>3. setup.sink' <=> setup.sink
    BY <1>1
  <2> QED
    BY <1>1, <1>2, <1>4, <2>1, <2>2, <2>3 DEF CountInv
<1>12. ToldInv'
  <2>1. done = NoCount /\ done.bytes = 0
    BY <1>1, <1>2, <1>7, Bounds DEF CountInv, Running, NoCount
  <2>2. setup.sink /\ calls > 0 => total.bytes \in Nat
    BY <1>2 DEF TypeRest, Counts
  <2>3. ~Succeeded' /\ pc' # "scanned"
    BY <1>3 DEF Succeeded
  <2>4. told' = 0 /\ total.bytes \in Nat => told' <= total.bytes
    OBVIOUS
  <2>5. setup.sink' <=> setup.sink
    BY <1>1
  <2> QED
    BY <1>1, <1>3, <1>4, <2>1, <2>2, <2>3, <2>4, <2>5 DEF ToldInv
<1>13. CancelInv'
  BY <1>1, <1>2, <1>3 DEF CancelInv, Running
<1> QED
  BY <1>4, <1>5, <1>6, <1>9, <1>10, <1>11, <1>12, <1>13, Parts

\* The types while a call goes on.
LEMMA VisitTypes ==
  ASSUME SetupOK, TypeRest, setup' = setup, calls' = calls, total' = total, done' = done,
         told' = told, refused' = refused, pc' \in {"returned", "walk", "stream"},
         result' \in {"ok", "failed"}, stack' \in Seq(Nodes),
         cur' \in [node : Nodes \cup {0}, read : Nat, last : Nat]
  PROVE  TypeRest'
<1>1. Nodes' = Nodes
  BY Fixed
<1> QED
  BY <1>1 DEF TypeRest

\* A node is visited.
LEMMA VisitInv == IInv /\ Visit => IInv'
<1> SUFFICES ASSUME IInv, Visit PROVE IInv'
  OBVIOUS
<1> DEFINE n == Last(stack)
           e == Top(stack)' - 1
<1>1. /\ pc = "walk" /\ calls' = calls /\ total' = total /\ done' = done /\ setup' = setup
      /\ told' = told /\ refused' = refused
  BY DEF Visit
<1>2. /\ SetupOK /\ TypeRest /\ WriterOK /\ ByTheWalk /\ CancelInv /\ CountInv /\ ToldInv /\ StackInv
  BY Parts
<1>3. /\ stack \in Seq(Nodes) /\ Stands(stack) /\ result = "ok" /\ Running /\ refused = FALSE
  BY <1>1, <1>2 DEF TypeRest, StackInv, CancelInv, Running
<1>4. /\ SetupOK' /\ Nodes' = Nodes /\ N' = N /\ PreScan' = PreScan /\ N \in Nat
      /\ Nodes = 1..N /\ Unchanged' = Unchanged /\ Files' = Files /\ Kept' = Kept /\ tree' = tree
  BY <1>1, <1>2, Fixed, TreeIs
<1>5. /\ n \in Nodes /\ Top(stack) = n
      /\ \/ /\ Moves(n) /\ n \notin Files /\ n \notin Listed
            /\ UNCHANGED <<pc, cur, writerVars, result>>
         \/ stack' = <<>> /\ Return("failed") /\ UNCHANGED <<cur, writerVars>>
         \/ /\ Moves(n) /\ n \notin Files /\ IsDir(n)
            /\ UNCHANGED <<pc, cur, result>>
            /\ \/ n = 1 /\ n \notin Listed /\ UNCHANGED writerVars
               \/ n # 1 /\ n \in Listed /\ AddDirectory(n)
         \/ /\ Moves(n) /\ n \in Files /\ n \in Listed
            /\ cur' = [NoEntry EXCEPT !.node = n] /\ OpenFile(n)
            /\ pc' = "stream" /\ result' = result
  BY <1>2, <1>3, VisitTurns
<1> HIDE DEF n
<1>6. Past = n - 1
  BY <1>1, <1>5 DEF Past
<1>7. done = CountTo(n - 1) /\ Written = Listings(calls - 1) \o FirstListed[n - 1]
      /\ (setup.sink /\ calls > 0 => total = PreScan) /\ calls > 0
  BY <1>2, <1>3, <1>6 DEF CountInv, ByTheWalk
<1>8. calls - 1 \in Nat /\ Listings(calls - 1) \in Seq(Nat) /\ n - 1 \in 0..N
      /\ FirstListed[n - 1] \in Seq(Nat)
  <2>1. calls - 1 \in Nat /\ n - 1 \in 0..N
    BY <1>2, <1>4, <1>5, <1>7, TreeAssumption DEF TypeRest
  <2> QED
    BY <1>2, <2>1, ListingsMore, Bounds
<1>9. CancelInv'
  BY <1>1, <1>3, <1>5 DEF CancelInv, Running, Return
<1>10. ASSUME NEW p, p = Past'
       PROVE  /\ Listings(calls - 1)' = Listings(calls - 1) /\ FirstListed'[Past'] = FirstListed[p]
              /\ CountTo(Past)' = CountTo(p)
  BY <1>1, <1>10, Fixed DEF Listings, CountTo
<1>11. ASSUME Moves(n)
       PROVE  /\ e \in n..N /\ \A m \in Nodes : n < m /\ m <= e => ~Kept[m]
              /\ stack' \in Seq(Nodes)
  <2>1. /\ n < Top(stack)' /\ Top(stack)' \in 1..(N + 1) /\ stack' \in Seq(Nodes)
        /\ \A m \in Nodes : n < m /\ m < Top(stack)' => ~Kept[m]
    BY <1>11 DEF Moves
  <2> DEFINE t == Top(stack)'
  <2> HIDE DEF t
  <2>2. t - 1 \in n..N /\ \A m \in Nodes : m <= t - 1 => m < t
    BY <1>4, <1>5, <2>1 DEF t
  <2> QED
    BY <2>1, <2>2 DEF t
<1> HIDE DEF e
\* The walk goes on from the next node.
<1>12. ASSUME Moves(n), n \notin Files, UNCHANGED <<pc, cur, result>>, WriterOK',
              Written' = Written \o (IF n \in Listed THEN <<n>> ELSE <<>>)
       PROVE  IInv'
  <2>1. pc' = "walk" /\ Past' = e /\ Stands(stack)'
    BY <1>1, <1>12 DEF Past, e, Moves
  <2>2. CountTo(e) = CountTo(n - 1)
        /\ FirstListed[e] = FirstListed[n - 1] \o (IF n \in Listed THEN <<n>> ELSE <<>>)
    <3>1. CountTo(e) = CountTo(n - 1)
      BY <1>2, <1>5, <1>11, <1>12, Dealt
    <3>2. CASE n \in Listed
      BY <1>2, <1>5, <1>11, <1>12, <3>1, <3>2, Dealt
    <3>3. CASE n \notin Listed
      <4>1. FirstListed[e] = FirstListed[n - 1]
        BY <1>2, <1>5, <1>11, <1>12, <3>3, Dealt
      <4> QED
        BY <1>8, <3>1, <3>3, <4>1
    <3> QED
      BY <3>2, <3>3
  <2>3. Written' = Listings(calls - 1) \o FirstListed[e]
    <3> DEFINE x == IF n \in Listed THEN <<n>> ELSE <<>>
    <3>1. x \in Seq(Nat)
      BY <1>4, <1>5
    <3>2. Written' = (Listings(calls - 1) \o FirstListed[n - 1]) \o x
      BY <1>7, <1>12
    <3> HIDE DEF x
    <3>3. (Listings(calls - 1) \o FirstListed[n - 1]) \o x
            = Listings(calls - 1) \o (FirstListed[n - 1] \o x)
      <4> DEFINE a == Listings(calls - 1)
                 b == FirstListed[n - 1]
      <4>1. a \in Seq(Nat) /\ b \in Seq(Nat)
        BY <1>8
      <4> HIDE DEF a, b
      <4>2. (a \o b) \o x = a \o (b \o x)
        BY <3>1, <4>1, ConcatAssociative
      <4> QED
        BY <4>2 DEF a, b
    <3> QED
      BY <2>2, <3>2, <3>3 DEF x
  <2>4. TypeRest'
    BY <1>1, <1>2, <1>3, <1>11, <1>12, <2>1, VisitTypes DEF TypeRest
  <2>5. ByTheWalk'
    <3>1. ~Succeeded' /\ result' = "ok"
      BY <1>3, <1>12, <2>1 DEF Succeeded
    <3> QED
      BY <1>10, <2>1, <2>3, <3>1 DEF ByTheWalk
  <2>6. CountInv'
    <3>1. done' = CountTo(Past)'
      BY <1>1, <1>7, <1>10, <2>1, <2>2
    <3> QED
      BY <1>1, <1>4, <1>7, <3>1 DEF CountInv
  <2>7. ToldInv'
    BY <1>1, <1>2, <1>4, <2>1 DEF ToldInv, Succeeded
  <2>8. StackInv' /\ StreamInv'
    BY <2>1 DEF StackInv, StreamInv
  <2> QED
    BY <1>4, <1>9, <1>12, <2>4, <2>5, <2>6, <2>7, <2>8, Parts
<1>13. CASE Moves(n) /\ n \notin Files /\ n \notin Listed /\ UNCHANGED <<pc, cur, writerVars, result>>
  <2>1. WriterOK' /\ Written' = Written
    BY <1>1, <1>2, <1>13, WriterStays
  <2>2. Written \o <<>> = Written
    BY <1>7, <1>8
  <2> QED
    BY <1>12, <1>13, <2>1, <2>2
<1>14. CASE Moves(n) /\ n \notin Files /\ IsDir(n) /\ UNCHANGED <<pc, cur, result>>
            /\ n = 1 /\ n \notin Listed /\ UNCHANGED writerVars
  <2>1. WriterOK' /\ Written' = Written
    BY <1>1, <1>2, <1>14, WriterStays
  <2>2. Written \o <<>> = Written
    BY <1>7, <1>8
  <2> QED
    BY <1>12, <1>14, <2>1, <2>2
<1>15. CASE Moves(n) /\ n \notin Files /\ IsDir(n) /\ UNCHANGED <<pc, cur, result>>
            /\ n # 1 /\ n \in Listed /\ AddDirectory(n)
  <2>1. WriterOK' /\ Written' = Written \o <<n>>
    BY <1>1, <1>2, <1>5, <1>15, AddsDirectory
  <2> QED
    BY <1>12, <1>15, <2>1
<1>16. CASE stack' = <<>> /\ Return("failed") /\ UNCHANGED <<cur, writerVars>>
  <2>1. pc' = "returned" /\ result' = "failed"
    BY <1>16 DEF Return
  <2>2. WriterOK'
    BY <1>1, <1>2, <1>16, WriterStays
  <2>3. TypeRest'
    <3>1. <<>> \in Seq(Nodes)
      OBVIOUS
    <3> QED
      BY <1>1, <1>2, <1>16, <2>1, <3>1, VisitTypes DEF TypeRest
  <2>4. ByTheWalk' /\ CountInv'
    BY <1>1, <1>4, <1>7, <2>1 DEF ByTheWalk, CountInv, Running, Succeeded
  <2>5. ToldInv'
    BY <1>1, <1>2, <1>4, <2>1 DEF ToldInv, Succeeded
  <2>6. StackInv' /\ StreamInv'
    BY <2>1 DEF StackInv, StreamInv
  <2> QED
    BY <1>4, <1>9, <2>2, <2>3, <2>4, <2>5, <2>6, Parts
<1>17. CASE /\ Moves(n) /\ n \in Files /\ n \in Listed
            /\ cur' = [NoEntry EXCEPT !.node = n] /\ OpenFile(n)
            /\ pc' = "stream" /\ result' = result
  <2>1. cur' = [node |-> n, read |-> 0, last |-> 0]
    BY <1>17 DEF NoEntry
  <2>2. WriterOK' /\ Written' = Written /\ (tree.stat[n] >= BlockCap => pending' = <<>>)
    BY <1>1, <1>2, <1>5, <1>17, OpensFile
  <2>3. TypeRest'
    <3>1. cur' \in [node : Nodes \cup {0}, read : Nat, last : Nat]
      BY <1>5, <2>1
    <3> QED
      BY <1>1, <1>2, <1>3, <1>11, <1>17, <3>1, VisitTypes
  <2>4. Past' = n - 1
    BY <1>17, <2>1 DEF Past
  <2>5. ByTheWalk'
    <3>1. ~Succeeded' /\ result' = "ok"
      BY <1>3, <1>17 DEF Succeeded
    <3> QED
      BY <1>7, <1>10, <2>2, <2>4, <3>1 DEF ByTheWalk
  <2>6. CountInv'
    <3>1. done' = CountTo(Past)'
      BY <1>1, <1>7, <1>10, <2>4
    <3> QED
      BY <1>1, <1>4, <1>7, <3>1 DEF CountInv
  <2>7. ToldInv'
    BY <1>1, <1>2, <1>4, <1>17 DEF ToldInv, Succeeded
  <2>8. StackInv'
    BY <1>17 DEF StackInv, Moves
  <2>9. StreamInv'
    <3>1. cur'.node = n /\ cur'.read = 0 /\ cur'.last = 0 /\ setup'.real[n] \in Nat
      BY <1>1, <1>2, <1>5, <2>1, TreeIs
    <3>2. n < Top(stack)' /\ \A m \in Nodes : n < m /\ m < Top(stack)' => ~Kept[m]
      BY <1>17 DEF Moves
    <3>3. /\ cur'.node \in Files' /\ cur'.node < Top(stack)'
          /\ \A m \in Nodes' : cur'.node < m /\ m < Top(stack)' => ~Kept'[m]
      BY <1>4, <1>17, <3>1, <3>2
    <3>4. cur'.last <= cur'.read /\ cur'.read <= setup'.real[cur'.node]
      BY <3>1
    <3>5. tree'.stat[cur'.node] >= BlockCap => pending' = <<>>
      BY <1>4, <2>2, <3>1
    <3> QED
      BY <3>3, <3>4, <3>5 DEF StreamInv
  <2> QED
    BY <1>4, <1>9, <2>2, <2>3, <2>5, <2>6, <2>7, <2>8, <2>9, Parts
<1> QED
  BY <1>5, <1>13, <1>14, <1>15, <1>16, <1>17

\* What a read does: the host stops the call, the file is complete, or one more
\* byte is there.
LEMMA ReadTurns ==
  ASSUME TypeRest, ReadEntry
  PROVE  LET eof == cur.read = setup.real[cur.node]
             n == IF eof THEN cur.read ELSE cur.read + 1
             tick == eof \/ n - cur.last >= Every
         IN \/ /\ tick /\ setup.sink /\ told' = done.bytes + n /\ refused' = TRUE
               /\ pc' = "returned" /\ result' = "canceled" /\ cur' = NoEntry
               /\ UNCHANGED <<writerVars, done>>
            \/ /\ tick => told' = IF setup.sink THEN done.bytes + n ELSE told
               /\ ~tick => told' = told
               /\ refused' = refused /\ result' = result
               /\ \/ /\ eof /\ AddFile(cur.node, n) /\ CountEntry(cur.node)
                     /\ cur' = NoEntry /\ pc' = "walk"
                  \/ /\ ~eof /\ pc' = pc /\ UNCHANGED <<writerVars, done>>
                     /\ cur' = [node |-> cur.node, read |-> n,
                                last |-> IF n - cur.last >= Every THEN n ELSE cur.last]
<1>1. cur = [node |-> cur.node, read |-> cur.read, last |-> cur.last]
  BY DEF TypeRest
<1> DEFINE eof == cur.read = setup.real[cur.node]
           n == IF eof THEN cur.read ELSE cur.read + 1
           tick == eof \/ n - cur.last >= Every
           bad == Canceled /\ cur' = NoEntry /\ UNCHANGED <<writerVars, done>>
           go == IF eof
                 THEN /\ AddFile(cur.node, n) /\ CountEntry(cur.node)
                      /\ cur' = NoEntry /\ pc' = "walk" /\ UNCHANGED result
                 ELSE /\ cur' = [cur EXCEPT !.read = n,
                                            !.last = IF n - cur.last >= Every THEN n ELSE @]
                      /\ UNCHANGED <<writerVars, done, pc, result>>
<1>2. IF tick THEN Tell(done.bytes + n, bad, go) ELSE go /\ UNCHANGED <<told, refused>>
  BY DEF ReadEntry
<1>3. bad => pc' = "returned" /\ result' = "canceled" /\ cur' = NoEntry /\ UNCHANGED <<writerVars, done>>
  BY DEF Canceled, Return
<1>4. go => /\ result' = result
            /\ \/ /\ eof /\ AddFile(cur.node, n) /\ CountEntry(cur.node)
                  /\ cur' = NoEntry /\ pc' = "walk"
               \/ /\ ~eof /\ pc' = pc /\ UNCHANGED <<writerVars, done>>
                  /\ cur' = [node |-> cur.node, read |-> n,
                             last |-> IF n - cur.last >= Every THEN n ELSE cur.last]
  BY <1>1
<1> HIDE DEF eof, n, bad, go
<1>5. CASE tick
  <2>1. Tell(done.bytes + n, bad, go)
    BY <1>2, <1>5
  <2>2. IF setup.sink
        THEN told' = done.bytes + n /\ ((go /\ refused' = refused) \/ (refused' = TRUE /\ bad))
        ELSE go /\ told' = told /\ refused' = refused
    BY <2>1 DEF Tell
  <2> QED
    BY <1>3, <1>4, <1>5, <2>2 DEF eof, n
<1>6. CASE ~tick
  <2>1. go /\ told' = told /\ refused' = refused
    BY <1>2, <1>6
  <2> QED
    BY <1>4, <1>6, <2>1 DEF eof, n
<1> QED
  BY <1>5, <1>6

\* The file that is added is read on, or is complete.
LEMMA ReadInv == IInv /\ ReadEntry => IInv'
<1> SUFFICES ASSUME IInv, ReadEntry PROVE IInv'
  OBVIOUS
<1> DEFINE m == cur.node
           eof == cur.read = setup.real[m]
           n == IF eof THEN cur.read ELSE cur.read + 1
           tick == eof \/ n - cur.last >= Every
           e == Top(stack) - 1
<1>1. /\ pc = "stream" /\ calls' = calls /\ total' = total /\ stack' = stack /\ setup' = setup
  BY DEF ReadEntry
<1>2. /\ SetupOK /\ TypeRest /\ WriterOK /\ ByTheWalk /\ CancelInv /\ CountInv /\ ToldInv
      /\ StackInv /\ StreamInv
  BY Parts
<1>3. /\ stack \in Seq(Nodes) /\ Stands(stack) /\ result = "ok" /\ Running /\ refused = FALSE
  BY <1>1, <1>2 DEF TypeRest, StackInv, CancelInv, Running
<1>4. /\ SetupOK' /\ Nodes' = Nodes /\ N' = N /\ PreScan' = PreScan /\ N \in Nat
      /\ Nodes = 1..N /\ Unchanged' = Unchanged /\ Files' = Files /\ Kept' = Kept /\ tree' = tree
      /\ tree.stat \in [Nodes -> Nat] /\ setup.real \in [Nodes -> Nat]
  BY <1>1, <1>2, Fixed, TreeIs
<1>5. /\ m \in Files /\ m < Top(stack) /\ \A k \in Nodes : m < k /\ k < Top(stack) => ~Kept[k]
      /\ cur.last <= cur.read /\ cur.read <= setup.real[m]
      /\ tree.stat[m] >= BlockCap => pending = <<>>
  BY <1>1, <1>2 DEF StreamInv
<1>6. /\ m \in Nodes /\ m \in Listed /\ cur.read \in Nat /\ cur.last \in Nat
      /\ cur = [node |-> m, read |-> cur.read, last |-> cur.last]
  BY <1>2, <1>5 DEF Files, Listed, TypeRest
<1>7. /\ n \in Nat /\ n <= setup.real[m] /\ cur.last <= n
      /\ eof => n = setup.real[m]
  <2>1. setup.real[m] \in Nat
    BY <1>4, <1>6
  <2> QED
    BY <1>5, <1>6, <2>1
<1>8. \/ /\ tick /\ setup.sink /\ told' = done.bytes + n /\ refused' = TRUE
         /\ pc' = "returned" /\ result' = "canceled" /\ cur' = NoEntry
         /\ UNCHANGED <<writerVars, done>>
      \/ /\ tick => told' = IF setup.sink THEN done.bytes + n ELSE told
         /\ ~tick => told' = told
         /\ refused' = refused /\ result' = result
         /\ \/ /\ eof /\ AddFile(m, n) /\ CountEntry(m) /\ cur' = NoEntry /\ pc' = "walk"
            \/ /\ ~eof /\ pc' = pc /\ UNCHANGED <<writerVars, done>>
               /\ cur' = [node |-> m, read |-> n,
                          last |-> IF n - cur.last >= Every THEN n ELSE cur.last]
  BY <1>2, ReadTurns
<1>9. Past = m - 1
  BY <1>1 DEF Past
<1>10. /\ done = CountTo(m - 1) /\ Written = Listings(calls - 1) \o FirstListed[m - 1]
       /\ (setup.sink /\ calls > 0 => total = PreScan) /\ calls > 0
  BY <1>2, <1>3, <1>9 DEF CountInv, ByTheWalk
<1>11. /\ calls - 1 \in Nat /\ Listings(calls - 1) \in Seq(Nat) /\ m - 1 \in 0..N
       /\ FirstListed[m - 1] \in Seq(Nat) /\ done \in Counts /\ done.bytes \in Nat
  <2>1. calls - 1 \in Nat /\ m - 1 \in 0..N
    BY <1>2, <1>4, <1>6, <1>10, TreeAssumption DEF TypeRest
  <2> QED
    BY <1>2, <2>1, ListingsMore, Bounds DEF TypeRest, Counts
<1>12. /\ e \in m..N /\ \A k \in Nodes : m < k /\ k <= e => ~Kept[k]
  <2> DEFINE t == Top(stack)
  <2>1. t \in 1..(N + 1)
    BY <1>2, <1>3, TopIsLeast DEF Stands
  <2>2. m < t /\ \A k \in Nodes : m < k /\ k < t => ~Kept[k]
    BY <1>5
  <2> HIDE DEF t
  <2>3. t - 1 \in m..N /\ \A k \in Nodes : k <= t - 1 => k < t
    BY <1>4, <1>6, <2>1, <2>2
  <2> QED
    BY <2>2, <2>3 DEF t
<1> HIDE DEF e
<1>13. /\ CountTo(e) = [entries |-> done.entries + 1, bytes |-> done.bytes + tree.stat[m]]
       /\ FirstListed[e] = FirstListed[m - 1] \o <<m>>
       /\ done.bytes + tree.stat[m] <= PreScan.bytes
  <2>1. /\ CountTo(e) = [entries |-> done.entries + 1, bytes |-> done.bytes + tree.stat[m]]
        /\ FirstListed[e] = FirstListed[m - 1] \o <<m>>
    BY <1>2, <1>5, <1>6, <1>10, <1>12, Dealt
  <2>2. e \in 0..N
    BY <1>4, <1>6, <1>12
  <2>3. CountTo(e).bytes <= PreScan.bytes
    BY <1>2, <2>2, Bounds
  <2> QED
    BY <2>1, <2>3
<1>14. StackInv'
  <2>1. Stands(stack)'
    BY <1>1, <1>3, StandsStill
  <2> QED
    BY <2>1 DEF StackInv
\* No tick shows more than the total.
<1>15. setup.sink /\ Unchanged => done.bytes + n <= total.bytes /\ (eof => n = tree.stat[m])
  <2> HAVE setup.sink /\ Unchanged
  <2>1. n <= tree.stat[m] /\ (eof => n = tree.stat[m])
    BY <1>7 DEF Unchanged
  <2>2. tree.stat[m] \in Nat /\ PreScan.bytes \in Nat
    BY <1>2, <1>4, <1>6, Bounds DEF Counts
  <2> HIDE DEF n
  <2>3. done.bytes + n <= PreScan.bytes
    BY <1>7, <1>11, <1>13, <2>1, <2>2 
  <2> QED
    BY <1>10, <2>1, <2>3
<1>16. setup.sink /\ Unchanged => told <= total.bytes
  BY <1>1, <1>2, <1>10 DEF ToldInv
<1>17. told' \in Nat /\ (setup.sink /\ Unchanged => told' <= total.bytes)
  <2>1. told' \in {told, done.bytes + n}
    BY <1>8
  <2>2. told \in Nat /\ done.bytes + n \in Nat
    BY <1>2, <1>7, <1>11 DEF TypeRest
  <2> QED
    BY <1>15, <1>16, <2>1, <2>2
<1> HIDE DEF n
<1>18. ASSUME NEW p, p = Past'
       PROVE  /\ Listings(calls - 1)' = Listings(calls - 1) /\ FirstListed'[Past'] = FirstListed[p]
              /\ CountTo(Past)' = CountTo(p)
  BY <1>1, <1>18, Fixed DEF Listings, CountTo
<1>19. NoEntry \in [node : Nodes \cup {0}, read : Nat, last : Nat]
  BY DEF NoEntry
\* The host stops the call.
<1>20. CASE /\ tick /\ setup.sink /\ told' = done.bytes + n /\ refused' = TRUE
            /\ pc' = "returned" /\ result' = "canceled" /\ cur' = NoEntry
            /\ UNCHANGED <<writerVars, done>>
  <2>1. WriterOK'
    BY <1>1, <1>2, <1>20, WriterStays
  <2>2. TypeRest'
    BY <1>1, <1>2, <1>4, <1>17, <1>19, <1>20 DEF TypeRest
  <2>3. ByTheWalk' /\ StreamInv' /\ CancelInv'
    BY <1>20 DEF ByTheWalk, StreamInv, CancelInv, Running, Succeeded
  <2>4. CountInv'
    BY <1>1, <1>4, <1>10, <1>20 DEF CountInv, Running, Succeeded
  <2>5. ToldInv'
    BY <1>1, <1>4, <1>17, <1>20 DEF ToldInv, Succeeded
  <2> QED
    BY <1>4, <1>14, <2>1, <2>2, <2>3, <2>4, <2>5, Parts
\* The file is complete.
<1>21. CASE /\ tick => told' = IF setup.sink THEN done.bytes + n ELSE told
            /\ refused' = refused /\ result' = result
            /\ eof /\ AddFile(m, n) /\ CountEntry(m) /\ cur' = NoEntry /\ pc' = "walk"
  <2>1. WriterOK' /\ Written' = Written \o <<m>>
    <3>1. AddFile(m, setup.real[m])
      BY <1>7, <1>21
    <3> QED
      BY <1>1, <1>2, <1>5, <1>6, <3>1, AddsFile
  <2>2. Past' = e /\ done' = CountTo(e)
    <3>1. Top(stack)' = Top(stack)
      BY <1>1, <1>4 DEF Top
    <3>2. done' = CountTo(e)
      BY <1>13, <1>21 DEF CountEntry
    <3> QED
      BY <1>21, <3>1, <3>2 DEF Past, e
  <2>3. done' \in Counts
    <3>1. e \in 0..N
      BY <1>4, <1>6, <1>12
    <3> QED
      BY <1>2, <2>2, <3>1, Bounds
  <2>4. TypeRest'
    BY <1>1, <1>2, <1>3, <1>4, <1>17, <1>19, <1>21, <2>3 DEF TypeRest
  <2>5. Written' = Listings(calls - 1) \o FirstListed[e]
    <3> DEFINE a == Listings(calls - 1)
               b == FirstListed[m - 1]
               x == <<m>>
    <3>1. a \in Seq(Nat) /\ b \in Seq(Nat) /\ x \in Seq(Nat)
      BY <1>4, <1>6, <1>11
    <3>2. Written' = (a \o b) \o x /\ FirstListed[e] = b \o x
      BY <1>10, <1>13, <2>1
    <3> HIDE DEF a, b, x
    <3>3. (a \o b) \o x = a \o (b \o x)
      BY <3>1, ConcatAssociative
    <3> QED
      BY <3>2, <3>3 DEF a
  <2>6. ByTheWalk'
    <3>1. ~Succeeded' /\ result' = "ok"
      BY <1>3, <1>21 DEF Succeeded
    <3> QED
      BY <1>18, <2>2, <2>5, <3>1 DEF ByTheWalk
  <2>7. CountInv'
    <3>1. done' = CountTo(Past)'
      BY <1>18, <2>2
    <3> QED
      BY <1>1, <1>4, <1>10, <3>1 DEF CountInv
  <2>8. ToldInv'
    <3>1. setup.sink /\ Unchanged => told' = done'.bytes
      <4> HAVE setup.sink /\ Unchanged
      <4>1. told' = done.bytes + n /\ n = tree.stat[m]
        BY <1>15, <1>21
      <4>2. done'.bytes = done.bytes + tree.stat[m]
        BY <1>13, <2>2
      <4> QED
        BY <4>1, <4>2
    <3> QED
      BY <1>1, <1>4, <1>17, <1>21, <3>1 DEF ToldInv
  <2>9. StreamInv' /\ CancelInv'
    BY <1>3, <1>21 DEF StreamInv, CancelInv
  <2> QED
    BY <1>4, <1>14, <2>1, <2>4, <2>6, <2>7, <2>8, <2>9, Parts
\* There is one more byte.
<1>22. CASE /\ refused' = refused /\ result' = result
            /\ ~eof /\ pc' = pc /\ UNCHANGED <<writerVars, done>>
            /\ cur' = [node |-> m, read |-> n,
                       last |-> IF n - cur.last >= Every THEN n ELSE cur.last]
  <2>0. /\ cur'.node = m /\ cur'.read = n /\ cur'.last \in Nat /\ cur'.last <= n
        /\ cur' \in [node : Nodes \cup {0}, read : Nat, last : Nat]
    BY <1>6, <1>7, <1>22
  <2>1. WriterOK' /\ Written' = Written
    BY <1>1, <1>2, <1>22, WriterStays
  <2>2. TypeRest'
    BY <1>1, <1>2, <1>3, <1>4, <1>17, <1>22, <2>0 DEF TypeRest
  <2>3. Past' = m - 1
    BY <1>1, <1>22, <2>0 DEF Past
  <2>4. ByTheWalk'
    <3>1. ~Succeeded' /\ result' = "ok"
      BY <1>1, <1>3, <1>22 DEF Succeeded
    <3> QED
      BY <1>10, <1>18, <2>1, <2>3, <3>1 DEF ByTheWalk
  <2>5. CountInv'
    <3>1. done' = CountTo(Past)'
      BY <1>10, <1>18, <1>22, <2>3
    <3> QED
      BY <1>1, <1>4, <1>10, <3>1 DEF CountInv
  <2>6. ToldInv'
    BY <1>1, <1>4, <1>17, <1>22 DEF ToldInv, Succeeded
  <2>7. StreamInv'
    <3>1. Top(stack)' = Top(stack)
      BY <1>1, <1>4 DEF Top
    <3>2. /\ cur'.node \in Files' /\ cur'.node < Top(stack)'
          /\ \A k \in Nodes' : cur'.node < k /\ k < Top(stack)' => ~Kept'[k]
      BY <1>4, <1>5, <2>0, <3>1
    <3>3. cur'.last <= cur'.read /\ cur'.read <= setup'.real[cur'.node]
      BY <1>1, <1>7, <2>0
    <3>4. tree'.stat[cur'.node] >= BlockCap => pending' = <<>>
      BY <1>4, <1>5, <1>22, <2>0 DEF writerVars
    <3> QED
      BY <3>2, <3>3, <3>4 DEF StreamInv
  <2>8. CancelInv'
    BY <1>1, <1>3, <1>22 DEF CancelInv
  <2> QED
    BY <1>4, <1>14, <2>1, <2>2, <2>4, <2>5, <2>6, <2>7, <2>8, Parts
<1> QED
  BY <1>8, <1>20, <1>21, <1>22

\* A source or the output fails.
LEMMA FailsInv == IInv /\ Fails => IInv'
<1> SUFFICES ASSUME IInv, Fails PROVE IInv'
  OBVIOUS
<1>1. /\ pc \in {"walk", "stream"} /\ pc' = "returned" /\ result' = "failed" /\ stack' = <<>>
      /\ cur' = NoEntry /\ setup' = setup /\ calls' = calls /\ total' = total /\ done' = done
      /\ told' = told /\ refused' = refused /\ UNCHANGED writerVars
  BY DEF Fails, Return
<1>2. /\ SetupOK /\ TypeRest /\ WriterOK /\ CancelInv /\ CountInv /\ ToldInv
  BY Parts
<1>3. SetupOK' /\ PreScan' = PreScan /\ Unchanged' = Unchanged
  BY <1>1, <1>2, Fixed
<1>4. WriterOK'
  BY <1>1, <1>2, WriterStays
<1>5. TypeRest'
  <2>1. <<>> \in Seq(Nodes) /\ NoEntry \in [node : Nodes \cup {0}, read : Nat, last : Nat]
    BY DEF NoEntry
  <2> QED
    BY <1>1, <1>2, <2>1, VisitTypes
<1>6. ByTheWalk' /\ StackInv' /\ StreamInv'
  BY <1>1 DEF ByTheWalk, StackInv, StreamInv, Running, Succeeded
<1>7. CountInv'
  BY <1>1, <1>2, <1>3 DEF CountInv, Running, Succeeded
<1>8. ToldInv'
  BY <1>1, <1>2, <1>3 DEF ToldInv, Succeeded
<1>9. CancelInv'
  BY <1>1, <1>2 DEF CancelInv, Running
<1> QED
  BY <1>3, <1>4, <1>5, <1>6, <1>7, <1>8, <1>9, Parts

\* The stack is empty: every node has been dealt with.
LEMMA DoneInv == IInv /\ WalkDone => IInv'
<1> SUFFICES ASSUME IInv, WalkDone PROVE IInv'
  OBVIOUS
<1>1. /\ pc = "walk" /\ stack = <<>> /\ pc' = "returned" /\ result' = "ok" /\ setup' = setup
      /\ calls' = calls /\ stack' = stack /\ total' = total /\ done' = done /\ cur' = cur
      /\ UNCHANGED writerVars /\ told' = told /\ refused' = refused
  BY DEF WalkDone, Return, walkVars
<1>2. /\ SetupOK /\ TypeRest /\ WriterOK /\ ByTheWalk /\ CancelInv /\ CountInv /\ ToldInv
  BY Parts
<1>3. SetupOK' /\ PreScan' = PreScan /\ Unchanged' = Unchanged /\ Nodes' = Nodes
      /\ N' = N /\ Listing' = Listing /\ N \in Nat
  BY <1>1, <1>2, Fixed, TreeIs
<1>4. WriterOK' /\ Written' = Written
  BY <1>1, <1>2, WriterStays
<1>5. TypeRest'
  BY <1>1, <1>2, <1>3 DEF TypeRest
<1>6. Past = N /\ Past' = N /\ Running
  BY <1>1, <1>3 DEF Past, Top, Running
<1>7. calls > 0 /\ calls - 1 \in Nat
  BY <1>2, <1>6, TreeAssumption DEF CountInv, TypeRest
<1>8. Written = Listings(calls)
  <2>1. Written = Listings(calls - 1) \o Listing
    BY <1>2, <1>6, Bounds DEF ByTheWalk
  <2>2. (calls - 1) + 1 = calls
    BY <1>2, TreeAssumption DEF TypeRest
  <2>3. Listings((calls - 1) + 1) = Listings(calls - 1) \o Listing
    BY <1>2, <1>7, ListingsMore
  <2> QED
    BY <2>1, <2>2, <2>3
<1>9. ByTheWalk'
  <2>1. Listings(calls)' = Listings(calls)
    BY <1>1, <1>3 DEF Listings
  <2> QED
    BY <1>1, <1>4, <1>8, <2>1 DEF ByTheWalk, Running
<1>10. CountInv'
  <2>1. CountTo(Past)' = CountTo(N)
    BY <1>1, <1>6, Fixed DEF CountTo
  <2>2. done = CountTo(N)
    BY <1>2, <1>6 DEF CountInv
  <2> QED
    BY <1>1, <1>2, <1>3, <2>1, <2>2 DEF CountInv, Running
<1>11. ToldInv'
  BY <1>1, <1>2, <1>3 DEF ToldInv
<1>12. StackInv' /\ StreamInv'
  BY <1>1 DEF StackInv, StreamInv
<1>13. CancelInv'
  BY <1>1, <1>2 DEF CancelInv, Running
<1> QED
  BY <1>3, <1>4, <1>5, <1>9, <1>10, <1>11, <1>12, <1>13, Parts

\* The archive is committed, or its end cannot be written.
LEMMA CommitInv == IInv /\ Commit => IInv'
<1> SUFFICES ASSUME IInv, Commit PROVE IInv'
  OBVIOUS
<1>1. /\ pc = "returned" /\ result = "ok" /\ calls > 0 /\ pc' = "closed" /\ setup' = setup
      /\ calls' = calls /\ stack' = stack /\ total' = total /\ done' = done /\ cur' = cur
      /\ told' = told /\ refused' = refused
      /\ \/ result' = "committed" /\ FlushSolidBlock(<<>>)
         \/ result' = "failed" /\ UNCHANGED writerVars
  BY DEF Commit, walkVars, DropsLastBuffer
<1>2. /\ SetupOK /\ TypeRest /\ WriterOK /\ ByTheWalk /\ CancelInv /\ CountInv /\ ToldInv
  BY Parts
<1>3. SetupOK' /\ PreScan' = PreScan /\ Nodes' = Nodes /\ Listing' = Listing
  BY <1>1, <1>2, Fixed
<1>4. WriterOK' /\ (result' = "committed" => NodesOf(out)' = Written)
  <2>1. CASE result' = "committed" /\ FlushSolidBlock(<<>>)
    <3>1. <<>> \in Seq(Items) /\ Whole(<<>>)
      BY DEF Whole
    <3>2. WriterOK'
      BY <1>1, <1>2, <2>1, <3>1, Flushes
    <3>3. out \o pending \in Seq(Items)
      BY <1>2 DEF WriterOK
    <3>4. out' = (out \o pending) \o <<>>
      BY <2>1 DEF FlushSolidBlock
    <3>5. out' = out \o pending
      BY <3>3, <3>4
    <3> QED
      BY <3>2, <3>5 DEF Written, NodesOf
  <2>2. CASE result' = "failed" /\ UNCHANGED writerVars
    BY <1>1, <1>2, <2>2, WriterStays
  <2> QED
    BY <1>1, <2>1, <2>2
<1>5. TypeRest'
  BY <1>1, <1>2, <1>3 DEF TypeRest
<1>6. ByTheWalk'
  <2>1. Listings(calls)' = Listings(calls)
    BY <1>1, <1>3 DEF Listings
  <2>2. Written = Listings(calls)
    BY <1>1, <1>2 DEF ByTheWalk, Succeeded
  <2> QED
    BY <1>1, <1>4, <2>1, <2>2 DEF ByTheWalk, Running, Succeeded
<1>7. CountInv'
  BY <1>1, <1>2, <1>3 DEF CountInv, Running, Succeeded
<1>8. StackInv' /\ StreamInv' /\ ToldInv'
  BY <1>1 DEF StackInv, StreamInv, ToldInv, Succeeded
<1>9. CancelInv'
  BY <1>1, <1>2 DEF CancelInv, Running
<1> QED
  BY <1>3, <1>4, <1>5, <1>6, <1>7, <1>8, <1>9, Parts

\* A step that changes nothing.
LEMMA StutterInv == IInv /\ UNCHANGED vars => IInv'
<1> SUFFICES ASSUME IInv, UNCHANGED vars PROVE IInv'
  OBVIOUS
<1>1. /\ setup' = setup /\ pc' = pc /\ calls' = calls /\ stack' = stack /\ total' = total
      /\ done' = done /\ cur' = cur /\ pending' = pending /\ pending_bytes' = pending_bytes
      /\ out' = out /\ told' = told /\ refused' = refused /\ result' = result
  BY DEF vars
<1>2. /\ SetupOK /\ TypeRest /\ WriterOK /\ ByTheWalk /\ CancelInv /\ CountInv /\ ToldInv
      /\ StackInv /\ StreamInv
  BY Parts
<1>3. /\ SetupOK' /\ PreScan' = PreScan /\ Nodes' = Nodes /\ Listing' = Listing /\ N' = N
      /\ Unchanged' = Unchanged /\ Files' = Files /\ Kept' = Kept /\ tree' = tree
      /\ FirstListed' = FirstListed /\ BytesOfFiles' = BytesOfFiles
  BY <1>1, <1>2, Fixed
<1>4. WriterOK' /\ Written' = Written
  BY <1>1, <1>2, WriterStays DEF writerVars
<1>5. Top(stack)' = Top(stack) /\ Past' = Past
  BY <1>1, <1>3 DEF Top, Past
<1>6. TypeRest' /\ CancelInv'
  BY <1>1, <1>2, <1>3 DEF TypeRest, CancelInv, Running
<1>7. StackInv'
  BY <1>1, <1>2, StandsStill DEF StackInv
<1>8. StreamInv'
  BY <1>1, <1>2, <1>3, <1>5 DEF StreamInv
<1>9. CountInv'
  BY <1>1, <1>2, <1>3, <1>5 DEF CountInv, CountTo, Running, Succeeded
<1>10. ByTheWalk'
  BY <1>1, <1>2, <1>3, <1>4, <1>5 DEF ByTheWalk, Listings, Running, Succeeded, NodesOf
<1>11. ToldInv'
  BY <1>1, <1>2, <1>3 DEF ToldInv, Succeeded
<1> QED
  BY <1>3, <1>4, <1>6, <1>7, <1>8, <1>9, <1>10, <1>11, Parts

-----------------------------------------------------------------------------
(* Theorems                                                                *)

\* The invariant, for every tree, format, block cap, tick and number of calls.
THEOREM TreeInvariant == Spec => []IInv
<1>1. IInv /\ [Next]_vars => IInv'
  BY BeginInv, ScanningInv, VisitInv, ReadInv, FailsInv, DoneInv, CommitInv, StutterInv DEF Next
<1> QED
  BY InitInv, <1>1, PTL DEF Spec

\* Only a commit answers "committed", and it tells the truth about the last
\* flush unless it drops the buffer (writer.rs:1167-1176,1905-1915).
LEMMA FlushInvariant == Spec => []FlushInv
<1>1. Init => FlushInv
  BY DEF Init, FlushInv
<1>2. FlushInv /\ [Next]_vars => FlushInv'
  <2> SUFFICES ASSUME FlushInv, [Next]_vars PROVE FlushInv'
    OBVIOUS
  <2>1. CASE whole' = whole /\ setup' = setup /\ (result' = result \/ result' # "committed")
    BY <2>1 DEF FlushInv, DropsLastBuffer
  <2>2. CASE Begin
    BY <2>1, <2>2 DEF Begin, Return
  <2>3. CASE ScanningTick
    BY <2>1, <2>3 DEF ScanningTick, Tell, Return
  <2>4. CASE Visit
    BY <2>1, <2>4 DEF Visit, Return
  <2>5. CASE ReadEntry
    BY <2>1, <2>5 DEF ReadEntry, Tell, Canceled, Return
  <2>6. CASE Fails
    BY <2>1, <2>6 DEF Fails, Return
  <2>7. CASE WalkDone
    BY <2>1, <2>7 DEF WalkDone, Return
  <2>8. CASE Commit
    BY <2>8 DEF Commit, FlushInv, DropsLastBuffer
  <2>9. CASE UNCHANGED vars
    BY <2>1, <2>9 DEF vars
  <2> QED
    BY <2>2, <2>3, <2>4, <2>5, <2>6, <2>7, <2>8, <2>9 DEF Next
<1> QED
  BY <1>1, <1>2, PTL DEF Spec

\* Every variable has its type, and a solid block stays below the cap between
\* two entries (writer.rs:1049-1051,1132-1146).
THEOREM TypeCorrect == Spec => []TypeOK
<1>1. IInv /\ FlushInv => TypeOK
  BY DEF IInv, WalkTyped, FlushInv, TypeOK
<1> QED
  BY TreeInvariant, FlushInvariant, <1>1, PTL

\* What a commit that answers Ok has written, unless it is one of xz or the
\* zip crate's that has lost its last flush (writer.rs:1052-1188,1905-1915).
THEOREM CommittedIsTree == Spec => []CommittedListsTrees
<1>1. IInv /\ FlushInv => CommittedListsTrees
  <2> SUFFICES ASSUME IInv, FlushInv, result = "committed", whole \/ ~DropsLastBuffer
               PROVE CommittedListsTrees
    BY DEF CommittedListsTrees
  <2>1. NodesOf(out) = Listings(calls) /\ Whole(out)
    BY DEF IInv, WrittenInv
  <2>2. [i \in DOMAIN out |-> out[i].node] = FlattenSeq([c \in 1..calls |-> Listing])
    BY <2>1 DEF NodesOf, Listings, Copies
  <2>3. \A i \in DOMAIN out : ~IsDir(out[i].node) =>
          /\ out[i].data = setup.real[out[i].node]
          /\ Unchanged \/ setup.fmt # "tar" => out[i].size = out[i].data
    BY <2>1 DEF Whole, IsWhole
  <2> QED
    BY <2>2, <2>3 DEF CommittedListsTrees, FlushInv
<1> QED
  BY TreeInvariant, FlushInvariant, <1>1, PTL

\* The totals announced before the walk are met (writer.rs:1466-1472,1555-1610).
THEOREM TotalsMet == Spec => []TotalsAreMet
<1>1. IInv => TotalsAreMet
  <2> SUFFICES ASSUME IInv, setup.sink, calls > 0
               PROVE  /\ pc = "returned" /\ result = "ok" => done = total
                      /\ pc = "returned" /\ result = "ok" /\ Unchanged => told = total.bytes
                      /\ Unchanged /\ pc # "closed" => told <= total.bytes
    BY DEF TotalsAreMet
  <2>1. pc = "returned" /\ result = "ok" => done = total
    <3> HAVE pc = "returned" /\ result = "ok"
    <3>1. done = CountTo(N) /\ total = PreScan
      BY DEF IInv, CountInv, Succeeded, Past
    <3> QED
      BY <3>1, Bounds DEF IInv
  <2> QED
    BY <2>1 DEF IInv, ToldInv, Succeeded
<1> QED
  BY TreeInvariant, <1>1, PTL

\* A host that answered false gets Canceled and is not called again
\* (writer.rs:1742-1746).
THEOREM CancelTold == Spec => []CancelIsTold
<1>1. IInv => CancelIsTold
  BY DEF IInv, CancelInv, CancelIsTold
<1> QED
  BY TreeInvariant, <1>1, PTL
=============================================================================
