--------------------------- MODULE ItsFlashFsProofs ---------------------------
(***************************************************************************)
(* Proofs about the file system of ItsFlashFs, for every size of the file  *)
(* table, of the blocks and of the service's buffer.                       *)
(***************************************************************************)
EXTENDS ItsFlashFs, FiniteSetTheorems, SequenceTheorems, TLAPS

-----------------------------------------------------------------------------
(* Sums over finite sets.  A recursive definition is reasoned about with    *)
(* sets of "good" arguments: a set of subsets that contains a set whenever *)
(* it contains its proper subsets contains every finite set.               *)

LEMMA SubsetInduction ==
  ASSUME NEW S, IsFiniteSet(S), NEW Good,
         \A T \in SUBSET S :
           (\A U \in SUBSET T : U # T => U \in Good) => T \in Good
  PROVE  \A T \in SUBSET S : T \in Good
<1> DEFINE Bad == {T \in SUBSET S : T \notin Good}
<1>1. SUFFICES ASSUME Bad # {} PROVE FALSE
  OBVIOUS
<1>2. IsWellFoundedOn(StrictSubsetOrdering(S), SUBSET S)
  BY FS_StrictSubsetOrderingWellFounded, FS_FiniteSubsetsOfFinite
<1>3. PICK T \in Bad : \A U \in Bad : <<U, T>> \notin StrictSubsetOrdering(S)
  <2>1. Bad \subseteq SUBSET S
    OBVIOUS
  <2> HIDE DEF Bad
  <2>2. \E T \in Bad : \A U \in Bad : ~(<<U, T>> \in StrictSubsetOrdering(S))
    BY <1>1, <1>2, <2>1, WFMin
  <2> QED
    BY <2>2
<1>4. \A U \in SUBSET T : U # T => U \in Good
  BY <1>3 DEF StrictSubsetOrdering
<1> QED
  BY <1>3, <1>4

\* The element that MapThenSumSet() takes out of a set first.
Pick(s) == CHOOSE x \in s : TRUE

LEMMA PickIn ==
  ASSUME NEW s, s # {}
  PROVE  Pick(s) \in s
BY DEF Pick

\* The table of partial sums of the reserved sizes m[i].max_size.
IsSums(m, g, S) ==
  g = [s \in SUBSET S |->
         IF s = {} THEN 0 ELSE m[Pick(s)].max_size + g[s \ {Pick(s)}]]

Sums(m, S) == CHOOSE g : IsSums(m, g, S)

\* The bytes reserved by the entries S of table m.
Total(m, S) == Sums(m, S)[S]

LEMMA TotalIs ==
  ASSUME NEW m, NEW S
  PROVE  MapThenSumSet(LAMBDA i : m[i].max_size, S) = Total(m, S)
BY DEF MapThenSumSet, MapThenFoldSet, Total, Sums, IsSums, Pick

LEMMA SumsUnique ==
  ASSUME NEW m, NEW S, IsFiniteSet(S), NEW U, NEW V, S \subseteq U, S \subseteq V,
         NEW g, NEW h, IsSums(m, g, U), IsSums(m, h, V)
  PROVE  g[S] = h[S]
<1> DEFINE Good == {T \in SUBSET S : g[T] = h[T]}
<1>1. ASSUME NEW T \in SUBSET S,
             \A W \in SUBSET T : W # T => W \in Good
      PROVE  T \in Good
  <2>1. CASE T = {}
    BY <2>1 DEF IsSums
  <2>2. CASE T # {}
    <3>1. Pick(T) \in T
      BY <2>2, PickIn
    <3>2. T \ {Pick(T)} \in Good
      BY <1>1, <3>1
    <3>3. g[T] = m[Pick(T)].max_size + g[T \ {Pick(T)}]
      BY <2>2 DEF IsSums
    <3>4. h[T] = m[Pick(T)].max_size + h[T \ {Pick(T)}]
      BY <2>2 DEF IsSums
    <3> QED
      BY <3>2, <3>3, <3>4
  <2> QED
    BY <2>1, <2>2
<1>2. \A T \in SUBSET S : T \in Good
  <2> HIDE DEF Good
  <2> QED
    BY <1>1, SubsetInduction
<1> QED
  BY <1>2

LEMMA SumsExist ==
  ASSUME NEW m, NEW S, IsFiniteSet(S)
  PROVE  IsSums(m, Sums(m, S), S)
<1> DEFINE Good == {T \in SUBSET S : IsSums(m, Sums(m, T), T)}
<1>1. ASSUME NEW T \in SUBSET S,
             \A W \in SUBSET T : W # T => W \in Good
      PROVE  T \in Good
  <2> DEFINE rest(s) == Sums(m, s \ {Pick(s)})[s \ {Pick(s)}]
             g == [s \in SUBSET T |->
                     IF s = {} THEN 0 ELSE m[Pick(s)].max_size + rest(s)]
  <2>1. ASSUME NEW s \in SUBSET T, s # {}
        PROVE  rest(s) = g[s \ {Pick(s)}]
    <3> DEFINE u == s \ {Pick(s)}
    <3>1. u \in SUBSET T /\ u # T
      BY <2>1, PickIn
    <3>2. IsSums(m, Sums(m, u), u)
      BY <1>1, <3>1
    <3>3. CASE u = {}
      BY <3>1, <3>2, <3>3 DEF IsSums
    <3>4. CASE u # {}
      <4> DEFINE w == u \ {Pick(u)}
      <4>1. Pick(u) \in u
        BY <3>4, PickIn
      <4>2. w \in SUBSET T /\ w # T /\ w \subseteq u
        BY <3>1, <4>1
      <4>3. IsSums(m, Sums(m, w), w)
        BY <1>1, <4>2
      <4>4. IsFiniteSet(w)
        BY <4>2, FS_Subset
      <4>5. Sums(m, u)[w] = Sums(m, w)[w]
        <5> HIDE DEF w, u
        <5> QED
          BY <4>2, <4>3, <4>4, <3>2, SumsUnique
      <4>6. Sums(m, u)[u] = m[Pick(u)].max_size + Sums(m, u)[w]
        BY <3>2, <3>4 DEF IsSums
      <4>7. g[u] = m[Pick(u)].max_size + Sums(m, w)[w]
        BY <3>1, <3>4
      <4> QED
        BY <4>5, <4>6, <4>7
    <3> QED
      BY <3>3, <3>4
  <2>2. IsSums(m, g, T)
    BY <2>1 DEF IsSums
  <2>3. IsSums(m, Sums(m, T), T)
    <3> HIDE DEF g
    <3> QED
      BY <2>2 DEF Sums
  <2> QED
    BY <2>3
<1>2. \A T \in SUBSET S : T \in Good
  <2> HIDE DEF Good
  <2> QED
    BY <1>1, SubsetInduction
<1> QED
  BY <1>2

LEMMA TotalEmpty ==
  ASSUME NEW m
  PROVE  Total(m, {}) = 0
<1>1. IsFiniteSet({})
  BY FS_EmptySet
<1>2. IsSums(m, Sums(m, {}), {})
  BY <1>1, SumsExist
<1>3. \A g : IsSums(m, g, {}) => g[{}] = 0
  BY DEF IsSums
<1> QED
  BY <1>2, <1>3 DEF Total

LEMMA TotalPick ==
  ASSUME NEW m, NEW S, IsFiniteSet(S), S # {}
  PROVE  Total(m, S) = m[Pick(S)].max_size + Total(m, S \ {Pick(S)})
<1> DEFINE u == S \ {Pick(S)}
<1>1. IsFiniteSet(u) /\ u \subseteq S
  BY FS_Subset
<1>2. IsSums(m, Sums(m, S), S) /\ IsSums(m, Sums(m, u), u)
  BY <1>1, SumsExist
<1>3. Sums(m, S)[u] = Sums(m, u)[u]
  <2> HIDE DEF u
  <2> QED
    BY <1>1, <1>2, SumsUnique
<1>4. Sums(m, S)[S] = m[Pick(S)].max_size + Sums(m, S)[u]
  BY <1>2 DEF IsSums
<1> QED
  BY <1>3, <1>4 DEF Total

\* Entries whose reserved size is a number.
Sized(m, S) == \A i \in S : m[i].max_size \in Nat

LEMMA TotalNat ==
  ASSUME NEW m, NEW S, IsFiniteSet(S), Sized(m, S)
  PROVE  Total(m, S) \in Nat
<1> DEFINE Good == {T \in SUBSET S : Total(m, T) \in Nat}
<1>1. ASSUME NEW T \in SUBSET S,
             \A W \in SUBSET T : W # T => W \in Good
      PROVE  T \in Good
  <2>1. CASE T = {}
    BY <2>1, TotalEmpty
  <2>2. CASE T # {}
    <3>1. Pick(T) \in T /\ IsFiniteSet(T)
      BY <2>2, PickIn, FS_Subset
    <3>2. Total(m, T \ {Pick(T)}) \in Nat
      BY <1>1, <3>1
    <3>3. Total(m, T) = m[Pick(T)].max_size + Total(m, T \ {Pick(T)})
      BY <2>2, <3>1, TotalPick
    <3> QED
      BY <3>1, <3>2, <3>3 DEF Sized
  <2> QED
    BY <2>1, <2>2
<1>2. \A T \in SUBSET S : T \in Good
  <2> HIDE DEF Good
  <2> QED
    BY <1>1, SubsetInduction
<1> QED
  BY <1>2

\* The sum does not depend on the order.
LEMMA TotalRemove ==
  ASSUME NEW m, NEW S, IsFiniteSet(S), Sized(m, S), NEW x \in S
  PROVE  Total(m, S) = m[x].max_size + Total(m, S \ {x})
<1> DEFINE Good == {T \in SUBSET S :
                      \A y \in T : Total(m, T) = m[y].max_size + Total(m, T \ {y})}
<1>1. ASSUME NEW T \in SUBSET S,
             \A W \in SUBSET T : W # T => W \in Good
      PROVE  T \in Good
  <2> SUFFICES ASSUME NEW y \in T
               PROVE  Total(m, T) = m[y].max_size + Total(m, T \ {y})
    OBVIOUS
  <2> DEFINE c == Pick(T)
  <2>1. c \in T /\ IsFiniteSet(T)
    BY PickIn, FS_Subset
  <2>2. Total(m, T) = m[c].max_size + Total(m, T \ {c})
    BY <2>1, TotalPick
  <2>3. CASE y = c
    BY <2>2, <2>3
  <2>4. CASE y # c
    <3> HIDE DEF c
    <3>1. T \ {c} \in Good /\ T \ {y} \in Good
      <4>1. T \ {c} \in SUBSET T /\ T \ {c} # T /\ T \ {y} \in SUBSET T /\ T \ {y} # T
        BY <2>1
      <4> HIDE DEF Good
      <4> QED
        BY <1>1, <4>1
    <3>2. y \in T \ {c} /\ c \in T \ {y} /\ (T \ {y}) \ {c} = (T \ {c}) \ {y}
      BY <2>1, <2>4
    <3>3. Total(m, T \ {c}) = m[y].max_size + Total(m, (T \ {c}) \ {y})
      BY <3>1, <3>2
    <3>4. Total(m, T \ {y}) = m[c].max_size + Total(m, (T \ {c}) \ {y})
      BY <3>1, <3>2
    <3>5. m[c].max_size \in Nat /\ m[y].max_size \in Nat
      BY <2>1 DEF Sized
    <3>6. Total(m, (T \ {c}) \ {y}) \in Nat
      <4>1. IsFiniteSet((T \ {c}) \ {y}) /\ Sized(m, (T \ {c}) \ {y})
        BY <2>1, FS_Subset DEF Sized
      <4> QED
        BY <4>1, TotalNat
    <3> QED
      BY <2>2, <3>3, <3>4, <3>5, <3>6
  <2> QED
    BY <2>3, <2>4
<1>2. \A T \in SUBSET S : T \in Good
  <2> HIDE DEF Good
  <2> QED
    BY <1>1, SubsetInduction
<1> QED
  BY <1>2

LEMMA TotalAdd ==
  ASSUME NEW m, NEW S, IsFiniteSet(S), NEW x, x \notin S, Sized(m, S \cup {x})
  PROVE  Total(m, S \cup {x}) = m[x].max_size + Total(m, S)
<1>1. IsFiniteSet(S \cup {x}) /\ (S \cup {x}) \ {x} = S
  BY FS_AddElement
<1> QED
  BY <1>1, TotalRemove

\* The sum only depends on the sizes of the entries summed.
LEMMA TotalSame ==
  ASSUME NEW m, NEW n, NEW S, IsFiniteSet(S),
         \A i \in S : n[i].max_size = m[i].max_size
  PROVE  Total(n, S) = Total(m, S)
<1> DEFINE Good == {T \in SUBSET S : Total(n, T) = Total(m, T)}
<1>1. ASSUME NEW T \in SUBSET S,
             \A W \in SUBSET T : W # T => W \in Good
      PROVE  T \in Good
  <2>1. CASE T = {}
    BY <2>1, TotalEmpty
  <2>2. CASE T # {}
    <3>1. Pick(T) \in T /\ IsFiniteSet(T)
      BY <2>2, PickIn, FS_Subset
    <3>2. Total(n, T \ {Pick(T)}) = Total(m, T \ {Pick(T)})
      BY <1>1, <3>1
    <3>3. Total(m, T) = m[Pick(T)].max_size + Total(m, T \ {Pick(T)})
      BY <2>2, <3>1, TotalPick
    <3>4. Total(n, T) = n[Pick(T)].max_size + Total(n, T \ {Pick(T)})
      BY <2>2, <3>1, TotalPick
    <3> QED
      BY <3>1, <3>2, <3>3, <3>4
  <2> QED
    BY <2>1, <2>2
<1>2. \A T \in SUBSET S : T \in Good
  <2> HIDE DEF Good
  <2> QED
    BY <1>1, SubsetInduction
<1> QED
  BY <1>2

LEMMA TotalUnion ==
  ASSUME NEW m, NEW S, IsFiniteSet(S), NEW R, IsFiniteSet(R), S \cap R = {},
         Sized(m, S \cup R)
  PROVE  Total(m, S \cup R) = Total(m, S) + Total(m, R)
<1> DEFINE Good == {T \in SUBSET S : Total(m, T \cup R) = Total(m, T) + Total(m, R)}
<1>0. Total(m, R) \in Nat
  BY TotalNat DEF Sized
<1>1. ASSUME NEW T \in SUBSET S,
             \A W \in SUBSET T : W # T => W \in Good
      PROVE  T \in Good
  <2>1. CASE T = {}
    <3>1. T \cup R = R
      BY <2>1
    <3> QED
      BY <2>1, <3>1, <1>0, TotalEmpty
  <2>2. CASE T # {}
    <3> DEFINE c == Pick(T)
    <3>1. c \in T /\ IsFiniteSet(T)
      BY <2>2, PickIn, FS_Subset
    <3> HIDE DEF c
    <3>2. Total(m, (T \ {c}) \cup R) = Total(m, T \ {c}) + Total(m, R)
      <4>1. T \ {c} \in SUBSET T /\ T \ {c} # T
        BY <3>1
      <4>2. T \ {c} \in Good
        <5> HIDE DEF Good
        <5> QED
          BY <1>1, <4>1
      <4> QED
        BY <4>2
    <3>3. Sized(m, T) /\ Sized(m, T \cup R) /\ Sized(m, T \ {c}) /\ m[c].max_size \in Nat
      BY <3>1 DEF Sized
    <3>4. Total(m, T) = m[c].max_size + Total(m, T \ {c})
      BY <3>1, <3>3, TotalRemove
    <3>5. Total(m, T \cup R) = m[c].max_size + Total(m, (T \ {c}) \cup R)
      <4>1. IsFiniteSet(T \cup R)
        BY <3>1, FS_Union
      <4>2. c \in T \cup R /\ (T \cup R) \ {c} = (T \ {c}) \cup R
        BY <3>1
      <4> QED
        BY <3>3, <4>1, <4>2, TotalRemove
    <3>6. Total(m, T \ {c}) \in Nat
      <4>1. IsFiniteSet(T \ {c})
        BY <3>1, FS_Subset
      <4> QED
        BY <4>1, <3>3, TotalNat
    <3> QED
      BY <3>2, <3>3, <3>4, <3>5, <3>6, <1>0
  <2> QED
    BY <2>1, <2>2
<1>2. \A T \in SUBSET S : T \in Good
  <2> HIDE DEF Good
  <2> QED
    BY <1>1, SubsetInduction
<1> QED
  BY <1>2

\* Entries of m that do not overlap and lie within [a, b).
Apart(m, S) ==
  \A i, j \in S : i # j =>
    \/ m[i].data_idx + m[i].max_size <= m[j].data_idx
    \/ m[j].data_idx + m[j].max_size <= m[i].data_idx

Within(m, S, a, b) ==
  \A i \in S : a <= m[i].data_idx /\ m[i].data_idx + m[i].max_size <= b

Placed(m, S) == \A i \in S : m[i].data_idx \in Nat /\ m[i].max_size \in Nat

\* They need no more room than there is.
LEMMA TotalBounded ==
  ASSUME NEW m, NEW S, IsFiniteSet(S), NEW a \in Nat, NEW b \in Nat, a <= b,
         Placed(m, S), Apart(m, S), Within(m, S, a, b)
  PROVE  Total(m, S) <= b - a
<1> DEFINE Good == {T \in SUBSET S :
                      \A l, u \in Nat : l <= u /\ Within(m, T, l, u) => Total(m, T) <= u - l}
<1>1. ASSUME NEW T \in SUBSET S,
             \A W \in SUBSET T : W # T => W \in Good
      PROVE  T \in Good
  <2> SUFFICES ASSUME NEW l \in Nat, NEW u \in Nat, l <= u, Within(m, T, l, u)
               PROVE  Total(m, T) <= u - l
    OBVIOUS
  <2>1. CASE T = {}
    BY <2>1, TotalEmpty
  <2>2. CASE T # {}
    <3>1. IsFiniteSet(T) /\ Sized(m, T)
      BY FS_Subset DEF Placed, Sized
    <3>2. PICK x \in T : TRUE
      BY <2>2
    <3> DEFINE L == {i \in T : i # x /\ m[i].data_idx + m[i].max_size <= m[x].data_idx}
               R == T \ (L \cup {x})
               d == m[x].data_idx
               e == m[x].data_idx + m[x].max_size
    <3>3. d \in Nat /\ e \in Nat /\ m[x].max_size \in Nat /\ l <= d /\ e <= u
      BY DEF Placed, Within
    <3>4. Within(m, L, l, d) /\ Within(m, R, e, u)
      BY DEF Within, Apart
    <3>5. L \in Good /\ R \in Good
      <4>1. L \in SUBSET T /\ L # T /\ R \in SUBSET T /\ R # T
        BY <3>2
      <4> HIDE DEF L, R, Good
      <4> QED
        BY <4>1, <1>1
    <3>6. Total(m, L) <= d - l /\ Total(m, R) <= u - e
      <4> HIDE DEF L, R, d, e
      <4> QED
        BY <3>3, <3>4, <3>5
    <3>7. /\ IsFiniteSet(L) /\ IsFiniteSet(R)
          /\ Sized(m, L) /\ Sized(m, R) /\ Sized(m, T \ {x})
      BY <3>1, FS_Subset DEF Sized
    <3>8. Total(m, T) = m[x].max_size + Total(m, T \ {x})
      BY <3>1, TotalRemove
    <3>9. Total(m, T \ {x}) = Total(m, L) + Total(m, R)
      <4>1. T \ {x} = L \cup R /\ L \cap R = {}
        OBVIOUS
      <4> HIDE DEF L, R
      <4> QED
        BY <4>1, <3>7, TotalUnion
    <3>10. Total(m, L) \in Nat /\ Total(m, R) \in Nat
      <4> HIDE DEF L, R
      <4> QED
        BY <3>7, TotalNat
    <3> QED
      BY <3>3, <3>6, <3>8, <3>9, <3>10
  <2> QED
    BY <2>1, <2>2
<1>2. \A T \in SUBSET S : T \in Good
  <2> HIDE DEF Good
  <2> QED
    BY <1>1, SubsetInduction
<1> QED
  BY <1>2

LEMMA MinIs ==
  ASSUME NEW n \in Nat, NEW S \in SUBSET (0 .. n), S # {}
  PROVE  Min(S) \in S /\ \A y \in S : Min(S) <= y
<1> DEFINE Good == {T \in SUBSET S : T # {} => \E x \in T : \A y \in T : x <= y}
<1>1. ASSUME NEW T \in SUBSET S,
             \A W \in SUBSET T : W # T => W \in Good
      PROVE  T \in Good
  <2> SUFFICES ASSUME NEW z \in T
               PROVE  \E x \in T : \A y \in T : x <= y
    OBVIOUS
  <2>1. CASE T = {z}
    BY <2>1
  <2>2. CASE T # {z}
    <3>1. T \ {z} \in Good
      <4> HIDE DEF Good
      <4> QED
        BY <1>1
    <3>2. PICK x \in T \ {z} : \A y \in T \ {z} : x <= y
      BY <3>1, <2>2
    <3>3. x \in Nat /\ z \in Nat /\ \A y \in T : y \in Nat
      OBVIOUS
    <3>4. CASE x <= z
      BY <3>2, <3>4
    <3>5. CASE z <= x
      <4>1. \A y \in T : z <= y
        BY <3>2, <3>3, <3>5
      <4> QED
        BY <4>1
    <3> QED
      BY <3>3, <3>4, <3>5
  <2> QED
    BY <2>1, <2>2
<1>2. \A T \in SUBSET S : T \in Good
  <2>1. IsFiniteSet(S)
    <3>1. IsFiniteSet(0 .. n)
      BY FS_Interval
    <3> QED
      BY <3>1, FS_Subset
  <2> HIDE DEF Good
  <2> QED
    BY <1>1, <2>1, SubsetInduction
<1>3. \E x \in S : \A y \in S : x <= y
  BY <1>2
<1> QED
  BY <1>3 DEF Min

LEMMA MinOfTwo ==
  ASSUME NEW a \in Nat, NEW b \in Nat
  PROVE  Min({a, b}) = IF a <= b THEN a ELSE b
BY DEF Min

LEMMA MaxOfTwo ==
  ASSUME NEW a \in Nat, NEW b \in Nat
  PROVE  Max({a, b}) = IF a >= b THEN a ELSE b
BY DEF Max

-----------------------------------------------------------------------------
(* The layout of a file table m whose blocks have the free sizes fr.       *)

Table(m) == m \in [Indexes -> FileMetas]

Frees(fr) == fr \in [LBlocks -> 0 .. BlockSize]

Used(m) == {i \in Indexes : m[i].id # NoFid}

Block(m, l) == {i \in Used(m) : m[i].lblock = l}

Sound(m, fr, l) ==
  /\ Apart(m, Block(m, l))
  /\ Within(m, Block(m, l), data_start(l), BlockSize - fr[l])
  /\ Total(m, Block(m, l)) = BlockSize - data_start(l) - fr[l]

Layout(m, fr) ==
  /\ \A l \in LBlocks : Sound(m, fr, l)
  /\ \A i \in Used(m) : m[i].cur_size <= m[i].max_size

\* Two tables that place the entry i alike.
SamePlace(m, n, i) ==
  /\ n[i].id = m[i].id /\ n[i].lblock = m[i].lblock
  /\ n[i].data_idx = m[i].data_idx /\ n[i].max_size = m[i].max_size

LEMMA StartIs ==
  ASSUME NEW l \in LBlocks
  PROVE  data_start(l) \in 0 .. BlockSize
BY ConfigAssumption DEF data_start

LEMMA BlocksFinite ==
  ASSUME NEW S \in SUBSET Indexes
  PROVE  IsFiniteSet(S)
<1>1. 0 \in Int /\ MaxNumFiles - 1 \in Int
  BY ConfigAssumption
<1>2. IsFiniteSet(Indexes)
  BY <1>1, FS_Interval DEF Indexes
<1> QED
  BY <1>2, FS_Subset

LEMMA EntryType ==
  ASSUME NEW m, Table(m), NEW i \in Indexes
  PROVE  /\ m[i].lblock \in LBlocks /\ m[i].data_idx \in 0 .. BlockSize
         /\ m[i].max_size \in 0 .. BlockSize /\ m[i].cur_size \in 0 .. BlockSize
         /\ m[i].id \in Fids \cup {NoFid}
         /\ m[i].once \in BOOLEAN /\ m[i].delete \in BOOLEAN
BY DEF Table, FileMetas

LEMMA EntriesPlaced ==
  ASSUME NEW m, Table(m), NEW S \in SUBSET Indexes
  PROVE  Placed(m, S) /\ Sized(m, S)
BY EntryType, ConfigAssumption DEF Placed, Sized

LEMMA FreeType ==
  ASSUME NEW fr, Frees(fr), NEW l \in LBlocks
  PROVE  fr[l] \in 0 .. BlockSize
BY DEF Frees

\* A block in which no entry moves stays sound.
LEMMA SoundSame ==
  ASSUME NEW m, NEW n, NEW fr, NEW gr, NEW l \in LBlocks,
         Sound(m, fr, l), gr[l] = fr[l],
         Block(n, l) = Block(m, l),
         \A i \in Block(m, l) : SamePlace(m, n, i)
  PROVE  Sound(n, gr, l)
<1> DEFINE B == Block(m, l)
<1>1. IsFiniteSet(B)
  <2>1. B \in SUBSET Indexes
    BY DEF Block, Used
  <2> QED
    BY <2>1, BlocksFinite
<1>2. Total(n, B) = Total(m, B)
  <2> HIDE DEF B
  <2>1. \A i \in B : n[i].max_size = m[i].max_size
    BY DEF SamePlace, B
  <2> QED
    BY <1>1, <2>1, TotalSame
<1>3. Apart(n, B) /\ Within(n, B, data_start(l), BlockSize - fr[l])
  BY DEF Sound, Apart, Within, SamePlace
<1> QED
  BY <1>2, <1>3 DEF Sound

\* Writing into a file changes no place.
LEMMA WriteLayout ==
  ASSUME NEW m, NEW n, NEW fr, Layout(m, fr),
         \A i \in Indexes : SamePlace(m, n, i),
         \A i \in Used(m) : n[i].cur_size <= n[i].max_size
  PROVE  Layout(n, fr)
<1>1. Used(n) = Used(m)
  BY DEF Used, SamePlace
<1>2. ASSUME NEW l \in LBlocks
      PROVE  Sound(n, fr, l)
  <2>1. Block(n, l) = Block(m, l)
    BY <1>1 DEF Block, SamePlace, Used
  <2>2. \A i \in Block(m, l) : SamePlace(m, n, i)
    BY DEF Block, Used
  <2>3. Sound(m, fr, l)
    BY DEF Layout
  <2> QED
    BY <2>1, <2>2, <2>3, SoundSame
<1> QED
  BY <1>1, <1>2 DEF Layout

\* its_mblock_reserve_file() puts a file behind the others of a block.
Taken(fr, l, size) == [fr EXCEPT ![l] = fr[l] - size]

LEMMA ReserveLayout ==
  ASSUME NEW m, NEW n, NEW fr, Table(m), Table(n), Frees(fr), Layout(m, fr),
         NEW k \in Indexes \ Used(m), k \in Used(n),
         NEW l \in LBlocks, n[k].lblock = l, n[k].data_idx = BlockSize - fr[l],
         NEW size, size = n[k].max_size, size <= fr[l], n[k].cur_size <= size,
         \A i \in Indexes \ {k} : SamePlace(m, n, i) /\ n[i].cur_size = m[i].cur_size
  PROVE  Layout(n, Taken(fr, l, size)) /\ Frees(Taken(fr, l, size))
<1> DEFINE gr == Taken(fr, l, size)
<1>0. /\ size \in Nat /\ fr[l] \in Nat /\ BlockSize \in Nat /\ data_start(l) \in Nat
      /\ data_start(l) <= BlockSize - fr[l] /\ size <= fr[l] /\ fr[l] <= BlockSize
  <2>1. size \in Nat /\ fr[l] \in Nat /\ BlockSize \in Nat /\ data_start(l) \in Nat
        /\ fr[l] <= BlockSize
    BY EntryType, FreeType, StartIs, ConfigAssumption
  <2>2. Total(m, Block(m, l)) = BlockSize - data_start(l) - fr[l]
    BY DEF Layout, Sound
  <2>3. Total(m, Block(m, l)) \in Nat
    <3>1. Block(m, l) \in SUBSET Indexes
      BY DEF Block, Used
    <3> QED
      BY <3>1, BlocksFinite, EntriesPlaced, TotalNat
  <2> QED
    BY <2>1, <2>2, <2>3
<1>1. Frees(gr)
  BY <1>0 DEF Frees, Taken
<1>2. gr[l] = fr[l] - size /\ \A h \in LBlocks : h # l => gr[h] = fr[h]
  BY DEF Frees, Taken
<1> HIDE DEF gr
<1>3. Used(n) = Used(m) \cup {k}
  BY DEF Used, SamePlace
<1>4. ASSUME NEW h \in LBlocks, h # l
      PROVE  Sound(n, gr, h)
  <2>1. Block(n, h) = Block(m, h)
    BY <1>3, <1>4 DEF Block, SamePlace, Used
  <2>2. \A i \in Block(m, h) : SamePlace(m, n, i)
    BY DEF Block, Used
  <2>3. Sound(m, fr, h)
    BY DEF Layout
  <2>4. gr[h] = fr[h]
    BY <1>2, <1>4
  <2> QED
    BY ONLY h \in LBlocks, <2>1, <2>2, <2>3, <2>4, SoundSame
<1>5. Sound(n, gr, l)
  <2> DEFINE B == Block(m, l)
  <2>1. Block(n, l) = B \cup {k} /\ k \notin B
    BY <1>3 DEF Block, SamePlace, Used
  <2>2. B \in SUBSET Indexes /\ B \cup {k} \in SUBSET Indexes
    BY DEF Block, Used
  <2>3. \A i \in B : SamePlace(m, n, i)
    BY <2>1 DEF Block, Used
  <2>4. Sound(m, fr, l)
    BY DEF Layout
  <2>5. \A i \in B : /\ n[i].data_idx \in Nat /\ n[i].max_size \in Nat
                     /\ data_start(l) <= n[i].data_idx
                     /\ n[i].data_idx + n[i].max_size <= BlockSize - fr[l]
    BY <2>2, <2>3, <2>4, EntriesPlaced DEF Sound, Within, SamePlace, Placed
  <2>6. Apart(n, B)
    BY <2>3, <2>4 DEF Sound, Apart, SamePlace
  <2> HIDE DEF B
  <2>7. Apart(n, B \cup {k})
    BY <2>5, <2>6, <1>0 DEF Apart
  <2>8. Within(n, B \cup {k}, data_start(l), BlockSize - gr[l])
    BY <2>5, <1>0, <1>2 DEF Within
  <2>9. Total(n, B \cup {k}) = size + Total(m, B)
    <3>1. IsFiniteSet(B) /\ Sized(n, B \cup {k})
      BY <2>2, BlocksFinite, EntriesPlaced
    <3>2. Total(n, B \cup {k}) = size + Total(n, B)
      BY <2>1, <3>1, TotalAdd
    <3>3. \A i \in B : n[i].max_size = m[i].max_size
      BY <2>3 DEF SamePlace
    <3>4. Total(n, B) = Total(m, B)
      BY <3>1, <3>3, TotalSame
    <3> QED
      BY <3>2, <3>4
  <2>10. Total(m, B) = BlockSize - data_start(l) - fr[l]
    BY <2>4 DEF Sound, B
  <2>11. Total(n, B \cup {k}) = BlockSize - data_start(l) - gr[l]
    BY <2>9, <2>10, <1>0, <1>2
  <2> QED
    BY <2>1, <2>7, <2>8, <2>11 DEF Sound
<1>6. \A i \in Used(n) : n[i].cur_size <= n[i].max_size
  BY <1>3 DEF Layout, SamePlace, Used
<1> QED
  BY <1>1, <1>4, <1>5, <1>6 DEF Layout, gr

-----------------------------------------------------------------------------
(* Deleting: the terms of DeleteUpdate as operators of the table.          *)

Later(m, del) ==
  {i \in Indexes \ {del} : /\ m[i].id # NoFid
                           /\ m[i].lblock = m[del].lblock
                           /\ m[i].data_idx > m[del].data_idx}

MovedFrom(m, del) == Min({BlockSize} \cup {m[i].data_idx : i \in Later(m, del)})

Deleted(m, del) ==
  [i \in Indexes |->
     IF i = del THEN FreeEntry
     ELSE IF i \in Later(m, del) THEN [m[i] EXCEPT !.data_idx = @ - m[del].max_size]
     ELSE m[i]]

Freed(m, fr, del) == [fr EXCEPT ![m[del].lblock] = @ + m[del].max_size]

Compacted(m, d, del) ==
  LET l   == m[del].lblock
      dst == m[del].data_idx
      src == MovedFrom(m, del)
  IN  [p \in Offsets |->
         IF p >= dst /\ p < dst + Total(m, Later(m, del)) THEN d[l][p - dst + src]
         ELSE IF p >= data_start(l) /\ p < dst THEN d[l][p]
         ELSE Erased]

\* The facts about a file and the others of its block that follow from a sound
\* layout: the others end before it or start behind it.
LEMMA Neighbours ==
  ASSUME NEW m, NEW fr, Table(m), Frees(fr), Layout(m, fr), NEW del \in Used(m)
  PROVE  LET d == m[del]
             l == d.lblock
         IN  /\ l \in LBlocks /\ d.data_idx \in Nat /\ d.max_size \in Nat /\ fr[l] \in Nat
             /\ data_start(l) \in Nat /\ BlockSize \in Nat
             /\ data_start(l) <= d.data_idx /\ d.data_idx + d.max_size <= BlockSize - fr[l]
             /\ \A i \in Block(m, l) :
                  /\ m[i].data_idx \in Nat /\ m[i].max_size \in Nat
                  /\ data_start(l) <= m[i].data_idx
                  /\ m[i].data_idx + m[i].max_size <= BlockSize - fr[l]
             /\ \A i \in Later(m, del) :
                  i \in Block(m, l) /\ m[i].data_idx >= d.data_idx + d.max_size
             /\ \A i \in Block(m, l) \ (Later(m, del) \cup {del}) :
                  \/ m[i].data_idx + m[i].max_size <= d.data_idx
                  \/ d.max_size = 0
<1> DEFINE l == m[del].lblock
           B == Block(m, l)
<1>1. del \in Indexes /\ l \in LBlocks
  BY EntryType DEF Used
<1>2. fr[l] \in Nat /\ data_start(l) \in Nat /\ BlockSize \in Nat
  BY <1>1, FreeType, StartIs, ConfigAssumption
<1>3. B \in SUBSET Indexes /\ del \in B
  BY <1>1 DEF Block, Used
<1>4. \A i \in B : m[i].data_idx \in Nat /\ m[i].max_size \in Nat
  BY <1>3, EntriesPlaced DEF Placed
<1>5. Sound(m, fr, l)
  BY <1>1 DEF Layout
<1>6. \A i \in B : /\ data_start(l) <= m[i].data_idx
                   /\ m[i].data_idx + m[i].max_size <= BlockSize - fr[l]
  BY <1>5 DEF Sound, Within
<1>7. \A i \in B \ {del} :
        \/ m[i].data_idx + m[i].max_size <= m[del].data_idx
        \/ m[del].data_idx + m[del].max_size <= m[i].data_idx
  BY <1>3, <1>5 DEF Sound, Apart
<1>8. \A i \in Later(m, del) : i \in B \ {del} /\ m[i].data_idx > m[del].data_idx
  BY DEF Later, Block, Used
<1>9. \A i \in B \ (Later(m, del) \cup {del}) : ~(m[i].data_idx > m[del].data_idx)
  BY DEF Later, Block, Used
<1> HIDE DEF B
<1>10. \A i \in Later(m, del) : m[i].data_idx >= m[del].data_idx + m[del].max_size
  BY <1>3, <1>4, <1>7, <1>8
<1>11. \A i \in B \ (Later(m, del) \cup {del}) :
         m[i].data_idx + m[i].max_size <= m[del].data_idx \/ m[del].max_size = 0
  BY <1>3, <1>4, <1>7, <1>9
<1> QED
  BY <1>1, <1>2, <1>3, <1>4, <1>6, <1>8, <1>10, <1>11 DEF B

LEMMA DeleteTypes ==
  ASSUME NEW m, NEW fr, Table(m), Frees(fr), Layout(m, fr), NEW del \in Used(m)
  PROVE  Table(Deleted(m, del)) /\ Frees(Freed(m, fr, del))
<1>1. ASSUME NEW i \in Indexes
      PROVE  Deleted(m, del)[i] \in FileMetas
  <2>0. m[i] \in FileMetas /\ m[del] \in FileMetas
    BY DEF Table, Used
  <2>1. CASE i = del
    BY <2>1, ConfigAssumption DEF Deleted, FreeEntry, FileMetas, LBlocks
  <2>2. CASE i # del /\ i \notin Later(m, del)
    BY <2>0, <2>2 DEF Deleted
  <2>3. CASE i # del /\ i \in Later(m, del)
    <3>1. m[i].data_idx - m[del].max_size \in 0 .. BlockSize
      BY <2>3, EntryType, Neighbours DEF Used
    <3>2. Deleted(m, del)[i] = [m[i] EXCEPT !.data_idx = m[i].data_idx - m[del].max_size]
      BY <2>3 DEF Deleted
    <3> QED
      BY <2>0, <3>1, <3>2 DEF FileMetas
  <2> QED
    BY <2>1, <2>2, <2>3
<1>2. fr[m[del].lblock] + m[del].max_size \in 0 .. BlockSize
  BY Neighbours
<1> QED
  BY <1>1, <1>2 DEF Table, Frees, Deleted, Freed

LEMMA DeleteLayout ==
  ASSUME NEW m, NEW fr, Table(m), Frees(fr), Layout(m, fr), NEW del \in Used(m)
  PROVE  Layout(Deleted(m, del), Freed(m, fr, del))
<1> DEFINE d == m[del]
           l == d.lblock
           n == Deleted(m, del)
           gr == Freed(m, fr, del)
           B == Block(m, l)
<1>1. l \in LBlocks /\ gr[l] = fr[l] + d.max_size /\ del \in Indexes /\ del \in B
  BY Neighbours DEF Freed, Frees, Used, Block
<1>2. \A h \in LBlocks : h # l => gr[h] = fr[h]
  BY DEF Freed, Frees
<1>3. n[del].id = NoFid
  BY <1>1 DEF Deleted, FreeEntry
<1>4. ASSUME NEW i \in Indexes, i # del
      PROVE  /\ n[i].id = m[i].id /\ n[i].lblock = m[i].lblock
             /\ n[i].max_size = m[i].max_size /\ n[i].cur_size = m[i].cur_size
             /\ i \in Later(m, del) => n[i].data_idx = m[i].data_idx - d.max_size
             /\ i \notin Later(m, del) => n[i].data_idx = m[i].data_idx
  <2>1. m[i] \in FileMetas
    BY DEF Table
  <2> QED
    BY <1>4, <2>1 DEF Deleted, FileMetas
<1>5. Used(n) = Used(m) \ {del}
  BY <1>3, <1>4 DEF Used
<1>6. ASSUME NEW h \in LBlocks, h # l
      PROVE  Sound(n, gr, h)
  <2>1. Block(n, h) = Block(m, h)
    BY <1>4, <1>5, <1>6 DEF Block, Used
  <2>2. \A i \in Block(m, h) : SamePlace(m, n, i)
    BY <1>4, <1>6 DEF Block, Used, SamePlace, Later
  <2>3. Sound(m, fr, h)
    BY DEF Layout
  <2>4. gr[h] = fr[h]
    BY <1>2, <1>6
  <2> QED
    BY <2>1, <2>2, <2>3, <2>4, SoundSame
<1>7. Sound(n, gr, l)
  <2>1. Block(n, l) = B \ {del}
    BY <1>4, <1>5 DEF Block, Used
  <2>2. B \in SUBSET Indexes
    BY DEF Block, Used
  <2>3. Sound(m, fr, l)
    BY <1>1 DEF Layout
  <2>4. /\ d.data_idx \in Nat /\ d.max_size \in Nat /\ fr[l] \in Nat
        /\ data_start(l) \in Nat /\ BlockSize \in Nat
        /\ data_start(l) <= d.data_idx /\ d.data_idx + d.max_size <= BlockSize - fr[l]
    BY Neighbours
  <2>5. \A i \in B :
          /\ m[i].data_idx \in Nat /\ m[i].max_size \in Nat
          /\ data_start(l) <= m[i].data_idx
          /\ m[i].data_idx + m[i].max_size <= BlockSize - fr[l]
    BY Neighbours
  <2>6. \A i \in Later(m, del) : m[i].data_idx >= d.data_idx + d.max_size
    BY Neighbours
  <2>7. \A i \in B \ (Later(m, del) \cup {del}) :
           m[i].data_idx + m[i].max_size <= d.data_idx \/ d.max_size = 0
    BY Neighbours
  <2>8. \A i \in B \ {del} :
           /\ n[i].max_size = m[i].max_size
           /\ i \in Later(m, del) => n[i].data_idx = m[i].data_idx - d.max_size
           /\ i \notin Later(m, del) => n[i].data_idx = m[i].data_idx
    BY <1>4, <2>2
  <2>9. \A i, j \in B : i # j =>
           \/ m[i].data_idx + m[i].max_size <= m[j].data_idx
           \/ m[j].data_idx + m[j].max_size <= m[i].data_idx
    BY <2>3 DEF Sound, Apart
  <2> HIDE DEF B, n, gr, d, l
  <2>10. Apart(n, B \ {del})
    <3> SUFFICES ASSUME NEW i \in B \ {del}, NEW j \in B \ {del}, i # j
                 PROVE  \/ n[i].data_idx + n[i].max_size <= n[j].data_idx
                        \/ n[j].data_idx + n[j].max_size <= n[i].data_idx
      BY DEF Apart
    <3>1. CASE i \in Later(m, del) <=> j \in Later(m, del)
      BY <3>1, <2>4, <2>5, <2>8, <2>9
    <3>2. CASE i \in Later(m, del) /\ j \notin Later(m, del)
      BY <3>2, <2>4, <2>5, <2>6, <2>7, <2>8, <2>9
    <3>3. CASE i \notin Later(m, del) /\ j \in Later(m, del)
      BY <3>3, <2>4, <2>5, <2>6, <2>7, <2>8, <2>9
    <3> QED
      BY <3>1, <3>2, <3>3
  <2>11. Within(n, B \ {del}, data_start(l), BlockSize - gr[l])
    <3> SUFFICES ASSUME NEW i \in B \ {del}
                 PROVE  /\ data_start(l) <= n[i].data_idx
                        /\ n[i].data_idx + n[i].max_size <= BlockSize - gr[l]
      BY DEF Within
    <3>1. CASE i \in Later(m, del)
      BY <3>1, <1>1, <2>4, <2>5, <2>6, <2>8
    <3>2. CASE i \notin Later(m, del)
      BY <3>2, <1>1, <2>4, <2>5, <2>7, <2>8
    <3> QED
      BY <3>1, <3>2
  <2>12. Total(m, B) = BlockSize - data_start(l) - fr[l]
    BY <2>3 DEF Sound, B
  <2>13. Total(m, B) = d.max_size + Total(m, B \ {del})
    <3>1. IsFiniteSet(B) /\ Sized(m, B)
      BY <2>2, BlocksFinite, EntriesPlaced
    <3> QED
      BY <1>1, <3>1, TotalRemove DEF d
  <2>14. Total(n, B \ {del}) = Total(m, B \ {del}) /\ Total(m, B \ {del}) \in Nat
    <3>1. IsFiniteSet(B \ {del}) /\ Sized(m, B \ {del})
      BY <2>2, BlocksFinite, EntriesPlaced
    <3>2. \A i \in B \ {del} : n[i].max_size = m[i].max_size
      BY <2>8
    <3> QED
      BY <3>1, <3>2, TotalSame, TotalNat
  <2>15. Total(n, B \ {del}) = BlockSize - data_start(l) - gr[l]
    BY <1>1, <2>4, <2>12, <2>13, <2>14
  <2> QED
    BY <2>1, <2>10, <2>11, <2>15 DEF Sound
<1>8. \A i \in Used(n) : n[i].cur_size <= n[i].max_size
  BY <1>4, <1>5 DEF Layout, Used
<1> QED
  BY <1>6, <1>7, <1>8 DEF Layout

\* The bytes that the compaction moves lie within the block.
LEMMA MoveFits ==
  ASSUME NEW m, NEW fr, Table(m), Frees(fr), Layout(m, fr), NEW del \in Used(m)
  PROVE  LET src  == MovedFrom(m, del)
             size == Total(m, Later(m, del))
             l    == m[del].lblock
         IN  /\ src \in 0 .. BlockSize /\ size \in Nat /\ src + size <= BlockSize
             /\ Later(m, del) # {} =>
                  /\ src + size <= BlockSize - fr[l]
                  /\ src >= m[del].data_idx + m[del].max_size
                  /\ \A i \in Later(m, del) : src <= m[i].data_idx
             /\ Later(m, del) = {} => size = 0
<1> DEFINE src == MovedFrom(m, del)
           L == Later(m, del)
           l == m[del].lblock
           P == {BlockSize} \cup {m[i].data_idx : i \in L}
<1>1. L \in SUBSET Indexes /\ L \subseteq Block(m, l)
  BY DEF Later, Block, Used
<1>2. IsFiniteSet(L) /\ Sized(m, L) /\ Placed(m, L)
  <2> HIDE DEF L
  <2> QED
    BY <1>1, BlocksFinite, EntriesPlaced
<1>3. Total(m, L) \in Nat
  <2> HIDE DEF L
  <2> QED
    BY <1>2, TotalNat
<1>4. BlockSize \in Nat /\ P \in SUBSET (0 .. BlockSize) /\ P # {}
  BY <1>1, EntryType, ConfigAssumption
<1>5. src \in P /\ \A y \in P : src <= y
  <2>1. src = Min(P)
    BY DEF MovedFrom
  <2> HIDE DEF P, src
  <2> QED
    BY <1>4, <2>1, MinIs
<1>6. CASE L = {}
  <2>1. src = BlockSize /\ Total(m, L) = 0
    BY <1>5, <1>6, TotalEmpty
  <2> QED
    BY <1>4, <1>6, <2>1
<1>7. CASE L # {}
  <2>1. /\ l \in LBlocks /\ fr[l] \in Nat
        /\ \A i \in L : /\ m[i].data_idx \in Nat /\ m[i].max_size \in Nat
                        /\ m[i].data_idx + m[i].max_size <= BlockSize - fr[l]
                        /\ m[i].data_idx >= m[del].data_idx + m[del].max_size
        /\ m[del].data_idx \in Nat /\ m[del].max_size \in Nat
    BY <1>1, Neighbours
  <2>2. src \in Nat /\ \A i \in L : src <= m[i].data_idx
    BY <1>4, <1>5
  <2> HIDE DEF src, L, l, P
  <2>3. BlockSize - fr[l] \in Nat /\ src <= BlockSize - fr[l]
    BY <1>4, <1>7, <2>1, <2>2
  <2>4. Within(m, L, src, BlockSize - fr[l])
    BY <2>1, <2>2 DEF Within
  <2>5. Apart(m, L)
    <3>1. Apart(m, Block(m, l))
      BY <2>1 DEF Layout, Sound
    <3> QED
      BY <1>1, <3>1 DEF Apart
  <2>6. Total(m, L) <= BlockSize - fr[l] - src
    BY <1>2, <2>2, <2>3, <2>4, <2>5, TotalBounded
  <2>7. src >= m[del].data_idx + m[del].max_size
    <3>1. src = BlockSize \/ \E i \in L : src = m[i].data_idx
      BY <1>5 DEF P
    <3>2. PICK i \in L : TRUE
      BY <1>7
    <3> QED
      BY <2>1, <2>2, <3>1, <3>2, <1>4
  <2>8. /\ src + Total(m, L) <= BlockSize - fr[l] /\ src + Total(m, L) <= BlockSize
        /\ src <= BlockSize
    BY <1>3, <1>4, <2>1, <2>2, <2>3, <2>6
  <2> QED
    BY <1>3, <1>4, <1>7, <2>1, <2>2, <2>7, <2>8 DEF src, L, l
<1> QED
  BY <1>6, <1>7

LEMMA Squeeze ==
  ASSUME NEW src \in Nat, NEW moved \in Nat, NEW kept \in Nat, NEW end \in Nat,
         NEW start \in Nat, NEW size \in Nat, NEW free \in Nat,
         src + moved <= size - free, src >= end, kept <= end - start,
         moved + kept = size - start - free
  PROVE  src = end /\ src + moved = size - free
OBVIOUS

\* The layout has no gaps: the next file starts where the deleted one ends, and
\* the files behind it reach to the free space.
LEMMA NoGap ==
  ASSUME NEW m, NEW fr, Table(m), Frees(fr), Layout(m, fr), NEW del \in Used(m),
         m[del].max_size # 0, Later(m, del) # {}
  PROVE  /\ MovedFrom(m, del) = m[del].data_idx + m[del].max_size
         /\ MovedFrom(m, del) + Total(m, Later(m, del)) = BlockSize - fr[m[del].lblock]
<1> DEFINE src == MovedFrom(m, del)
           d == m[del]
           l == d.lblock
           L == Later(m, del)
           B == Block(m, l)
           F == B \ L
<1>1. /\ src \in Nat /\ Total(m, L) \in Nat /\ src + Total(m, L) <= BlockSize - fr[l]
      /\ src >= d.data_idx + d.max_size
  BY MoveFits
<1>2. /\ l \in LBlocks /\ d.data_idx \in Nat /\ d.max_size \in Nat /\ fr[l] \in Nat
      /\ data_start(l) \in Nat /\ BlockSize \in Nat
      /\ data_start(l) <= d.data_idx /\ d.data_idx + d.max_size <= BlockSize - fr[l]
      /\ \A i \in B : /\ m[i].data_idx \in Nat /\ m[i].max_size \in Nat
                      /\ data_start(l) <= m[i].data_idx
      /\ \A i \in L : i \in B
      /\ \A i \in B \ (L \cup {del}) : m[i].data_idx + m[i].max_size <= d.data_idx
  BY Neighbours
<1>3. B \in SUBSET Indexes /\ L \in SUBSET Indexes /\ F \in SUBSET Indexes
      /\ B = L \cup F /\ L \cap F = {}
  BY <1>2 DEF Block, Used, Later
<1>4. Sound(m, fr, l)
  BY <1>2 DEF Layout
<1>5. Within(m, F, data_start(l), d.data_idx + d.max_size)
  <2> SUFFICES ASSUME NEW i \in F
               PROVE  /\ data_start(l) <= m[i].data_idx
                      /\ m[i].data_idx + m[i].max_size <= d.data_idx + d.max_size
    BY DEF Within
  <2>1. CASE i = del
    BY <2>1, <1>2
  <2>2. CASE i # del
    BY <2>2, <1>2
  <2> QED
    BY <2>1, <2>2
<1> HIDE DEF src, d, l, L, B, F
<1>6. Apart(m, F)
  BY <1>3, <1>4 DEF Sound, Apart, B
<1>7. IsFiniteSet(F) /\ IsFiniteSet(L) /\ Placed(m, F) /\ Sized(m, L \cup F) /\ Sized(m, F)
  BY <1>3, BlocksFinite, EntriesPlaced
<1>8. Total(m, F) <= (d.data_idx + d.max_size) - data_start(l)
  <2>1. /\ d.data_idx + d.max_size \in Nat
        /\ data_start(l) <= d.data_idx + d.max_size
    BY <1>2
  <2> QED
    BY <1>2, <1>5, <1>6, <1>7, <2>1, TotalBounded
<1>9. Total(m, B) = Total(m, L) + Total(m, F) /\ Total(m, F) \in Nat
  BY <1>3, <1>7, TotalUnion, TotalNat
<1>10. Total(m, B) = BlockSize - data_start(l) - fr[l]
  BY <1>4 DEF Sound, B
<1>11. src = d.data_idx + d.max_size /\ src + Total(m, L) = BlockSize - fr[l]
  <2> DEFINE moved == Total(m, L)
             kept  == Total(m, F)
             end   == d.data_idx + d.max_size
             start == data_start(l)
             free  == fr[l]
  <2>1. /\ src \in Nat /\ moved \in Nat
        /\ src + moved <= BlockSize - free /\ src >= end
    BY <1>1
  <2>2. /\ end \in Nat /\ start \in Nat /\ BlockSize \in Nat /\ free \in Nat
    BY <1>2
  <2>3. kept \in Nat /\ kept <= end - start
    BY <1>8, <1>9
  <2>4. moved + kept = BlockSize - start - free
    BY <1>9, <1>10
  <2> HIDE DEF moved, kept, end, start, free
  <2>5. src = end /\ src + moved = BlockSize - free
    BY <2>1, <2>2, <2>3, <2>4, Squeeze
  <2> QED
    BY <2>5 DEF moved, end, free
<1> QED
  BY <1>11 DEF src, d, l, L

-----------------------------------------------------------------------------
(* The inductive invariant.                                                *)

Marked(m) == {i \in Indexes : m[i].delete}

\* At most one entry is marked for deletion; without it, identifiers are unique;
\* when none is marked, an entry is free.
Marks(m) ==
  /\ Marked(m) \subseteq Used(m)
  /\ \A i, j \in Marked(m) : i = j
  /\ \A i, j \in Used(m) \ Marked(m) : i # j => m[i].id # m[j].id
  /\ Marked(m) = {} => Used(m) # Indexes

\* What remains of the set r concerns the file it has begun.
Begun(m, r) ==
  /\ r.done < r.size /\ r.size \in Sizes
  /\ \E e \in Indexes : /\ m[e].id = r.fid /\ ~m[e].delete
                        /\ m[e].cur_size = r.done /\ m[e].max_size = r.size

\* What the service is doing agrees with the marks.
Doing(m, o) ==
  /\ o.kind \in {"idle", "set"} => Marked(m) = {}
  /\ o.kind = "set" => Begun(m, o)
  /\ o.kind = "delete" => m[o.idx].delete /\ (o.next.kind = "set" => Begun(m, o.next))

IInv ==
  /\ TypeOK
  /\ Layout(file_meta, free_size)
  /\ Marks(file_meta)
  /\ Doing(file_meta, op)

-----------------------------------------------------------------------------
(* Searching and allocating.                                               *)

LEMMA FirstIs ==
  ASSUME NEW S \in SUBSET Indexes
  PROVE  /\ S = {} => FirstIndex(S) = InvalidIndex
         /\ S # {} => FirstIndex(S) \in S
         /\ FirstIndex(S) \in Indexes <=> S # {}
         /\ InvalidIndex \notin Indexes
<1>1. MaxNumFiles \in Nat /\ MaxNumFiles - 1 \in Nat /\ InvalidIndex \notin Indexes
  BY ConfigAssumption DEF InvalidIndex, Indexes
<1>2. S # {} => Min(S) \in S
  BY <1>1, MinIs DEF Indexes
<1> QED
  BY <1>1, <1>2 DEF FirstIndex

LEMMA FileIdx ==
  ASSUME NEW fid
  PROVE  LET e == its_flash_fs_mblock_get_file_idx(fid)
         IN  \/ e = InvalidIndex /\ e \notin Indexes /\ \A i \in Indexes : file_meta[i].id # fid
             \/ e # InvalidIndex /\ e \in Indexes /\ file_meta[e].id = fid
<1> DEFINE S == {i \in Indexes : file_meta[i].id = fid}
<1>1. /\ S = {} => FirstIndex(S) = InvalidIndex
      /\ S # {} => FirstIndex(S) \in S
      /\ InvalidIndex \notin Indexes
  <2>1. S \in SUBSET Indexes
    OBVIOUS
  <2> HIDE DEF S
  <2> QED
    BY <2>1, FirstIs
<1> QED
  BY <1>1 DEF its_flash_fs_mblock_get_file_idx

LEMMA FreeIdx ==
  ASSUME NEW us \in BOOLEAN, its_get_free_file_index(us) # InvalidIndex
  PROVE  LET k == its_get_free_file_index(us)
         IN  /\ k \in Indexes \ Used(file_meta)
             /\ ~us => \E i \in Indexes \ {k} : i \notin Used(file_meta)
<1> DEFINE F == {i \in Indexes : file_meta[i].id = NoFid}
           S == IF us THEN F ELSE F \ {FirstIndex(F)}
<1>1. its_get_free_file_index(us) = FirstIndex(S)
  BY DEF its_get_free_file_index
<1>2. FirstIndex(S) \in S
  <2>1. S \in SUBSET Indexes
    OBVIOUS
  <2> HIDE DEF S
  <2> QED
    BY <1>1, <2>1, FirstIs
<1>3. ~us => FirstIndex(F) \in F
  <2>1. F \in SUBSET Indexes /\ (~us => F # {})
    BY <1>2
  <2> HIDE DEF F
  <2> QED
    BY <2>1, FirstIs
<1> QED
  BY <1>1, <1>2, <1>3 DEF Used

LEMMA RoomIs ==
  ASSUME NEW size, RoomyBlocks(size) # {}
  PROVE  Min(RoomyBlocks(size)) \in LBlocks /\ free_size[Min(RoomyBlocks(size))] >= size
<1>1. NumLBlocks - 1 \in Nat
  BY ConfigAssumption
<1>2. RoomyBlocks(size) \in SUBSET (0 .. NumLBlocks - 1)
  BY DEF RoomyBlocks, LBlocks
<1>3. Min(RoomyBlocks(size)) \in RoomyBlocks(size)
  BY <1>1, <1>2, MinIs
<1> QED
  BY <1>3 DEF RoomyBlocks

-----------------------------------------------------------------------------
(* The bytes.                                                              *)

Bytes == {Erased} \cup (Values \X (1 .. BlockSize))

Contents(d) == d \in [LBlocks -> [Offsets -> Bytes]]

LEMMA TypeOKIs ==
  TypeOK <=> /\ Table(file_meta) /\ Frees(free_size) /\ Contents(data)
             /\ dirty \in BOOLEAN /\ op \in Ops
BY DEF TypeOK, Table, Frees, Contents, Bytes

LEMMA ChunkIs ==
  ASSUME NEW v, NEW from \in Nat, NEW n \in Nat
  PROVE  /\ Len(Chunk(v, from, n)) = n
         /\ \A i \in 1 .. n : Chunk(v, from, n)[i] = <<v, from + i>>
         /\ Chunk(v, from, n) = <<>> <=> n = 0
         /\ Chunk(v, from, n) \in Seq({v} \X Nat)
<1>1. Chunk(v, from, n) \in [1 .. n -> {v} \X Nat]
  BY DEF Chunk
<1>2. Chunk(v, from, n) \in Seq({v} \X Nat) /\ Len(Chunk(v, from, n)) = n
  <2> DEFINE c == Chunk(v, from, n)
  <2>1. c \in [1 .. n -> {v} \X Nat]
    BY <1>1
  <2> HIDE DEF c
  <2>2. c \in Seq({v} \X Nat) /\ Len(c) = n
    BY <2>1
  <2> QED
    BY <2>2 DEF c
<1>3. \A i \in 1 .. n : Chunk(v, from, n)[i] = <<v, from + i>>
  BY DEF Chunk
<1>4. Chunk(v, from, n) = <<>> <=> n = 0
  BY <1>2
<1> QED
  BY <1>2, <1>3, <1>4

LEMMA MigratedType ==
  ASSUME Contents(data)
  PROVE  MigratedLb0 \in [Offsets -> Bytes]
<1>1. 0 \in LBlocks
  BY ConfigAssumption DEF LBlocks
<1> QED
  BY <1>1 DEF MigratedLb0, Contents, Bytes

LEMMA WithBlockType ==
  ASSUME Contents(data), NEW l \in LBlocks, NEW d \in [Offsets -> Bytes]
  PROVE  Contents(WithBlock(l, d))
BY MigratedType DEF WithBlock, Contents

\* What its_flash_fs_file_write() leaves in the blocks.
WrittenData(fm, free, offset, chunk) ==
  IF chunk = <<>>
  THEN [data EXCEPT ![0] = MigratedLb0]
  ELSE WithBlock(fm.lblock,
         its_flash_fs_dblock_write_file(fm.lblock, free, fm, offset, chunk))

LEMMA WrittenType ==
  ASSUME Contents(data), NEW fm, fm.lblock \in LBlocks, fm.data_idx \in Nat,
         NEW free, NEW offset \in Nat, NEW v \in Values, NEW from \in Nat, NEW n \in Nat,
         from + n <= BlockSize
  PROVE  Contents(WrittenData(fm, free, offset, Chunk(v, from, n)))
<1> DEFINE chunk == Chunk(v, from, n)
           l == fm.lblock
           pos == fm.data_idx + offset
<1>0. /\ Len(chunk) = n /\ \A i \in 1 .. n : chunk[i] = <<v, from + i>>
  BY ChunkIs
<1> HIDE DEF chunk
<1> SUFFICES Contents(WrittenData(fm, free, offset, chunk))
  BY DEF chunk
<1>1. CASE chunk = <<>>
  BY <1>1, MigratedType DEF WrittenData, Contents
<1>2. CASE chunk # <<>>
  <2>1. ASSUME NEW p \in Offsets, p >= pos, p < pos + Len(chunk)
        PROVE  chunk[p - pos + 1] \in Bytes
    <3>1. p - pos + 1 \in 1 .. n
      BY <2>1, <1>0, ConfigAssumption DEF Offsets
    <3>2. from + (p - pos + 1) \in 1 .. BlockSize
      BY <3>1, ConfigAssumption
    <3>3. chunk[p - pos + 1] = <<v, from + (p - pos + 1)>>
      BY <1>0, <3>1
    <3> QED
      BY <3>2, <3>3 DEF Bytes
  <2>2. \A p \in Offsets : data[l][p] \in Bytes /\ Erased \in Bytes
    BY DEF Contents, Bytes
  <2>3. its_flash_fs_dblock_write_file(l, free, fm, offset, chunk) \in [Offsets -> Bytes]
    BY <2>1, <2>2 DEF its_flash_fs_dblock_write_file
  <2> QED
    BY <1>2, <2>3, WithBlockType DEF WrittenData
<1> QED
  BY <1>1, <1>2

\* DeleteUpdate in the terms above.
LEMMA DeleteIs ==
  ASSUME NEW del, DeleteUpdate(del)
  PROVE  /\ file_meta' = Deleted(file_meta, del)
         /\ free_size' = Freed(file_meta, free_size, del)
         /\ data' = WithBlock(file_meta[del].lblock, Compacted(file_meta, data, del))
         /\ dirty' = FALSE
<1>1. MapThenSumSet(LAMBDA i : file_meta[i].max_size, Later(file_meta, del))
        = Total(file_meta, Later(file_meta, del))
  BY TotalIs
<1>2. data' = WithBlock(file_meta[del].lblock,
                its_flash_fs_dblock_compact_block(file_meta[del].lblock,
                  MovedFrom(file_meta, del), file_meta[del].data_idx,
                  MapThenSumSet(LAMBDA i : file_meta[i].max_size, Later(file_meta, del))))
  BY DEF DeleteUpdate, Later, MovedFrom
<1>3. its_flash_fs_dblock_compact_block(file_meta[del].lblock,
        MovedFrom(file_meta, del), file_meta[del].data_idx,
        Total(file_meta, Later(file_meta, del)))
        = Compacted(file_meta, data, del)
  BY DEF its_flash_fs_dblock_compact_block, Compacted
<1> QED
  BY <1>1, <1>2, <1>3 DEF DeleteUpdate, Later, Deleted, Freed

LEMMA CompactedType ==
  ASSUME Contents(data), NEW m, NEW fr, Table(m), Frees(fr), Layout(m, fr),
         NEW del \in Used(m)
  PROVE  Compacted(m, data, del) \in [Offsets -> Bytes]
<1> DEFINE l == m[del].lblock
           dst == m[del].data_idx
           src == MovedFrom(m, del)
           size == Total(m, Later(m, del))
<1>1. l \in LBlocks /\ dst \in Nat /\ BlockSize \in Nat
  BY Neighbours
<1>2. src \in 0 .. BlockSize /\ size \in Nat /\ src + size <= BlockSize
  BY MoveFits
<1> HIDE DEF src, size, dst
<1>3. \A p \in Offsets : p >= dst /\ p < dst + size => p - dst + src \in Offsets
  BY <1>1, <1>2 DEF Offsets
<1>4. \A p \in Offsets : data[l][p] \in Bytes /\ Erased \in Bytes
  BY <1>1 DEF Contents, Bytes
<1>5. [p \in Offsets |->
         IF p >= dst /\ p < dst + size THEN data[l][p - dst + src]
         ELSE IF p >= data_start(l) /\ p < dst THEN data[l][p]
         ELSE Erased] \in [Offsets -> Bytes]
  BY <1>3, <1>4
<1> QED
  BY <1>5 DEF Compacted, src, size, dst

-----------------------------------------------------------------------------
(* Every step preserves the invariant.                                     *)

\* The state a step leaves, with the tables it wrote.
LEMMA NextInv ==
  ASSUME Table(file_meta'), Frees(free_size'), Contents(data'), dirty' \in BOOLEAN,
         op' \in Ops, Layout(file_meta', free_size'), Marks(file_meta'),
         Doing(file_meta', op')
  PROVE  IInv'
BY DEF IInv, TypeOK, Table, Frees, Contents, Bytes

LEMMA InvIs ==
  ASSUME IInv
  PROVE  /\ Table(file_meta) /\ Frees(free_size) /\ Contents(data)
         /\ dirty \in BOOLEAN /\ op \in Ops
         /\ Layout(file_meta, free_size) /\ Marks(file_meta) /\ Doing(file_meta, op)
BY TypeOKIs DEF IInv

LEMMA OpFields ==
  ASSUME op \in Ops
  PROVE  /\ op.kind \in {"idle", "boot", "set", "delete"}
         /\ op = Idle <=> op.kind = "idle"
         /\ op = Boot <=> op.kind = "boot"
         /\ op.kind = "set" => op \in SetOps
         /\ op.kind = "delete" => /\ op.idx \in Indexes
                                  /\ op.next \in {Idle} \cup SetOps
BY DEF Ops, Idle, Boot, SetOps

LEMMA RestIs ==
  ASSUME NEW fid \in Fids, NEW v \in Values, NEW size \in 0 .. BlockSize, NEW done \in 0 .. size
  PROVE  LET r == SetContinues(fid, v, size, done)
         IN  /\ r \in {Idle} \cup SetOps
             /\ r \in Ops
             /\ r.kind \in {"idle", "set"}
             /\ r.kind = "set" <=> done < size
             /\ r.kind = "set" => r.fid = fid /\ r.val = v /\ r.size = size /\ r.done = done
             /\ r = Idle <=> r.kind = "idle"
<1>1. done \in 0 .. BlockSize
  BY ConfigAssumption
<1> QED
  BY <1>1 DEF SetContinues, Idle, Ops, SetOps

LEMMA InitInv == Init => IInv
<1> SUFFICES ASSUME Init PROVE IInv
  OBVIOUS
<1> DEFINE m == file_meta
<1>1. Table(file_meta)
  BY ConfigAssumption DEF Init, Table, FreeEntry, FileMetas, LBlocks
<1>2. Frees(free_size)
  BY ConfigAssumption, StartIs DEF Init, Frees
<1>3. Contents(data)
  BY DEF Init, Contents, Bytes
<1>4. dirty \in BOOLEAN /\ op \in Ops
  BY DEF Init, Ops
<1>5. Used(file_meta) = {} /\ Marked(file_meta) = {}
  BY DEF Init, Used, Marked, FreeEntry
<1>6. Layout(file_meta, free_size)
  <2>1. ASSUME NEW l \in LBlocks
        PROVE  Sound(file_meta, free_size, l)
    <3>1. Block(file_meta, l) = {}
      BY <1>5 DEF Block
    <3>2. Total(file_meta, {}) = 0
      BY TotalEmpty
    <3>3. BlockSize - data_start(l) - free_size[l] = 0
      BY StartIs, ConfigAssumption DEF Init
    <3> QED
      BY <3>1, <3>2, <3>3 DEF Sound, Apart, Within
  <2> QED
    BY <1>5, <2>1 DEF Layout
<1>7. Marks(file_meta)
  <2>1. 0 \in Indexes
    BY ConfigAssumption DEF Indexes
  <2> QED
    BY <1>5, <2>1 DEF Marks
<1>8. Doing(file_meta, op)
  BY DEF Init, Doing, Boot
<1> QED
  BY <1>1, <1>2, <1>3, <1>4, <1>6, <1>7, <1>8, TypeOKIs DEF IInv

\* Writing into the file e: what changes is its current size and its flag.
Rewritten(m, e, cur, once) ==
  [i \in Indexes |-> IF i = e THEN [m[e] EXCEPT !.cur_size = cur, !.once = once]
                     ELSE m[i]]

LEMMA RewriteInv ==
  ASSUME NEW m, NEW fr, Table(m), Layout(m, fr), Marks(m), Marked(m) = {},
         NEW e \in Used(m), NEW cur \in 0 .. m[e].max_size, NEW once \in BOOLEAN
  PROVE  LET n == Rewritten(m, e, cur, once)
         IN  /\ Table(n) /\ Layout(n, fr) /\ Marks(n) /\ Marked(n) = {}
             /\ n[e].id = m[e].id /\ ~n[e].delete /\ n[e].cur_size = cur
             /\ n[e].max_size = m[e].max_size
<1> DEFINE n == Rewritten(m, e, cur, once)
<1>1. e \in Indexes /\ m[e] \in FileMetas /\ m[e].max_size \in 0 .. BlockSize
  BY EntryType DEF Used, Table
<1>2. /\ n[e].id = m[e].id /\ n[e].lblock = m[e].lblock /\ n[e].data_idx = m[e].data_idx
      /\ n[e].cur_size = cur /\ n[e].max_size = m[e].max_size
      /\ n[e].delete = m[e].delete
  BY <1>1 DEF FileMetas, Rewritten
<1>3. \A i \in Indexes : i # e => n[i] = m[i]
  BY DEF Rewritten
<1>4. Table(n)
  <2>1. cur \in 0 .. BlockSize
    BY <1>1, ConfigAssumption
  <2>2. [m[e] EXCEPT !.cur_size = cur, !.once = once] \in FileMetas
    BY <1>1, <2>1 DEF FileMetas
  <2> QED
    BY <2>2 DEF Table, Rewritten
<1>5. Layout(n, fr)
  <2>1. \A i \in Indexes : SamePlace(m, n, i)
    BY <1>2, <1>3 DEF SamePlace
  <2>2. \A i \in Used(m) : n[i].cur_size <= n[i].max_size
    BY <1>1, <1>2, <1>3 DEF Layout, Used
  <2> QED
    BY <2>1, <2>2, WriteLayout
<1>6. Used(n) = Used(m) /\ Marked(n) = {}
  BY <1>2, <1>3 DEF Used, Marked
<1>7. \A i \in Indexes : n[i].id = m[i].id
  BY <1>2, <1>3
<1>8. Marks(n)
  <2>1. Used(m) \subseteq Indexes
    BY DEF Used
  <2> QED
    BY <1>6, <1>7, <2>1 DEF Marks
<1> QED
  BY <1>1, <1>2, <1>4, <1>5, <1>6, <1>8 DEF Marked

\* The effect of a step that writes a file: n bytes of v, of which `from` are
\* already in the file, go to the existing file e.
WriteEffect(e, fid, v, size, from, n, once) ==
  /\ e \in Used(file_meta) /\ file_meta[e].id = fid /\ Marked(file_meta) = {}
  /\ file_meta[e].max_size = size /\ size \in Sizes /\ size <= BlockSize
  /\ n \in Nat /\ from \in Nat /\ from + n <= size /\ (from < size => n > 0)
  /\ file_meta' = Rewritten(file_meta, e, from + n, once)
  /\ free_size' = free_size /\ dirty' = FALSE
  /\ data' = WrittenData(file_meta[e], free_size[file_meta[e].lblock], from, Chunk(v, from, n))
  /\ op' = SetContinues(fid, v, size, from + n)

LEMMA SetReuseIs ==
  ASSUME IInv, NEW fid \in Fids, NEW v \in Values, NEW size \in Sizes, NEW once \in BOOLEAN,
         SetReuse(fid, v, size, once)
  PROVE  \E e \in Indexes, n \in Nat :
           WriteEffect(e, fid, v, size, 0, n, once) /\ op = Idle /\ ~file_meta[e].once
<1> DEFINE e == its_flash_fs_mblock_get_file_idx(fid)
           n == Min({size, BufSize})
           fm == [file_meta[e] EXCEPT !.cur_size = 0, !.once = once]
           m == file_meta
<1>1. /\ Table(m) /\ Frees(free_size) /\ op \in Ops /\ Marks(m) /\ Doing(m, op)
  BY InvIs
<1>2. /\ op = Idle /\ e # InvalidIndex /\ m[e].max_size = size /\ ~m[e].once
      /\ WriteUpdate(e, fm, free_size[m[e].lblock], 0, Chunk(v, 0, n), e)
      /\ op' = SetContinues(fid, v, size, n)
  BY DEF SetReuse
<1>3. e \in Indexes /\ m[e].id = fid /\ e \in Used(m) /\ Marked(m) = {}
  <2>1. e \in Indexes /\ m[e].id = fid
    BY <1>2, FileIdx
  <2> QED
    BY <1>1, <1>2, <2>1, ConfigAssumption DEF Used, Doing, Idle
<1>4. m[e] \in FileMetas /\ m[e].lblock \in LBlocks /\ size \in 0 .. BlockSize
  BY <1>1, <1>2, <1>3, EntryType DEF Table
<1>5. /\ n \in Nat /\ n <= size /\ (0 < size => n > 0) /\ size \in Nat /\ BlockSize \in Nat
      /\ 0 + n = n /\ size <= BlockSize /\ 0 \in Nat
  <2>1. size \in Nat /\ BufSize \in Nat /\ BufSize # 0 /\ BlockSize \in Nat /\ size <= BlockSize
    BY <1>4, ConfigAssumption
  <2> QED
    BY <2>1, MinOfTwo
<1> HIDE DEF e, n
<1>6. Len(Chunk(v, 0, n)) = n
  BY <1>5, ChunkIs
<1>7. file_meta' = Rewritten(m, e, n, once)
  <2>1. Max({0, 0 + n}) = n
    BY <1>5, MaxOfTwo
  <2>2. [fm EXCEPT !.cur_size = Max({@, 0 + Len(Chunk(v, 0, n))})]
          = [m[e] EXCEPT !.cur_size = n, !.once = once]
    BY <1>4, <1>6, <2>1 DEF FileMetas
  <2>3. file_meta' = [i \in Indexes |->
           IF i = e THEN [fm EXCEPT !.cur_size = Max({@, 0 + Len(Chunk(v, 0, n))})]
           ELSE IF i = e THEN [m[i] EXCEPT !.delete = TRUE]
           ELSE m[i]]
    BY <1>2 DEF WriteUpdate
  <2> QED
    BY <2>2, <2>3 DEF Rewritten
<1>8. free_size' = free_size /\ dirty' = FALSE
  BY <1>1, <1>2, <1>4 DEF WriteUpdate, Frees, FileMetas
<1>9. data' = WrittenData(m[e], free_size[m[e].lblock], 0, Chunk(v, 0, n))
  <2>1. fm.lblock = m[e].lblock /\ fm.data_idx = m[e].data_idx /\ fm.max_size = m[e].max_size
    BY <1>4 DEF FileMetas
  <2>2. data' = WrittenData(fm, free_size[m[e].lblock], 0, Chunk(v, 0, n))
    BY <1>2 DEF WriteUpdate, WrittenData
  <2> HIDE DEF fm
  <2> QED
    BY <2>1, <2>2 DEF WrittenData, its_flash_fs_dblock_write_file
<1>10. WriteEffect(e, fid, v, size, 0, n, once)
  BY <1>2, <1>3, <1>5, <1>7, <1>8, <1>9 DEF WriteEffect
<1> QED
  BY <1>2, <1>3, <1>5, <1>10

LEMMA SetChunkIs ==
  ASSUME IInv, SetChunk
  PROVE  /\ op \in SetOps
         /\ \E e \in Indexes, n \in Nat :
              /\ WriteEffect(e, op.fid, op.val, op.size, op.done, n, file_meta[e].once)
              /\ file_meta[e].cur_size = op.done
<1> DEFINE e == its_flash_fs_mblock_get_file_idx(op.fid)
           n == Min({op.size - op.done, BufSize})
           m == file_meta
<1>1. /\ Table(m) /\ Frees(free_size) /\ op \in Ops /\ Marks(m) /\ Doing(m, op)
  BY InvIs
<1>2. /\ op.kind = "set"
      /\ WriteUpdate(e, m[e], free_size[m[e].lblock], op.done, Chunk(op.val, op.done, n), e)
      /\ op' = SetContinues(op.fid, op.val, op.size, op.done + n)
  BY DEF SetChunk
<1>3. /\ op \in SetOps /\ Marked(m) = {} /\ Begun(m, op)
  BY <1>1, <1>2, OpFields DEF Doing
<1>4. /\ op.fid \in Fids /\ op.val \in Values
      /\ op.size \in 0 .. BlockSize /\ op.done \in 0 .. BlockSize
      /\ op.done < op.size /\ op.size \in Sizes
  BY <1>3 DEF SetOps, Begun
<1>5. /\ e \in Used(m) /\ e \in Indexes /\ m[e].id = op.fid
      /\ m[e].cur_size = op.done /\ m[e].max_size = op.size
  <2>1. PICK b \in Indexes : /\ m[b].id = op.fid /\ m[b].cur_size = op.done
                             /\ m[b].max_size = op.size
    BY <1>3 DEF Begun
  <2>2. e \in Indexes /\ m[e].id = op.fid
    BY <2>1, FileIdx
  <2>3. e \in Used(m) \ Marked(m) /\ b \in Used(m) \ Marked(m)
    BY <1>3, <1>4, <2>1, <2>2, ConfigAssumption DEF Used
  <2>4. e = b
    BY <1>1, <2>1, <2>2, <2>3 DEF Marks
  <2> QED
    BY <2>1, <2>2, <2>3, <2>4
<1>6. /\ n \in Nat /\ op.done \in Nat /\ op.done + n \in Nat /\ op.done + n <= op.size
      /\ n > 0 /\ op.size <= BlockSize
  <2>1. /\ op.size - op.done \in Nat /\ op.size - op.done > 0 /\ BlockSize \in Nat
        /\ BufSize \in Nat /\ BufSize > 0
    BY <1>4, ConfigAssumption
  <2> QED
    BY <1>4, <2>1, MinOfTwo
<1>7. m[e] \in FileMetas /\ m[e].lblock \in LBlocks
  BY <1>1, <1>5, EntryType DEF Table
<1> HIDE DEF e, n
<1>8. Len(Chunk(op.val, op.done, n)) = n
  BY <1>6, ChunkIs
<1>9. file_meta' = Rewritten(m, e, op.done + n, m[e].once)
  <2>1. Max({op.done, op.done + n}) = op.done + n
    BY <1>6, MaxOfTwo
  <2>2. [m[e] EXCEPT !.cur_size = Max({@, op.done + Len(Chunk(op.val, op.done, n))})]
          = [m[e] EXCEPT !.cur_size = op.done + n, !.once = m[e].once]
    BY <1>5, <1>7, <1>8, <2>1 DEF FileMetas
  <2>3. file_meta' = [i \in Indexes |->
           IF i = e THEN [m[e] EXCEPT !.cur_size = Max({@, op.done + Len(Chunk(op.val, op.done, n))})]
           ELSE IF i = e THEN [m[i] EXCEPT !.delete = TRUE]
           ELSE m[i]]
    BY <1>2 DEF WriteUpdate
  <2> QED
    BY <2>2, <2>3 DEF Rewritten
<1>10. free_size' = free_size /\ dirty' = FALSE
  BY <1>1, <1>2, <1>7 DEF WriteUpdate, Frees
<1>11. data' = WrittenData(m[e], free_size[m[e].lblock], op.done, Chunk(op.val, op.done, n))
  BY <1>2 DEF WriteUpdate, WrittenData
<1>12. WriteEffect(e, op.fid, op.val, op.size, op.done, n, m[e].once)
  BY <1>2, <1>3, <1>4, <1>5, <1>6, <1>9, <1>10, <1>11 DEF WriteEffect
<1> QED
  BY <1>3, <1>5, <1>6, <1>12

LEMMA WriteInv ==
  ASSUME IInv, NEW e \in Indexes, NEW fid \in Fids, NEW v \in Values, NEW size, NEW from,
         NEW n, NEW once \in BOOLEAN, WriteEffect(e, fid, v, size, from, n, once)
  PROVE  IInv'
<1> DEFINE m == file_meta
<1>1. /\ Table(m) /\ Frees(free_size) /\ Contents(data)
      /\ Layout(m, free_size) /\ Marks(m)
  BY InvIs
<1>2. /\ e \in Used(m) /\ m[e].id = fid /\ Marked(m) = {}
      /\ m[e].max_size = size /\ size \in Sizes /\ size <= BlockSize
      /\ n \in Nat /\ from \in Nat /\ from + n <= size
      /\ file_meta' = Rewritten(m, e, from + n, once)
      /\ free_size' = free_size /\ dirty' = FALSE
      /\ data' = WrittenData(m[e], free_size[m[e].lblock], from, Chunk(v, from, n))
      /\ op' = SetContinues(fid, v, size, from + n)
  BY DEF WriteEffect
<1>3. /\ size \in Nat /\ BlockSize \in Nat /\ from + n \in Nat /\ from + n <= BlockSize
      /\ from + n \in 0 .. size /\ size \in 0 .. BlockSize
  BY <1>2, ConfigAssumption
<1>4. Contents(data')
  <2>1. m[e].lblock \in LBlocks /\ m[e].data_idx \in Nat
    BY <1>1, EntryType, ConfigAssumption
  <2> QED
    BY <1>1, <1>2, <1>3, <2>1, WrittenType
<1>5. /\ Table(file_meta') /\ Layout(file_meta', free_size) /\ Marks(file_meta')
      /\ Marked(file_meta') = {}
      /\ file_meta'[e].id = fid /\ ~file_meta'[e].delete
      /\ file_meta'[e].cur_size = from + n /\ file_meta'[e].max_size = size
  BY <1>1, <1>2, <1>3, RewriteInv
<1>6. op' \in Ops /\ Doing(file_meta', op')
  <2>1. /\ op' \in Ops /\ op'.kind \in {"idle", "set"}
        /\ op'.kind = "set" <=> from + n < size
        /\ op'.kind = "set" => op'.fid = fid /\ op'.size = size /\ op'.done = from + n
    BY <1>2, <1>3, RestIs
  <2> QED
    BY <1>2, <1>5, <2>1 DEF Doing, Begun
<1> QED
  BY <1>1, <1>2, <1>4, <1>5, <1>6, NextInv

LEMMA SetReuseInv ==
  ASSUME IInv, NEW fid \in Fids, NEW v \in Values, NEW size \in Sizes, NEW once \in BOOLEAN,
         SetReuse(fid, v, size, once)
  PROVE  IInv'
BY SetReuseIs, WriteInv

LEMMA SetChunkInv ==
  ASSUME IInv, SetChunk
  PROVE  IInv'
<1>1. op.fid \in Fids /\ op.val \in Values
  BY SetChunkIs DEF SetOps
<1>2. PICK e \in Indexes, n \in Nat :
        WriteEffect(e, op.fid, op.val, op.size, op.done, n, file_meta[e].once)
  BY SetChunkIs
<1>3. file_meta[e].once \in BOOLEAN
  BY InvIs, EntryType
<1> QED
  BY <1>1, <1>2, <1>3, WriteInv

\* The table after a new file was reserved in entry k, the entry old marked.
Created(m, k, f, old) ==
  [i \in Indexes |-> IF i = k THEN f
                     ELSE IF i = old THEN [m[i] EXCEPT !.delete = TRUE]
                     ELSE m[i]]

LEMMA CreatedIs ==
  ASSUME NEW m, Table(m), NEW k \in Indexes, NEW f \in FileMetas, NEW old, old # k
  PROVE  LET n == Created(m, k, f, old)
         IN  /\ Table(n) /\ n[k] = f
             /\ \A i \in Indexes \ {k} :
                  /\ n[i].id = m[i].id /\ n[i].lblock = m[i].lblock
                  /\ n[i].data_idx = m[i].data_idx /\ n[i].max_size = m[i].max_size
                  /\ n[i].cur_size = m[i].cur_size
                  /\ n[i].once = m[i].once
                  /\ i # old => n[i].delete = m[i].delete
                  /\ i = old => n[i].delete
<1> DEFINE n == Created(m, k, f, old)
<1>1. \A i \in Indexes : m[i] \in FileMetas
  BY DEF Table
<1>2. \A i \in Indexes : n[i] \in FileMetas
  BY <1>1 DEF Created, FileMetas
<1>3. Table(n)
  BY <1>2 DEF Table, Created
<1>4. n[k] = f
  BY DEF Created
<1>5. ASSUME NEW i \in Indexes \ {k}
      PROVE  /\ i # old => n[i] = m[i]
             /\ i = old => n[i] = [m[i] EXCEPT !.delete = TRUE]
  BY DEF Created
<1> QED
  BY <1>1, <1>3, <1>4, <1>5 DEF FileMetas

\* The new file does not disturb the marks: there is no other one with its
\* identifier, or that one is marked now.
LEMMA CreatedMarks ==
  ASSUME NEW m, Table(m), Marks(m), Marked(m) = {},
         NEW k \in Indexes \ Used(m), NEW f \in FileMetas, f.id \in Fids, ~f.delete,
         NEW old,
         \/ old \notin Indexes /\ (\A i \in Indexes : m[i].id # f.id)
                               /\ \E i \in Indexes \ {k} : i \notin Used(m)
         \/ old \in Indexes /\ m[old].id = f.id
  PROVE  /\ Marks(Created(m, k, f, old))
         /\ Marked(Created(m, k, f, old)) = {old} \cap Indexes
         /\ old # k
<1> DEFINE n == Created(m, k, f, old)
<1>0. f.id # NoFid /\ old # k
  BY ConfigAssumption DEF Used
<1>1. /\ n[k] = f
      /\ \A i \in Indexes \ {k} : /\ n[i].id = m[i].id
                                  /\ i # old => n[i].delete = m[i].delete
                                  /\ i = old => n[i].delete
  BY <1>0, CreatedIs
<1>2. Used(n) = Used(m) \cup {k}
  BY <1>0, <1>1 DEF Used
<1>3. Marked(n) = {old} \cap Indexes
  BY <1>0, <1>1 DEF Marked
<1>4. Marked(n) \subseteq Used(n) /\ \A i, j \in Marked(n) : i = j
  BY <1>0, <1>2, <1>3 DEF Used
<1>5. ASSUME NEW i \in Used(n) \ Marked(n), NEW j \in Used(n) \ Marked(n), i # j
      PROVE  n[i].id # n[j].id
  <2>1. \A a \in Used(m) \ Marked(n) : a \in Indexes /\ a # k /\ n[a].id = m[a].id /\ m[a].id # f.id
    <3> SUFFICES ASSUME NEW a \in Used(m) \ Marked(n)
                 PROVE  a \in Indexes /\ a # k /\ n[a].id = m[a].id /\ m[a].id # f.id
      OBVIOUS
    <3>1. a \in Indexes /\ a # k /\ n[a].id = m[a].id /\ a # old
      BY <1>1, <1>3 DEF Used
    <3>2. CASE old \in Indexes /\ m[old].id = f.id
      <4>1. old \in Used(m) \ Marked(m) /\ a \in Used(m) \ Marked(m)
        BY <3>2, <1>0 DEF Used
      <4> QED
        BY <3>1, <3>2, <4>1 DEF Marks
    <3>3. CASE \A b \in Indexes : m[b].id # f.id
      BY <3>1, <3>3
    <3> QED
      BY <3>1, <3>2, <3>3
  <2>2. CASE i = k
    BY <2>1, <2>2, <1>1, <1>2, <1>5
  <2>3. CASE j = k
    BY <2>1, <2>3, <1>1, <1>2, <1>5
  <2>4. CASE i # k /\ j # k
    <3>1. i \in Used(m) \ Marked(n) /\ j \in Used(m) \ Marked(n)
      BY <2>4, <1>2
    <3>2. m[i].id # m[j].id
      BY <3>1, <1>5 DEF Marks
    <3> QED
      BY <3>1, <3>2, <2>1
  <2> QED
    BY <2>2, <2>3, <2>4
<1>6. Marked(n) = {} => Used(n) # Indexes
  BY <1>2, <1>3
<1> HIDE DEF n
<1>7. Marks(n)
  BY <1>4, <1>5, <1>6 DEF Marks
<1> QED
  BY <1>0, <1>3, <1>7 DEF n

\* The effect of a set that creates a file: entry f in slot k, n bytes written at
\* the end of the files of block l; e is the old file, if there is one.
CreateEffect(k, l, e, n, f, fid, v, size, once) ==
  /\ op = Idle /\ Marked(file_meta) = {}
  /\ size \in Nat /\ size <= BlockSize
  /\ l \in LBlocks /\ size <= free_size[l]
  /\ n \in 0 .. size /\ (0 < size => n > 0)
  /\ k \in Indexes \ Used(file_meta)
  /\ \/ /\ e \notin Indexes /\ e = InvalidIndex
        /\ \A i \in Indexes : file_meta[i].id # fid
        /\ \E i \in Indexes \ {k} : i \notin Used(file_meta)
     \/ e \in Indexes /\ e # InvalidIndex /\ file_meta[e].id = fid /\ ~file_meta[e].once
  /\ f \in FileMetas
  /\ f.id = fid /\ ~f.delete /\ f.lblock = l /\ f.max_size = size /\ f.cur_size = n
  /\ f.data_idx = BlockSize - free_size[l] /\ f.once = once
  /\ file_meta' = Created(file_meta, k, f, e)
  /\ free_size' = Taken(free_size, l, size) /\ dirty' = FALSE
  /\ data' = WrittenData(f, free_size[l] - size, 0, Chunk(v, 0, n))
  /\ op' = IF e = InvalidIndex THEN SetContinues(fid, v, size, n)
           ELSE [kind |-> "delete", idx |-> e, next |-> SetContinues(fid, v, size, n)]

LEMMA SetCreateIs ==
  ASSUME IInv, NEW fid \in Fids, NEW v \in Values, NEW size \in Sizes, NEW once \in BOOLEAN,
         SetCreate(fid, v, size, once)
  PROVE  \E k, l, e, n, f : CreateEffect(k, l, e, n, f, fid, v, size, once)
<1> DEFINE e == its_flash_fs_mblock_get_file_idx(fid)
           us == (e # InvalidIndex)
           n == Min({size, BufSize})
           fm == its_mblock_reserve_file(fid, size, once)
           k == its_get_free_file_index(us)
           l == Min(RoomyBlocks(size))
           m == file_meta
           rest == SetContinues(fid, v, size, n)
           f == [fm EXCEPT !.cur_size = n]
<1>1. /\ Table(m) /\ Frees(free_size) /\ Contents(data) /\ op \in Ops
      /\ Layout(m, free_size) /\ Marks(m) /\ Doing(m, op)
  BY InvIs
<1>2. /\ op = Idle /\ (e # InvalidIndex => ~file_meta[e].once)
      /\ CanReserve(size, us)
      /\ WriteUpdate(k, fm, free_size[fm.lblock] - size, 0, Chunk(v, 0, n), e)
      /\ op' = IF e = InvalidIndex THEN rest
               ELSE [kind |-> "delete", idx |-> e, next |-> rest]
  BY DEF SetCreate
<1>3. Marked(m) = {}
  BY <1>1, <1>2 DEF Doing, Idle
<1>4. /\ size \in Nat /\ size <= BlockSize /\ BlockSize \in Nat
      /\ l \in LBlocks /\ free_size[l] \in 0 .. BlockSize /\ size <= free_size[l]
  <2>1. size \in Nat /\ MaxFileSize \in 0 .. BlockSize /\ BlockSize \in Nat
    BY ConfigAssumption
  <2>2. size <= MaxFileSize /\ RoomyBlocks(size) # {}
    BY <1>2 DEF CanReserve
  <2>3. l \in LBlocks /\ free_size[l] >= size
    BY <2>2, RoomIs
  <2>4. free_size[l] \in 0 .. BlockSize
    BY <1>1, <2>3, FreeType
  <2> QED
    BY <2>1, <2>2, <2>3, <2>4
<1>5. n \in 0 .. size /\ n \in Nat /\ n <= BlockSize /\ (0 < size => n > 0)
  <2>1. size \in Nat /\ BufSize \in Nat /\ BufSize > 0
    BY <1>4, ConfigAssumption
  <2> QED
    BY <1>4, <2>1, MinOfTwo
<1>6. /\ k \in Indexes \ Used(m)
      /\ ~us => \E i \in Indexes \ {k} : i \notin Used(m)
  BY <1>2, FreeIdx DEF CanReserve
<1>7. fm = [id |-> fid, lblock |-> l, data_idx |-> BlockSize - free_size[l],
            cur_size |-> 0, max_size |-> size, once |-> once, delete |-> FALSE]
  BY DEF its_mblock_reserve_file
<1>8. \/ e \notin Indexes /\ e = InvalidIndex /\ \A i \in Indexes : m[i].id # fid
      \/ e \in Indexes /\ e # InvalidIndex /\ m[e].id = fid
  BY FileIdx
<1> HIDE DEF e, n, k, fm, l
<1>9. fm \in FileMetas /\ f \in FileMetas
  <2>1. fm \in FileMetas
    BY <1>4, <1>7 DEF FileMetas
  <2>2. n \in 0 .. BlockSize
    BY <1>4, <1>5
  <2> QED
    BY <2>1, <2>2 DEF FileMetas
<1>10. file_meta' = Created(m, k, f, e)
  <2>0. 0 \in Nat /\ 0 + n = n /\ n >= 0
    BY <1>5
  <2>1. Max({0, n}) = n
    BY <1>5, <2>0, MaxOfTwo
  <2>4. Len(Chunk(v, 0, n)) = n
    BY <1>5, <2>0, ChunkIs
  <2>5. fm.cur_size = 0 /\ 0 + Len(Chunk(v, 0, n)) = n
    BY <1>7, <2>0, <2>4
  <2>2. [fm EXCEPT !.cur_size = Max({@, 0 + Len(Chunk(v, 0, n))})] = f
    <3>1. Max({fm.cur_size, 0 + Len(Chunk(v, 0, n))}) = n
      BY <2>1, <2>5
    <3> QED
      BY <3>1
  <2>3. file_meta' = [i \in Indexes |->
           IF i = k THEN [fm EXCEPT !.cur_size = Max({@, 0 + Len(Chunk(v, 0, n))})]
           ELSE IF i = e THEN [m[i] EXCEPT !.delete = TRUE]
           ELSE m[i]]
    BY <1>2 DEF WriteUpdate
  <2> QED
    BY <2>2, <2>3 DEF Created
<1>11. f.id = fid /\ ~f.delete /\ f.lblock = l /\ f.max_size = size /\ f.cur_size = n
       /\ f.data_idx = BlockSize - free_size[l] /\ f.once = once
  <2>1. /\ f.id = fm.id /\ f.lblock = fm.lblock /\ f.data_idx = fm.data_idx
        /\ f.cur_size = n /\ f.max_size = fm.max_size
        /\ f.once = fm.once /\ f.delete = fm.delete
    BY <1>9 DEF FileMetas
  <2> QED
    BY <1>7, <2>1
<1>12. free_size' = Taken(free_size, l, size) /\ dirty' = FALSE
  BY <1>2, <1>7 DEF WriteUpdate, Taken
<1>13. data' = WrittenData(f, free_size[l] - size, 0, Chunk(v, 0, n))
  <2>1. fm.lblock = f.lblock /\ fm.data_idx = f.data_idx /\ fm.max_size = f.max_size
    BY <1>7, <1>11
  <2>2. data' = WrittenData(fm, free_size[fm.lblock] - size, 0, Chunk(v, 0, n))
    BY <1>2 DEF WriteUpdate, WrittenData
  <2> HIDE DEF f
  <2> QED
    BY <1>11, <2>1, <2>2 DEF WrittenData, its_flash_fs_dblock_write_file
<1> HIDE DEF f
<1>14. CreateEffect(k, l, e, n, f, fid, v, size, once)
  BY <1>2, <1>3, <1>4, <1>5, <1>6, <1>8, <1>9, <1>10, <1>11, <1>12, <1>13 DEF CreateEffect
<1> QED
  BY <1>14

LEMMA SetCreateInv ==
  ASSUME IInv, NEW fid \in Fids, NEW v \in Values, NEW size \in Sizes, NEW once \in BOOLEAN,
         SetCreate(fid, v, size, once)
  PROVE  IInv'
<1> DEFINE m == file_meta
<1>1. /\ Table(m) /\ Frees(free_size) /\ Contents(data)
      /\ Layout(m, free_size) /\ Marks(m)
  BY InvIs
<1>2. PICK k, l, e, n, f : CreateEffect(k, l, e, n, f, fid, v, size, once)
  BY SetCreateIs
<1> DEFINE rest == SetContinues(fid, v, size, n)
<1>3. Marked(m) = {}
  BY <1>2 DEF CreateEffect
<1>4. /\ size \in Nat /\ size <= BlockSize /\ BlockSize \in Nat
      /\ l \in LBlocks /\ free_size[l] \in 0 .. BlockSize /\ size <= free_size[l]
  <2>1. l \in LBlocks /\ size \in Nat /\ size <= BlockSize /\ size <= free_size[l]
    BY <1>2 DEF CreateEffect
  <2> QED
    BY <1>1, <2>1, FreeType, ConfigAssumption
<1>5. n \in 0 .. size /\ n \in Nat /\ n <= BlockSize
  BY <1>2, <1>4 DEF CreateEffect
<1>6. k \in Indexes \ Used(m)
  BY <1>2 DEF CreateEffect
<1>8. \/ /\ e \notin Indexes /\ e = InvalidIndex /\ \A i \in Indexes : m[i].id # fid
         /\ \E i \in Indexes \ {k} : i \notin Used(m)
      \/ e \in Indexes /\ e # InvalidIndex /\ m[e].id = fid
  BY <1>2 DEF CreateEffect
<1>9. /\ f \in FileMetas
      /\ file_meta' = Created(m, k, f, e)
      /\ free_size' = Taken(free_size, l, size) /\ dirty' = FALSE
      /\ data' = WrittenData(f, free_size[l] - size, 0, Chunk(v, 0, n))
      /\ op' = IF e = InvalidIndex THEN rest
               ELSE [kind |-> "delete", idx |-> e, next |-> rest]
  BY <1>2 DEF CreateEffect
<1>11. f.id = fid /\ ~f.delete /\ f.lblock = l /\ f.max_size = size /\ f.cur_size = n
       /\ f.data_idx = BlockSize - free_size[l]
  BY <1>2 DEF CreateEffect
<1>13. /\ Marks(file_meta') /\ Marked(file_meta') = {e} \cap Indexes /\ e # k
  <2>1. \/ e \notin Indexes /\ (\A i \in Indexes : m[i].id # f.id)
                               /\ \E i \in Indexes \ {k} : i \notin Used(m)
        \/ e \in Indexes /\ m[e].id = f.id
    BY <1>6, <1>8, <1>11
  <2>2. f.id \in Fids
    BY <1>11
  <2> QED
    BY <1>1, <1>3, <1>6, <1>9, <1>11, <2>1, <2>2, CreatedMarks
<1>14. /\ Table(file_meta') /\ file_meta'[k] = f
       /\ \A i \in Indexes \ {k} : SamePlace(m, file_meta', i)
                                   /\ file_meta'[i].cur_size = m[i].cur_size
       /\ \A i \in Indexes \ {k} : i = e => file_meta'[i].delete
  BY <1>1, <1>6, <1>9, <1>13, CreatedIs DEF SamePlace
<1>15. Layout(file_meta', free_size') /\ Frees(free_size')
  <2>1. k \in Used(file_meta')
    BY <1>6, <1>11, <1>14, ConfigAssumption DEF Used
  <2>2. /\ file_meta'[k].lblock = l /\ file_meta'[k].data_idx = BlockSize - free_size[l]
        /\ file_meta'[k].max_size = size /\ file_meta'[k].cur_size <= size
    BY <1>4, <1>5, <1>11, <1>14
  <2> QED
    BY <1>1, <1>4, <1>6, <1>9, <1>14, <2>1, <2>2, ReserveLayout
<1>16. Contents(data')
  <2>1. f.lblock \in LBlocks /\ f.data_idx \in Nat
    BY <1>4, <1>11
  <2>3. 0 + n <= BlockSize /\ 0 \in Nat
    BY <1>5
  <2> QED
    BY <1>1, <1>5, <1>9, <2>1, <2>3, WrittenType
<1>17. op' \in Ops /\ Doing(file_meta', op')
  <2>1. size \in 0 .. BlockSize
    BY <1>4
  <2>2. /\ rest \in {Idle} \cup SetOps /\ rest \in Ops
        /\ rest.kind \in {"idle", "set"}
        /\ rest.kind = "set" <=> n < size
        /\ rest.kind = "set" => rest.fid = fid /\ rest.size = size /\ rest.done = n
    BY <1>5, <2>1, RestIs
  <2> HIDE DEF rest
  <2>3. rest.kind = "set" => Begun(file_meta', rest)
    BY <1>6, <1>11, <1>14, <2>2 DEF Begun
  <2>4. CASE e = InvalidIndex
    BY <1>8, <1>9, <1>13, <2>2, <2>3, <2>4 DEF Doing
  <2>5. CASE e # InvalidIndex
    <3>1. op' = [kind |-> "delete", idx |-> e, next |-> rest] /\ e \in Indexes
      BY <1>8, <1>9, <2>5
    <3>2. op' \in Ops
      BY <2>2, <3>1 DEF Ops
    <3>3. file_meta'[e].delete
      BY <1>13, <1>14, <3>1
    <3> QED
      BY <2>3, <3>1, <3>2, <3>3 DEF Doing
  <2> QED
    BY <2>4, <2>5
<1> QED
  BY <1>9, <1>13, <1>14, <1>15, <1>16, <1>17, NextInv

\* Deleting an entry leaves no mark when it was the marked one or none was.
LEMMA DeletedMarks ==
  ASSUME NEW m, Table(m), Marks(m), NEW del \in Used(m), Marked(m) \subseteq {del}
  PROVE  LET n == Deleted(m, del)
         IN  /\ Marks(n) /\ Marked(n) = {}
             /\ n[del].id = NoFid
             /\ \A i \in Indexes \ {del} :
                  /\ n[i].id = m[i].id /\ n[i].cur_size = m[i].cur_size
                  /\ n[i].max_size = m[i].max_size /\ n[i].delete = m[i].delete
                  /\ n[i].lblock = m[i].lblock /\ n[i].once = m[i].once
<1> DEFINE n == Deleted(m, del)
<1>1. del \in Indexes /\ n[del] = FreeEntry
  BY DEF Deleted, Used
<1>2. ASSUME NEW i \in Indexes \ {del}
      PROVE  /\ n[i].id = m[i].id /\ n[i].cur_size = m[i].cur_size
             /\ n[i].max_size = m[i].max_size /\ n[i].delete = m[i].delete
             /\ n[i].lblock = m[i].lblock /\ n[i].once = m[i].once
  <2>1. m[i] \in FileMetas
    BY DEF Table
  <2>2. n[i] = m[i] \/ n[i] = [m[i] EXCEPT !.data_idx = @ - m[del].max_size]
    BY DEF Deleted
  <2> QED
    BY <2>1, <2>2 DEF FileMetas
<1>3. n[del].id = NoFid /\ ~n[del].delete
  BY <1>1 DEF FreeEntry
<1> HIDE DEF n
<1>4. Used(n) = Used(m) \ {del} /\ Used(n) # Indexes
  BY <1>1, <1>2, <1>3 DEF Used
<1>5. Marked(n) = {}
  BY <1>2, <1>3 DEF Marked
<1>6. ASSUME NEW i \in Used(n), NEW j \in Used(n), i # j
      PROVE  n[i].id # n[j].id
  <2>1. /\ i \in Used(m) \ Marked(m) /\ j \in Used(m) \ Marked(m)
        /\ i \in Indexes \ {del} /\ j \in Indexes \ {del}
    BY <1>4 DEF Used
  <2>2. m[i].id # m[j].id
    BY <1>6, <2>1 DEF Marks
  <2> QED
    BY <1>2, <2>1, <2>2
<1>7. Marks(n)
  BY <1>4, <1>5, <1>6 DEF Marks
<1> QED
  BY <1>2, <1>3, <1>5, <1>7 DEF n

LEMMA DeleteInv ==
  ASSUME IInv, NEW del \in Used(file_meta), Marked(file_meta) \subseteq {del},
         DeleteUpdate(del)
  PROVE  /\ Table(file_meta') /\ Frees(free_size') /\ Contents(data') /\ dirty' \in BOOLEAN
         /\ Layout(file_meta', free_size') /\ Marks(file_meta') /\ Marked(file_meta') = {}
<1>1. /\ Table(file_meta) /\ Frees(free_size) /\ Contents(data)
      /\ Layout(file_meta, free_size) /\ Marks(file_meta)
  BY InvIs
<1>2. /\ file_meta' = Deleted(file_meta, del)
      /\ free_size' = Freed(file_meta, free_size, del)
      /\ data' = WithBlock(file_meta[del].lblock, Compacted(file_meta, data, del))
      /\ dirty' = FALSE
  BY DeleteIs
<1>3. Table(file_meta') /\ Frees(free_size')
  BY <1>1, <1>2, DeleteTypes
<1>4. Layout(file_meta', free_size')
  BY <1>1, <1>2, DeleteLayout
<1>5. Marks(file_meta') /\ Marked(file_meta') = {}
  BY <1>1, <1>2, DeletedMarks
<1>6. Contents(data')
  <2>1. file_meta[del].lblock \in LBlocks
    BY <1>1, EntryType DEF Used
  <2>2. Compacted(file_meta, data, del) \in [Offsets -> Bytes]
    BY <1>1, CompactedType
  <2> QED
    BY <1>1, <1>2, <2>1, <2>2, WithBlockType
<1> QED
  BY <1>2, <1>3, <1>4, <1>5, <1>6

LEMMA DeleteOldInv ==
  ASSUME IInv, DeleteOld
  PROVE  IInv'
<1> DEFINE m == file_meta
<1>1. /\ Table(m) /\ op \in Ops /\ Marks(m) /\ Doing(m, op)
  BY InvIs
<1>2. op.kind = "delete" /\ DeleteUpdate(op.idx) /\ op' = op.next
  BY DEF DeleteOld
<1>3. /\ op.idx \in Indexes /\ op.next \in {Idle} \cup SetOps
      /\ m[op.idx].delete /\ (op.next.kind = "set" => Begun(m, op.next))
  BY <1>1, <1>2, OpFields DEF Doing
<1>4. op.idx \in Used(m) /\ Marked(m) \subseteq {op.idx}
  BY <1>1, <1>3 DEF Marks, Marked
<1>5. /\ Table(file_meta') /\ Frees(free_size') /\ Contents(data') /\ dirty' \in BOOLEAN
      /\ Layout(file_meta', free_size') /\ Marks(file_meta') /\ Marked(file_meta') = {}
  BY <1>2, <1>4, DeleteInv
<1>6. \A i \in Indexes \ {op.idx} :
        /\ file_meta'[i].id = m[i].id /\ file_meta'[i].cur_size = m[i].cur_size
        /\ file_meta'[i].max_size = m[i].max_size /\ file_meta'[i].delete = m[i].delete
  <2>1. file_meta' = Deleted(m, op.idx)
    BY <1>2, DeleteIs
  <2> QED
    BY <1>1, <1>4, <2>1, DeletedMarks
<1>7. op' \in Ops /\ op'.kind \in {"idle", "set"}
  BY <1>2, <1>3 DEF Ops, SetOps, Idle
<1>8. op'.kind = "set" => Begun(file_meta', op')
  <2> SUFFICES ASSUME op'.kind = "set" PROVE Begun(file_meta', op')
    OBVIOUS
  <2>1. Begun(m, op')
    BY <1>2, <1>3
  <2>2. PICK e \in Indexes : /\ m[e].id = op'.fid /\ ~m[e].delete
                             /\ m[e].cur_size = op'.done /\ m[e].max_size = op'.size
    BY <2>1 DEF Begun
  <2>3. e # op.idx
    BY <1>3, <2>2
  <2> QED
    BY <1>6, <2>1, <2>2, <2>3 DEF Begun
<1>9. Doing(file_meta', op')
  BY <1>5, <1>7, <1>8 DEF Doing
<1> QED
  BY <1>5, <1>7, <1>9, NextInv

LEMMA RemoveInv ==
  ASSUME IInv, NEW fid \in Fids, tfm_its_remove(fid)
  PROVE  IInv'
<1> DEFINE e == its_flash_fs_mblock_get_file_idx(fid)
<1>1. op \in Ops /\ Doing(file_meta, op)
  BY InvIs
<1>2. op = Idle /\ e # InvalidIndex /\ DeleteUpdate(e) /\ op' = op
  BY DEF tfm_its_remove
<1>3. e \in Used(file_meta) /\ Marked(file_meta) = {}
  <2>1. e \in Indexes /\ file_meta[e].id = fid
    BY <1>2, FileIdx
  <2> QED
    BY <1>1, <1>2, <2>1, ConfigAssumption DEF Used, Doing, Idle
<1> HIDE DEF e
<1>4. /\ Table(file_meta') /\ Frees(free_size') /\ Contents(data') /\ dirty' \in BOOLEAN
      /\ Layout(file_meta', free_size') /\ Marks(file_meta') /\ Marked(file_meta') = {}
  BY <1>2, <1>3, DeleteInv
<1>5. op' \in Ops /\ Doing(file_meta', op')
  BY <1>1, <1>2, <1>4 DEF Doing, Idle
<1> QED
  BY <1>4, <1>5, NextInv

LEMMA PrepareInv ==
  ASSUME IInv, its_flash_fs_prepare
  PROVE  IInv'
<1> DEFINE m == file_meta
           M == Marked(file_meta)
<1>1. /\ Table(m) /\ Frees(free_size) /\ Contents(data)
      /\ Layout(m, free_size) /\ Marks(m)
  BY InvIs
<1>2. /\ dirty' = FALSE /\ UNCHANGED <<file_meta, free_size, data>>
      /\ op' = IF M = {} THEN Idle ELSE [kind |-> "delete", idx |-> Min(M), next |-> Idle]
  BY DEF its_flash_fs_prepare, Marked, disk
<1>3. CASE M = {}
  BY <1>1, <1>2, <1>3, NextInv DEF Doing, Idle, Ops
<1>4. CASE M # {}
  <2>1. Min(M) \in M
    <3>1. MaxNumFiles - 1 \in Nat /\ M \in SUBSET (0 .. MaxNumFiles - 1)
      BY ConfigAssumption DEF Marked, Indexes
    <3> HIDE DEF M
    <3> QED
      BY <1>4, <3>1, MinIs
  <2>2. Min(M) \in Indexes /\ m[Min(M)].delete
    BY <2>1 DEF Marked
  <2>3. op' = [kind |-> "delete", idx |-> Min(M), next |-> Idle]
    BY <1>2, <1>4
  <2> HIDE DEF M
  <2>4. op' \in Ops
    BY <2>2, <2>3 DEF Ops
  <2>5. Doing(file_meta', op')
    BY <1>2, <2>2, <2>3 DEF Doing, Idle
  <2> QED
    BY <1>1, <1>2, <2>4, <2>5, NextInv
<1> QED
  BY <1>3, <1>4

LEMMA QuietInv ==
  ASSUME IInv, UNCHANGED <<file_meta, free_size, data>>, dirty' \in BOOLEAN,
         op' = op \/ op' = Boot
  PROVE  IInv'
<1>1. /\ Table(file_meta) /\ Frees(free_size) /\ Contents(data) /\ op \in Ops
      /\ Layout(file_meta, free_size) /\ Marks(file_meta) /\ Doing(file_meta, op)
  BY InvIs
<1>2. op' \in Ops /\ Doing(file_meta', op')
  BY <1>1 DEF Doing, Boot, Ops
<1> QED
  BY <1>1, <1>2, NextInv

LEMMA StepInv == IInv /\ [Next]_vars => IInv'
<1> SUFFICES ASSUME IInv, [Next]_vars PROVE IInv'
  OBVIOUS
<1>0. dirty \in BOOLEAN
  BY InvIs
<1>1. CASE SetChunk
  BY <1>1, SetChunkInv
<1>2. CASE DeleteOld
  BY <1>2, DeleteOldInv
<1>3. CASE its_flash_fs_prepare
  BY <1>3, PrepareInv
<1>4. ASSUME NEW fid \in Fids, tfm_its_remove(fid)
      PROVE  IInv'
  BY <1>4, RemoveInv
<1>5. ASSUME NEW fid \in Fids, NEW size \in Sizes, SetFails(fid, size)
      PROVE  IInv'
  <2>1. dirty' \in BOOLEAN /\ UNCHANGED <<file_meta, free_size, data>> /\ op' = op
    BY <1>0, <1>5 DEF SetFails, disk
  <2> QED
    BY <2>1, QuietInv
<1>6. ASSUME NEW fid \in Fids, NEW size \in Sizes, NEW v \in Values, NEW once \in BOOLEAN,
             SetReuse(fid, v, size, once) \/ SetCreate(fid, v, size, once)
      PROVE  IInv'
  BY <1>6, SetReuseInv, SetCreateInv
<1>7. CASE Crash
  <2>1. dirty' \in BOOLEAN /\ UNCHANGED <<file_meta, free_size, data>> /\ op' = Boot
    BY <1>0, <1>7 DEF Crash, disk
  <2> QED
    BY <2>1, QuietInv
<1>8. CASE UNCHANGED vars
  <2>1. dirty' \in BOOLEAN /\ UNCHANGED <<file_meta, free_size, data>> /\ op' = op
    BY <1>0, <1>8 DEF vars
  <2> QED
    BY <2>1, QuietInv
<1> QED
  BY <1>1, <1>2, <1>3, <1>4, <1>5, <1>6, <1>7, <1>8 DEF Next, Step

-----------------------------------------------------------------------------
(* The theorems.                                                           *)

\* The inductive invariant holds: typed state, a sound layout, at most one file
\* marked for deletion and unique identifiers but for it, an open request that
\* agrees with the file it has begun.
THEOREM InvariantHolds == Spec => []IInv
<1> QED
  BY InitInv, StepInv, PTL DEF Spec

\* The file table, the free sizes, the bytes and the request stay well typed: no
\* update of its_flash_fs_file_write() or its_flash_fs_delete_idx() leaves a
\* block, and no counter of bytes underflows.
THEOREM TypeCorrect == Spec => []TypeOK
<1>1. IInv => TypeOK
  BY DEF IInv
<1> QED
  BY <1>1, InvariantHolds, PTL

\* Files never overlap, stay within their block and leave no gap
\* (its_mblock_reserve_file(), its_flash_fs_delete_idx()), also for empty files.
THEOREM LayoutHolds == Spec => []LayoutSound
<1>1. IInv => LayoutSound
  <2> SUFFICES ASSUME IInv PROVE LayoutSound
    OBVIOUS
  <2> DEFINE m == file_meta
  <2>1. Table(m) /\ Frees(free_size) /\ Layout(m, free_size)
    BY InvIs
  <2>2. Used(m) = InUse /\ InUse \subseteq Indexes /\ \A l \in LBlocks : Block(m, l) = InBlock(l)
    BY DEF Used, InUse, Block, InBlock
  <2>3. ASSUME NEW i \in InUse
        PROVE  /\ m[i].lblock \in LBlocks /\ i \in Block(m, m[i].lblock)
               /\ Sound(m, free_size, m[i].lblock)
               /\ m[i].cur_size <= m[i].max_size
               /\ m[i].data_idx >= data_start(m[i].lblock)
               /\ m[i].data_idx + m[i].max_size <= BlockSize - free_size[m[i].lblock]
    <3>1. m[i].lblock \in LBlocks /\ m[i].data_idx \in Nat /\ data_start(m[i].lblock) \in Nat
      BY <2>1, <2>2, EntryType, StartIs, ConfigAssumption
    <3>2. i \in Block(m, m[i].lblock) /\ Sound(m, free_size, m[i].lblock)
      BY <2>1, <2>2, <3>1 DEF Block, Layout
    <3>3. Within(m, Block(m, m[i].lblock), data_start(m[i].lblock), BlockSize - free_size[m[i].lblock])
      BY <3>2 DEF Sound
    <3> QED
      BY <2>1, <2>2, <3>1, <3>2, <3>3 DEF Within, Layout
  <2>4. ASSUME NEW i \in InUse, NEW j \in InUse, i # j, m[i].lblock = m[j].lblock
        PROVE  \/ m[i].data_idx + m[i].max_size <= m[j].data_idx
               \/ m[j].data_idx + m[j].max_size <= m[i].data_idx
    <3>1. i \in Block(m, m[i].lblock) /\ j \in Block(m, m[i].lblock)
      BY <2>3, <2>4
    <3>2. Apart(m, Block(m, m[i].lblock))
      BY <2>3 DEF Sound
    <3> QED
      BY <2>4, <3>1, <3>2 DEF Apart
  <2>5. ASSUME NEW l \in LBlocks
        PROVE  MapThenSumSet(LAMBDA i : file_meta[i].max_size, InBlock(l))
                 = BlockSize - data_start(l) - free_size[l]
    <3>1. Total(m, Block(m, l)) = BlockSize - data_start(l) - free_size[l]
      BY <2>1 DEF Layout, Sound
    <3>2. MapThenSumSet(LAMBDA i : file_meta[i].max_size, InBlock(l)) = Total(m, InBlock(l))
      BY TotalIs
    <3> QED
      BY <2>2, <3>1, <3>2
  <2> QED
    BY <2>3, <2>4, <2>5 DEF LayoutSound
<1> QED
  BY <1>1, InvariantHolds, PTL

\* Between requests, after any power failures, nothing is left to recover: no
\* file is marked, no identifier occurs twice and an entry is free for the next
\* replacement (its_flash_fs_prepare(), its_get_free_file_index()).
THEOREM RestHolds == Spec => []RestState
<1>1. IInv => RestState
  <2> SUFFICES ASSUME IInv, op = Idle
               PROVE  /\ \A i \in Indexes : ~file_meta[i].delete
                      /\ \A i, j \in InUse : i # j => file_meta[i].id # file_meta[j].id
                      /\ InUse # Indexes
    BY DEF RestState
  <2>1. Marks(file_meta) /\ Marked(file_meta) = {} /\ Used(file_meta) = InUse
    BY InvIs DEF Doing, Idle, Used, InUse
  <2> QED
    BY <2>1 DEF Marks, Marked
<1> QED
  BY <1>1, InvariantHolds, PTL

\* Whatever came between two chunks of a set, its_flash_fs_mblock_get_file_idx()
\* finds the file that the request began, filled as far as the chunks went.
THEOREM ChunkHolds == Spec => []ChunkContinues
<1>1. IInv => ChunkContinues
  <2> SUFFICES ASSUME IInv, op.kind = "set"
               PROVE  LET e == its_flash_fs_mblock_get_file_idx(op.fid)
                      IN  /\ e # InvalidIndex
                          /\ file_meta[e].cur_size = op.done
                          /\ file_meta[e].max_size = op.size
                          /\ ~file_meta[e].delete
    BY DEF ChunkContinues
  <2> DEFINE e == its_flash_fs_mblock_get_file_idx(op.fid)
             m == file_meta
  <2>1. op \in Ops /\ Marks(m) /\ Marked(m) = {} /\ Begun(m, op)
    BY InvIs DEF Doing
  <2>2. op.fid \in Fids
    BY <2>1, OpFields DEF SetOps
  <2>3. PICK b \in Indexes : /\ m[b].id = op.fid /\ ~m[b].delete
                             /\ m[b].cur_size = op.done /\ m[b].max_size = op.size
    BY <2>1 DEF Begun
  <2>4. e # InvalidIndex /\ e \in Indexes /\ m[e].id = op.fid
    BY <2>3, FileIdx
  <2>5. e \in Used(m) \ Marked(m) /\ b \in Used(m) \ Marked(m)
    BY <2>1, <2>2, <2>3, <2>4, ConfigAssumption DEF Used
  <2>6. e = b
    BY <2>1, <2>3, <2>4, <2>5 DEF Marks
  <2> QED
    BY <2>3, <2>4, <2>6
<1> QED
  BY <1>1, InvariantHolds, PTL

-----------------------------------------------------------------------------
(* Bytes of files that an update does not write.                           *)

\* No file is empty.
Solid(m) == \A i \in Used(m) : m[i].max_size # 0

\* The position of byte j of file i lies in the used part of its block.
LEMMA BytePlace ==
  ASSUME NEW m, NEW fr, Table(m), Frees(fr), Layout(m, fr), NEW i \in Used(m),
         NEW j \in 1 .. m[i].cur_size
  PROVE  LET p == m[i].data_idx + j - 1
             l == m[i].lblock
         IN  /\ p \in Offsets /\ p \in Nat /\ l \in LBlocks
             /\ data_start(l) \in Nat /\ fr[l] \in Nat /\ BlockSize \in Nat
             /\ p >= data_start(l) /\ p < BlockSize - fr[l]
             /\ p >= m[i].data_idx /\ p < m[i].data_idx + m[i].max_size
             /\ m[i].data_idx \in Nat /\ m[i].max_size \in Nat
<1> DEFINE l == m[i].lblock
<1>1. /\ l \in LBlocks /\ m[i].data_idx \in Nat /\ m[i].max_size \in Nat /\ fr[l] \in Nat
      /\ data_start(l) \in Nat /\ BlockSize \in Nat
      /\ data_start(l) <= m[i].data_idx /\ m[i].data_idx + m[i].max_size <= BlockSize - fr[l]
  BY Neighbours
<1>2. m[i].cur_size <= m[i].max_size /\ m[i].cur_size \in Nat
  BY EntryType, ConfigAssumption DEF Layout, Used
<1>3. j \in Nat /\ j >= 1 /\ j <= m[i].max_size
  BY <1>1, <1>2
<1> QED
  BY <1>1, <1>3 DEF Offsets

\* The other blocks keep the bytes of their files, logical block 0 through
\* its_flash_fs_mblock_migrate_lb0_data_to_scratch().
LEMMA OtherBlockKept ==
  ASSUME IInv, NEW l \in LBlocks, NEW d, NEW i \in Used(file_meta),
         NEW j \in 1 .. file_meta[i].cur_size, file_meta[i].lblock # l
  PROVE  LET h == file_meta[i].lblock
             p == file_meta[i].data_idx + j - 1
         IN  WithBlock(l, d)[h][p] = data[h][p]
<1> DEFINE h == file_meta[i].lblock
           p == file_meta[i].data_idx + j - 1
<1>1. /\ Table(file_meta) /\ Frees(free_size) /\ Layout(file_meta, free_size)
  BY InvIs
<1>2. /\ p \in Offsets /\ h \in LBlocks
      /\ p >= data_start(h) /\ p < BlockSize - free_size[h]
  BY <1>1, BytePlace
<1>3. CASE h = 0
  <2>1. WithBlock(l, d)[h] = MigratedLb0
    BY <1>2, <1>3 DEF WithBlock
  <2>2. p >= MetadataSize
    BY <1>2, <1>3 DEF data_start
  <2> HIDE DEF p
  <2>3. MigratedLb0[p] = data[0][p]
    BY <1>2, <1>3, <2>2 DEF MigratedLb0
  <2> QED
    BY <1>3, <2>1, <2>3 DEF p
<1>4. CASE h # 0
  BY <1>2, <1>4 DEF WithBlock
<1> QED
  BY <1>3, <1>4

\* its_flash_fs_dblock_write_file() keeps the bytes of the files that do not
\* overlap with the one it writes.
LEMMA WriteKeeps ==
  ASSUME IInv, NEW f, f.lblock \in LBlocks, f.data_idx \in Nat, f.max_size \in Nat,
         NEW free \in Nat, free <= free_size[f.lblock], NEW offset \in Nat, NEW n \in Nat,
         n > 0, offset + n <= f.max_size, NEW v, NEW from \in Nat,
         NEW i \in Used(file_meta),
         file_meta[i].lblock = f.lblock =>
           \/ file_meta[i].data_idx + file_meta[i].max_size <= f.data_idx
           \/ f.data_idx + f.max_size <= file_meta[i].data_idx,
         NEW j \in 1 .. file_meta[i].cur_size
  PROVE  LET h == file_meta[i].lblock
             p == file_meta[i].data_idx + j - 1
         IN  WrittenData(f, free, offset, Chunk(v, from, n))[h][p] = data[h][p]
<1> DEFINE h == file_meta[i].lblock
           p == file_meta[i].data_idx + j - 1
           l == f.lblock
           chunk == Chunk(v, from, n)
           W == its_flash_fs_dblock_write_file(l, free, f, offset, chunk)
<1>1. /\ Table(file_meta) /\ Frees(free_size) /\ Layout(file_meta, free_size)
  BY InvIs
<1>2. /\ p \in Offsets /\ p \in Nat /\ h \in LBlocks
      /\ data_start(h) \in Nat /\ free_size[h] \in Nat /\ BlockSize \in Nat
      /\ p >= data_start(h) /\ p < BlockSize - free_size[h]
      /\ p >= file_meta[i].data_idx /\ p < file_meta[i].data_idx + file_meta[i].max_size
      /\ file_meta[i].data_idx \in Nat /\ file_meta[i].max_size \in Nat
  BY <1>1, BytePlace
<1>3. Len(chunk) = n /\ chunk # <<>>
  <2>1. Len(chunk) = n /\ (chunk = <<>> <=> n = 0)
    BY ChunkIs
  <2> HIDE DEF chunk
  <2> QED
    BY <2>1
<1>4. WrittenData(f, free, offset, chunk) = WithBlock(l, W)
  BY <1>3 DEF WrittenData
<1>5. CASE h # l
  <2> HIDE DEF W
  <2>1. WithBlock(l, W)[h][p] = data[h][p]
    BY <1>5, OtherBlockKept
  <2> QED
    BY <1>4, <2>1
<1>6. CASE h = l
  <2> HIDE DEF p, chunk
  <2>1. /\ ~(p >= f.data_idx + offset /\ p < f.data_idx + offset + n)
        /\ \/ p >= data_start(l) /\ p < f.data_idx + offset
           \/ p >= f.data_idx + f.max_size /\ p < BlockSize - free
    BY <1>2, <1>6
  <2>2. W[p] = data[l][p]
    BY <1>2, <1>3, <2>1 DEF its_flash_fs_dblock_write_file
  <2> HIDE DEF W
  <2>3. WithBlock(l, W)[l] = W
    BY DEF WithBlock
  <2> QED
    BY <1>4, <1>6, <2>2, <2>3 DEF p, chunk
<1> QED
  BY <1>5, <1>6

\* The written file holds the new bytes from offset on and the old ones before.
LEMMA WriteStores ==
  ASSUME Contents(data), NEW f, f.lblock \in LBlocks, f.data_idx \in Nat, f.max_size \in Nat,
         NEW free, NEW offset \in Nat, NEW n \in Nat, n > 0, offset + n <= f.max_size,
         f.data_idx + f.max_size <= BlockSize, f.data_idx >= data_start(f.lblock),
         NEW v, NEW j \in 1 .. offset + n
  PROVE  LET p == f.data_idx + j - 1
         IN  WrittenData(f, free, offset, Chunk(v, offset, n))[f.lblock][p]
               = IF j <= offset THEN data[f.lblock][p] ELSE <<v, j>>
<1> DEFINE p == f.data_idx + j - 1
           l == f.lblock
           chunk == Chunk(v, offset, n)
           W == its_flash_fs_dblock_write_file(l, free, f, offset, chunk)
<1>1. /\ BlockSize \in Nat /\ data_start(l) \in Nat
  BY ConfigAssumption, StartIs
<1>2. p \in Offsets /\ p \in Nat /\ p >= data_start(l) /\ j \in Nat /\ j >= 1 /\ j <= offset + n
  BY <1>1 DEF Offsets
<1>3. Len(chunk) = n /\ chunk # <<>> /\ \A i \in 1 .. n : chunk[i] = <<v, offset + i>>
  <2>1. /\ Len(chunk) = n /\ (chunk = <<>> <=> n = 0)
        /\ \A i \in 1 .. n : chunk[i] = <<v, offset + i>>
    BY ChunkIs
  <2> HIDE DEF chunk
  <2> QED
    BY <2>1
<1>4. WrittenData(f, free, offset, chunk) = WithBlock(l, W)
  BY <1>3 DEF WrittenData
<1>5. WithBlock(l, W)[l] = W
  <2> HIDE DEF W
  <2> QED
    BY DEF WithBlock
<1>6. CASE j <= offset
  <2>1. p < f.data_idx + offset
    BY <1>2, <1>6
  <2> HIDE DEF p, chunk
  <2>2. W[p] = data[l][p]
    BY <1>2, <1>3, <2>1 DEF its_flash_fs_dblock_write_file
  <2> QED
    BY <1>4, <1>5, <1>6, <2>2 DEF p, chunk
<1>7. CASE j > offset
  <2>1. /\ p >= f.data_idx + offset /\ p < f.data_idx + offset + n
        /\ p - (f.data_idx + offset) + 1 = j - offset /\ j - offset \in 1 .. n
        /\ offset + (j - offset) = j
    BY <1>2, <1>7
  <2> HIDE DEF p, chunk
  <2>2. W[p] = chunk[j - offset]
    BY <1>2, <1>3, <2>1 DEF its_flash_fs_dblock_write_file
  <2>3. chunk[j - offset] = <<v, j>>
    BY <1>3, <2>1
  <2>4. ~(j <= offset)
    BY <1>2, <1>7
  <2> QED
    BY <1>4, <1>5, <2>2, <2>3, <2>4 DEF p, chunk
<1> QED
  BY <1>2, <1>6, <1>7

\* its_flash_fs_dblock_compact_block() takes the bytes of every other file to its
\* new place.
LEMMA DeleteKeeps ==
  ASSUME IInv, Solid(file_meta), NEW del \in Used(file_meta),
         NEW i \in Used(file_meta) \ {del}, NEW j \in 1 .. file_meta[i].cur_size
  PROVE  LET m == file_meta
             h == m[i].lblock
         IN  WithBlock(m[del].lblock, Compacted(m, data, del))
               [h][Deleted(m, del)[i].data_idx + j - 1]
             = data[h][m[i].data_idx + j - 1]
<1> DEFINE m == file_meta
           h == m[i].lblock
           l == m[del].lblock
           p == m[i].data_idx + j - 1
           C == Compacted(m, data, del)
           q == Deleted(m, del)[i].data_idx + j - 1
           src == MovedFrom(m, del)
           dst == m[del].data_idx
           size == Total(m, Later(m, del))
<1>1. /\ Table(m) /\ Frees(free_size) /\ Layout(m, free_size)
  BY InvIs
<1>2. /\ p \in Offsets /\ p \in Nat /\ h \in LBlocks
      /\ data_start(h) \in Nat /\ free_size[h] \in Nat /\ BlockSize \in Nat
      /\ p >= data_start(h) /\ p < BlockSize - free_size[h]
      /\ p >= m[i].data_idx /\ p < m[i].data_idx + m[i].max_size
      /\ m[i].data_idx \in Nat /\ m[i].max_size \in Nat /\ j \in Nat /\ j >= 1
  <2>1. m[i].cur_size \in Nat
    BY <1>1, EntryType, ConfigAssumption DEF Used
  <2> QED
    BY <1>1, <2>1, BytePlace
<1>3. /\ l \in LBlocks /\ dst \in Nat /\ m[del].max_size \in Nat /\ m[del].max_size # 0
      /\ \A a \in Later(m, del) : m[a].data_idx >= dst + m[del].max_size
      /\ \A a \in Block(m, l) \ (Later(m, del) \cup {del}) :
           m[a].data_idx + m[a].max_size <= dst
  BY <1>1, Neighbours DEF Solid
<1>4. i \in Indexes /\ m[i] \in FileMetas
  BY <1>1 DEF Table, Used
<1>5. CASE h # l
  <2>1. i \notin Later(m, del)
    BY <1>5 DEF Later
  <2>2. q = p
    BY <1>4, <2>1 DEF Deleted
  <2> HIDE DEF C
  <2>3. WithBlock(l, C)[h][p] = data[h][p]
    BY <1>3, <1>5, OtherBlockKept
  <2> QED
    BY <2>2, <2>3 DEF C
<1>6. CASE h = l
  <2>0. WithBlock(l, C)[l] = C
    <3> HIDE DEF C
    <3> QED
      BY <1>3 DEF WithBlock
  <2>1. CASE i \in Later(m, del)
    <3>1. src = dst + m[del].max_size /\ src + size = BlockSize - free_size[l]
      BY <1>1, <1>3, <2>1, NoGap
    <3>2. src \in Nat /\ size \in Nat
      BY <1>1, MoveFits
    <3>3. q = m[i].data_idx - m[del].max_size + j - 1
      BY <1>4, <2>1 DEF Deleted, FileMetas
    <3>4. m[i].data_idx >= dst + m[del].max_size
      BY <1>3, <2>1
    <3>5. q = p - m[del].max_size
      BY <1>2, <1>3, <3>3
    <3> HIDE DEF q, p, src, dst, size
    <3>6. q >= dst /\ q < dst + size /\ q - dst + src = p /\ q \in Offsets
      BY <1>2, <1>3, <1>6, <3>1, <3>2, <3>4, <3>5 DEF Offsets
    <3>7. C[q] = data[l][q - dst + src]
      BY <3>6 DEF Compacted, src, dst, size
    <3> QED
      BY <1>6, <2>0, <3>6, <3>7 DEF q, p
  <2>2. CASE i \notin Later(m, del)
    <3>1. q = p
      BY <1>4, <2>2 DEF Deleted
    <3>2. m[i].data_idx + m[i].max_size <= dst
      <4>1. i \in Block(m, l)
        BY <1>6 DEF Block
      <4> QED
        BY <1>3, <2>2, <4>1
    <3> HIDE DEF q, p, dst
    <3>3. p < dst /\ ~(p >= dst)
      BY <1>2, <1>3, <3>2
    <3>4. C[p] = data[l][p]
      BY <1>2, <1>6, <3>3 DEF Compacted, dst
    <3> QED
      BY <1>6, <2>0, <3>1, <3>4 DEF q, p
  <2> QED
    BY <2>1, <2>2
<1> QED
  BY <1>5, <1>6

-----------------------------------------------------------------------------
(* What a client sees, as a function of the table m and the bytes d.       *)

FileOf(m, d, i) ==
  [data |-> [j \in 1 .. m[i].cur_size |-> d[m[i].lblock][m[i].data_idx + j - 1]],
   once |-> m[i].once, present |-> TRUE]

Visible(m, fid) == {i \in Indexes : m[i].id = fid /\ ~m[i].delete}

View(m, d, fid) ==
  IF Visible(m, fid) = {} THEN Store!NoFile ELSE FileOf(m, d, Min(Visible(m, fid)))

Files(m, d) == [fid \in Fids |-> View(m, d, fid)]

WriterOf(o) ==
  IF o.kind = "set" THEN o.fid
  ELSE IF o.kind = "delete" /\ o.next # Idle THEN o.next.fid
  ELSE NoFid

LEMMA ViewNow ==
  /\ [f \in Fids |-> VisibleFile(f)] = Files(file_meta, data)
  /\ Writer = WriterOf(op)
  /\ [f \in Fids |-> VisibleFile(f)]' = Files(file_meta', data')
  /\ Writer' = WriterOf(op')
BY DEF VisibleFile, Files, View, Visible, FileOf, Store!NoFile, Writer, WriterOf, Idle

\* A client sees the one file with the identifier that is not marked.
LEMMA ViewIs ==
  ASSUME NEW m, Marks(m), NEW d, NEW fid \in Fids
  PROVE  /\ \A i \in Indexes : m[i].id = fid /\ ~m[i].delete => View(m, d, fid) = FileOf(m, d, i)
         /\ (\A i \in Indexes : m[i].id = fid => m[i].delete) => View(m, d, fid) = Store!NoFile
<1> DEFINE S == Visible(m, fid)
<1>1. S \subseteq Used(m) \ Marked(m) /\ \A i \in S : m[i].id = fid
  BY ConfigAssumption DEF Visible, Used, Marked
<1>2. ASSUME NEW i \in S
      PROVE  Min(S) = i
  <2>1. S = {i}
    BY <1>1, <1>2 DEF Marks
  <2>2. i \in Nat
    BY ConfigAssumption DEF Visible, Indexes
  <2>3. Min({i}) = i
    BY <2>2 DEF Min
  <2> QED
    BY <2>1, <2>3
<1>3. ASSUME NEW i \in Indexes, m[i].id = fid, ~m[i].delete
      PROVE  View(m, d, fid) = FileOf(m, d, i)
  <2>1. i \in S
    BY <1>3 DEF Visible
  <2>2. Min(S) = i /\ S # {}
    BY <1>2, <2>1
  <2> QED
    BY <2>2 DEF View
<1>4. ASSUME \A i \in Indexes : m[i].id = fid => m[i].delete
      PROVE  View(m, d, fid) = Store!NoFile
  <2>1. S = {}
    BY <1>4 DEF Visible
  <2> QED
    BY <2>1 DEF View
<1> QED
  BY <1>3, <1>4

\* The file i has the same contents before and after.
KeptFile(m, d, n, c, i) ==
  /\ n[i].id = m[i].id /\ (n[i].delete <=> m[i].delete) /\ n[i].once = m[i].once
  /\ n[i].cur_size = m[i].cur_size
  /\ \A j \in 1 .. m[i].cur_size :
       c[n[i].lblock][n[i].data_idx + j - 1] = d[m[i].lblock][m[i].data_idx + j - 1]

LEMMA KeptIs ==
  ASSUME NEW m, NEW d, NEW n, NEW c, NEW i, KeptFile(m, d, n, c, i)
  PROVE  FileOf(n, c, i) = FileOf(m, d, i)
<1>1. [j \in 1 .. n[i].cur_size |-> c[n[i].lblock][n[i].data_idx + j - 1]]
        = [j \in 1 .. m[i].cur_size |-> d[m[i].lblock][m[i].data_idx + j - 1]]
  BY DEF KeptFile
<1>2. n[i].once = m[i].once
  BY DEF KeptFile
<1> QED
  BY <1>1, <1>2 DEF FileOf

\* When the entries with an identifier keep their contents, so does the file.
LEMMA ViewKept ==
  ASSUME NEW m, NEW n, Marks(m), Marks(n), NEW d, NEW c, NEW fid \in Fids,
         \A i \in Indexes : m[i].id = fid /\ ~m[i].delete => KeptFile(m, d, n, c, i),
         \A i \in Indexes : n[i].id = fid /\ ~n[i].delete => m[i].id = fid /\ ~m[i].delete
  PROVE  View(n, c, fid) = View(m, d, fid)
<1>1. CASE \E i \in Indexes : m[i].id = fid /\ ~m[i].delete
  <2>1. PICK i \in Indexes : m[i].id = fid /\ ~m[i].delete
    BY <1>1
  <2>2. KeptFile(m, d, n, c, i)
    BY <2>1
  <2>3. n[i].id = fid /\ ~n[i].delete
    BY <2>1, <2>2 DEF KeptFile
  <2>4. View(m, d, fid) = FileOf(m, d, i)
    BY <2>1, ViewIs
  <2>5. View(n, c, fid) = FileOf(n, c, i)
    BY <2>3, ViewIs
  <2> QED
    BY <2>2, <2>4, <2>5, KeptIs
<1>2. CASE \A i \in Indexes : m[i].id = fid => m[i].delete
  <2>1. View(m, d, fid) = Store!NoFile
    BY <1>2, ViewIs
  <2>2. \A i \in Indexes : n[i].id = fid => n[i].delete
    BY <1>2
  <2>3. View(n, c, fid) = Store!NoFile
    BY <2>2, ViewIs
  <2> QED
    BY <2>1, <2>3
<1> QED
  BY <1>1, <1>2

-----------------------------------------------------------------------------
(* Every step is a step of ItsFileStore.                                   *)

StoreStep == [Store!Next]_<<[f \in Fids |-> VisibleFile(f)], Writer>>

LEMMA AbsSame ==
  ASSUME Files(file_meta', data') = Files(file_meta, data), WriterOf(op') = WriterOf(op)
  PROVE  StoreStep
BY ViewNow DEF StoreStep

LEMMA AbsPut ==
  ASSUME NEW f \in Fids, NEW v \in Values, NEW size \in Sizes, NEW n \in 0 .. size,
         NEW once \in BOOLEAN, WriterOf(op) = NoFid, ~Files(file_meta, data)[f].once,
         Files(file_meta', data')
           = [Files(file_meta, data) EXCEPT ![f] = Store!File(Store!Chunk(v, 0, n), once)],
         WriterOf(op') \in {f, NoFid}
  PROVE  StoreStep
<1>1. Store!Put(f, v, n, once)
  BY ViewNow DEF Store!Put
<1> QED
  BY <1>1 DEF StoreStep, Store!Next

LEMMA AbsExtend ==
  ASSUME NEW f \in Fids, NEW v \in Values, NEW size \in Sizes, NEW n \in 0 .. size,
         WriterOf(op) = f, Files(file_meta, data)[f].present,
         Files(file_meta', data')
           = [Files(file_meta, data) EXCEPT
                ![f].data = @ \o Store!Chunk(v, Len(@), n)],
         WriterOf(op') \in {f, NoFid}
  PROVE  StoreStep
<1>1. Store!Extend(f, v, n)
  BY ViewNow DEF Store!Extend
<1> QED
  BY <1>1 DEF StoreStep, Store!Next

LEMMA AbsRemove ==
  ASSUME NEW f \in Fids, WriterOf(op) = NoFid, WriterOf(op') = NoFid,
         Files(file_meta, data)[f].present, ~Files(file_meta, data)[f].once,
         Files(file_meta', data') = [Files(file_meta, data) EXCEPT ![f] = Store!NoFile]
  PROVE  StoreStep
<1>1. Store!Remove(f)
  BY ViewNow DEF Store!Remove
<1> QED
  BY <1>1 DEF StoreStep, Store!Next

LEMMA AbsStop ==
  ASSUME Files(file_meta', data') = Files(file_meta, data), WriterOf(op') = NoFid
  PROVE  StoreStep
<1>1. CASE WriterOf(op) = NoFid
  BY <1>1, AbsSame
<1>2. CASE WriterOf(op) # NoFid
  <2>1. Store!Stop
    BY <1>2, ViewNow DEF Store!Stop
  <2> QED
    BY <2>1 DEF StoreStep, Store!Next
<1> QED
  BY <1>1, <1>2

LEMMA WriterIs ==
  ASSUME NEW fid \in Fids, NEW v, NEW size, NEW done
  PROVE  LET r == SetContinues(fid, v, size, done)
         IN  /\ WriterOf(r) \in {fid, NoFid}
             /\ \A e : WriterOf([kind |-> "delete", idx |-> e, next |-> r]) \in {fid, NoFid}
<1> DEFINE r == SetContinues(fid, v, size, done)
<1>1. \/ r = [kind |-> "set", fid |-> fid, val |-> v, size |-> size, done |-> done]
      \/ r = Idle
  BY DEF SetContinues
<1>2. \/ r = Idle
      \/ r.kind = "set" /\ r.fid = fid
  BY <1>1
<1> HIDE DEF r
<1>3. WriterOf(r) \in {fid, NoFid}
  BY <1>2 DEF WriterOf, Idle
<1>4. ASSUME NEW e
      PROVE  WriterOf([kind |-> "delete", idx |-> e, next |-> r]) \in {fid, NoFid}
  BY <1>2 DEF WriterOf
<1> QED
  BY <1>3, <1>4 DEF r

\* A write into an existing file is seen in that file only.
LEMMA WriteView ==
  ASSUME IInv, NEW e \in Indexes, NEW fid \in Fids, NEW v \in Values, NEW size, NEW from,
         NEW n, NEW once \in BOOLEAN, WriteEffect(e, fid, v, size, from, n, once),
         from < size
  PROVE  /\ \A g \in Fids \ {fid} : View(file_meta', data', g) = View(file_meta, data, g)
         /\ View(file_meta', data', fid)
              = [data |-> [j \in 1 .. from + n |->
                             IF j <= from THEN data[file_meta[e].lblock][file_meta[e].data_idx + j - 1]
                             ELSE <<v, j>>],
                 once |-> once, present |-> TRUE]
         /\ View(file_meta, data, fid) = FileOf(file_meta, data, e)
<1> DEFINE m == file_meta
           l == m[e].lblock
<1>1. /\ Table(m) /\ Frees(free_size) /\ Contents(data)
      /\ Layout(m, free_size) /\ Marks(m)
  BY InvIs
<1>2. /\ e \in Used(m) /\ m[e].id = fid /\ Marked(m) = {}
      /\ m[e].max_size = size /\ size \in Sizes
      /\ n \in Nat /\ from \in Nat /\ from + n <= size /\ n > 0
      /\ file_meta' = Rewritten(m, e, from + n, once)
      /\ data' = WrittenData(m[e], free_size[l], from, Chunk(v, from, n))
  BY DEF WriteEffect
<1>3. Marks(file_meta')
  <2>1. IInv'
    BY WriteInv
  <2> QED
    BY <2>1 DEF IInv
<1>4. /\ l \in LBlocks /\ m[e].data_idx \in Nat /\ m[e].max_size \in Nat /\ free_size[l] \in Nat
      /\ data_start(l) <= m[e].data_idx /\ m[e].data_idx + m[e].max_size <= BlockSize - free_size[l]
      /\ data_start(l) \in Nat /\ BlockSize \in Nat
  BY <1>1, <1>2, Neighbours
<1>5. m[e] \in FileMetas
  BY <1>1 DEF Table
<1>6. \A i \in Indexes \ {e} : file_meta'[i] = m[i]
  BY <1>2 DEF Rewritten
<1>7. /\ file_meta'[e].id = fid /\ file_meta'[e].lblock = l
      /\ file_meta'[e].data_idx = m[e].data_idx /\ file_meta'[e].cur_size = from + n
      /\ file_meta'[e].once = once /\ ~file_meta'[e].delete /\ ~m[e].delete
  BY <1>2, <1>5 DEF Rewritten, FileMetas, Marked
<1>8. ASSUME NEW g \in Fids \ {fid}
      PROVE  View(file_meta', data', g) = View(m, data, g)
  <2>1. ASSUME NEW i \in Indexes, m[i].id = g
        PROVE  KeptFile(m, data, file_meta', data', i)
    <3>1. i # e /\ i \in Used(m)
      BY <1>2, <2>1, ConfigAssumption DEF Used
    <3>2. m[i].lblock = l =>
            \/ m[i].data_idx + m[i].max_size <= m[e].data_idx
            \/ m[e].data_idx + m[e].max_size <= m[i].data_idx
      <4>1. Apart(m, Block(m, l))
        BY <1>1, <1>4 DEF Layout, Sound
      <4>2. m[i].lblock = l => i \in Block(m, l) /\ e \in Block(m, l)
        BY <1>2, <3>1 DEF Block
      <4> QED
        BY <3>1, <4>1, <4>2 DEF Apart
    <3>3. ASSUME NEW j \in 1 .. m[i].cur_size
          PROVE  data'[m[i].lblock][m[i].data_idx + j - 1]
                   = data[m[i].lblock][m[i].data_idx + j - 1]
      <4>1. free_size[l] <= free_size[l]
        BY <1>4
      <4> QED
        BY <1>2, <1>4, <3>1, <3>2, <4>1, WriteKeeps
    <3> QED
      BY <1>6, <3>1, <3>3 DEF KeptFile
  <2>2. \A i \in Indexes : file_meta'[i].id = g /\ ~file_meta'[i].delete => m[i].id = g /\ ~m[i].delete
    BY <1>6, <1>7
  <2> QED
    BY <1>1, <1>3, <2>1, <2>2, ViewKept
<1>9. View(file_meta', data', fid) = FileOf(file_meta', data', e)
  BY <1>3, <1>7, ViewIs
<1>10. View(m, data, fid) = FileOf(m, data, e)
  BY <1>1, <1>2, <1>7, ViewIs
<1>11. ASSUME NEW j \in 1 .. from + n
       PROVE  data'[l][m[e].data_idx + j - 1]
                = IF j <= from THEN data[l][m[e].data_idx + j - 1] ELSE <<v, j>>
  <2>1. m[e].data_idx + m[e].max_size <= BlockSize /\ from + n <= m[e].max_size
    BY <1>2, <1>4
  <2> QED
    BY <1>1, <1>2, <1>4, <2>1, WriteStores
<1>12. [j \in 1 .. file_meta'[e].cur_size |->
          data'[file_meta'[e].lblock][file_meta'[e].data_idx + j - 1]]
         = [j \in 1 .. from + n |->
              IF j <= from THEN data[l][m[e].data_idx + j - 1] ELSE <<v, j>>]
  BY <1>7, <1>11
<1>13. FileOf(file_meta', data', e)
         = [data |-> [j \in 1 .. from + n |->
                        IF j <= from THEN data[l][m[e].data_idx + j - 1] ELSE <<v, j>>],
            once |-> once, present |-> TRUE]
  BY <1>7, <1>12 DEF FileOf
<1> QED
  BY <1>8, <1>9, <1>10, <1>13

LEMMA SetReuseStore ==
  ASSUME 0 \notin Sizes, IInv, NEW fid \in Fids, NEW v \in Values, NEW size \in Sizes,
         NEW once \in BOOLEAN, SetReuse(fid, v, size, once)
  PROVE  StoreStep
<1>1. PICK e \in Indexes, n \in Nat :
        WriteEffect(e, fid, v, size, 0, n, once) /\ op = Idle /\ ~file_meta[e].once
  BY SetReuseIs
<1>2. size \in Nat /\ 0 < size /\ n \in 0 .. size /\ 0 + n = n
  <2>1. 0 + n <= size
    BY <1>1 DEF WriteEffect
  <2> QED
    BY <2>1, ConfigAssumption
<1>3. /\ \A g \in Fids \ {fid} : View(file_meta', data', g) = View(file_meta, data, g)
      /\ View(file_meta', data', fid)
           = [data |-> [j \in 1 .. 0 + n |->
                          IF j <= 0 THEN data[file_meta[e].lblock][file_meta[e].data_idx + j - 1]
                          ELSE <<v, j>>],
              once |-> once, present |-> TRUE]
      /\ View(file_meta, data, fid) = FileOf(file_meta, data, e)
  BY <1>1, <1>2, WriteView
<1>4. [j \in 1 .. 0 + n |->
         IF j <= 0 THEN data[file_meta[e].lblock][file_meta[e].data_idx + j - 1]
         ELSE <<v, j>>] = Store!Chunk(v, 0, n)
  BY <1>2 DEF Store!Chunk
<1>5. View(file_meta', data', fid) = Store!File(Store!Chunk(v, 0, n), once)
  BY <1>3, <1>4 DEF Store!File
<1>6. Files(file_meta', data')
        = [Files(file_meta, data) EXCEPT ![fid] = Store!File(Store!Chunk(v, 0, n), once)]
  BY <1>3, <1>5 DEF Files
<1>7. ~Files(file_meta, data)[fid].once
  BY <1>1, <1>3 DEF Files, FileOf
<1>8. WriterOf(op) = NoFid /\ WriterOf(op') \in {fid, NoFid}
  <2>1. op' = SetContinues(fid, v, size, 0 + n)
    BY <1>1 DEF WriteEffect
  <2> QED
    BY <1>1, <2>1, WriterIs DEF WriterOf, Idle
<1> QED
  BY <1>2, <1>6, <1>7, <1>8, AbsPut

LEMMA ConcatIs ==
  ASSUME NEW S, NEW s \in Seq(S), NEW t \in Seq(S)
  PROVE  s \o t = [j \in 1 .. Len(s) + Len(t) |->
                    IF j <= Len(s) THEN s[j] ELSE t[j - Len(s)]]
<1>1. /\ s \o t \in Seq(S) /\ Len(s \o t) = Len(s) + Len(t)
      /\ \A i \in 1 .. Len(s) + Len(t) :
           (s \o t)[i] = IF i <= Len(s) THEN s[i] ELSE t[i - Len(s)]
  BY ConcatProperties
<1> DEFINE u == s \o t
<1> HIDE DEF u
<1>2. u \in [1 .. Len(u) -> S]
  <2>1. u \in Seq(S)
    BY <1>1 DEF u
  <2> QED
    BY <2>1, LenProperties
<1>3. u = [j \in 1 .. Len(u) |-> u[j]]
  BY <1>2
<1> QED
  BY <1>1, <1>3 DEF u

LEMMA DataReplaced ==
  ASSUME NEW a, NEW b, NEW o, NEW p, NEW r, r = [data |-> a, once |-> o, present |-> p]
  PROVE  [r EXCEPT !.data = b] = [data |-> b, once |-> o, present |-> p]
OBVIOUS

LEMMA SetChunkStore ==
  ASSUME IInv, SetChunk
  PROVE  StoreStep
<1>1. /\ op.fid \in Fids /\ op.val \in Values /\ op.kind = "set" /\ op.size \in Nat
      /\ op.done \in Nat
  BY SetChunkIs, ConfigAssumption DEF SetOps
<1>2. PICK e \in Indexes, n \in Nat :
        /\ WriteEffect(e, op.fid, op.val, op.size, op.done, n, file_meta[e].once)
        /\ file_meta[e].cur_size = op.done
  BY SetChunkIs
<1>3. op.done < op.size
  BY <1>1, InvIs DEF Doing, Begun
<1>4. /\ op.size \in Sizes /\ n \in 0 .. op.size
      /\ op' = SetContinues(op.fid, op.val, op.size, op.done + n)
  BY <1>1, <1>2 DEF WriteEffect
<1>5. file_meta[e].once \in BOOLEAN
  BY InvIs, EntryType
<1> DEFINE l == file_meta[e].lblock
           old == [j \in 1 .. op.done |-> data[l][file_meta[e].data_idx + j - 1]]
           new == [j \in 1 .. op.done + n |->
                     IF j <= op.done THEN data[l][file_meta[e].data_idx + j - 1]
                     ELSE <<op.val, j>>]
<1>6. /\ \A g \in Fids \ {op.fid} : View(file_meta', data', g) = View(file_meta, data, g)
      /\ View(file_meta', data', op.fid)
           = [data |-> new, once |-> file_meta[e].once, present |-> TRUE]
      /\ View(file_meta, data, op.fid) = FileOf(file_meta, data, e)
  BY <1>1, <1>2, <1>3, <1>5, WriteView
<1>7. View(file_meta, data, op.fid)
        = [data |-> old, once |-> file_meta[e].once, present |-> TRUE]
  BY <1>2, <1>6 DEF FileOf
<1>8. new = old \o Store!Chunk(op.val, Len(old), n)
  <2>1. \A j \in 1 .. op.done : data[l][file_meta[e].data_idx + j - 1] \in Bytes
    <3>1. Table(file_meta) /\ Frees(free_size) /\ Layout(file_meta, free_size) /\ Contents(data)
      BY InvIs
    <3>2. e \in Used(file_meta)
      BY <1>2 DEF WriteEffect
    <3>3. ASSUME NEW j \in 1 .. op.done
          PROVE  file_meta[e].data_idx + j - 1 \in Offsets /\ l \in LBlocks
      BY <1>2, <3>1, <3>2, BytePlace
    <3> QED
      BY <3>1, <3>3 DEF Contents
  <2>2. old \in Seq(Bytes) /\ Len(old) = op.done
    BY <1>1, <2>1
  <2> DEFINE t == Store!Chunk(op.val, op.done, n)
  <2>3. t \in Seq({op.val} \X Nat) /\ Len(t) = n /\ \A i \in 1 .. n : t[i] = <<op.val, op.done + i>>
    BY <1>1, ChunkIs DEF Chunk, Store!Chunk
  <2>4. \A j \in 1 .. op.done : old[j] = data[l][file_meta[e].data_idx + j - 1]
    OBVIOUS
  <2>5. /\ new = [j \in 1 .. op.done + n |->
                    IF j <= op.done THEN old[j] ELSE t[j - op.done]]
    <3>1. \A j \in 1 .. op.done + n : ~(j <= op.done) => /\ j - op.done \in 1 .. n
                                                         /\ op.done + (j - op.done) = j
      BY <1>1
    <3>2. \A j \in 1 .. op.done + n : j <= op.done => j \in 1 .. op.done
      BY <1>1
    <3>3. \A j \in 1 .. op.done + n : ~(j <= op.done) => t[j - op.done] = <<op.val, j>>
      BY <2>3, <3>1
    <3>4. \A j \in 1 .. op.done + n :
            j <= op.done => old[j] = data[l][file_meta[e].data_idx + j - 1]
      BY <2>4, <3>2
    <3> HIDE DEF old, t
    <3> QED
      BY <3>3, <3>4
  <2> HIDE DEF old, new, t
  <2>6. old \o t = [j \in 1 .. op.done + n |->
                    IF j <= op.done THEN old[j] ELSE t[j - op.done]]
    <3> DEFINE S == Bytes \cup ({op.val} \X Nat)
    <3>1. old \in Seq(S) /\ t \in Seq(S)
      BY <2>2, <2>3
    <3> HIDE DEF S
    <3>2. old \o t = [j \in 1 .. Len(old) + Len(t) |->
                        IF j <= Len(old) THEN old[j] ELSE t[j - Len(old)]]
      BY ONLY <3>1, ConcatIs
    <3> QED
      BY <2>2, <2>3, <3>2
  <2> QED
    BY <2>2, <2>5, <2>6 DEF t
<1>9. Files(file_meta', data')
        = [Files(file_meta, data) EXCEPT
             ![op.fid].data = @ \o Store!Chunk(op.val, Len(@), n)]
  <2> HIDE DEF old, new
  <2>1. [View(file_meta, data, op.fid) EXCEPT !.data = new] = View(file_meta', data', op.fid)
    <3>1. PICK r, q, a, b, o, p :
            /\ r = View(file_meta, data, op.fid) /\ q = View(file_meta', data', op.fid)
            /\ a = old /\ b = new /\ o = file_meta[e].once /\ p = TRUE
      OBVIOUS
    <3>2. r = [data |-> a, once |-> o, present |-> p]
      BY <1>7, <3>1
    <3>3. q = [data |-> b, once |-> o, present |-> p]
      BY <1>6, <3>1
    <3>4. [r EXCEPT !.data = b] = q
      BY ONLY <3>2, <3>3, DataReplaced
    <3> QED
      BY <3>1, <3>4
  <2>2. View(file_meta, data, op.fid).data = old
    BY <1>7
  <2> QED
    BY <1>1, <1>6, <1>8, <2>1, <2>2 DEF Files
<1>10. Files(file_meta, data)[op.fid].present
  BY <1>1, <1>7 DEF Files
<1>11. WriterOf(op) = op.fid /\ WriterOf(op') \in {op.fid, NoFid}
  BY <1>1, <1>4, WriterIs DEF WriterOf
<1> QED
  BY <1>1, <1>4, <1>9, <1>10, <1>11, AbsExtend

\* The free space of a block does not reach its metadata.
LEMMA UsedPart ==
  ASSUME NEW m, NEW fr, Table(m), Frees(fr), Layout(m, fr), NEW l \in LBlocks
  PROVE  data_start(l) <= BlockSize - fr[l]
<1>1. Total(m, Block(m, l)) = BlockSize - data_start(l) - fr[l]
  BY DEF Layout, Sound
<1>2. Total(m, Block(m, l)) \in Nat
  <2>1. Block(m, l) \in SUBSET Indexes
    BY DEF Block, Used
  <2> QED
    BY <2>1, BlocksFinite, EntriesPlaced, TotalNat
<1>3. data_start(l) \in Nat /\ BlockSize \in Nat /\ fr[l] \in Nat
  BY StartIs, FreeType, ConfigAssumption
<1> QED
  BY <1>1, <1>2, <1>3

\* A set that creates a file is seen in that file only; the entry it replaces is
\* marked in the same update.
LEMMA SetCreateStore ==
  ASSUME 0 \notin Sizes, IInv, NEW fid \in Fids, NEW v \in Values, NEW size \in Sizes,
         NEW once \in BOOLEAN, SetCreate(fid, v, size, once)
  PROVE  StoreStep
<1> DEFINE m == file_meta
<1>1. /\ Table(m) /\ Frees(free_size) /\ Contents(data)
      /\ Layout(m, free_size) /\ Marks(m)
  BY InvIs
<1>2. PICK k, l, e, n, f : CreateEffect(k, l, e, n, f, fid, v, size, once)
  BY SetCreateIs
<1>3. /\ op = Idle /\ Marked(m) = {} /\ size \in Nat /\ size <= BlockSize
      /\ l \in LBlocks /\ size <= free_size[l]
      /\ n \in 0 .. size /\ (0 < size => n > 0) /\ k \in Indexes \ Used(m)
  BY <1>2 DEF CreateEffect
<1>4. \/ e \notin Indexes /\ e = InvalidIndex /\ \A i \in Indexes : m[i].id # fid
      \/ e \in Indexes /\ e # InvalidIndex /\ m[e].id = fid /\ ~m[e].once
  BY <1>2 DEF CreateEffect
<1>5. /\ f \in FileMetas
      /\ f.id = fid /\ ~f.delete /\ f.lblock = l /\ f.max_size = size /\ f.cur_size = n
      /\ f.data_idx = BlockSize - free_size[l] /\ f.once = once
  BY <1>2 DEF CreateEffect
<1>6. /\ file_meta' = Created(m, k, f, e)
      /\ data' = WrittenData(f, free_size[l] - size, 0, Chunk(v, 0, n))
      /\ op' = IF e = InvalidIndex THEN SetContinues(fid, v, size, n)
               ELSE [kind |-> "delete", idx |-> e, next |-> SetContinues(fid, v, size, n)]
  BY <1>2 DEF CreateEffect
<1>7. Marks(file_meta')
  <2>1. IInv'
    BY SetCreateInv
  <2> QED
    BY <2>1 DEF IInv
<1>8. /\ n \in Nat /\ n > 0 /\ n <= size /\ free_size[l] \in Nat /\ BlockSize \in Nat
      /\ free_size[l] - size \in Nat /\ free_size[l] - size <= free_size[l]
      /\ f.data_idx \in Nat /\ data_start(l) \in Nat /\ data_start(l) <= f.data_idx
      /\ f.data_idx + f.max_size <= BlockSize
  <2>1. free_size[l] \in 0 .. BlockSize /\ data_start(l) \in Nat /\ BlockSize \in Nat
    BY <1>1, <1>3, FreeType, StartIs, ConfigAssumption
  <2>2. data_start(l) <= BlockSize - free_size[l]
    BY <1>1, <1>3, UsedPart
  <2> QED
    BY <1>3, <1>5, <2>1, <2>2
<1>9. e # k
  BY <1>3, <1>4, ConfigAssumption DEF Used
<1>10. /\ file_meta'[k] = f
       /\ \A i \in Indexes \ {k} : i # e => file_meta'[i] = m[i]
       /\ \A i \in Indexes \ {k} : i = e => file_meta'[i].delete
       /\ \A i \in Indexes \ {k} : file_meta'[i].id = m[i].id
  <2>1. k \in Indexes
    BY <1>3
  <2>2. \A i \in Indexes \ {k} : i # e => file_meta'[i] = m[i]
    BY <1>6 DEF Created
  <2> QED
    BY <1>1, <1>5, <1>6, <1>9, <2>1, <2>2, CreatedIs
<1>11. ASSUME NEW g \in Fids \ {fid}
       PROVE  View(file_meta', data', g) = View(m, data, g)
  <2>1. ASSUME NEW i \in Indexes, m[i].id = g
        PROVE  KeptFile(m, data, file_meta', data', i)
    <3>1. i \in Used(m) /\ i # k /\ i # e
      BY <1>3, <1>4, <2>1, ConfigAssumption DEF Used
    <3>2. m[i].lblock = l => m[i].data_idx + m[i].max_size <= f.data_idx
      <4>1. m[i].data_idx + m[i].max_size <= BlockSize - free_size[m[i].lblock]
        BY <1>1, <3>1, Neighbours
      <4> QED
        BY <1>5, <4>1
    <3>3. ASSUME NEW j \in 1 .. m[i].cur_size
          PROVE  data'[m[i].lblock][m[i].data_idx + j - 1]
                   = data[m[i].lblock][m[i].data_idx + j - 1]
      <4>1. 0 \in Nat /\ 0 + n <= f.max_size /\ f.max_size \in Nat
        BY <1>3, <1>5, <1>8
      <4> QED
        BY <1>3, <1>5, <1>6, <1>8, <3>1, <3>2, <4>1, WriteKeeps, SMTT(30)
    <3> QED
      BY <1>10, <3>1, <3>3 DEF KeptFile
  <2>2. \A i \in Indexes : file_meta'[i].id = g /\ ~file_meta'[i].delete => m[i].id = g /\ ~m[i].delete
    BY <1>5, <1>10
  <2> QED
    BY <1>1, <1>7, <2>1, <2>2, ViewKept
<1>12. View(file_meta', data', fid) = FileOf(file_meta', data', k)
  BY <1>3, <1>5, <1>7, <1>10, ViewIs
<1>13. ASSUME NEW j \in 1 .. n
       PROVE  data'[l][f.data_idx + j - 1] = <<v, 0 + j>>
  <2>1. 0 \in Nat /\ 0 + n = n /\ f.max_size \in Nat /\ j \in 1 .. 0 + n /\ ~(j <= 0) /\ 0 + j = j
    BY <1>3, <1>5, <1>8
  <2>2. WrittenData(f, free_size[l] - size, 0, Chunk(v, 0, n))[f.lblock][f.data_idx + j - 1]
          = IF j <= 0 THEN data[f.lblock][f.data_idx + j - 1] ELSE <<v, j>>
    <3>1. /\ f.lblock \in LBlocks /\ f.data_idx \in Nat /\ 0 + n <= f.max_size
          /\ f.data_idx >= data_start(f.lblock) /\ f.data_idx + f.max_size <= BlockSize
      BY <1>3, <1>5, <1>8, <2>1
    <3>2. PICK o \in Nat : o = 0
      OBVIOUS
    <3>3. j \in 1 .. o + n /\ o + n <= f.max_size /\ f.max_size \in Nat
      BY <2>1, <3>1, <3>2
    <3>4. WrittenData(f, free_size[l] - size, o, Chunk(v, o, n))[f.lblock][f.data_idx + j - 1]
            = IF j <= o THEN data[f.lblock][f.data_idx + j - 1] ELSE <<v, j>>
      BY <1>1, <1>8, <3>1, <3>3, WriteStores
    <3> QED
      BY <3>2, <3>4
  <2> QED
    BY <1>5, <1>6, <2>1, <2>2
<1>14. FileOf(file_meta', data', k) = Store!File(Store!Chunk(v, 0, n), once)
  <2>1. [j \in 1 .. n |-> data'[l][f.data_idx + j - 1]] = Store!Chunk(v, 0, n)
    BY <1>13 DEF Store!Chunk
  <2> QED
    BY <1>5, <1>10, <2>1 DEF FileOf, Store!File
<1>15. Files(file_meta', data')
         = [Files(m, data) EXCEPT ![fid] = Store!File(Store!Chunk(v, 0, n), once)]
  BY <1>11, <1>12, <1>14 DEF Files
<1>16. ~Files(m, data)[fid].once
  <2>1. CASE \A i \in Indexes : m[i].id # fid
    <3>1. View(m, data, fid) = Store!NoFile
      BY <1>1, <2>1, ViewIs
    <3> QED
      BY <3>1 DEF Files, Store!NoFile
  <2>2. CASE e \in Indexes /\ m[e].id = fid /\ ~m[e].once
    <3>1. ~m[e].delete
      BY <1>3, <2>2 DEF Marked
    <3>2. View(m, data, fid) = FileOf(m, data, e)
      BY <1>1, <2>2, <3>1, ViewIs
    <3> QED
      BY <2>2, <3>2 DEF Files, FileOf
  <2> QED
    BY <1>4, <2>1, <2>2
<1>17. WriterOf(op) = NoFid /\ WriterOf(op') \in {fid, NoFid}
  BY <1>3, <1>6, WriterIs DEF WriterOf, Idle
<1> QED
  BY <1>3, <1>15, <1>16, <1>17, AbsPut

\* A deletion is seen in the deleted file only.
LEMMA DeleteView ==
  ASSUME IInv, Solid(file_meta), NEW del \in Used(file_meta),
         Marked(file_meta) \subseteq {del}, DeleteUpdate(del), NEW g \in Fids,
         file_meta[del].id # g \/ file_meta[del].delete
  PROVE  View(file_meta', data', g) = View(file_meta, data, g)
<1> DEFINE m == file_meta
<1>1. Table(m) /\ Marks(m)
  BY InvIs
<1>2. /\ file_meta' = Deleted(m, del)
      /\ data' = WithBlock(m[del].lblock, Compacted(m, data, del))
  BY DeleteIs
<1>3. /\ Marks(file_meta') /\ Marked(file_meta') = {} /\ file_meta'[del].id = NoFid
      /\ \A i \in Indexes \ {del} :
           /\ file_meta'[i].id = m[i].id /\ file_meta'[i].cur_size = m[i].cur_size
           /\ file_meta'[i].delete = m[i].delete
           /\ file_meta'[i].lblock = m[i].lblock /\ file_meta'[i].once = m[i].once
  BY <1>1, <1>2, DeletedMarks
<1>4. ASSUME NEW i \in Indexes, m[i].id = g, ~m[i].delete
      PROVE  KeptFile(m, data, file_meta', data', i)
  <2>1. i # del /\ i \in Used(m) \ {del}
    BY <1>4, ConfigAssumption DEF Used
  <2>2. ASSUME NEW j \in 1 .. m[i].cur_size
        PROVE  data'[file_meta'[i].lblock][file_meta'[i].data_idx + j - 1]
                 = data[m[i].lblock][m[i].data_idx + j - 1]
    <3>1. WithBlock(m[del].lblock, Compacted(m, data, del))
             [m[i].lblock][Deleted(m, del)[i].data_idx + j - 1]
           = data[m[i].lblock][m[i].data_idx + j - 1]
      BY <2>1, DeleteKeeps
    <3>2. file_meta'[i].lblock = m[i].lblock
      BY <1>3, <2>1
    <3> QED
      BY <1>2, <3>1, <3>2
  <2> QED
    BY <1>3, <2>1, <2>2 DEF KeptFile
<1>5. \A i \in Indexes : file_meta'[i].id = g /\ ~file_meta'[i].delete => m[i].id = g /\ ~m[i].delete
  BY <1>3, ConfigAssumption
<1> QED
  BY <1>1, <1>3, <1>4, <1>5, ViewKept

LEMMA DeleteOldStore ==
  ASSUME IInv, Solid(file_meta), DeleteOld
  PROVE  StoreStep
<1> DEFINE m == file_meta
<1>1. Table(m) /\ op \in Ops /\ Marks(m) /\ Doing(m, op)
  BY InvIs
<1>2. op.kind = "delete" /\ DeleteUpdate(op.idx) /\ op' = op.next
  BY DEF DeleteOld
<1>3. op.idx \in Indexes /\ op.next \in {Idle} \cup SetOps /\ m[op.idx].delete
  BY <1>1, <1>2, OpFields DEF Doing
<1>4. op.idx \in Used(m) /\ Marked(m) \subseteq {op.idx}
  BY <1>1, <1>3 DEF Marks, Marked
<1>5. \A g \in Fids : View(file_meta', data', g) = View(m, data, g)
  BY <1>2, <1>3, <1>4, DeleteView
<1>6. Files(file_meta', data') = Files(m, data)
  BY <1>5 DEF Files
<1>7. WriterOf(op') = WriterOf(op)
  BY <1>2, <1>3 DEF WriterOf, SetOps, Idle
<1> QED
  BY <1>6, <1>7, AbsSame

LEMMA RemoveStore ==
  ASSUME IInv, Solid(file_meta), NEW fid \in Fids, tfm_its_remove(fid)
  PROVE  StoreStep
<1> DEFINE m == file_meta
<1>1. Table(m) /\ Marks(m) /\ Doing(m, op)
  BY InvIs
<1>2. PICK e \in Indexes : /\ op = Idle /\ m[e].id = fid /\ ~m[e].once
                           /\ DeleteUpdate(e) /\ op' = op
  BY FileIdx DEF tfm_its_remove
<1>3. e \in Used(m) /\ Marked(m) = {} /\ ~m[e].delete
  BY <1>1, <1>2, ConfigAssumption DEF Used, Doing, Idle, Marked
<1>4. \A g \in Fids \ {fid} : View(file_meta', data', g) = View(m, data, g)
  BY <1>2, <1>3, DeleteView
<1>5. View(m, data, fid) = FileOf(m, data, e)
  BY <1>1, <1>2, <1>3, ViewIs
<1>6. View(file_meta', data', fid) = Store!NoFile
  <2>1. /\ Marks(file_meta') /\ file_meta'[e].id = NoFid
        /\ \A i \in Indexes \ {e} : file_meta'[i].id = m[i].id
    <3>1. file_meta' = Deleted(m, e)
      BY <1>2, DeleteIs
    <3> QED
      BY <1>1, <1>3, <3>1, DeletedMarks
  <2>2. \A i \in Indexes : file_meta'[i].id # fid
    <3> SUFFICES ASSUME NEW i \in Indexes, i # e, m[i].id = fid PROVE FALSE
      BY <2>1, ConfigAssumption
    <3>1. i \in Used(m) \ Marked(m) /\ e \in Used(m) \ Marked(m)
      BY <1>3, ConfigAssumption DEF Used
    <3> QED
      BY <1>1, <1>2, <3>1 DEF Marks
  <2> QED
    BY <2>1, <2>2, ViewIs
<1>7. Files(file_meta', data') = [Files(m, data) EXCEPT ![fid] = Store!NoFile]
  BY <1>4, <1>6 DEF Files
<1>8. Files(m, data)[fid].present /\ ~Files(m, data)[fid].once
  BY <1>2, <1>5 DEF Files, FileOf
<1>9. WriterOf(op) = NoFid /\ WriterOf(op') = NoFid
  BY <1>2 DEF WriterOf, Idle
<1> QED
  BY <1>7, <1>8, <1>9, AbsRemove

LEMMA QuietStore ==
  ASSUME UNCHANGED <<file_meta, free_size, data>>, op' = op \/ WriterOf(op') = NoFid
  PROVE  StoreStep
<1>1. Files(file_meta', data') = Files(file_meta, data)
  OBVIOUS
<1>2. CASE op' = op
  BY <1>1, <1>2, AbsSame
<1>3. CASE WriterOf(op') = NoFid
  BY <1>1, <1>3, AbsStop
<1> QED
  BY <1>2, <1>3

-----------------------------------------------------------------------------
(* Without empty files, every step implements ItsFileStore.                *)

SolidInv == IInv /\ Solid(file_meta)

LEMMA SolidInit == Init => SolidInv
<1>1. Init => Used(file_meta) = {}
  BY DEF Init, Used, FreeEntry
<1> QED
  BY <1>1, InitInv DEF SolidInv, Solid

\* A file keeps the size it was reserved with, and that is not zero.
LEMMA SolidWrite ==
  ASSUME SolidInv, NEW e, NEW fid, NEW v, NEW size, NEW from, NEW n, NEW once \in BOOLEAN,
         WriteEffect(e, fid, v, size, from, n, once)
  PROVE  Solid(file_meta')
<1>1. /\ Table(file_meta) /\ Solid(file_meta) /\ e \in Used(file_meta)
      /\ file_meta' = Rewritten(file_meta, e, from + n, once)
  BY InvIs DEF SolidInv, WriteEffect
<1>2. file_meta[e] \in FileMetas
  BY <1>1 DEF Table, Used
<1>3. \A i \in Indexes : /\ file_meta'[i].id = file_meta[i].id
                         /\ file_meta'[i].max_size = file_meta[i].max_size
  BY <1>1, <1>2 DEF Rewritten, FileMetas
<1> QED
  BY <1>1, <1>3 DEF Solid, Used

LEMMA SolidCreate ==
  ASSUME 0 \notin Sizes, SolidInv, NEW fid \in Fids, NEW v \in Values, NEW size \in Sizes,
         NEW once \in BOOLEAN, SetCreate(fid, v, size, once)
  PROVE  Solid(file_meta')
<1>1. IInv /\ Solid(file_meta) /\ Table(file_meta)
  BY InvIs DEF SolidInv
<1>2. PICK k, l, e, n, f : CreateEffect(k, l, e, n, f, fid, v, size, once)
  BY <1>1, SetCreateIs
<1>3. /\ k \in Indexes \ Used(file_meta) /\ f \in FileMetas /\ f.max_size = size
      /\ file_meta' = Created(file_meta, k, f, e)
      /\ (e \notin Indexes \/ file_meta[e].id = fid)
  BY <1>2 DEF CreateEffect
<1>4. e # k /\ k \in Indexes
  BY <1>3, ConfigAssumption DEF Used
<1>5. /\ file_meta'[k] = f
      /\ \A i \in Indexes \ {k} : /\ file_meta'[i].id = file_meta[i].id
                                  /\ file_meta'[i].max_size = file_meta[i].max_size
  BY <1>1, <1>3, <1>4, CreatedIs
<1> QED
  BY <1>1, <1>3, <1>5 DEF Solid, Used

LEMMA SolidDelete ==
  ASSUME SolidInv, NEW del \in Used(file_meta), Marked(file_meta) \subseteq {del},
         DeleteUpdate(del)
  PROVE  Solid(file_meta')
<1>1. Table(file_meta) /\ Solid(file_meta) /\ Marks(file_meta)
  BY InvIs DEF SolidInv
<1>2. file_meta' = Deleted(file_meta, del)
  BY DeleteIs DEF SolidInv
<1>3. /\ file_meta'[del].id = NoFid
      /\ \A i \in Indexes \ {del} : /\ file_meta'[i].id = file_meta[i].id
                                    /\ file_meta'[i].max_size = file_meta[i].max_size
  BY <1>1, <1>2, DeletedMarks
<1> QED
  BY <1>1, <1>3 DEF Solid, Used

LEMMA SolidStep ==
  ASSUME 0 \notin Sizes, SolidInv, [Next]_vars
  PROVE  SolidInv' /\ StoreStep
<1>0. IInv /\ Solid(file_meta) /\ op \in Ops /\ Marks(file_meta) /\ Doing(file_meta, op)
  BY InvIs DEF SolidInv
<1> SUFFICES Solid(file_meta') /\ StoreStep
  BY <1>0, StepInv DEF SolidInv
<1>1. CASE SetChunk
  <2>1. PICK e \in Indexes, n \in Nat :
          WriteEffect(e, op.fid, op.val, op.size, op.done, n, file_meta[e].once)
    BY <1>0, <1>1, SetChunkIs
  <2>2. file_meta[e].once \in BOOLEAN
    BY <1>0, InvIs, EntryType
  <2> QED
    BY <1>0, <1>1, <2>1, <2>2, SolidWrite, SetChunkStore
<1>2. CASE DeleteOld
  <2>1. op.kind = "delete" /\ DeleteUpdate(op.idx)
    BY <1>2 DEF DeleteOld
  <2>2. op.idx \in Indexes /\ file_meta[op.idx].delete
    BY <1>0, <2>1, OpFields DEF Doing
  <2>3. op.idx \in Used(file_meta) /\ Marked(file_meta) \subseteq {op.idx}
    BY <1>0, <2>2 DEF Marks, Marked
  <2> QED
    BY <1>0, <1>2, <2>1, <2>3, SolidDelete, DeleteOldStore
<1>3. CASE its_flash_fs_prepare
  <2>1. /\ UNCHANGED <<file_meta, free_size, data>>
        /\ WriterOf(op') = NoFid
    BY <1>3 DEF its_flash_fs_prepare, disk, WriterOf, Idle
  <2> QED
    BY <1>0, <2>1, QuietStore
<1>4. ASSUME NEW fid \in Fids, tfm_its_remove(fid)
      PROVE  Solid(file_meta') /\ StoreStep
  <2>1. PICK e \in Indexes : op = Idle /\ file_meta[e].id = fid /\ DeleteUpdate(e)
    BY <1>4, FileIdx DEF tfm_its_remove
  <2>2. e \in Used(file_meta) /\ Marked(file_meta) = {}
    BY <1>0, <2>1, ConfigAssumption DEF Used, Doing, Idle
  <2> QED
    BY <1>0, <1>4, <2>1, <2>2, SolidDelete, RemoveStore
<1>5. ASSUME NEW fid \in Fids, NEW size \in Sizes, SetFails(fid, size)
      PROVE  Solid(file_meta') /\ StoreStep
  <2>1. UNCHANGED <<file_meta, free_size, data>> /\ op' = op
    BY <1>5 DEF SetFails, disk
  <2> QED
    BY <1>0, <2>1, QuietStore
<1>6. ASSUME NEW fid \in Fids, NEW size \in Sizes, NEW v \in Values, NEW once \in BOOLEAN,
             SetReuse(fid, v, size, once)
      PROVE  Solid(file_meta') /\ StoreStep
  <2>1. PICK e \in Indexes, n \in Nat : WriteEffect(e, fid, v, size, 0, n, once)
    BY <1>0, <1>6, SetReuseIs
  <2> QED
    BY <1>0, <1>6, <2>1, SolidWrite, SetReuseStore
<1>7. ASSUME NEW fid \in Fids, NEW size \in Sizes, NEW v \in Values, NEW once \in BOOLEAN,
             SetCreate(fid, v, size, once)
      PROVE  Solid(file_meta') /\ StoreStep
  BY <1>0, <1>7, SolidCreate, SetCreateStore
<1>8. CASE Crash
  <2>1. UNCHANGED <<file_meta, free_size, data>> /\ WriterOf(op') = NoFid
    BY <1>8 DEF Crash, disk, WriterOf, Boot
  <2> QED
    BY <1>0, <2>1, QuietStore
<1>9. CASE UNCHANGED vars
  <2>1. UNCHANGED <<file_meta, free_size, data>> /\ op' = op
    BY <1>9 DEF vars
  <2> QED
    BY <1>0, <2>1, QuietStore
<1> QED
  BY <1>1, <1>2, <1>3, <1>4, <1>5, <1>6, <1>7, <1>8, <1>9 DEF Next, Step

\* The file system implements a plain store of files, power failures included,
\* as long as no client stores a file without data: every update of
\* its_flash_fs_file_write() and its_flash_fs_delete_idx() changes the bytes of
\* the file its request names and of no other, each chunk appears as a whole
\* behind the ones before it, and write-once files are only read.  With files of
\* size 0 a deletion moves the wrong bytes, so the hypothesis is needed.
THEOREM FileSystemImplementsStore ==
  ASSUME 0 \notin Sizes
  PROVE  Spec => StoreImplemented
<1>1. Init => Store!Init
  <2> SUFFICES ASSUME Init PROVE Store!Init
    OBVIOUS
  <2>1. \A f \in Fids : VisibleFile(f) = Store!NoFile
    <3> SUFFICES ASSUME NEW f \in Fids PROVE VisibleFile(f) = Store!NoFile
      OBVIOUS
    <3>1. {i \in Indexes : file_meta[i].id = f /\ ~file_meta[i].delete} = {}
      BY ConfigAssumption DEF Init, FreeEntry
    <3> QED
      BY <3>1 DEF VisibleFile, Store!NoFile
  <2>2. Writer = NoFid
    BY DEF Init, Writer, Boot
  <2> QED
    BY <2>1, <2>2 DEF Store!Init
<1>2. SolidInv /\ [Next]_vars => SolidInv'
  BY SolidStep
<1>3. SolidInv /\ [Next]_vars
        => [Store!Next]_<<[f \in Fids |-> VisibleFile(f)], Writer>>
  BY SolidStep DEF StoreStep
<1> QED
  BY <1>1, <1>2, <1>3, SolidInit, PTL DEF Spec, StoreImplemented, Store!Spec

=============================================================================
