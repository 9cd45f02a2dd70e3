----------------------------- MODULE FiniteSums -----------------------------
(***************************************************************************)
(* Sums over finite sets: what the accounting arguments need to know of    *)
(* MapThenSumSet.  Its recursive function exists and is determined, by     *)
(* the well-foundedness of the finite subsets; then the sum is that of its *)
(* parts, whatever order they are picked in.                               *)
(***************************************************************************)
EXTENDS Integers, FiniteSetsExt, FiniteSetTheorems, WellFoundedInduction, TLAPS

SumOver(value, S) == MapThenSumSet(LAMBDA x : value[x], S)

Picked(s) == CHOOSE x \in s : TRUE
Rest(s) == s \ {Picked(s)}

(* The equation of MapThenSumSet's recursive function. *)
Sums(g, value, S) ==
    g = [s \in SUBSET S |-> IF s = {} THEN 0 ELSE value[Picked(s)] + g[Rest(s)]]

LEMMA SumOverIs ==
  ASSUME NEW value, NEW S
  PROVE  SumOver(value, S) = (CHOOSE g : Sums(g, value, S))[S]
BY DEF SumOver, MapThenSumSet, MapThenFoldSet, Sums, Picked, Rest

LEMMA PickedIn ==
  ASSUME NEW s, s # {}
  PROVE  Picked(s) \in s /\ Rest(s) \subseteq s /\ Rest(s) # s
BY DEF Picked, Rest

(* Among the subsets of a finite set there is always a smallest one. *)
LEMMA SmallestSubset ==
  ASSUME NEW S, IsFiniteSet(S), NEW T, T \subseteq SUBSET S, T # {}
  PROVE  \E x \in T : \A y \in T : y \subseteq x => y = x
<1>1. IsWellFoundedOn(StrictSubsetOrdering(S), SUBSET S)
  BY FS_StrictSubsetOrderingWellFounded, FS_FiniteSubsetsOfFinite
<1>2. PICK x \in T : \A y \in T : ~ (<<y, x>> \in StrictSubsetOrdering(S))
  BY <1>1, WFMin
<1>3. \A y \in T : y \subseteq x => y = x
  BY <1>2 DEF StrictSubsetOrdering
<1>4. QED
  BY <1>3

(* Two solutions agree wherever both are defined. *)
LEMMA SumsAgree ==
  ASSUME NEW S, IsFiniteSet(S), NEW A \in SUBSET S, NEW B \in SUBSET S, NEW value,
         NEW g, NEW h, Sums(g, value, A), Sums(h, value, B)
  PROVE  \A s \in SUBSET (A \cap B) : g[s] = h[s]
<1>. DEFINE T == {s \in SUBSET (A \cap B) : g[s] # h[s]}
<1>. SUFFICES ASSUME T # {} PROVE FALSE
  OBVIOUS
<1>0. T \subseteq SUBSET S
  OBVIOUS
<1>1. PICK x \in T : \A y \in T : y \subseteq x => y = x
  <2>. HIDE DEF T
  <2>1. QED
    BY <1>0, SmallestSubset
<1>2. x \in SUBSET A /\ x \in SUBSET B
  OBVIOUS
<1>3. /\ g[x] = IF x = {} THEN 0 ELSE value[Picked(x)] + g[Rest(x)]
      /\ h[x] = IF x = {} THEN 0 ELSE value[Picked(x)] + h[Rest(x)]
  BY <1>2 DEF Sums
<1>4. CASE x = {}
  BY <1>3, <1>4
<1>5. CASE x # {}
  <2>1. Rest(x) \in SUBSET (A \cap B) /\ Rest(x) \subseteq x /\ Rest(x) # x
    BY <1>5, PickedIn
  <2>2. g[Rest(x)] = h[Rest(x)]
    BY <1>1, <2>1
  <2>3. QED
    BY <1>3, <1>5, <2>2
<1>6. QED
  BY <1>4, <1>5

LEMMA SumsExist ==
  ASSUME NEW S, IsFiniteSet(S), NEW value
  PROVE  \A A \in SUBSET S : \E g : Sums(g, value, A)
<1>. DEFINE T == {A \in SUBSET S : ~ \E g : Sums(g, value, A)}
<1>. SUFFICES ASSUME T # {} PROVE FALSE
  OBVIOUS
<1>0. T \subseteq SUBSET S
  OBVIOUS
<1>1. PICK A \in T : \A y \in T : y \subseteq A => y = A
  <2>. HIDE DEF T
  <2>1. QED
    BY <1>0, SmallestSubset
<1>. DEFINE G(B) == CHOOSE g : Sums(g, value, B)
            H == [s \in SUBSET A |-> IF s = {} THEN 0 ELSE value[Picked(s)] + G(Rest(s))[Rest(s)]]
<1>2. \A B \in SUBSET A : B # A => Sums(G(B), value, B)
  <2>. SUFFICES ASSUME NEW B \in SUBSET A, B # A PROVE Sums(G(B), value, B)
    OBVIOUS
  <2>1. \E g : Sums(g, value, B)
    BY <1>1
  <2>2. QED
    BY <2>1
<1>. HIDE DEF G
<1>3. \A r \in SUBSET A : r # A => H[r] = G(r)[r]
  <2>. SUFFICES ASSUME NEW r \in SUBSET A, r # A PROVE H[r] = G(r)[r]
    OBVIOUS
  <2>1. G(r)[r] = IF r = {} THEN 0 ELSE value[Picked(r)] + G(r)[Rest(r)]
    BY <1>2 DEF Sums
  <2>2. H[r] = IF r = {} THEN 0 ELSE value[Picked(r)] + G(Rest(r))[Rest(r)]
    OBVIOUS
  <2>3. CASE r # {}
    <3>1. Rest(r) \in SUBSET A /\ Rest(r) # A /\ Rest(r) \in SUBSET (r \cap Rest(r))
      BY <2>3, PickedIn
    <3>2. Sums(G(r), value, r) /\ Sums(G(Rest(r)), value, Rest(r))
      BY <1>2, <3>1
    <3>3. r \in SUBSET S /\ Rest(r) \in SUBSET S
      BY <3>1
    <3>4. G(r)[Rest(r)] = G(Rest(r))[Rest(r)]
      BY <3>1, <3>2, <3>3, SumsAgree
    <3>5. QED
      BY <2>1, <2>2, <3>4
  <2>4. QED
    BY <2>1, <2>2, <2>3
<1>4. \A s \in SUBSET A : s # {} => G(Rest(s))[Rest(s)] = H[Rest(s)]
  <2>. HIDE DEF H
  <2>1. \A s \in SUBSET A : s # {} => Rest(s) \in SUBSET A /\ Rest(s) # A
    BY PickedIn
  <2>2. QED
    BY <1>3, <2>1
<1>5. H = [s \in SUBSET A |-> IF s = {} THEN 0 ELSE value[Picked(s)] + H[Rest(s)]]
  BY <1>4
<1>. HIDE DEF H
<1>6. Sums(H, value, A)
  BY <1>5 DEF Sums
<1>7. QED
  BY <1>6

(* The sum of a set is that of what is left, and what was picked first. *)
LEMMA SumOverUnfolds ==
  ASSUME NEW S, IsFiniteSet(S), NEW value
  PROVE  SumOver(value, S) = IF S = {} THEN 0 ELSE value[Picked(S)] + SumOver(value, Rest(S))
<1>. DEFINE G(B) == CHOOSE g : Sums(g, value, B)
<1>1. \A B \in SUBSET S : Sums(G(B), value, B)
  BY SumsExist
<1>2. \A B : SumOver(value, B) = G(B)[B]
  BY SumOverIs
<1>. HIDE DEF G
<1>3. G(S)[S] = IF S = {} THEN 0 ELSE value[Picked(S)] + G(S)[Rest(S)]
  BY <1>1 DEF Sums
<1>4. CASE S # {}
  <2>1. Rest(S) \in SUBSET S /\ Rest(S) \in SUBSET (S \cap Rest(S))
    BY <1>4, PickedIn
  <2>2. G(S)[Rest(S)] = G(Rest(S))[Rest(S)]
    BY <1>1, <2>1, SumsAgree
  <2>3. QED
    BY <1>2, <1>3, <2>2
<1>5. QED
  BY <1>2, <1>3, <1>4
(* Induction over the subsets of a finite set, P being a set of subsets. *)
LEMMA SubsetInduction ==
  ASSUME NEW S, IsFiniteSet(S), NEW P,
         \A A \in SUBSET S : (\A B \in SUBSET A : B # A => B \in P) => A \in P
  PROVE  \A A \in SUBSET S : A \in P
<1>. DEFINE T == {A \in SUBSET S : A \notin P}
<1>. SUFFICES ASSUME T # {} PROVE FALSE
  OBVIOUS
<1>1. T \subseteq SUBSET S
  OBVIOUS
<1>2. PICK A \in T : \A y \in T : y \subseteq A => y = A
  <2>. HIDE DEF T
  <2>1. QED
    BY <1>1, SmallestSubset
<1>3. \A B \in SUBSET A : B # A => B \in P
  BY <1>2
<1>4. QED
  BY <1>2, <1>3

-----------------------------------------------------------------------------
(* What the accounting uses.                                               *)

LEMMA SumOverEmpty == ASSUME NEW value PROVE SumOver(value, {}) = 0
  BY SumOverUnfolds, FS_EmptySet

LEMMA SumOverInt ==
  ASSUME NEW S, IsFiniteSet(S), NEW value, \A x \in S : value[x] \in Int
  PROVE  SumOver(value, S) \in Int
<1>. DEFINE P == {A \in SUBSET S : SumOver(value, A) \in Int}
<1>1. ASSUME NEW A \in SUBSET S, \A B \in SUBSET A : B # A => B \in P
      PROVE  A \in P
  <2>1. IsFiniteSet(A)
    BY FS_Subset
  <2>2. SumOver(value, A) = IF A = {} THEN 0 ELSE value[Picked(A)] + SumOver(value, Rest(A))
    BY <2>1, SumOverUnfolds
  <2>3. CASE A # {}
    BY <1>1, <2>2, <2>3, PickedIn
  <2>4. QED
    BY <2>2, <2>3
<1>. HIDE DEF P
<1>2. S \in P
  BY <1>1, SubsetInduction
<1>3. QED
  BY <1>2 DEF P

LEMMA SumOverNat ==
  ASSUME NEW S, IsFiniteSet(S), NEW value, \A x \in S : value[x] \in Nat
  PROVE  SumOver(value, S) \in Nat
<1>. DEFINE P == {A \in SUBSET S : SumOver(value, A) \in Nat}
<1>1. ASSUME NEW A \in SUBSET S, \A B \in SUBSET A : B # A => B \in P
      PROVE  A \in P
  <2>1. IsFiniteSet(A)
    BY FS_Subset
  <2>2. SumOver(value, A) = IF A = {} THEN 0 ELSE value[Picked(A)] + SumOver(value, Rest(A))
    BY <2>1, SumOverUnfolds
  <2>3. CASE A # {}
    BY <1>1, <2>2, <2>3, PickedIn
  <2>4. QED
    BY <2>2, <2>3
<1>. HIDE DEF P
<1>2. S \in P
  BY <1>1, SubsetInduction
<1>3. QED
  BY <1>2 DEF P

(* Only the values of the members count. *)
LEMMA SumOverSame ==
  ASSUME NEW S, IsFiniteSet(S), NEW value, NEW other, \A x \in S : value[x] = other[x]
  PROVE  SumOver(value, S) = SumOver(other, S)
<1>. DEFINE P == {A \in SUBSET S : SumOver(value, A) = SumOver(other, A)}
<1>1. ASSUME NEW A \in SUBSET S, \A B \in SUBSET A : B # A => B \in P
      PROVE  A \in P
  <2>1. IsFiniteSet(A)
    BY FS_Subset
  <2>2. /\ SumOver(value, A) = IF A = {} THEN 0 ELSE value[Picked(A)] + SumOver(value, Rest(A))
        /\ SumOver(other, A) = IF A = {} THEN 0 ELSE other[Picked(A)] + SumOver(other, Rest(A))
    BY <2>1, SumOverUnfolds
  <2>3. CASE A # {}
    <3>1. Picked(A) \in S /\ SumOver(value, Rest(A)) = SumOver(other, Rest(A))
      BY <1>1, <2>3, PickedIn
    <3>2. QED
      BY <2>2, <3>1
  <2>4. QED
    BY <2>2, <2>3
<1>. HIDE DEF P
<1>2. S \in P
  BY <1>1, SubsetInduction
<1>3. QED
  BY <1>2 DEF P

(* Any member may be the one that was picked. *)
LEMMA SumOverMember ==
  ASSUME NEW S, IsFiniteSet(S), NEW value, \A x \in S : value[x] \in Int, NEW m \in S
  PROVE  SumOver(value, S) = value[m] + SumOver(value, S \ {m})
<1>. DEFINE P == {A \in SUBSET S : \A x \in A : SumOver(value, A) = value[x] + SumOver(value, A \ {x})}
<1>1. ASSUME NEW A \in SUBSET S, \A B \in SUBSET A : B # A => B \in P, NEW x \in A
      PROVE  SumOver(value, A) = value[x] + SumOver(value, A \ {x})
  <2>. DEFINE y == Picked(A)
  <2>1. \A B \in SUBSET A : IsFiniteSet(B) /\ SumOver(value, B) \in Int
    BY FS_Subset, SumOverInt
  <2>2. SumOver(value, A) = value[y] + SumOver(value, A \ {y}) /\ y \in A
    BY <2>1, SumOverUnfolds, PickedIn DEF Rest
  <2>. HIDE DEF y
  <2>3. CASE x = y
    BY <2>2, <2>3
  <2>4. CASE x # y
    <3>1. SumOver(value, A \ {y}) = value[x] + SumOver(value, (A \ {y}) \ {x})
      BY <1>1, <2>2, <2>4
    <3>2. SumOver(value, A \ {x}) = value[y] + SumOver(value, (A \ {x}) \ {y})
      BY <1>1, <2>2, <2>4
    <3>3. (A \ {x}) \ {y} = (A \ {y}) \ {x}
      OBVIOUS
    <3>4. /\ value[x] \in Int /\ value[y] \in Int
          /\ SumOver(value, (A \ {y}) \ {x}) \in Int
      BY <2>1, <2>2
    <3>5. \A a, b, c \in Int : a + (b + c) = b + (a + c)
      OBVIOUS
    <3>6. value[y] + (value[x] + SumOver(value, (A \ {y}) \ {x}))
             = value[x] + (value[y] + SumOver(value, (A \ {y}) \ {x}))
      BY <3>4, <3>5
    <3>7. QED
      BY <2>2, <3>1, <3>2, <3>3, <3>6, Zenon
  <2>5. QED
    BY <2>3, <2>4
<1>2. \A A \in SUBSET S : (\A B \in SUBSET A : B # A => B \in P) => A \in P
  BY <1>1
<1>. HIDE DEF P
<1>3. S \in P
  BY <1>2, SubsetInduction
<1>4. QED
  BY <1>3 DEF P

LEMMA SumOverAdded ==
  ASSUME NEW S, IsFiniteSet(S), NEW m, m \notin S, NEW value,
         \A x \in S \cup {m} : value[x] \in Int
  PROVE  SumOver(value, S \cup {m}) = value[m] + SumOver(value, S)
<1>1. IsFiniteSet(S \cup {m}) /\ (S \cup {m}) \ {m} = S
  BY FS_AddElement
<1>2. SumOver(value, S \cup {m}) = value[m] + SumOver(value, (S \cup {m}) \ {m})
  BY <1>1, SumOverMember
<1>3. QED
  BY <1>1, <1>2

LEMMA SumOverDisjoint ==
  ASSUME NEW S, IsFiniteSet(S), NEW T, IsFiniteSet(T), S \cap T = {}, NEW value,
         \A x \in S \cup T : value[x] \in Int
  PROVE  SumOver(value, S \cup T) = SumOver(value, S) + SumOver(value, T)
<1>. DEFINE P == {A \in SUBSET T : SumOver(value, S \cup A) = SumOver(value, S) + SumOver(value, A)}
<1>0. SumOver(value, S) \in Int
  BY SumOverInt
<1>1. ASSUME NEW A \in SUBSET T, \A B \in SUBSET A : B # A => B \in P
      PROVE  A \in P
  <2>1. IsFiniteSet(A)
    BY FS_Subset
  <2>2. CASE A = {}
    BY <1>0, <2>2, SumOverEmpty
  <2>3. CASE A # {}
    <3>1. PICK m \in A : TRUE
      BY <2>3
    <3>2. SumOver(value, A) = value[m] + SumOver(value, A \ {m})
      BY <2>1, SumOverMember
    <3>3. SumOver(value, S \cup (A \ {m})) = SumOver(value, S) + SumOver(value, A \ {m})
      BY <1>1, <3>1
    <3>4. IsFiniteSet(S \cup (A \ {m})) /\ IsFiniteSet(A \ {m})
      BY <2>1, FS_Union, FS_RemoveElement
    <3>5. m \notin S \cup (A \ {m}) /\ S \cup A = (S \cup (A \ {m})) \cup {m}
      BY <3>1
    <3>6. SumOver(value, S \cup A) = value[m] + SumOver(value, S \cup (A \ {m}))
      BY <3>4, <3>5, SumOverAdded
    <3>7. value[m] \in Int /\ SumOver(value, A \ {m}) \in Int
      BY <3>4, SumOverInt
    <3>8. QED
      BY <1>0, <3>2, <3>3, <3>6, <3>7
  <2>4. QED
    BY <2>2, <2>3
<1>. HIDE DEF P
<1>2. T \in P
  BY <1>1, SubsetInduction
<1>3. QED
  BY <1>2 DEF P

LEMMA SumOverGrows ==
  ASSUME NEW T, IsFiniteSet(T), NEW S \in SUBSET T, NEW value, \A x \in T : value[x] \in Nat
  PROVE  /\ SumOver(value, S) <= SumOver(value, T)
         /\ SumOver(value, S) \in Nat /\ SumOver(value, T) \in Nat
<1>1. IsFiniteSet(S) /\ IsFiniteSet(T \ S)
  BY FS_Subset
<1>2. /\ SumOver(value, S) \in Nat /\ SumOver(value, T) \in Nat
      /\ SumOver(value, T \ S) \in Nat
  BY <1>1, SumOverNat
<1>3. S \cup (T \ S) = T /\ S \cap (T \ S) = {}
  OBVIOUS
<1>4. SumOver(value, T) = SumOver(value, S) + SumOver(value, T \ S)
  BY <1>1, <1>3, SumOverDisjoint
<1>5. QED
  BY <1>2, <1>4

(* What two sets have in common is counted twice by the two sums. *)
LEMMA SumOverJoined ==
  ASSUME NEW S, IsFiniteSet(S), NEW T, IsFiniteSet(T), NEW value,
         \A x \in S \cup T : value[x] \in Nat
  PROVE  SumOver(value, S \cup T) <= SumOver(value, S) + SumOver(value, T)
<1>1. IsFiniteSet(T \ S) /\ S \cap (T \ S) = {} /\ S \cup (T \ S) = S \cup T
  BY FS_Subset
<1>2. SumOver(value, S \cup T) = SumOver(value, S) + SumOver(value, T \ S)
  BY <1>1, SumOverDisjoint
<1>3. SumOver(value, T \ S) <= SumOver(value, T)
  BY SumOverGrows
<1>4. SumOver(value, S) \in Nat /\ SumOver(value, T) \in Nat /\ SumOver(value, T \ S) \in Nat
  BY <1>1, SumOverNat
<1>5. QED
  BY <1>2, <1>3, <1>4
=============================================================================
