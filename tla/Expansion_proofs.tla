-------------------------- MODULE Expansion_proofs --------------------------
(* Proofs about the claims of a token.  The loop of ResourceService::verify  *)
(* expands scopes into claims as its reference definition says, for every    *)
(* table of scope mappings and every finite set of requested scopes; so the  *)
(* claims of every token are those that the scope mappings define.           *)
(*                                                                           *)
(* An induction principle is stated for a set P of sets in place of a        *)
(* predicate, which the provers can instantiate: what holds of the empty set *)
(* and, with the largest member added, of a larger one, holds of every       *)
(* finite set.  It serves to show that the fold of ExpandScopes is well      *)
(* defined, that the n-th scope of a set is what the reference chooses, and  *)
(* that every turn of the loop keeps what the loop promises.                 *)
EXTENDS TokenExchange_proofs, FiniteSetTheorems

-----------------------------------------------------------------------------
(* Induction over the finite subsets of U by inclusion: the order is well    *)
(* founded, so a smallest set outside of P would have to be in it.           *)
LEMMA SubsetInduction ==
  ASSUME NEW U, NEW P,
         \A T \in FiniteSubsetsOf(U) :
           (\A V \in SUBSET T : V # T => V \in P) => T \in P
  PROVE  FiniteSubsetsOf(U) \subseteq P
<1> DEFINE F   == FiniteSubsetsOf(U)
           R   == StrictSubsetOrdering(U)
           Bad == {T \in F : T \notin P}
<1> SUFFICES ASSUME Bad # {}
             PROVE  FALSE
  OBVIOUS
<1>1. PICK T \in Bad : \A V \in Bad : <<V, T>> \notin R
  <2>1. IsWellFoundedOn(R, F)
    BY FS_StrictSubsetOrderingWellFounded
  <2>2. Bad \subseteq F /\ Bad # {}
    OBVIOUS
  <2> HIDE DEF R, F, Bad
  <2> QED
    BY <2>1, <2>2, WFMin
<1>2. T \in SUBSET U /\ IsFiniteSet(T) /\ T \notin P
  BY DEF FiniteSubsetsOf
<1>3. ASSUME NEW V \in SUBSET T, V # T
      PROVE  V \in P
  <2>1. V \in F
    BY <1>2, FS_Subset DEF FiniteSubsetsOf
  <2>2. <<V, T>> \in R
    BY <1>2, <1>3 DEF StrictSubsetOrdering
  <2> QED
    BY <2>1, <2>2, <1>1
<1> QED
  BY <1>2, <1>3

(* The scope that the BTreeSet iterates last is a member and the largest.    *)
LEMMA MaxProperty ==
  ASSUME NEW S \in SUBSET Nat, IsFiniteSet(S), S # {}
  PROVE  Max(S) \in S /\ \A y \in S : y <= Max(S)
<1> DEFINE P == {T \in SUBSET Nat : T # {} => \E x \in T : \A y \in T : x >= y}
<1>1. ASSUME NEW T \in FiniteSubsetsOf(Nat), \A V \in SUBSET T : V # T => V \in P
      PROVE  T \in P
  <2>1. T \in SUBSET Nat
    BY DEF FiniteSubsetsOf
  <2> SUFFICES ASSUME T # {}
               PROVE  \E x \in T : \A y \in T : x >= y
    BY <2>1
  <2>2. PICK x \in T : TRUE
    OBVIOUS
  <2>3. T \ {x} \in P
    BY <1>1
  <2>4. CASE T \ {x} = {}
    BY <2>1, <2>4
  <2>5. CASE T \ {x} # {}
    <3>1. PICK z \in T \ {x} : \A y \in T \ {x} : z >= y
      BY <2>3, <2>5
    <3> QED
      BY <2>1, <3>1
  <2> QED
    BY <2>4, <2>5
<1>2. S \in P
  <2>1. S \in FiniteSubsetsOf(Nat)
    BY DEF FiniteSubsetsOf
  <2> HIDE DEF P
  <2> QED
    BY <1>1, <2>1, SubsetInduction
<1>3. \E x \in S : \A y \in S : x >= y
  BY <1>2
<1> QED
  BY <1>3 DEF Max

(* Induction in the order of the loop: take away the largest scope.          *)
LEMMA MaxInduction ==
  ASSUME NEW P, {} \in P,
         \A T \in SUBSET Nat :
           IsFiniteSet(T) /\ T # {} /\ T \ {Max(T)} \in P => T \in P
  PROVE  \A S \in SUBSET Nat : IsFiniteSet(S) => S \in P
<1>1. ASSUME NEW T \in FiniteSubsetsOf(Nat), \A V \in SUBSET T : V # T => V \in P
      PROVE  T \in P
  <2>1. T \in SUBSET Nat /\ IsFiniteSet(T)
    BY DEF FiniteSubsetsOf
  <2>2. CASE T # {}
    <3>1. Max(T) \in T
      BY <2>1, <2>2, MaxProperty
    <3>2. T \ {Max(T)} \in P
      BY <3>1, <1>1
    <3> QED
      BY <2>1, <2>2, <3>2
  <2> QED
    BY <2>2
<1>2. FiniteSubsetsOf(Nat) \subseteq P
  BY <1>1, SubsetInduction
<1> QED
  BY <1>2 DEF FiniteSubsetsOf

-----------------------------------------------------------------------------
(* The fold of ExpandScopes, unrolled: the recursive function that the fold  *)
(* chooses exists, and all that satisfy its equation agree.                  *)

\* The accumulator before the first turn.
Nothing == [ok |-> TRUE, claims |-> NoClaims]

\* One turn of the loop.
Turn(s, acc, table) == IF table[s] = None THEN acc ELSE MergeClaims(acc, table[s])

\* f computes the loop for every subset of S.
Loop(f, S, table) ==
  f = [T \in SUBSET S |-> IF T = {} THEN Nothing
                          ELSE Turn(Max(T), f[T \ {Max(T)}], table)]

(* ExpandScopes applies such a function to the requested scopes.             *)
LEMMA FoldIsLoop ==
  ASSUME NEW S, NEW table
  PROVE  ExpandScopes(S, table) = (CHOOSE f : Loop(f, S, table))[S]
BY DEF ExpandScopes, MapThenFoldSet, Loop, Turn, Nothing

(* The equation of the loop at one set of scopes.                            *)
LEMMA LoopAt ==
  ASSUME NEW S, NEW table, NEW f, Loop(f, S, table), NEW T \in SUBSET S
  PROVE  f[T] = IF T = {} THEN Nothing ELSE Turn(Max(T), f[T \ {Max(T)}], table)
BY DEF Loop

(* The loop is well defined: add the largest scope to the function for the   *)
(* others.                                                                   *)
LEMMA LoopExists ==
  ASSUME NEW table
  PROVE  \A S \in SUBSET Nat : IsFiniteSet(S) => \E f : Loop(f, S, table)
<1> DEFINE P == {S \in SUBSET Nat : \E f : Loop(f, S, table)}
<1>1. {} \in P
  <2> DEFINE f == [T \in SUBSET {} |-> Nothing]
  <2>1. Loop(f, {}, table)
    BY DEF Loop
  <2> QED
    BY <2>1
<1>2. ASSUME NEW S \in SUBSET Nat, IsFiniteSet(S), S # {}, S \ {Max(S)} \in P
      PROVE  S \in P
  <2> DEFINE m == Max(S)
             Q == S \ {m}
  <2>1. PICK g : Loop(g, Q, table)
    BY <1>2
  <2>2. ASSUME NEW T \in SUBSET Q
        PROVE  g[T] = IF T = {} THEN Nothing ELSE Turn(Max(T), g[T \ {Max(T)}], table)
    <3> HIDE DEF Q
    <3> QED
      BY <2>1, LoopAt
  <2> DEFINE f == [T \in SUBSET S |-> IF m \in T THEN Turn(m, g[T \ {m}], table) ELSE g[T]]
  <2>3. ASSUME NEW T \in SUBSET S
        PROVE  f[T] = IF T = {} THEN Nothing ELSE Turn(Max(T), f[T \ {Max(T)}], table)
    <3>1. CASE m \in T
      <4>1. Max(T) = m
        <5>1. Max(T) \in T /\ \A y \in T : y <= Max(T)
          BY <1>2, <3>1, MaxProperty, FS_Subset
        <5>2. \A y \in S : y <= m
          BY <1>2, MaxProperty
        <5>3. Max(T) <= m /\ m <= Max(T)
          BY <3>1, <5>1, <5>2
        <5>4. Max(T) \in Nat /\ m \in Nat
          BY <3>1, <5>1
        <5> HIDE DEF m
        <5> QED
          BY <5>3, <5>4
      <4>2. f[T \ {m}] = g[T \ {m}]
        OBVIOUS
      <4> QED
        BY <3>1, <4>1, <4>2
    <3>2. CASE m \notin T
      <4>1. T \in SUBSET Q
        BY <3>2
      <4>2. f[T] = g[T] /\ f[T \ {Max(T)}] = g[T \ {Max(T)}]
        BY <3>2
      <4>3. g[T] = IF T = {} THEN Nothing ELSE Turn(Max(T), g[T \ {Max(T)}], table)
        BY <4>1, <2>2
      <4> HIDE DEF m, f
      <4> QED
        BY <4>2, <4>3
    <3> QED
      BY <3>1, <3>2
  <2>4. Loop(f, S, table)
    <3> DEFINE h == [T \in SUBSET S |-> IF T = {} THEN Nothing
                                        ELSE Turn(Max(T), f[T \ {Max(T)}], table)]
    <3>1. f = h
      <4>1. \A T \in SUBSET S : f[T] = h[T]
        BY <2>3
      <4>2. f = [T \in SUBSET S |-> f[T]] /\ h = [T \in SUBSET S |-> h[T]]
        OBVIOUS
      <4> HIDE DEF f, h
      <4> QED
        BY <4>1, <4>2
    <3> QED
      BY <3>1 DEF Loop
  <2> QED
    BY <2>4
<1> HIDE DEF P
<1>3. \A S \in SUBSET Nat : IsFiniteSet(S) => S \in P
  BY <1>1, <1>2, MaxInduction
<1> QED
  BY <1>3 DEF P

(* What the loop has computed for a set does not depend on the scopes that   *)
(* come after it.                                                            *)
LEMMA LoopUnique ==
  ASSUME NEW table, NEW R, NEW S, NEW f, NEW g, Loop(f, R, table), Loop(g, S, table)
  PROVE  \A T \in SUBSET Nat : IsFiniteSet(T) /\ T \subseteq R /\ T \subseteq S => f[T] = g[T]
<1> DEFINE P == {T \in SUBSET Nat : T \subseteq R /\ T \subseteq S => f[T] = g[T]}
<1>1. {} \in P
  BY LoopAt
<1>2. ASSUME NEW T \in SUBSET Nat, IsFiniteSet(T), T # {}, T \ {Max(T)} \in P
      PROVE  T \in P
  <2> SUFFICES ASSUME T \subseteq R, T \subseteq S
               PROVE  f[T] = g[T]
    OBVIOUS
  <2>1. f[T \ {Max(T)}] = g[T \ {Max(T)}]
    BY <1>2
  <2>2. f[T] = Turn(Max(T), f[T \ {Max(T)}], table)
    <3>1. f[T] = IF T = {} THEN Nothing ELSE Turn(Max(T), f[T \ {Max(T)}], table)
      BY LoopAt, T \in SUBSET R
    <3> QED
      BY <1>2, <3>1
  <2>3. g[T] = Turn(Max(T), g[T \ {Max(T)}], table)
    <3>1. g[T] = IF T = {} THEN Nothing ELSE Turn(Max(T), g[T \ {Max(T)}], table)
      BY LoopAt, T \in SUBSET S
    <3> QED
      BY <1>2, <3>1
  <2> QED
    BY <2>1, <2>2, <2>3
<1> HIDE DEF P
<1>3. \A T \in SUBSET Nat : IsFiniteSet(T) => T \in P
  BY <1>1, <1>2, MaxInduction
<1> QED
  BY <1>3 DEF P

(* verify without scopes: nothing is merged.                                 *)
LEMMA ExpandNone ==
  ASSUME NEW table
  PROVE  ExpandScopes({}, table) = Nothing
<1>1. \E f : Loop(f, {}, table)
  BY LoopExists, FS_EmptySet
<1>2. Loop(CHOOSE f : Loop(f, {}, table), {}, table)
  BY <1>1
<1> QED
  BY <1>2, FoldIsLoop, LoopAt

(* verify with scopes: the largest is merged last, into the expansion of the *)
(* others.                                                                   *)
LEMMA ExpandLast ==
  ASSUME NEW table, NEW S \in SUBSET Nat, IsFiniteSet(S), S # {}
  PROVE  ExpandScopes(S, table) =
           Turn(Max(S), ExpandScopes(S \ {Max(S)}, table), table)
<1> DEFINE m == Max(S)
           R == S \ {m}
           f == CHOOSE h : Loop(h, S, table)
           g == CHOOSE h : Loop(h, R, table)
<1>1. R \in SUBSET Nat /\ IsFiniteSet(R)
  BY FS_Subset
<1>2. Loop(f, S, table)
  BY LoopExists
<1>3. Loop(g, R, table)
  BY <1>1, LoopExists
<1>4. ExpandScopes(S, table) = f[S] /\ ExpandScopes(R, table) = g[R]
  BY FoldIsLoop
<1> HIDE DEF f, g, m
<1>5. f[R] = g[R]
  BY <1>1, <1>2, <1>3, LoopUnique
<1>6. f[S] = Turn(m, f[R], table)
  BY <1>2, LoopAt DEF m
<1> QED
  BY <1>4, <1>5, <1>6 DEF m

-----------------------------------------------------------------------------
(* The n-th member of a finite set of scopes.                                *)

Below(D, s) == {t \in D : t < s}

Nth(D, i) == CHOOSE s \in D : Cardinality(Below(D, s)) = i - 1

(* A larger scope has more scopes below it.                                  *)
LEMMA BelowLess ==
  ASSUME NEW D \in SUBSET Nat, IsFiniteSet(D), NEW s \in D, NEW t \in D, s < t
  PROVE  Cardinality(Below(D, s)) # Cardinality(Below(D, t))
<1>1. Below(D, s) \in SUBSET Below(D, t) /\ s \in Below(D, t) /\ s \notin Below(D, s)
  <2>1. \A x \in D : x \in Nat
    OBVIOUS
  <2>2. \A x \in D : x < s => x < t
    BY <2>1
  <2>3. ~(s < s)
    BY <2>1
  <2> QED
    BY <2>2, <2>3, Zenon DEF Below
<1>2. IsFiniteSet(Below(D, t))
  BY FS_Subset DEF Below
<1>3. Below(D, t) # Below(D, s)
  BY <1>1
<1> QED
  BY <1>1, <1>2, <1>3, FS_Subset

(* Two scopes differ in the number of scopes below them.                     *)
LEMMA BelowDistinct ==
  ASSUME NEW D \in SUBSET Nat, IsFiniteSet(D), NEW s \in D, NEW t \in D, s # t
  PROVE  Cardinality(Below(D, s)) # Cardinality(Below(D, t))
<1>1. s < t \/ t < s
  OBVIOUS
<1> QED
  BY <1>1, BelowLess

(* All other scopes are below the largest, which is below none of them.      *)
LEMMA BelowMax ==
  ASSUME NEW D \in SUBSET Nat, IsFiniteSet(D), D # {}
  PROVE  /\ Below(D, Max(D)) = D \ {Max(D)}
         /\ \A s \in D \ {Max(D)} : Below(D, s) = Below(D \ {Max(D)}, s)
         /\ IsFiniteSet(D \ {Max(D)})
         /\ Cardinality(D) \in Nat
         /\ Cardinality(D \ {Max(D)}) = Cardinality(D) - 1
<1>1. Max(D) \in D /\ \A y \in D : y <= Max(D)
  BY MaxProperty
<1>2. ASSUME NEW m, m \in D, \A y \in D : y <= m
      PROVE  /\ Below(D, m) = D \ {m}
             /\ \A s \in D \ {m} : Below(D, s) = Below(D \ {m}, s)
  <2>1. \A y \in D : y \in Nat
    OBVIOUS
  <2>2. \A y \in D : y < m <=> y # m
    BY <2>1, <1>2
  <2>3. \A s \in D : ~(m < s)
    BY <2>1, <1>2
  <2>4. Below(D, m) = D \ {m}
    BY <2>2, Zenon DEF Below
  <2>5. ASSUME NEW s \in D \ {m}
        PROVE  Below(D, s) = Below(D \ {m}, s)
    BY <2>3 DEF Below
  <2> QED
    BY <2>4, <2>5
<1>3. /\ IsFiniteSet(D \ {Max(D)})
      /\ Cardinality(D) \in Nat
      /\ Cardinality(D \ {Max(D)}) = Cardinality(D) - 1
  BY <1>1, FS_RemoveElement, FS_CardinalityType
<1> QED
  BY <1>1, <1>2, <1>3

(* Every place in the order is taken.                                        *)
LEMMA NthExists ==
  \A D \in SUBSET Nat : IsFiniteSet(D) =>
    \A i \in 1..Cardinality(D) : \E s \in D : Cardinality(Below(D, s)) = i - 1
<1> DEFINE P == {D \in SUBSET Nat :
                   \A i \in 1..Cardinality(D) : \E s \in D : Cardinality(Below(D, s)) = i - 1}
<1>1. {} \in P
  BY FS_EmptySet
<1>2. ASSUME NEW D \in SUBSET Nat, IsFiniteSet(D), D # {}, D \ {Max(D)} \in P
      PROVE  D \in P
  <2> DEFINE m == Max(D)
             R == D \ {m}
  <2>1. m \in D
    BY <1>2, MaxProperty
  <2>2. /\ Below(D, m) = R
        /\ \A s \in R : Below(D, s) = Below(R, s)
        /\ Cardinality(D) \in Nat
        /\ Cardinality(R) = Cardinality(D) - 1
    BY <1>2, BelowMax
  <2>3. \A i \in 1..Cardinality(R) : \E s \in R : Cardinality(Below(R, s)) = i - 1
    BY <1>2
  <2> SUFFICES ASSUME NEW i \in 1..Cardinality(D)
               PROVE  \E s \in D : Cardinality(Below(D, s)) = i - 1
    OBVIOUS
  <2>4. R \subseteq D
    OBVIOUS
  <2> HIDE DEF m, R
  <2>5. CASE i = Cardinality(D)
    BY <2>1, <2>2, <2>5
  <2>6. CASE i # Cardinality(D)
    <3>1. i \in 1..Cardinality(R)
      BY <2>2, <2>6
    <3> QED
      BY <2>2, <2>3, <2>4, <3>1
  <2> QED
    BY <2>5, <2>6
<1> HIDE DEF P
<1>3. \A D \in SUBSET Nat : IsFiniteSet(D) => D \in P
  BY <1>1, <1>2, MaxInduction
<1> QED
  BY <1>3 DEF P

(* The reference's CHOOSE finds the scope at a place.                        *)
LEMMA NthProperty ==
  ASSUME NEW D \in SUBSET Nat, IsFiniteSet(D), NEW i \in 1..Cardinality(D)
  PROVE  Nth(D, i) \in D /\ Cardinality(Below(D, Nth(D, i))) = i - 1
<1>1. \E s \in D : Cardinality(Below(D, s)) = i - 1
  BY NthExists
<1> QED
  BY <1>1 DEF Nth

(* That scope is the only one at its place.                                  *)
LEMMA NthIs ==
  ASSUME NEW D \in SUBSET Nat, IsFiniteSet(D), NEW i \in 1..Cardinality(D),
         NEW s \in D, Cardinality(Below(D, s)) = i - 1
  PROVE  Nth(D, i) = s
BY NthProperty, BelowDistinct

(* The largest scope takes the last place and moves no other.                *)
LEMMA NthLast ==
  ASSUME NEW D \in SUBSET Nat, IsFiniteSet(D), D # {}
  PROVE  /\ Nth(D, Cardinality(D)) = Max(D)
         /\ \A i \in 1..(Cardinality(D) - 1) : Nth(D, i) = Nth(D \ {Max(D)}, i)
<1> DEFINE m == Max(D)
           R == D \ {m}
<1>1. m \in D
  BY MaxProperty
<1>2. /\ Below(D, m) = R
      /\ \A s \in R : Below(D, s) = Below(R, s)
      /\ Cardinality(D) \in Nat
      /\ Cardinality(R) = Cardinality(D) - 1
      /\ IsFiniteSet(R)
  BY BelowMax
<1>3. Cardinality(D) \in 1..Cardinality(D)
  <2>1. Cardinality(D) # 0
    BY FS_EmptySet
  <2> QED
    BY <1>2, <2>1
<1>4. R \in SUBSET Nat /\ R \subseteq D
  OBVIOUS
<1> HIDE DEF m, R
<1>5. Nth(D, Cardinality(D)) = m
  BY <1>1, <1>2, <1>3, NthIs
<1>6. ASSUME NEW i \in 1..(Cardinality(D) - 1)
      PROVE  Nth(D, i) = Nth(R, i)
  <2>1. i \in 1..Cardinality(R) /\ i \in 1..Cardinality(D)
    BY <1>2
  <2>2. Nth(R, i) \in R /\ Cardinality(Below(R, Nth(R, i))) = i - 1
    BY <1>2, <1>4, <2>1, NthProperty
  <2>3. Nth(R, i) \in D /\ Cardinality(Below(D, Nth(R, i))) = i - 1
    BY <1>2, <1>4, <2>2
  <2> QED
    BY <2>1, <2>3, NthIs
<1> QED
  BY <1>5, <1>6 DEF m, R

-----------------------------------------------------------------------------
(* One merge, and the values that the reference joins.                       *)

\* A key that both define, not both times with a string.
Clash(acc, claims) ==
  \E k \in DOMAIN acc.claims \cap DOMAIN claims :
    ~({acc.claims[k][1], claims[k]} \subseteq Strings)

\* The values of a key before a merge, and the one that it adds.
Old(acc, k) == IF k \in DOMAIN acc.claims THEN acc.claims[k] ELSE <<>>

Add(claims, k) == IF k \in DOMAIN claims THEN <<claims[k]>> ELSE <<>>

(* A merge fails after a failure, and on a clash.                            *)
LEMMA MergeRefuses ==
  ASSUME NEW acc, NEW claims, ~acc.ok \/ Clash(acc, claims)
  PROVE  MergeClaims(acc, claims).ok = FALSE
BY DEF MergeClaims, Clash

(* Otherwise it keeps all keys and writes the new value after the old ones.  *)
LEMMA MergeAccepts ==
  ASSUME NEW acc, NEW claims, acc.ok, ~Clash(acc, claims)
  PROVE  /\ MergeClaims(acc, claims).ok = TRUE
         /\ DOMAIN MergeClaims(acc, claims).claims = DOMAIN acc.claims \cup DOMAIN claims
         /\ \A k \in DOMAIN acc.claims \cup DOMAIN claims :
              MergeClaims(acc, claims).claims[k] = Old(acc, k) \o Add(claims, k)
BY DEF MergeClaims, Clash, Old, Add

\* The values that the scopes D give to key k, in the order of the scopes.
Values(D, table, k) == [i \in 1..Cardinality(D) |-> table[Nth(D, i)][k]]

(* The reference value of a key.                                             *)
LEMMA JoinedIsValues ==
  ASSUME NEW S, NEW table, NEW k
  PROVE  JoinedValue(S, table, k) = Values(Definers(S, table, k), table, k)
BY DEF JoinedValue, Values, Nth, Below

(* Without scopes there are no values.                                       *)
LEMMA ValuesNone ==
  ASSUME NEW table, NEW k
  PROVE  Values({}, table, k) = <<>>
<1>1. Cardinality({}) = 0 /\ 1..0 = {}
  BY FS_EmptySet
<1> QED
  BY <1>1 DEF Values

(* There is one value for each scope.                                        *)
LEMMA ValuesSeq ==
  ASSUME NEW D \in SUBSET Nat, IsFiniteSet(D), NEW table, NEW k
  PROVE  /\ Values(D, table, k) \in Seq({table[s][k] : s \in D})
         /\ Len(Values(D, table, k)) = Cardinality(D)
<1>1. Cardinality(D) \in Nat
  BY FS_CardinalityType
<1>2. \A i \in 1..Cardinality(D) : table[Nth(D, i)][k] \in {table[s][k] : s \in D}
  BY NthProperty
<1> QED
  BY <1>1, <1>2 DEF Values

(* The first value is that of some scope.                                    *)
LEMMA ValuesFirst ==
  ASSUME NEW D \in SUBSET Nat, IsFiniteSet(D), D # {}, NEW table, NEW k
  PROVE  \E s \in D : Values(D, table, k)[1] = table[s][k]
<1>1. Cardinality(D) \in Nat /\ Cardinality(D) # 0
  BY FS_CardinalityType, FS_EmptySet
<1>2. 1 \in 1..Cardinality(D)
  BY <1>1
<1>3. Values(D, table, k)[1] = table[Nth(D, 1)][k]
  BY <1>2 DEF Values
<1> QED
  BY <1>2, <1>3, NthProperty

(* The last value is that of the largest scope.                              *)
LEMMA ValuesLast ==
  ASSUME NEW D \in SUBSET Nat, IsFiniteSet(D), D # {}, NEW table, NEW k
  PROVE  Values(D, table, k) =
           Values(D \ {Max(D)}, table, k) \o <<table[Max(D)][k]>>
<1> DEFINE m == Max(D)
           R == D \ {m}
           n == Cardinality(R)
           V == {table[s][k] : s \in D}
           old == Values(R, table, k)
<1>1. m \in D
  BY MaxProperty
<1>2. IsFiniteSet(R) /\ Cardinality(D) \in Nat /\ n = Cardinality(D) - 1
  BY BelowMax
<1>3. n \in Nat /\ Cardinality(D) = n + 1
  BY <1>2, FS_CardinalityType
<1>4. Nth(D, n + 1) = m /\ \A i \in 1..n : Nth(D, i) = Nth(R, i)
  BY <1>2, <1>3, NthLast
<1>5. old \in Seq({table[s][k] : s \in R}) /\ Len(old) = n
  BY <1>2, ValuesSeq
<1>6. old = [i \in 1..n |-> table[Nth(R, i)][k]]
  BY DEF Values
<1>7. Values(D, table, k) = [i \in 1..(n + 1) |-> table[Nth(D, i)][k]]
  BY <1>3 DEF Values
<1> HIDE DEF m, R, n, V, old
<1>8. old \o <<table[m][k]>> =
        [i \in 1..(n + 1) |-> IF i <= n THEN old[i] ELSE table[m][k]]
  BY <1>3, <1>5
<1>9. \A i \in 1..(n + 1) :
        table[Nth(D, i)][k] = IF i <= n THEN old[i] ELSE table[m][k]
  BY <1>3, <1>4, <1>6
<1> QED
  BY <1>7, <1>8, <1>9 DEF m, R, old

-----------------------------------------------------------------------------
(* The loop keeps its promise turn by turn.                                  *)

\* What the loop promises for one set of scopes.
Expanded(S, table) ==
  LET e == ExpandScopes(S, table)
  IN  /\ e.ok <=> ~Conflicting(S, table)
      /\ e.ok => /\ DOMAIN e.claims = {k \in ClaimKeys : Definers(S, table, k) # {}}
                 /\ \A k \in DOMAIN e.claims : e.claims[k] = JoinedValue(S, table, k)

(* Without scopes there is no conflict and no claim.                         *)
LEMMA NoneExpanded ==
  ASSUME NEW table
  PROVE  Expanded({}, table)
<1>1. \A k : Definers({}, table, k) = {}
  BY DEF Definers
<1>2. ~Conflicting({}, table)
  BY <1>1 DEF Conflicting
<1>3. ExpandScopes({}, table) = Nothing
  BY ExpandNone
<1>4. Nothing.ok = TRUE /\ DOMAIN Nothing.claims = {}
  BY DEF Nothing, NoClaims
<1> QED
  BY <1>1, <1>2, <1>3, <1>4 DEF Expanded

(* The largest scope is a definer of the keys of its claims, and the last.   *)
LEMMA LastDefiner ==
  ASSUME NEW S \in SUBSET Nat, IsFiniteSet(S), S # {}, NEW table, NEW k,
         NEW m, m = Max(S), NEW R, R = S \ {m},
         NEW D, D = Definers(S, table, k), NEW DR, DR = Definers(R, table, k)
  PROVE  /\ D \in SUBSET Nat /\ IsFiniteSet(D)
         /\ DR \in SUBSET Nat /\ IsFiniteSet(DR)
         /\ m \notin DR
         /\ table[m] # None /\ k \in DOMAIN table[m] =>
              D # {} /\ Max(D) = m /\ D \ {m} = DR /\ D = DR \cup {m}
         /\ ~(table[m] # None /\ k \in DOMAIN table[m]) => D = DR
<1>1. m \in S /\ \A y \in S : y <= m
  BY MaxProperty
<1>2. D \in SUBSET S /\ DR \in SUBSET S /\ m \notin DR
  BY DEF Definers
<1>3. D \in SUBSET Nat /\ IsFiniteSet(D) /\ DR \in SUBSET Nat /\ IsFiniteSet(DR)
  BY <1>2, FS_Subset
<1>4. ASSUME table[m] # None, k \in DOMAIN table[m]
      PROVE  D # {} /\ Max(D) = m /\ D \ {m} = DR /\ D = DR \cup {m}
  <2>1. m \in D /\ D \ {m} = DR /\ D = DR \cup {m}
    BY <1>1, <1>4 DEF Definers
  <2>2. Max(D) \in D /\ \A y \in D : y <= Max(D)
    BY <1>3, <2>1, MaxProperty
  <2>3. Max(D) \in S /\ m \in Nat /\ Max(D) \in Nat
    BY <1>1, <1>2, <2>2
  <2>4. Max(D) <= m /\ m <= Max(D)
    BY <1>1, <2>1, <2>2, <2>3
  <2>5. Max(D) = m
    BY <2>3, <2>4
  <2> QED
    BY <2>1, <2>5
<1>5. ASSUME ~(table[m] # None /\ k \in DOMAIN table[m])
      PROVE  D = DR
  BY <1>5 DEF Definers
<1> QED
  BY <1>2, <1>3, <1>4, <1>5

(* A turn for a scope without a scope mapping changes nothing.               *)
LEMMA SkipExpanded ==
  ASSUME NEW S \in SUBSET Nat, IsFiniteSet(S), S # {}, NEW table,
         table[Max(S)] = None, Expanded(S \ {Max(S)}, table)
  PROVE  Expanded(S, table)
<1> DEFINE R == S \ {Max(S)}
<1>1. ASSUME NEW k
      PROVE  Definers(S, table, k) = Definers(R, table, k)
  BY LastDefiner
<1>2. ExpandScopes(S, table) = ExpandScopes(R, table)
  BY ExpandLast DEF Turn
<1> HIDE DEF R
<1>3. Conflicting(S, table) <=> Conflicting(R, table)
  BY <1>1 DEF Conflicting
<1>4. \A k : JoinedValue(S, table, k) = JoinedValue(R, table, k)
  BY <1>1, JoinedIsValues
<1>5. Expanded(R, table)
  BY DEF R
<1> QED
  BY <1>1, <1>2, <1>3, <1>4, <1>5 DEF Expanded

(* The test of a turn, which looks only at the first of the values joined so *)
(* far, finds every conflict of the new scope with one before it: where two  *)
(* scopes have been joined, all their values are strings already.            *)
LEMMA ClashIsConflict ==
  ASSUME NEW S \in SUBSET Nat, IsFiniteSet(S), S # {}, NEW table,
         table[Max(S)] # None, table[Max(S)] \in ClaimMap,
         Expanded(S \ {Max(S)}, table), ExpandScopes(S \ {Max(S)}, table).ok
  PROVE  Clash(ExpandScopes(S \ {Max(S)}, table), table[Max(S)]) <=> Conflicting(S, table)
<1> DEFINE m     == Max(S)
           c     == table[m]
           R     == S \ {m}
           D(k)  == Definers(S, table, k)
           DR(k) == Definers(R, table, k)
           e     == ExpandScopes(R, table)
<1>1. /\ ~Conflicting(R, table)
      /\ DOMAIN e.claims = {k \in ClaimKeys : DR(k) # {}}
      /\ \A k \in DOMAIN e.claims : e.claims[k] = Values(DR(k), table, k)
  BY JoinedIsValues DEF Expanded
<1>2. ASSUME NEW k
      PROVE  /\ DR(k) \in SUBSET Nat /\ IsFiniteSet(DR(k)) /\ m \notin DR(k)
             /\ k \in DOMAIN c => D(k) = DR(k) \cup {m}
             /\ k \notin DOMAIN c => D(k) = DR(k)
  BY LastDefiner
<1>3. DOMAIN c \subseteq ClaimKeys
  BY DEF ClaimMap
<1>4. ASSUME NEW k \in DOMAIN e.claims
      PROVE  \E s \in DR(k) : e.claims[k][1] = table[s][k]
  <2>1. DR(k) # {} /\ e.claims[k] = Values(DR(k), table, k)
    BY <1>1
  <2>2. DR(k) \in SUBSET Nat /\ IsFiniteSet(DR(k))
    BY <1>2
  <2> HIDE DEF DR, e
  <2> QED
    BY <2>1, <2>2, ValuesFirst
<1>5. Conflicting(S, table) <=>
        \E k \in ClaimKeys : \E s, t \in D(k) : s # t /\ table[s][k] \notin Strings
  BY DEF Conflicting
<1>6. \A k \in ClaimKeys : \A s, t \in DR(k) : s # t => table[s][k] \in Strings
  BY <1>1 DEF Conflicting
<1> HIDE DEF m, R, D, DR, e
<1>7. ASSUME Clash(e, c)
      PROVE  Conflicting(S, table)
  <2>1. PICK k \in DOMAIN e.claims \cap DOMAIN c :
               e.claims[k][1] \notin Strings \/ c[k] \notin Strings
    BY <1>7 DEF Clash
  <2>2. PICK s \in DR(k) : e.claims[k][1] = table[s][k]
    BY <1>4
  <2>3. k \in ClaimKeys /\ s \in D(k) /\ m \in D(k) /\ s # m
    BY <1>2, <1>3
  <2> QED
    BY <1>5, <2>1, <2>2, <2>3
<1>8. ASSUME Conflicting(S, table)
      PROVE  Clash(e, c)
  <2>1. PICK k \in ClaimKeys : \E s, t \in D(k) : s # t /\ table[s][k] \notin Strings
    BY <1>5, <1>8
  <2>2. PICK s \in D(k), t \in D(k) : s # t /\ table[s][k] \notin Strings
    BY <2>1
  <2>3. k \in DOMAIN c /\ DR(k) # {}
    BY <1>2, <1>6, <2>2
  <2>4. k \in DOMAIN e.claims \cap DOMAIN c
    BY <1>1, <2>3
  <2>5. CASE s = m
    BY <2>2, <2>4, <2>5 DEF Clash
  <2>6. CASE s # m
    <3>1. s \in DR(k)
      BY <1>2, <2>3, <2>6
    <3>2. PICK r \in DR(k) : e.claims[k][1] = table[r][k]
      BY <1>4, <2>4
    <3>3. r = s
      BY <1>6, <2>2, <3>1
    <3> QED
      BY <2>2, <2>4, <3>2, <3>3 DEF Clash
  <2> QED
    BY <2>5, <2>6
<1> QED
  BY <1>7, <1>8 DEF e, R, m

(* A turn for a scope with a scope mapping.                                  *)
LEMMA MergeExpanded ==
  ASSUME NEW S \in SUBSET Nat, IsFiniteSet(S), S # {}, NEW table,
         table[Max(S)] # None, table[Max(S)] \in ClaimMap,
         Expanded(S \ {Max(S)}, table)
  PROVE  Expanded(S, table)
<1> DEFINE m     == Max(S)
           c     == table[m]
           R     == S \ {m}
           D(k)  == Definers(S, table, k)
           DR(k) == Definers(R, table, k)
           e     == ExpandScopes(R, table)
           f     == ExpandScopes(S, table)
<1>1. f = MergeClaims(e, c)
  BY ExpandLast DEF Turn
<1>2. ASSUME NEW k
      PROVE  /\ DR(k) \in SUBSET Nat /\ IsFiniteSet(DR(k)) /\ m \notin DR(k)
             /\ D(k) \in SUBSET Nat /\ IsFiniteSet(D(k))
             /\ k \in DOMAIN c => D(k) # {} /\ Max(D(k)) = m /\ D(k) \ {m} = DR(k)
             /\ k \notin DOMAIN c => D(k) = DR(k)
  BY LastDefiner
<1>3. DOMAIN c \subseteq ClaimKeys
  BY DEF ClaimMap
<1>4. CASE ~e.ok
  <2>1. Conflicting(R, table)
    BY <1>4 DEF Expanded
  <2>2. \A k : DR(k) \subseteq D(k)
    BY DEF Definers
  <2>3. Conflicting(S, table)
    BY <2>1, <2>2 DEF Conflicting
  <2>4. f.ok = FALSE
    BY <1>1, <1>4, MergeRefuses
  <2> QED
    BY <2>3, <2>4 DEF Expanded
<1>5. CASE e.ok /\ Clash(e, c)
  <2>1. Conflicting(S, table)
    BY <1>5, ClashIsConflict
  <2>2. f.ok = FALSE
    BY <1>1, <1>5, MergeRefuses
  <2> QED
    BY <2>1, <2>2 DEF Expanded
<1>6. CASE e.ok /\ ~Clash(e, c)
  <2>1. ~Conflicting(S, table)
    BY <1>6, ClashIsConflict
  <2>2. /\ f.ok = TRUE
        /\ DOMAIN f.claims = DOMAIN e.claims \cup DOMAIN c
        /\ \A k \in DOMAIN f.claims : f.claims[k] = Old(e, k) \o Add(c, k)
    <3> HIDE DEF e, c, f
    <3> QED
      BY <1>1, <1>6, MergeAccepts
  <2>3. /\ DOMAIN e.claims = {k \in ClaimKeys : DR(k) # {}}
        /\ \A k \in DOMAIN e.claims : e.claims[k] = Values(DR(k), table, k)
    BY <1>6, JoinedIsValues DEF Expanded
  <2>4. \A k : JoinedValue(S, table, k) = Values(D(k), table, k)
    BY JoinedIsValues
  <2> HIDE DEF m, R, D, DR, e, f
  <2>5. DOMAIN f.claims = {k \in ClaimKeys : D(k) # {}}
    <3>1. \A k : D(k) # {} <=> k \in DOMAIN c \/ DR(k) # {}
      BY <1>2
    <3> QED
      BY <1>3, <2>2, <2>3, <3>1
  <2>6. ASSUME NEW k \in DOMAIN f.claims
        PROVE  f.claims[k] = Values(D(k), table, k)
    <3>1. Old(e, k) = Values(DR(k), table, k)
      <4>1. k \in ClaimKeys
        BY <2>5
      <4>2. CASE k \in DOMAIN e.claims
        BY <2>3, <4>2 DEF Old
      <4>3. CASE k \notin DOMAIN e.claims
        BY <2>3, <4>1, <4>3, ValuesNone DEF Old
      <4> QED
        BY <4>2, <4>3
    <3>2. CASE k \in DOMAIN c
      <4>1. Values(D(k), table, k) = Values(DR(k), table, k) \o <<c[k]>>
        <5>1. /\ D(k) \in SUBSET Nat /\ IsFiniteSet(D(k)) /\ D(k) # {}
              /\ Max(D(k)) = m /\ D(k) \ {m} = DR(k)
          BY <1>2, <3>2
        <5>2. Values(D(k), table, k) =
                Values(D(k) \ {Max(D(k))}, table, k) \o <<table[Max(D(k))][k]>>
          BY <5>1, ValuesLast
        <5> QED
          BY <5>1, <5>2
      <4> QED
        BY <2>2, <3>1, <3>2, <4>1 DEF Add
    <3>3. CASE k \notin DOMAIN c
      <4>1. Values(DR(k), table, k) \o <<>> = Values(DR(k), table, k)
        <5>1. DR(k) \in SUBSET Nat /\ IsFiniteSet(DR(k))
          BY <1>2
        <5> QED
          BY <5>1, ValuesSeq
      <4> QED
        BY <1>2, <2>2, <3>1, <3>3, <4>1 DEF Add
    <3> QED
      BY <3>2, <3>3
  <2>7. f.ok /\ f = ExpandScopes(S, table) /\ \A k : D(k) = Definers(S, table, k)
    BY <2>2 DEF f, D
  <2> QED
    BY <2>1, <2>4, <2>5, <2>6, <2>7 DEF Expanded
<1> QED
  BY <1>4, <1>5, <1>6

(* Any number of turns, for any table of well-formed claims.                 *)
LEMMA LoopExpands ==
  ASSUME NEW S \in SUBSET Nat, IsFiniteSet(S), NEW table,
         \A s \in S : table[s] \in ClaimMap \cup {None}
  PROVE  Expanded(S, table)
<1> DEFINE P == {T \in SUBSET Nat : T \subseteq S => Expanded(T, table)}
<1>1. {} \in P
  BY NoneExpanded
<1>2. ASSUME NEW T \in SUBSET Nat, IsFiniteSet(T), T # {}, T \ {Max(T)} \in P
      PROVE  T \in P
  <2> SUFFICES ASSUME T \subseteq S
               PROVE  Expanded(T, table)
    OBVIOUS
  <2>1. Expanded(T \ {Max(T)}, table)
    BY <1>2
  <2>2. Max(T) \in S
    BY <1>2, MaxProperty
  <2> QED
    BY <1>2, <2>1, <2>2, SkipExpanded, MergeExpanded
<1> HIDE DEF P
<1>3. \A T \in SUBSET Nat : IsFiniteSet(T) => T \in P
  BY <1>1, <1>2, MaxInduction
<1> QED
  BY <1>3 DEF P

(* The expansion depends on the scope mappings of the requested scopes only. *)
LEMMA SameTable ==
  ASSUME NEW S \in SUBSET Nat, IsFiniteSet(S), NEW t, NEW u,
         \A s \in S : t[s] = u[s]
  PROVE  /\ \A k : Definers(S, t, k) = Definers(S, u, k)
         /\ Conflicting(S, t) <=> Conflicting(S, u)
         /\ \A k : JoinedValue(S, t, k) = JoinedValue(S, u, k)
<1>1. \A k : Definers(S, t, k) = Definers(S, u, k) /\ Definers(S, t, k) \in SUBSET S
  BY DEF Definers
<1>2. Conflicting(S, t) <=> Conflicting(S, u)
  BY <1>1 DEF Conflicting
<1>3. ASSUME NEW k
      PROVE  JoinedValue(S, t, k) = JoinedValue(S, u, k)
  <2> DEFINE D == Definers(S, t, k)
  <2>1. D \in SUBSET S /\ D \in SUBSET Nat /\ IsFiniteSet(D)
    BY <1>1, FS_Subset
  <2>2. JoinedValue(S, t, k) = Values(D, t, k) /\ JoinedValue(S, u, k) = Values(D, u, k)
    BY <1>1, JoinedIsValues
  <2> HIDE DEF D
  <2>3. \A i \in 1..Cardinality(D) : t[Nth(D, i)] = u[Nth(D, i)]
    BY <2>1, NthProperty
  <2> QED
    BY <2>2, <2>3 DEF Values
<1> QED
  BY <1>1, <1>2, <1>3

(* ResourceService::verify reports a ClaimConflict exactly when two          *)
(* requested scopes define a key that is not a string in both, and otherwise *)
(* gives every key the values of its scopes in scope order: for every set of *)
(* scopes, keys and values, not only the ones that TLC enumerates.           *)
THEOREM ExpansionAlwaysCorrect == ExpansionCorrect
BY LoopExpands, PolicyAssumption DEF ExpansionCorrect, Expanded

-----------------------------------------------------------------------------
(* The claims of a token.                                                    *)

(* A request asks for finitely many scopes.                                  *)
LEMMA RequestedFinite ==
  ASSUME TypeOK, NEW r \in Requests, form[r] # None
  PROVE  Requested(r) \in SUBSET Scopes /\ IsFiniteSet(Requested(r))
<1> DEFINE scope == form[r].scope
<1>1. scope \in Seq(Scopes)
  BY ExchangeAssumption DEF TypeOK, Form
<1>2. scope \in [1..Len(scope) -> Scopes] /\ Len(scope) \in Nat /\ DOMAIN scope = 1..Len(scope)
  BY <1>1
<1>3. IsFiniteSet(1..Len(scope))
  BY <1>2, FS_Interval
<1>4. scope \in Surjection(1..Len(scope), Range(scope))
  BY <1>2 DEF Surjection, Range
<1>5. Range(scope) \in SUBSET Scopes
  BY <1>2 DEF Range
<1> QED
  BY <1>3, <1>4, <1>5, FS_Surjection DEF Requested

(* A token that versions i and j justify has the claims that version j       *)
(* defines.                                                                  *)
LEMMA JustifiedClaims ==
  ASSUME TypeOK, NEW r \in Requests, form[r] # None, NEW i, NEW j \in DOMAIN history,
         TokenJustified(r, i, j)
  PROVE  /\ ~Conflicting(Requested(r), history[j].scope_mappings)
         /\ token[r].claims = ClaimsIn(history[j], r)
<1> DEFINE S     == Requested(r)
           u     == history[j].scope_mappings
           t     == ScopeMappingsOf(history[i].entries[Key(r)], u)
           e     == ExpandScopes(S, t)
           K     == {k \in ClaimKeys : Definers(S, t, k) # {}}
<1>1. S \in SUBSET Scopes /\ S \in SUBSET Nat /\ IsFiniteSet(S)
  BY RequestedFinite, PolicyAssumption
<1>2. u \in [Scopes -> ClaimMap \cup {None}]
  <2>1. history \in Seq(Version)
    BY DEF TypeOK
  <2>2. history[j] \in Version
    BY <2>1
  <2> QED
    BY <2>2 DEF Version
<1>3. S \subseteq history[i].entries[Key(r)].scopes
  BY DEF TokenJustified, Entitles, GrantsScopes
<1>4. \A s \in S : t[s] = u[s] /\ t[s] \in ClaimMap \cup {None}
  BY <1>1, <1>2, <1>3 DEF ScopeMappingsOf
<1>5. e.ok /\ token[r].claims = DropReserved(e.claims)
  BY DEF TokenJustified, ExpansionIn
<1>6. Expanded(S, t)
  <2> HIDE DEF S, t
  <2> QED
    BY <1>1, <1>4, LoopExpands
<1>7. /\ ~Conflicting(S, t)
      /\ DOMAIN e.claims = K
      /\ \A k \in K : e.claims[k] = JoinedValue(S, t, k)
  BY <1>5, <1>6 DEF Expanded
<1>8. /\ \A k : Definers(S, t, k) = Definers(S, u, k)
      /\ Conflicting(S, t) <=> Conflicting(S, u)
      /\ \A k : JoinedValue(S, t, k) = JoinedValue(S, u, k)
  <2>1. \A s \in S : t[s] = u[s]
    BY <1>4
  <2> HIDE DEF S, t, u
  <2> QED
    BY <1>1, <2>1, SameTable, Zenon
<1>9. DropReserved(e.claims) = [k \in K \ RESERVED_CLAIMS |-> e.claims[k]]
  BY <1>7 DEF DropReserved
<1>10. K \ RESERVED_CLAIMS =
         {k \in ClaimKeys \ RESERVED_CLAIMS : Definers(S, u, k) # {}}
  BY <1>8
<1>11. ClaimsIn(history[j], r) = [k \in K \ RESERVED_CLAIMS |-> JoinedValue(S, u, k)]
  BY <1>10 DEF ClaimsIn
<1> HIDE DEF e, K, t, S, u
<1>12. \A k \in K \ RESERVED_CLAIMS : e.claims[k] = JoinedValue(S, u, k)
  BY <1>7, <1>8, Zenon
<1>13. [k \in K \ RESERVED_CLAIMS |-> e.claims[k]] =
         [k \in K \ RESERVED_CLAIMS |-> JoinedValue(S, u, k)]
  BY <1>12, Zenon
<1>14. token[r].claims = ClaimsIn(history[j], r)
  BY <1>5, <1>9, <1>11, <1>13, Zenon
<1>15. ~Conflicting(S, u)
  BY <1>7, <1>8, Zenon
<1> QED
  BY <1>14, <1>15 DEF S, u

(* Every token carries exactly the claims that the scope mappings define for *)
(* its scopes in one version in force while its request ran: what verify's   *)
(* loop computes and what the two reads of resolve_mapping see, together.    *)
THEOREM ClaimsAlwaysAsDefined == Spec => []ClaimsAsDefined
<1>1. TypeOK /\ IInv => ClaimsAsDefined
  <2> SUFFICES ASSUME TypeOK, IInv, NEW r \in Requests, token[r] # None
               PROVE  \E j \in Window(r) :
                        /\ ~Conflicting(Requested(r), history[j].scope_mappings)
                        /\ token[r].claims = ClaimsIn(history[j], r)
    BY DEF ClaimsAsDefined
  <2>1. PICK i \in Window(r), j \in Window(r) : TokenJustified(r, i, j)
    BY DEF IInv, Explained, IssuedOK
  <2>2. pc[r] \in {"sign", "issued", "Generation"} /\ Knows(r)
    BY DEF IInv, Explained, Reads, Progress
  <2>3. form[r] # None
    BY <2>2, FormFields DEF Knows
  <2>4. j \in DOMAIN history
    <3>1. history \in Seq(Version) /\ arrived[r].version \in 1..Len(history)
      BY DEF IInv, TypeOK, Explained, Reads
    <3> QED
      BY <3>1 DEF Window
  <2> QED
    BY <2>1, <2>3, <2>4, JustifiedClaims
<1> QED
  BY <1>1, TypeCorrect, Invariance, PTL
=============================================================================
