--------------------------- MODULE CommonTheorems ---------------------------
(***************************************************************************)
(* Facts about data that the proofs of the components share: sequences     *)
(* that only grow (the rows of a table, in the order of their ids), and    *)
(* sums over finite sets, on which everything about balances rests.        *)
(*                                                                         *)
(* SumFunctionOnSet adds up the values of a function in an order of its    *)
(* own choice; here it is shown that the order makes no difference.        *)
(* Induction over the subsets of a finite set is stated with the set of    *)
(* the good ones, and rests on their being well-founded.                   *)
(***************************************************************************)
EXTENDS Integers, Sequences, FiniteSets, Functions,
        FiniteSetTheorems, SequenceTheorems, TLAPS

------------------------------------------------------------------------------
(* Sequences that only grow.                                                 *)

IsSeq(s) == Len(s) \in Nat /\ s = [i \in 1 .. Len(s) |-> s[i]]

\* Members of Seq are such sequences.
LEMMA SeqIsSeq == ASSUME NEW T, NEW t \in Seq(T) PROVE IsSeq(t)
BY DEF IsSeq

\* So are functions on an interval.
LEMMA IntervalIsSeq ==
  ASSUME NEW n \in Nat, NEW f, f = [i \in 1 .. n |-> f[i]]
  PROVE  IsSeq(f) /\ Len(f) = n
<1> DEFINE T == {f[i] : i \in 1 .. n}
<1>1. f \in [1 .. n -> T]
  OBVIOUS
<1> HIDE DEF T
<1>2. f \in Seq(T)
  BY <1>1, SeqDef
<1>3. Len(f) = n
  BY <1>1, <1>2, LenProperties
<1>4. QED
  BY <1>2, <1>3, SeqIsSeq

\* Appending keeps what is there.
LEMMA AppendFacts ==
  ASSUME NEW s, IsSeq(s), NEW x
  PROVE  /\ IsSeq(Append(s, x))
         /\ DOMAIN s = 1 .. Len(s)
         /\ DOMAIN Append(s, x) = 1 .. Len(s) + 1
         /\ \A i \in 1 .. Len(s) : Append(s, x)[i] = s[i]
         /\ Append(s, x)[Len(s) + 1] = x
<1> DEFINE S == {s[i] : i \in 1 .. Len(s)} \union {x}
<1>1. s \in Seq(S)
  <2>1. s \in [1 .. Len(s) -> S]
    BY DEF IsSeq
  <2>2. QED
    BY <2>1 DEF IsSeq
<1>2. x \in S
  OBVIOUS
<1> HIDE DEF S
<1>3. /\ Append(s, x) \in Seq(S)
      /\ Len(Append(s, x)) = Len(s) + 1
      /\ \A i \in 1 .. Len(s) : Append(s, x)[i] = s[i]
      /\ Append(s, x)[Len(s) + 1] = x
  BY <1>1, <1>2, AppendProperties
<1>4. DOMAIN Append(s, x) = 1 .. Len(s) + 1
  BY <1>3
<1>5. IsSeq(Append(s, x))
  BY <1>3, SeqIsSeq
<1>6. DOMAIN s = 1 .. Len(s)
  BY DEF IsSeq
<1>7. QED
  BY <1>3, <1>4, <1>5, <1>6

\* So does changing one element.
LEMMA ExceptFacts ==
  ASSUME NEW s, IsSeq(s), NEW i \in DOMAIN s, NEW x
  PROVE  /\ IsSeq([s EXCEPT ![i] = x])
         /\ DOMAIN [s EXCEPT ![i] = x] = DOMAIN s
<1> DEFINE t == [s EXCEPT ![i] = x]
<1>1. s \in Seq({s[j] : j \in 1 .. Len(s)} \union {x})
  BY DEF IsSeq
<1>2. t \in Seq({s[j] : j \in 1 .. Len(s)} \union {x}) /\ Len(t) = Len(s)
  BY <1>1
<1>3. QED
  BY <1>2 DEF IsSeq

\* A sequence that has an element more.
Grown(s, t, x) ==
  /\ IsSeq(t)
  /\ DOMAIN t = DOMAIN s \union {Len(s) + 1}
  /\ Len(s) + 1 \notin DOMAIN s
  /\ \A i \in DOMAIN s : t[i] = s[i]
  /\ t[Len(s) + 1] = x

LEMMA AppendGrows == ASSUME NEW s, IsSeq(s), NEW x PROVE Grown(s, Append(s, x), x)
BY AppendFacts DEF Grown

\* A sequence after which another follows.
Joined(s, u, t) ==
  /\ IsSeq(t)
  /\ DOMAIN t = 1 .. Len(s) + Len(u)
  /\ \A i \in DOMAIN s : t[i] = s[i]
  /\ \A i \in DOMAIN u : t[Len(s) + i] = u[i]

LEMMA ConcatJoins == ASSUME NEW s, IsSeq(s), NEW u, IsSeq(u) PROVE Joined(s, u, s \o u)
<1> DEFINE T == {s[i] : i \in DOMAIN s} \union {u[i] : i \in DOMAIN u}
<1>1. DOMAIN s = 1 .. Len(s) /\ DOMAIN u = 1 .. Len(u) /\ Len(s) \in Nat /\ Len(u) \in Nat
  BY DEF IsSeq
<1>2. s \in [1 .. Len(s) -> T] /\ u \in [1 .. Len(u) -> T]
  BY <1>1 DEF IsSeq
<1>3. s \in Seq(T) /\ u \in Seq(T)
  BY <1>1, <1>2, SeqDef
<1> HIDE DEF T
<1>4. /\ s \o u \in Seq(T)
      /\ Len(s \o u) = Len(s) + Len(u)
      /\ \A i \in 1 .. Len(s) + Len(u) : (s \o u)[i] = IF i <= Len(s) THEN s[i] ELSE u[i - Len(s)]
  BY <1>3, ConcatProperties
<1>5. PICK t : t = s \o u
  OBVIOUS
<1>6. t \in Seq(T) /\ Len(t) = Len(s) + Len(u)
  BY <1>4, <1>5
<1>7. IsSeq(t) /\ DOMAIN t = 1 .. Len(s) + Len(u)
  BY <1>6, SeqIsSeq
<1>8. \A i \in DOMAIN s : t[i] = s[i]
  BY <1>1, <1>4, <1>5
<1>9. \A i \in DOMAIN u : t[Len(s) + i] = u[i]
  BY <1>1, <1>4, <1>5
<1>10. QED
  BY <1>5, <1>7, <1>8, <1>9 DEF Joined

\* A finite set can be enumerated, and an enumeration without repetition misses
\* nothing.
LEMMA Enumeration ==
  ASSUME NEW S, IsFiniteSet(S)
  PROVE  /\ Cardinality(S) \in Nat
         /\ \E f \in [1 .. Cardinality(S) -> S] : IsInjective(f)
         /\ \A f \in [1 .. Cardinality(S) -> S] : IsInjective(f) => \A x \in S : \E i \in DOMAIN f : f[i] = x
<1>1. PICK n \in Nat : ExistsBijection(1 .. n, S)
  BY FS_NatBijection
<1>2. Cardinality(S) = n
  BY <1>1, FS_CountingElements
<1>3. PICK f : f \in Bijection(1 .. n, S)
  BY <1>1 DEF ExistsBijection
<1>4. f \in [1 .. n -> S] /\ IsInjective(f)
  BY <1>3 DEF Bijection, Injection
<1>5. ASSUME NEW g \in [1 .. n -> S], IsInjective(g)
      PROVE  \A x \in S : \E i \in DOMAIN g : g[i] = x
  <2>1. g \in Injection(1 .. n, S)
    BY <1>5 DEF Injection
  <2>2. Cardinality(1 .. n) = n
    BY FS_Interval
  <2>3. g \in Surjection(1 .. n, S)
    BY <1>2, <2>1, <2>2, FS_Injection
  <2>4. QED
    BY <2>3 DEF Surjection
<1>6. QED
  BY <1>2, <1>4, <1>5

\* A set whose elements are all the same has one at most.
LEMMA AtMostOne ==
  ASSUME NEW S, \A x, y \in S : x = y
  PROVE  /\ IsFiniteSet(S) /\ Cardinality(S) <= 1
         /\ S # {} => Cardinality(S) = 1
         /\ S = {} <=> Cardinality(S) = 0
<1>1. CASE S = {}
  BY <1>1, FS_EmptySet
<1>2. CASE S # {}
  <2>1. PICK x : x \in S
    BY <1>2
  <2>2. S = {x}
    BY <2>1
  <2>3. IsFiniteSet(S) /\ Cardinality(S) = 1
    BY <2>2, FS_Singleton
  <2>4. QED
    BY <1>2, <2>3
<1>3. QED
  BY <1>1, <1>2

------------------------------------------------------------------------------
(* Induction over a finite set.                                              *)

\* What holds of the empty set and is kept by adding an element holds of a finite set.
LEMMA FiniteInduction ==
  ASSUME NEW S, IsFiniteSet(S), NEW Good,
         {} \in Good,
         \A T \in SUBSET S : T # {} /\ (\A x \in T : T \ {x} \in Good) => T \in Good
  PROVE  S \in Good
<1> SUFFICES ASSUME S \notin Good PROVE FALSE
  OBVIOUS
<1> DEFINE Bad == (SUBSET S) \ Good
<1>1. IsWellFoundedOn(StrictSubsetOrdering(S), SUBSET S)
  <2>1. IsWellFoundedOn(StrictSubsetOrdering(S), FiniteSubsetsOf(S))
    BY FS_StrictSubsetOrderingWellFounded, Zenon
  <2>2. FiniteSubsetsOf(S) = SUBSET S
    BY FS_FiniteSubsetsOfFinite, Zenon
  <2>3. QED
    BY <2>1, <2>2, Zenon
<1>2. Bad \subseteq SUBSET S /\ Bad # {}
  OBVIOUS
<1> HIDE DEF Bad
<1>3. PICK T \in Bad : \A U \in Bad : <<U, T>> \notin StrictSubsetOrdering(S)
  BY <1>1, <1>2, WFMin
<1> USE DEF Bad
<1>4. T \in SUBSET S /\ T \notin Good /\ T # {}
  OBVIOUS
<1>5. ASSUME NEW x \in T PROVE T \ {x} \in Good
  <2>1. T \ {x} # T /\ T \ {x} \subseteq T /\ T \ {x} \in SUBSET S
    BY <1>4
  <2>2. <<T \ {x}, T>> \in StrictSubsetOrdering(S)
    BY <2>1 DEF StrictSubsetOrdering
  <2>3. QED
    BY <1>3, <2>1, <2>2
<1>6. QED
  BY <1>4, <1>5

------------------------------------------------------------------------------
(* The recursion of a sum.                                                   *)

AnyOf(s) == CHOOSE x \in s : TRUE

\* f is the function of partial sums that SumFunctionOnSet chooses for S.
PartialSums(fun, S, f) ==
  f = [s \in SUBSET S |-> IF s = {} THEN 0 ELSE fun[AnyOf(s)] + f[s \ {AnyOf(s)}]]

SumsOf(fun, S) == CHOOSE f : PartialSums(fun, S, f)

\* A sum is the last of its partial sums.
LEMMA SumUnfolds ==
  ASSUME NEW fun, NEW S
  PROVE  SumFunctionOnSet(fun, S) = SumsOf(fun, S)[S]
BY DEF SumFunctionOnSet, FoldFunctionOnSet, MapThenFoldSet, SumsOf, PartialSums, AnyOf

\* The equation of partial sums at one set.
LEMMA PartialSumAt ==
  ASSUME NEW fun, NEW S, NEW f, PartialSums(fun, S, f), NEW T \in SUBSET S
  PROVE  f[T] = IF T = {} THEN 0 ELSE fun[AnyOf(T)] + f[T \ {AnyOf(T)}]
BY DEF PartialSums

\* Partial sums are determined by their equation, on whatever both are defined for.
LEMMA PartialSumsUnique ==
  ASSUME NEW fun, NEW S, IsFiniteSet(S),
         NEW U, NEW f, S \subseteq U, PartialSums(fun, U, f),
         NEW V, NEW g, S \subseteq V, PartialSums(fun, V, g)
  PROVE  f[S] = g[S]
<1> DEFINE Good == {T \in SUBSET S : f[T] = g[T]}
<1>1. {} \in Good
  BY DEF PartialSums
<1>2. ASSUME NEW T \in SUBSET S, T # {}, \A x \in T : T \ {x} \in Good
      PROVE  T \in Good
  <2>1. AnyOf(T) \in T
    BY <1>2 DEF AnyOf
  <2>2. f[T \ {AnyOf(T)}] = g[T \ {AnyOf(T)}]
    BY <1>2, <2>1
  <2>3. f[T] = fun[AnyOf(T)] + f[T \ {AnyOf(T)}] /\ g[T] = fun[AnyOf(T)] + g[T \ {AnyOf(T)}]
    BY <1>2 DEF PartialSums
  <2>4. QED
    BY <2>2, <2>3
<1> HIDE DEF Good
<1>3. S \in Good
  BY <1>1, <1>2, FiniteInduction
<1>4. QED
  BY <1>3 DEF Good

\* Partial sums of a finite set exist.
LEMMA PartialSumsExist ==
  ASSUME NEW fun, NEW S, IsFiniteSet(S)
  PROVE  PartialSums(fun, S, SumsOf(fun, S))
<1> DEFINE Has(T) == PartialSums(fun, T, SumsOf(fun, T))
           Good == {T \in SUBSET S : Has(T)}
<1>1. {} \in Good
  <2> DEFINE f == [s \in SUBSET {} |-> IF s = {} THEN 0 ELSE fun[AnyOf(s)] + 0]
  <2>1. PartialSums(fun, {}, f)
    BY DEF PartialSums
  <2> HIDE DEF f
  <2>2. QED
    BY <2>1 DEF SumsOf
<1>2. ASSUME NEW T \in SUBSET S, T # {}, \A x \in T : T \ {x} \in Good
      PROVE  T \in Good
  <2> DEFINE out(V) == CHOOSE y \in T : y \notin V
             part(V) == SumsOf(fun, T \ {out(V)})
             f == [V \in SUBSET T |->
                     IF V = T THEN fun[AnyOf(T)] + part(T \ {AnyOf(T)})[T \ {AnyOf(T)}]
                     ELSE part(V)[V]]
  <2>1. ASSUME NEW V \in SUBSET T, V # T
        PROVE  /\ V \subseteq T \ {out(V)} 
               /\ PartialSums(fun, T \ {out(V)}, part(V))
    <3>1. out(V) \in T /\ out(V) \notin V
      BY <2>1
    <3>2. QED
      BY <3>1, <1>2
  <2>2. AnyOf(T) \in T
    BY <1>2 DEF AnyOf
  <2>3. ASSUME NEW V \in SUBSET T
        PROVE  f[V] = IF V = {} THEN 0 ELSE fun[AnyOf(V)] + f[V \ {AnyOf(V)}]
    <3>1. CASE V = {}
      <4>1. V # T /\ V \in SUBSET (T \ {out(V)}) /\ PartialSums(fun, T \ {out(V)}, part(V))
        BY <3>1, <2>1, <1>2
      <4>2. f[V] = part(V)[V]
        BY <4>1
      <4> HIDE DEF f, part, out
      <4>3. QED
        BY <3>1, <4>1, <4>2, PartialSumAt, Zenon
    <3>2. CASE V = T
      BY <3>2, <2>2, <1>2
    <3>3. CASE V # {} /\ V # T
      <4> DEFINE W == V \ {AnyOf(V)}
      <4>1. AnyOf(V) \in V
        BY <3>3 DEF AnyOf
      <4>2. W \in SUBSET T /\ W # T /\ IsFiniteSet(W)
        BY <3>3, <4>1, FS_Subset
      <4>3. part(V)[V] = fun[AnyOf(V)] + part(V)[W]
        <5> DEFINE Q == T \ {out(V)}
                   p == part(V)
        <5>1. V \in SUBSET Q /\ PartialSums(fun, Q, p)
          BY <2>1, <3>3
        <5> HIDE DEF p, Q
        <5>2. p[V] = IF V = {} THEN 0 ELSE fun[AnyOf(V)] + p[V \ {AnyOf(V)}]
          BY <5>1, PartialSumAt
        <5>3. QED
          BY <5>2, <3>3 DEF p
      <4>4. part(V)[W] = part(W)[W]
        <5>1. W \subseteq T \ {out(V)} /\ PartialSums(fun, T \ {out(V)}, part(V))
          BY <2>1, <3>3
        <5>2. W \subseteq T \ {out(W)} /\ PartialSums(fun, T \ {out(W)}, part(W))
          BY <2>1, <4>2
        <5> HIDE DEF W, part, out
        <5>3. QED
          BY <4>2, <5>1, <5>2, PartialSumsUnique
      <4>5. f[V] = part(V)[V] /\ f[W] = part(W)[W]
        BY <3>3, <4>2
      <4> HIDE DEF f, part, out
      <4>6. QED
        BY <3>3, <4>3, <4>4, <4>5
    <3>4. QED
      BY <3>1, <3>2, <3>3
  <2>4. f = [V \in SUBSET T |-> f[V]]
    OBVIOUS
  <2> HIDE DEF f
  <2>5. PartialSums(fun, T, f)
    BY <2>3, <2>4 DEF PartialSums
  <2>6. QED
    BY <2>5 DEF SumsOf
<1> HIDE DEF Good
<1>3. S \in Good
  BY <1>1, <1>2, FiniteInduction
<1>4. QED
  BY <1>3 DEF Good

\* An empty sum is zero, and another sum is one value and the sum of the others.
LEMMA SumRecursion ==
  ASSUME NEW fun, NEW S, IsFiniteSet(S)
  PROVE  SumFunctionOnSet(fun, S) =
           IF S = {} THEN 0
           ELSE fun[AnyOf(S)] + SumFunctionOnSet(fun, S \ {AnyOf(S)})
<1> DEFINE R == S \ {AnyOf(S)}
<1>1. PartialSums(fun, S, SumsOf(fun, S)) /\ PartialSums(fun, R, SumsOf(fun, R))
  BY PartialSumsExist, FS_RemoveElement
<1>2. SumsOf(fun, S)[R] = SumsOf(fun, R)[R]
  <2>1. IsFiniteSet(R) /\ R \subseteq S /\ R \subseteq R
    BY FS_RemoveElement
  <2> HIDE DEF R
  <2>2. QED
    BY <1>1, <2>1, PartialSumsUnique
<1>3. SumsOf(fun, S)[S] = IF S = {} THEN 0 ELSE fun[AnyOf(S)] + SumsOf(fun, S)[R]
  BY <1>1 DEF PartialSums
<1>4. QED
  BY <1>2, <1>3, SumUnfolds

------------------------------------------------------------------------------
(* Sums of integers.                                                         *)

\* A sum of integers is an integer, and any of them can be taken out first.
THEOREM SumTakesOut ==
  ASSUME NEW fun, NEW S, IsFiniteSet(S), \A x \in S : fun[x] \in Int
  PROVE  /\ SumFunctionOnSet(fun, S) \in Int
         /\ \A x \in S : SumFunctionOnSet(fun, S) = fun[x] + SumFunctionOnSet(fun, S \ {x})
<1> DEFINE sum(T) == SumFunctionOnSet(fun, T)
           Good == {T \in SUBSET S : /\ sum(T) \in Int
                                     /\ \A x \in T : /\ sum(T \ {x}) \in Int
                                                     /\ sum(T) = fun[x] + sum(T \ {x})}
<1>1. {} \in Good
  <2>1. sum({}) = 0
    BY SumRecursion, FS_EmptySet
  <2> HIDE DEF sum
  <2>2. QED
    BY <2>1
<1>2. ASSUME NEW T \in SUBSET S, T # {}, \A x \in T : T \ {x} \in Good
      PROVE  T \in Good
  <2> DEFINE y == AnyOf(T)
  <2>1. y \in T
    BY <1>2 DEF AnyOf
  <2>2. sum(T) = fun[y] + sum(T \ {y})
    BY <1>2, SumRecursion, FS_Subset
  <2> HIDE DEF y, sum
  <2>3. ASSUME NEW x \in T PROVE sum(T) = fun[x] + sum(T \ {x})
    <3>1. CASE x = y
      BY <3>1, <2>2
    <3>2. CASE x # y
      <4>1. sum(T \ {y}) = fun[x] + sum((T \ {y}) \ {x})
        BY <1>2, <2>1, <3>2
      <4>2. sum(T \ {x}) = fun[y] + sum((T \ {x}) \ {y})
        BY <1>2, <2>1, <3>2
      <4>3. (T \ {x}) \ {y} = (T \ {y}) \ {x}
        OBVIOUS
      <4>4. sum(T \ {x}) \in Int /\ sum(T \ {y}) \in Int /\ fun[x] \in Int /\ fun[y] \in Int
        BY <1>2, <2>1
      <4>5. sum((T \ {x}) \ {y}) \in Int
        <5>1. IsFiniteSet(T \ {x}) /\ T \ {x} \in SUBSET S /\ y \in T \ {x}
          BY <2>1, <3>2, FS_Subset
        <5>2. T \ {x} \in Good
          BY <1>2
        <5>3. QED
          BY <5>1, <5>2
      <4> DEFINE a == fun[x]
                 b == fun[y]
                 c == sum((T \ {x}) \ {y})
                 p == sum(T \ {x})
                 q == sum(T \ {y})
      <4>6. /\ a \in Int /\ b \in Int /\ p \in Int /\ q \in Int /\ p = b + c /\ q = a + c
            /\ sum(T) = b + q
        BY <2>2, <4>1, <4>2, <4>3, <4>4
      <4> HIDE DEF a, b, c, p, q
      <4>7. sum(T) = a + p
        BY <4>5, <4>6 DEF c
      <4>8. QED
        BY <4>7 DEF a, p
    <3>3. QED
      BY <3>1, <3>2
  <2>4. \A x \in T : sum(T \ {x}) \in Int
    BY <1>2
  <2>5. sum(T) \in Int
    BY <2>1, <2>2, <2>4
  <2>6. QED
    BY <2>3, <2>4, <2>5
<1> HIDE DEF Good
<1>3. S \in Good
  BY <1>1, <1>2, FiniteInduction
<1>4. QED
  BY <1>3 DEF Good

\* Nothing adds up to zero.
LEMMA SumEmpty == ASSUME NEW fun PROVE SumFunctionOnSet(fun, {}) = 0
BY SumRecursion, FS_EmptySet

\* A value more.
LEMMA SumAdds ==
  ASSUME NEW fun, NEW S, IsFiniteSet(S), NEW x, x \notin S,
         \A y \in S \union {x} : fun[y] \in Int
  PROVE  SumFunctionOnSet(fun, S \union {x}) = fun[x] + SumFunctionOnSet(fun, S)
<1>1. IsFiniteSet(S \union {x}) /\ (S \union {x}) \ {x} = S
  BY FS_AddElement
<1>2. QED
  BY <1>1, SumTakesOut

\* Values that are sums add up to the sum of the sums.
THEOREM SumOfSums ==
  ASSUME NEW f, NEW g, NEW h, NEW S, IsFiniteSet(S),
         \A x \in S : f[x] \in Int /\ g[x] \in Int /\ h[x] = f[x] + g[x]
  PROVE  SumFunctionOnSet(h, S) = SumFunctionOnSet(f, S) + SumFunctionOnSet(g, S)
<1> DEFINE F(T) == SumFunctionOnSet(f, T)
           G(T) == SumFunctionOnSet(g, T)
           H(T) == SumFunctionOnSet(h, T)
           Good == {T \in SUBSET S : H(T) = F(T) + G(T)}
<1>1. {} \in Good
  BY SumEmpty
<1>2. ASSUME NEW T \in SUBSET S, T # {}, \A x \in T : T \ {x} \in Good
      PROVE  T \in Good
  <2>1. PICK x : x \in T
    BY <1>2
  <2>2. IsFiniteSet(T) /\ IsFiniteSet(T \ {x})
    BY FS_Subset
  <2>3. \A y \in T : f[y] \in Int /\ g[y] \in Int /\ h[y] \in Int
    OBVIOUS
  <2>4. F(T) = f[x] + F(T \ {x}) /\ F(T \ {x}) \in Int
    BY <2>1, <2>2, <2>3, SumTakesOut
  <2>5. G(T) = g[x] + G(T \ {x}) /\ G(T \ {x}) \in Int
    BY <2>1, <2>2, <2>3, SumTakesOut
  <2>6. H(T) = h[x] + H(T \ {x}) /\ H(T \ {x}) \in Int
    BY <2>1, <2>2, <2>3, SumTakesOut
  <2> HIDE DEF F, G, H
  <2>7. H(T \ {x}) = F(T \ {x}) + G(T \ {x})
    BY <1>2, <2>1
  <2>8. f[x] \in Int /\ g[x] \in Int /\ h[x] = f[x] + g[x]
    BY <2>1
  <2>9. H(T) = F(T) + G(T)
    BY <2>4, <2>5, <2>6, <2>7, <2>8
  <2>10. QED
    BY <2>9
<1> HIDE DEF Good
<1>3. S \in Good
  BY <1>1, <1>2, FiniteInduction
<1>4. QED
  BY <1>3 DEF Good

\* Values that are zero add up to zero.
LEMMA SumOfZeros ==
  ASSUME NEW fun, NEW S, IsFiniteSet(S), \A x \in S : fun[x] = 0
  PROVE  SumFunctionOnSet(fun, S) = 0
<1>1. SumFunctionOnSet(fun, S) = SumFunctionOnSet(fun, S) + SumFunctionOnSet(fun, S)
  BY SumOfSums
<1>2. SumFunctionOnSet(fun, S) \in Int
  BY SumTakesOut
<1>3. \A n \in Int : n = n + n => n = 0
  OBVIOUS
<1>4. QED
  BY <1>1, <1>2, <1>3, Zenon

\* Values that are all the same.
LEMMA SumOfConstant ==
  ASSUME NEW fun, NEW S, IsFiniteSet(S), NEW c \in Int, \A x \in S : fun[x] = c
  PROVE  SumFunctionOnSet(fun, S) = c * Cardinality(S)
<1> DEFINE sum(T) == SumFunctionOnSet(fun, T)
           Good == {T \in SUBSET S : sum(T) = c * Cardinality(T)}
<1>1. {} \in Good
  BY SumEmpty, FS_EmptySet
<1>2. ASSUME NEW T \in SUBSET S, T # {}, \A x \in T : T \ {x} \in Good
      PROVE  T \in Good
  <2>1. PICK x : x \in T
    BY <1>2
  <2>2. IsFiniteSet(T)
    BY FS_Subset
  <2>3. sum(T) = c + sum(T \ {x})
    <3>1. \A y \in T : fun[y] \in Int
      OBVIOUS
    <3>2. QED
      BY <2>1, <2>2, <3>1, SumTakesOut
  <2>4. sum(T \ {x}) = c * Cardinality(T \ {x})
    BY <1>2, <2>1
  <2>5. Cardinality(T) \in Int /\ Cardinality(T \ {x}) = Cardinality(T) - 1
    BY <2>1, <2>2, FS_RemoveElement, FS_CardinalityType
  <2> HIDE DEF sum
  <2>6. \A n \in Int : c + c * (n - 1) = c * n
    OBVIOUS
  <2>7. sum(T) = c * Cardinality(T)
    BY <2>3, <2>4, <2>5, <2>6
  <2>8. QED
    BY <2>7
<1> HIDE DEF Good
<1>3. S \in Good
  BY <1>1, <1>2, FiniteInduction
<1>4. QED
  BY <1>3 DEF Good

\* Functions that agree on a set have the same sum over it.
LEMMA SumOfSame ==
  ASSUME NEW f, NEW g, NEW S, IsFiniteSet(S), \A x \in S : f[x] \in Int /\ g[x] = f[x]
  PROVE  SumFunctionOnSet(g, S) = SumFunctionOnSet(f, S)
<1> DEFINE zero == [x \in S |-> 0]
<1>1. SumFunctionOnSet(zero, S) = 0
  BY SumOfZeros
<1>2. \A x \in S : zero[x] = 0
  OBVIOUS
<1> HIDE DEF zero
<1>3. SumFunctionOnSet(g, S) = SumFunctionOnSet(f, S) + SumFunctionOnSet(zero, S)
  BY <1>2, SumOfSums
<1>4. SumFunctionOnSet(f, S) \in Int
  BY SumTakesOut
<1>5. QED
  BY <1>1, <1>3, <1>4

\* A value that changes changes the sum by as much.
THEOREM SumChanges ==
  ASSUME NEW f, NEW g, NEW S, IsFiniteSet(S), NEW a \in S,
         \A x \in S : f[x] \in Int /\ g[x] \in Int,
         \A x \in S \ {a} : g[x] = f[x]
  PROVE  SumFunctionOnSet(g, S) = SumFunctionOnSet(f, S) + (g[a] - f[a])
<1>1. IsFiniteSet(S \ {a})
  BY FS_Subset
<1>2. SumFunctionOnSet(g, S \ {a}) = SumFunctionOnSet(f, S \ {a})
  BY <1>1, SumOfSame
<1>3. /\ SumFunctionOnSet(f, S) = f[a] + SumFunctionOnSet(f, S \ {a})
      /\ SumFunctionOnSet(g, S) = g[a] + SumFunctionOnSet(g, S \ {a})
  BY SumTakesOut
<1>4. SumFunctionOnSet(f, S \ {a}) \in Int
  BY <1>1, SumTakesOut
<1>5. f[a] \in Int /\ g[a] \in Int
  OBVIOUS
<1>6. QED
  BY <1>2, <1>3, <1>4, <1>5

\* A sequence has finitely many places.
LEMMA SeqFinite == ASSUME NEW s, IsSeq(s) PROVE IsFiniteSet(DOMAIN s)
<1>1. DOMAIN s = 1 .. Len(s) /\ Len(s) \in Nat
  BY AppendFacts DEF IsSeq
<1>2. QED
  BY <1>1, FS_Interval

\* A function that has a value more.
Extends(f, g, x, v) ==
  /\ x \notin DOMAIN f /\ DOMAIN g = DOMAIN f \union {x}
  /\ \A y \in DOMAIN f : g[y] = f[y]
  /\ g[x] = v

LEMMA SumExtends ==
  ASSUME NEW f, NEW g, NEW x, NEW v \in Int, Extends(f, g, x, v),
         IsFiniteSet(DOMAIN f), \A y \in DOMAIN f : f[y] \in Int
  PROVE  SumFunctionOnSet(g, DOMAIN g) = SumFunctionOnSet(f, DOMAIN f) + v
<1> DEFINE D == DOMAIN f
<1>1. /\ IsFiniteSet(D) /\ x \notin D /\ DOMAIN g = D \union {x} /\ g[x] = v
      /\ \A y \in D : g[y] = f[y] /\ f[y] \in Int
  BY DEF Extends
<1> HIDE DEF D
<1>2. SumFunctionOnSet(g, D \union {x}) = g[x] + SumFunctionOnSet(g, D)
  BY <1>1, SumAdds
<1>3. SumFunctionOnSet(g, D) = SumFunctionOnSet(f, D) /\ SumFunctionOnSet(f, D) \in Int
  BY <1>1, SumOfSame, SumTakesOut
<1>4. \A m, n \in Int : m + n = n + m
  OBVIOUS
<1>5. SumFunctionOnSet(g, DOMAIN g) = v + SumFunctionOnSet(f, D)
  BY <1>1, <1>2, <1>3
<1>6. QED
  BY <1>3, <1>4, <1>5 DEF D

\* Where only one value is not zero, the sum is that value.
LEMMA SumOfOne ==
  ASSUME NEW fun, NEW S, IsFiniteSet(S), NEW a \in S, fun[a] \in Int,
         \A x \in S \ {a} : fun[x] = 0
  PROVE  SumFunctionOnSet(fun, S) = fun[a]
<1>1. IsFiniteSet(S \ {a})
  BY FS_Subset
<1>2. SumFunctionOnSet(fun, S \ {a}) = 0
  BY <1>1, SumOfZeros
<1>3. \A x \in S : fun[x] \in Int
  OBVIOUS
<1>4. SumFunctionOnSet(fun, S) = fun[a] + SumFunctionOnSet(fun, S \ {a})
  BY <1>3, SumTakesOut
<1>5. QED
  BY <1>2, <1>4

\* Sums over disjoint sets add up to the sum over both.
THEOREM SumOfUnion ==
  ASSUME NEW fun, NEW S, NEW U, IsFiniteSet(S), IsFiniteSet(U), S \cap U = {},
         \A x \in S \union U : fun[x] \in Int
  PROVE  SumFunctionOnSet(fun, S \union U) = SumFunctionOnSet(fun, S) + SumFunctionOnSet(fun, U)
<1> DEFINE sum(T) == SumFunctionOnSet(fun, T)
           Good == {T \in SUBSET U : sum(S \union T) = sum(S) + sum(T)}
<1>1. {} \in Good
  <2>1. sum({}) = 0 /\ sum(S) \in Int
    BY SumEmpty, SumTakesOut
  <2> HIDE DEF sum
  <2>2. sum(S \union {}) = sum(S)
    OBVIOUS
  <2>3. QED
    BY <2>1, <2>2
<1>2. ASSUME NEW T \in SUBSET U, T # {}, \A x \in T : T \ {x} \in Good
      PROVE  T \in Good
  <2>1. PICK x : x \in T
    BY <1>2
  <2>2. IsFiniteSet(T) /\ IsFiniteSet(T \ {x}) /\ IsFiniteSet(S \union (T \ {x}))
    BY FS_Subset, FS_Union
  <2>3. x \notin S \union (T \ {x}) /\ (S \union (T \ {x})) \union {x} = S \union T
    BY <2>1
  <2>4. sum(S \union T) = fun[x] + sum(S \union (T \ {x}))
    BY <2>2, <2>3, SumAdds
  <2>5. sum(T) = fun[x] + sum(T \ {x}) /\ sum(T \ {x}) \in Int /\ sum(S) \in Int
    BY <2>1, <2>2, SumTakesOut
  <2>6. fun[x] \in Int
    BY <2>1
  <2> HIDE DEF sum
  <2>7. sum(S \union (T \ {x})) = sum(S) + sum(T \ {x})
    BY <1>2, <2>1
  <2>8. sum(S \union T) = sum(S) + sum(T)
    BY <2>4, <2>5, <2>6, <2>7
  <2>9. QED
    BY <2>8
<1> HIDE DEF Good
<1>3. U \in Good
  BY <1>1, <1>2, FiniteInduction
<1>4. QED
  BY <1>3 DEF Good

\* Smaller values have a smaller sum.
THEOREM SumMonotone ==
  ASSUME NEW f, NEW g, NEW S, IsFiniteSet(S),
         \A x \in S : f[x] \in Int /\ g[x] \in Int /\ f[x] <= g[x]
  PROVE  SumFunctionOnSet(f, S) <= SumFunctionOnSet(g, S)
<1> DEFINE F(T) == SumFunctionOnSet(f, T)
           G(T) == SumFunctionOnSet(g, T)
           Good == {T \in SUBSET S : F(T) <= G(T)}
<1>1. {} \in Good
  BY SumEmpty
<1>2. ASSUME NEW T \in SUBSET S, T # {}, \A x \in T : T \ {x} \in Good
      PROVE  T \in Good
  <2>1. PICK x : x \in T
    BY <1>2
  <2>2. IsFiniteSet(T) /\ IsFiniteSet(T \ {x})
    BY FS_Subset
  <2>3. F(T) = f[x] + F(T \ {x}) /\ F(T \ {x}) \in Int
    BY <2>1, <2>2, SumTakesOut
  <2>4. G(T) = g[x] + G(T \ {x}) /\ G(T \ {x}) \in Int
    BY <2>1, <2>2, SumTakesOut
  <2> HIDE DEF F, G
  <2>5. F(T \ {x}) <= G(T \ {x})
    BY <1>2, <2>1
  <2>6. f[x] \in Int /\ g[x] \in Int /\ f[x] <= g[x]
    BY <2>1
  <2>7. F(T) <= G(T)
    BY <2>3, <2>4, <2>5, <2>6
  <2>8. QED
    BY <2>7
<1> HIDE DEF Good
<1>3. S \in Good
  BY <1>1, <1>2, FiniteInduction
<1>4. QED
  BY <1>3 DEF Good

\* Zeros may be left out.
LEMMA SumOfSupport ==
  ASSUME NEW fun, NEW U, IsFiniteSet(U), NEW S \in SUBSET U,
         \A x \in S : fun[x] \in Int, \A x \in U \ S : fun[x] = 0
  PROVE  SumFunctionOnSet(fun, S) = SumFunctionOnSet(fun, U)
<1> DEFINE R == U \ S
<1>1. IsFiniteSet(S) /\ IsFiniteSet(R) /\ S \cap R = {} /\ S \union R = U /\ \A x \in R : fun[x] = 0
  BY FS_Subset
<1> HIDE DEF R
<1>2. SumFunctionOnSet(fun, R) = 0
  BY <1>1, SumOfZeros
<1>3. \A x \in S \union R : fun[x] \in Int
  BY <1>1
<1>4. SumFunctionOnSet(fun, S \union R) = SumFunctionOnSet(fun, S) + SumFunctionOnSet(fun, R)
  BY <1>1, <1>3, SumOfUnion
<1>5. SumFunctionOnSet(fun, S) \in Int
  BY <1>1, SumTakesOut
<1>6. SumFunctionOnSet(fun, S \union R) = SumFunctionOnSet(fun, U)
  BY <1>1, Zenon
<1>7. QED
  BY <1>2, <1>4, <1>5, <1>6

\* Three values.
LEMMA SumOfThree ==
  ASSUME NEW fun, NEW a, NEW b, NEW c, a # b, a # c, b # c,
         fun[a] \in Int, fun[b] \in Int, fun[c] \in Int
  PROVE  /\ SumFunctionOnSet(fun, {a, b, c}) = fun[a] + fun[b] + fun[c]
         /\ IsFiniteSet({a, b, c})
<1>1. IsFiniteSet({c}) /\ IsFiniteSet({b, c}) /\ IsFiniteSet({a, b, c})
  <2>1. {b, c} = {c} \union {b} /\ {a, b, c} = {b, c} \union {a}
    OBVIOUS
  <2>2. IsFiniteSet({c})
    BY FS_Singleton
  <2>3. IsFiniteSet({c} \union {b})
    BY <2>2, FS_AddElement
  <2>4. IsFiniteSet({b, c})
    BY <2>1, <2>3
  <2>5. IsFiniteSet({b, c} \union {a})
    BY <2>4, FS_AddElement
  <2>6. QED
    BY <2>1, <2>2, <2>4, <2>5
<1>2. SumFunctionOnSet(fun, {c}) = fun[c]
  BY <1>1, SumOfOne
<1>3. {b, c} = {c} \union {b} /\ {a, b, c} = {b, c} \union {a} /\ b \notin {c} /\ a \notin {b, c}
  OBVIOUS
<1>4. (\A x \in {c} \union {b} : fun[x] \in Int) /\ (\A x \in {b, c} \union {a} : fun[x] \in Int)
  OBVIOUS
<1>5. SumFunctionOnSet(fun, {c} \union {b}) = fun[b] + SumFunctionOnSet(fun, {c})
  BY <1>1, <1>3, <1>4, SumAdds
<1>6. SumFunctionOnSet(fun, {b, c} \union {a}) = fun[a] + SumFunctionOnSet(fun, {b, c})
  BY <1>1, <1>3, <1>4, SumAdds
<1>7. /\ SumFunctionOnSet(fun, {b, c}) = fun[b] + fun[c]
      /\ SumFunctionOnSet(fun, {a, b, c}) = fun[a] + SumFunctionOnSet(fun, {b, c})
  BY <1>2, <1>3, <1>5, <1>6, Zenon
<1>8. \A x, y, z \in Int : x + (y + z) = x + y + z
  OBVIOUS
<1>9. fun[a] + (fun[b] + fun[c]) = fun[a] + fun[b] + fun[c]
  BY <1>8, Zenon
<1>10. QED
  BY <1>1, <1>7, <1>9, Zenon

\* A single value.
LEMMA SumOfSingle ==
  ASSUME NEW a, NEW amount \in Int
  PROVE  /\ DOMAIN [x \in {a} |-> amount] = {a} /\ [x \in {a} |-> amount][a] = amount
         /\ SumFunctionOnSet([x \in {a} |-> amount], DOMAIN [x \in {a} |-> amount]) = amount
<1> DEFINE f == [x \in {a} |-> amount]
<1>1. DOMAIN f = {a} /\ f[a] = amount
  OBVIOUS
<1>2. IsFiniteSet({a})
  BY FS_Singleton
<1> HIDE DEF f
<1>3. SumFunctionOnSet(f, {a}) = f[a]
  BY <1>1, <1>2, SumOfOne
<1>4. QED
  BY <1>1, <1>3 DEF f

\* The values x at a, y at b and z at c, of which the last two may be left out when 0.
UpToThree(fun, a, b, c, x, y, z) ==
  /\ a # b /\ a # c /\ b # c
  /\ x \in Int /\ y \in Int /\ z \in Int
  /\ DOMAIN fun \in SUBSET {a, b, c}
  /\ a \in DOMAIN fun /\ fun[a] = x
  /\ (b \in DOMAIN fun => fun[b] = y) /\ (b \notin DOMAIN fun => y = 0)
  /\ (c \in DOMAIN fun => fun[c] = z) /\ (c \notin DOMAIN fun => z = 0)

LEMMA SumOfUpToThree ==
  ASSUME NEW fun, NEW a, NEW b, NEW c, NEW x, NEW y, NEW z, UpToThree(fun, a, b, c, x, y, z)
  PROVE  SumFunctionOnSet(fun, DOMAIN fun) = x + y + z
<1> DEFINE D == DOMAIN fun
<1> USE DEF UpToThree
<1> DEFINE full == [d \in {a, b, c} |-> IF d \in D THEN fun[d] ELSE 0]
<1>1. full[a] = x /\ full[b] = y /\ full[c] = z
  OBVIOUS
<1>2. /\ \A d \in D : full[d] \in Int /\ full[d] = fun[d]
      /\ \A d \in {a, b, c} \ D : full[d] = 0
  BY <1>1
<1>3. D \in SUBSET {a, b, c}
  OBVIOUS
<1> HIDE DEF full, D
<1>4. SumFunctionOnSet(full, {a, b, c}) = x + y + z /\ IsFiniteSet({a, b, c})
  <2>1. full[a] \in Int /\ full[b] \in Int /\ full[c] \in Int
    BY <1>1
  <2>2. /\ SumFunctionOnSet(full, {a, b, c}) = full[a] + full[b] + full[c]
        /\ IsFiniteSet({a, b, c})
    BY <2>1, SumOfThree
  <2>3. QED
    BY <1>1, <2>2
<1>5. SumFunctionOnSet(full, D) = SumFunctionOnSet(full, {a, b, c})
  BY <1>2, <1>3, <1>4, SumOfSupport
<1>6. IsFiniteSet(D)
  BY <1>3, <1>4, FS_Subset
<1>7. SumFunctionOnSet(fun, D) = SumFunctionOnSet(full, D)
  BY <1>2, <1>6, SumOfSame
<1>8. QED
  BY <1>4, <1>5, <1>7 DEF D

\* Values that are sorted into groups: the sums of the groups add up to the sum
\* of all of them.
THEOREM SumByGroups ==
  ASSUME NEW fun, NEW key, NEW S, IsFiniteSet(S), NEW G, IsFiniteSet(G),
         \A x \in S : fun[x] \in Int /\ key[x] \in G
  PROVE  SumFunctionOnSet([g \in G |-> SumFunctionOnSet(fun, {x \in S : key[x] = g})], G)
           = SumFunctionOnSet(fun, S)
<1> DEFINE of(T, g) == {x \in T : key[x] = g}
           groups(T) == [g \in G |-> SumFunctionOnSet(fun, of(T, g))]
           Good == {T \in SUBSET S :
                      SumFunctionOnSet(groups(T), G) = SumFunctionOnSet(fun, T)}
<1>1. {} \in Good
  <2>1. \A g \in G : of({}, g) = {}
    OBVIOUS
  <2>2. \A g \in G : groups({})[g] = 0
    BY <2>1, SumEmpty
  <2> HIDE DEF groups
  <2>3. SumFunctionOnSet(groups({}), G) = 0
    BY <2>2, SumOfZeros
  <2>4. QED
    BY <2>3, SumEmpty
<1>2. ASSUME NEW T \in SUBSET S, T # {}, \A x \in T : T \ {x} \in Good
      PROVE  T \in Good
  <2>1. PICK x : x \in T
    BY <1>2
  <2> DEFINE R == T \ {x}
  <2>2. \A U \in SUBSET S, g \in G : IsFiniteSet(U) /\ IsFiniteSet(of(U, g))
    BY FS_Subset
  <2>3. \A U \in SUBSET S, g \in G : groups(U)[g] \in Int
    <3>1. ASSUME NEW U \in SUBSET S, NEW g \in G PROVE groups(U)[g] \in Int
      <4>1. SumFunctionOnSet(fun, of(U, g)) \in Int
        BY <2>2, SumTakesOut
      <4>2. QED
        BY <4>1
    <3>2. QED
      BY <3>1
  <2>4. \A g \in G \ {key[x]} : groups(T)[g] = groups(R)[g]
    <3>1. \A g \in G \ {key[x]} : of(T, g) = of(R, g)
      OBVIOUS
    <3>2. QED
      BY <3>1
  <2>5. key[x] \in G /\ fun[x] \in Int
    BY <2>1
  <2>6. groups(T)[key[x]] = fun[x] + groups(R)[key[x]]
    <3>1. x \in of(T, key[x]) /\ of(T, key[x]) \ {x} = of(R, key[x])
      BY <2>1
    <3>2. IsFiniteSet(of(T, key[x])) /\ \A y \in of(T, key[x]) : fun[y] \in Int
      BY <2>2, <2>5
    <3> DEFINE big == of(T, key[x])
               small == of(R, key[x])
    <3>3. x \in big /\ small = big \ {x} /\ IsFiniteSet(big) /\ \A y \in big : fun[y] \in Int
      BY <3>1, <3>2
    <3> HIDE DEF big, small
    <3>4. SumFunctionOnSet(fun, big) = fun[x] + SumFunctionOnSet(fun, small)
      BY <3>3, SumTakesOut
    <3>5. QED
      BY <2>5, <3>4 DEF big, small
  <2> DEFINE new == groups(T)
             old == groups(R)
  <2>7. \A g \in G : old[g] \in Int /\ new[g] \in Int
    BY <2>3
  <2>8. /\ \A g \in G \ {key[x]} : new[g] = old[g]
        /\ new[key[x]] = fun[x] + old[key[x]]
    BY <2>4, <2>6
  <2>9. SumFunctionOnSet(old, G) = SumFunctionOnSet(fun, R)
    BY <1>2, <2>1
  <2> HIDE DEF groups, new, old
  <2>10. /\ SumFunctionOnSet(fun, T) = fun[x] + SumFunctionOnSet(fun, R)
         /\ SumFunctionOnSet(fun, R) \in Int
    <3>1. IsFiniteSet(T) /\ IsFiniteSet(R) /\ \A y \in T : fun[y] \in Int
      BY FS_Subset
    <3>2. \A y \in R : fun[y] \in Int
      BY <3>1
    <3>3. SumFunctionOnSet(fun, R) \in Int
      BY <3>1, <3>2, SumTakesOut
    <3>4. SumFunctionOnSet(fun, T) = fun[x] + SumFunctionOnSet(fun, R)
      BY <2>1, <3>1, SumTakesOut
    <3>5. QED
      BY <3>3, <3>4
  <2> HIDE DEF R
  <2>11. SumFunctionOnSet(new, G) = SumFunctionOnSet(old, G) + (new[key[x]] - old[key[x]])
    BY <2>5, <2>7, <2>8, SumChanges
  <2>12. old[key[x]] \in Int
    BY <2>5, <2>7
  <2>13. SumFunctionOnSet(new, G) = SumFunctionOnSet(fun, T)
    BY <2>5, <2>8, <2>9, <2>10, <2>11, <2>12
  <2>14. QED
    BY <2>13 DEF new
<1> HIDE DEF Good
<1>3. S \in Good
  BY <1>1, <1>2, FiniteInduction
<1>4. QED
  BY <1>3 DEF Good

\* The same values under other names have the same sum.
THEOREM SumRenamed ==
  ASSUME NEW f, NEW g, NEW S, IsFiniteSet(S), NEW name,
         \A x, y \in S : name[x] = name[y] => x = y,
         \A x \in S : f[x] \in Int /\ g[name[x]] = f[x]
  PROVE  /\ IsFiniteSet({name[x] : x \in S})
         /\ SumFunctionOnSet(g, {name[x] : x \in S}) = SumFunctionOnSet(f, S)
<1> DEFINE N(T) == {name[x] : x \in T}
           Good == {T \in SUBSET S :
                      /\ IsFiniteSet(N(T))
                      /\ SumFunctionOnSet(g, N(T)) = SumFunctionOnSet(f, T)}
<1>1. {} \in Good
  <2>1. N({}) = {}
    OBVIOUS
  <2>2. QED
    BY <2>1, SumEmpty, FS_EmptySet
<1>2. ASSUME NEW T \in SUBSET S, T # {}, \A x \in T : T \ {x} \in Good
      PROVE  T \in Good
  <2>1. PICK x : x \in T
    BY <1>2
  <2> DEFINE R == T \ {x}
             NR == N(R)
             a == name[x]
  <2>2. IsFiniteSet(T) /\ \A y \in T : f[y] \in Int
    BY FS_Subset
  <2>3. IsFiniteSet(NR) /\ SumFunctionOnSet(g, NR) = SumFunctionOnSet(f, R)
    BY <1>2, <2>1
  <2>4. N(T) = NR \union {a} /\ a \notin NR
    BY <2>1
  <2>5. g[a] = f[x] /\ \A y \in NR \union {a} : g[y] \in Int
    BY <2>1
  <2>6. SumFunctionOnSet(f, T) = f[x] + SumFunctionOnSet(f, R)
    BY <2>1, <2>2, SumTakesOut
  <2> HIDE DEF NR, a, R
  <2>7. SumFunctionOnSet(g, NR \union {a}) = g[a] + SumFunctionOnSet(g, NR)
    BY <2>3, <2>4, <2>5, SumAdds
  <2>8. IsFiniteSet(NR \union {a})
    BY <2>3, FS_AddElement
  <2> DEFINE NT == N(T)
  <2>9. IsFiniteSet(NT) /\ SumFunctionOnSet(g, NT) = SumFunctionOnSet(f, T)
    <3>1. NT = NR \union {a}
      BY <2>4
    <3> HIDE DEF NT
    <3>2. QED
      BY <2>3, <2>5, <2>6, <2>7, <2>8, <3>1
  <2>10. QED
    BY <2>9
<1> HIDE DEF Good
<1>3. S \in Good
  BY <1>1, <1>2, FiniteInduction
<1>4. QED
  BY <1>3 DEF Good
=============================================================================
