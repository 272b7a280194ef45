---------------------------- MODULE LedgerProofs ----------------------------
(***************************************************************************)
(* The statements and balances of accounts, for any number of accounts,    *)
(* payments and entries.                                                   *)
(***************************************************************************)
EXTENDS LifecycleProofs, FiniteSetTheorems, WellFoundedInduction

-----------------------------------------------------------------------------
(* Sums over a finite set.                                                 *)

\* Among some subsets of a finite set, one contains no other.
LEMMA SmallestSet ==
  ASSUME NEW S, IsFiniteSet(S), NEW F, F \subseteq SUBSET S, F # {}
  PROVE  \E T \in F : \A U \in F : U \subseteq T => U = T
<1>1. IsWellFoundedOn(StrictSubsetOrdering(S), SUBSET S)
  BY FS_StrictSubsetOrderingWellFounded, FS_FiniteSubsetsOfFinite
<1>2. PICK T \in F : \A U \in F : ~(<<U, T>> \in StrictSubsetOrdering(S))
  BY <1>1, WFMin
<1> QED
  BY <1>2 DEF StrictSubsetOrdering

\* The library's sum adds up what it is about in the order of CHOOSE: sums is
\* what it makes of every subset of S.
Some(s) == CHOOSE x \in s : TRUE
Added(f, g, s) == IF s = {} THEN 0 ELSE f[Some(s)] + g[s \ {Some(s)}]
Sums(f, S) == CHOOSE g : g = [s \in SUBSET S |-> Added(f, g, s)]

LEMMA SumIs ==
  ASSUME NEW f, NEW S
  PROVE  SumFunctionOnSet(f, S) = Sums(f, S)[S]
  BY DEF SumFunctionOnSet, FoldFunctionOnSet, MapThenFoldSet, Sums, Added, Some

LEMMA SomeIn ==
  ASSUME NEW s, s # {}
  PROVE  Some(s) \in s
  BY DEF Some

\* There is such a function: of the subsets up to a size, then of those one
\* larger.
LEMMA SumsExist ==
  ASSUME NEW f, NEW S, IsFiniteSet(S)
  PROVE  \A s \in SUBSET S : Sums(f, S)[s] = Added(f, Sums(f, S), s)
<1> DEFINE Upto(n) == {s \in SUBSET S : Cardinality(s) <= n}
           Defined(n) == \E g : \A s \in Upto(n) : g[s] = Added(f, g, s)
           R == {ss \in Nat \X Nat : ss[1] < ss[2]}
           Undefined == {n \in Nat : ~Defined(n)}
<1>1. \A s \in SUBSET S : IsFiniteSet(s) /\ Cardinality(s) \in Nat
  BY FS_Subset, FS_CardinalityType
<1>2. Defined(0)
  <2> DEFINE zero == [s \in SUBSET S |-> 0]
  <2>1. \A s \in Upto(0) : s = {}
    BY <1>1, FS_EmptySet
  <2>2. \A s \in Upto(0) : zero[s] = Added(f, zero, s)
    BY <2>1 DEF Added
  <2> QED
    BY <2>2
<1>3. ASSUME NEW n \in Nat, Defined(n) PROVE Defined(n + 1)
  <2>1. PICK g : \A s \in Upto(n) : g[s] = Added(f, g, s)
    BY <1>3
  <2> DEFINE h == [s \in SUBSET S |-> Added(f, g, s)]
  <2>2. ASSUME NEW s \in Upto(n + 1) PROVE h[s] = Added(f, h, s)
    <3>1. CASE s = {}
      BY <3>1 DEF Added
    <3>2. CASE s # {}
      <4> DEFINE r == s \ {Some(s)}
      <4>1. Some(s) \in s
        BY <3>2, SomeIn
      <4>2. r \in SUBSET S /\ Cardinality(r) = Cardinality(s) - 1
        BY <1>1, <4>1, FS_RemoveElement
      <4>3. r \in Upto(n)
        BY <1>1, <4>2
      <4>4. h[r] = g[r]
        BY <2>1, <4>3
      <4> QED
        BY <3>2, <4>4 DEF Added
    <3> QED
      BY <3>1, <3>2
  <2> QED
    BY <2>2
<1>4. Undefined = {}
  <2> SUFFICES ASSUME Undefined # {} PROVE FALSE
    OBVIOUS
  <2> HIDE DEF Defined
  <2>1. IsWellFoundedOn(R, Nat)
    BY NatLessThanWellFounded DEF OpToRel
  <2>2. PICK n \in Undefined : \A m \in Undefined : ~(<<m, n>> \in R)
    BY <2>1, WFMin
  <2>3. n # 0 /\ n \in Nat
    BY <1>2
  <2>4. PICK m \in Nat : n = m + 1
    <3>1. n - 1 \in Nat /\ n = (n - 1) + 1
      BY <2>3
    <3> QED
      BY <3>1
  <2>5. <<m, n>> \in R
    BY <2>3, <2>4
  <2>6. Defined(m)
    BY <2>2, <2>5
  <2>7. Defined(m + 1)
    BY <1>3, <2>6
  <2> QED
    BY <2>2, <2>4, <2>7
<1>5. Defined(Cardinality(S))
  BY <1>1, <1>4
<1>6. PICK g : \A s \in Upto(Cardinality(S)) : g[s] = Added(f, g, s)
  BY <1>5
<1> DEFINE h == [s \in SUBSET S |-> g[s]]
<1>7. \A s \in SUBSET S : g[s] = Added(f, g, s)
  BY <1>1, <1>6, FS_Subset
<1>8. \A s \in SUBSET S : h[s] = Added(f, h, s)
  BY <1>7, SomeIn DEF Added
<1>9. h = [s \in SUBSET S |-> Added(f, h, s)]
  BY <1>8
<1> HIDE DEF h
<1>10. Sums(f, S) = [s \in SUBSET S |-> Added(f, Sums(f, S), s)]
  BY <1>9 DEF Sums
<1> DEFINE k == Sums(f, S)
<1>11. k = [s \in SUBSET S |-> Added(f, k, s)]
  BY <1>10
<1> HIDE DEF k
<1>12. \A s \in SUBSET S : k[s] = Added(f, k, s)
  BY <1>11
<1> QED
  BY <1>12 DEF k

\* Nothing adds up to 0.
LEMMA SumEmpty ==
  ASSUME NEW f
  PROVE  SumFunctionOnSet(f, {}) = 0
<1>1. Sums(f, {})[{}] = Added(f, Sums(f, {}), {})
  BY SumsExist, FS_EmptySet
<1> QED
  BY <1>1, SumIs DEF Added

\* What is summed up over a subset is the same on the way to any larger set.
LEMMA SumsAgree ==
  ASSUME NEW f, NEW S, IsFiniteSet(S), NEW T \in SUBSET S
  PROVE  SumFunctionOnSet(f, T) = Sums(f, S)[T]
<1> DEFINE big == Sums(f, S)
           small == Sums(f, T)
           Odd == {U \in SUBSET T : small[U] # big[U]}
<1>1. IsFiniteSet(T)
  BY FS_Subset
<1>2. \A U \in SUBSET T : big[U] = Added(f, big, U) /\ small[U] = Added(f, small, U)
  <2>1. \A U \in SUBSET T : U \in SUBSET S
    OBVIOUS
  <2> QED
    BY <1>1, <2>1, SumsExist
<1> HIDE DEF big, small
<1>3. CASE Odd = {}
  BY <1>3, SumIs DEF big, small
<1>4. CASE Odd # {}
  <2>1. PICK U \in Odd : \A V \in Odd : V \subseteq U => V = U
    <3>1. Odd \subseteq SUBSET T
      OBVIOUS
    <3> HIDE DEF Odd
    <3> QED
      BY <1>1, <1>4, <3>1, SmallestSet
  <2>2. U # {}
    BY <1>2, <2>1 DEF Added
  <2>3. Some(U) \in U
    BY <2>2, SomeIn
  <2>4. small[U \ {Some(U)}] = big[U \ {Some(U)}]
    BY <2>1, <2>3
  <2> QED
    BY <1>2, <2>1, <2>2, <2>4 DEF Added
<1> QED
  BY <1>3, <1>4

\* A sum over a set that is not empty, one element taken off.
LEMMA SumTaken ==
  ASSUME NEW f, NEW S, IsFiniteSet(S), S # {}
  PROVE  /\ Some(S) \in S /\ IsFiniteSet(S \ {Some(S)})
         /\ SumFunctionOnSet(f, S) = f[Some(S)] + SumFunctionOnSet(f, S \ {Some(S)})
<1>1. Some(S) \in S /\ IsFiniteSet(S \ {Some(S)})
  BY SomeIn, FS_RemoveElement
<1>2. SumFunctionOnSet(f, S \ {Some(S)}) = Sums(f, S)[S \ {Some(S)}]
  BY SumsAgree
<1>3. Sums(f, S)[S] = Added(f, Sums(f, S), S)
  <2>1. S \in SUBSET S
    OBVIOUS
  <2> QED
    BY <2>1, SumsExist
<1> QED
  BY <1>1, <1>2, <1>3, SumIs DEF Added

\* Integers add up to an integer.
LEMMA SumInt ==
  ASSUME NEW f, NEW S, IsFiniteSet(S), \A x \in S : f[x] \in Int
  PROVE  SumFunctionOnSet(f, S) \in Int
<1> DEFINE Odd == {U \in SUBSET S : SumFunctionOnSet(f, U) \notin Int}
<1>1. CASE Odd = {}
  BY <1>1
<1>2. CASE Odd # {}
  <2>1. PICK U \in Odd : \A V \in Odd : V \subseteq U => V = U
    <3>1. Odd \subseteq SUBSET S
      OBVIOUS
    <3> HIDE DEF Odd
    <3> QED
      BY <1>2, <3>1, SmallestSet
  <2>2. U # {} /\ IsFiniteSet(U)
    <3>1. SumFunctionOnSet(f, U) # 0
      BY <2>1
    <3> QED
      BY <2>1, <3>1, SumEmpty, FS_Subset
  <2>3. /\ Some(U) \in U
        /\ SumFunctionOnSet(f, U) = f[Some(U)] + SumFunctionOnSet(f, U \ {Some(U)})
    BY <2>2, SumTaken
  <2>4. SumFunctionOnSet(f, U \ {Some(U)}) \in Int
    BY <2>1, <2>3
  <2>5. f[Some(U)] \in Int
    BY <2>1, <2>3
  <2>6. SumFunctionOnSet(f, U) \in Int
    BY <2>3, <2>4, <2>5
  <2> QED
    BY <2>1, <2>6
<1> QED
  BY <1>1, <1>2

\* Only the summands count.
LEMMA SumSame ==
  ASSUME NEW f, NEW g, NEW S, IsFiniteSet(S), \A x \in S : f[x] = g[x]
  PROVE  SumFunctionOnSet(f, S) = SumFunctionOnSet(g, S)
<1> DEFINE Odd == {U \in SUBSET S : SumFunctionOnSet(f, U) # SumFunctionOnSet(g, U)}
<1>1. CASE Odd = {}
  BY <1>1
<1>2. CASE Odd # {}
  <2>1. PICK U \in Odd : \A V \in Odd : V \subseteq U => V = U
    <3>1. Odd \subseteq SUBSET S
      OBVIOUS
    <3> HIDE DEF Odd
    <3> QED
      BY <1>2, <3>1, SmallestSet
  <2>2. U # {} /\ IsFiniteSet(U)
    BY <2>1, SumEmpty, FS_Subset
  <2>3. /\ Some(U) \in U
        /\ SumFunctionOnSet(f, U) = f[Some(U)] + SumFunctionOnSet(f, U \ {Some(U)})
        /\ SumFunctionOnSet(g, U) = g[Some(U)] + SumFunctionOnSet(g, U \ {Some(U)})
    BY <2>2, SumTaken
  <2>4. SumFunctionOnSet(f, U \ {Some(U)}) = SumFunctionOnSet(g, U \ {Some(U)})
    BY <2>1, <2>3
  <2>5. f[Some(U)] = g[Some(U)]
    BY <2>1, <2>3
  <2>6. SumFunctionOnSet(f, U) = SumFunctionOnSet(g, U)
    BY <2>3, <2>4, <2>5
  <2> QED
    BY <2>1, <2>6
<1> QED
  BY <1>1, <1>2

\* Any element can be taken off: the order does not matter.
LEMMA SumWith ==
  ASSUME NEW f, NEW S, IsFiniteSet(S), \A x \in S : f[x] \in Int, NEW e \in S
  PROVE  SumFunctionOnSet(f, S) = f[e] + SumFunctionOnSet(f, S \ {e})
<1> DEFINE Odd == {U \in SUBSET S : \E x \in U : SumFunctionOnSet(f, U) # f[x] + SumFunctionOnSet(f, U \ {x})}
<1>1. CASE Odd = {}
  BY <1>1
<1>2. CASE Odd # {}
  <2>1. PICK U \in Odd : \A V \in Odd : V \subseteq U => V = U
    <3>1. Odd \subseteq SUBSET S
      OBVIOUS
    <3> HIDE DEF Odd
    <3> QED
      BY <1>2, <3>1, SmallestSet
  <2>2. PICK x \in U : SumFunctionOnSet(f, U) # f[x] + SumFunctionOnSet(f, U \ {x})
    BY <2>1
  <2> DEFINE y == Some(U)
             r == (U \ {x}) \ {y}
  <2>3. /\ y \in U /\ IsFiniteSet(U) /\ IsFiniteSet(r)
        /\ SumFunctionOnSet(f, U) = f[y] + SumFunctionOnSet(f, U \ {y})
    <3>1. IsFiniteSet(U) /\ IsFiniteSet(r)
      BY <2>1, FS_Subset
    <3> QED
      BY <2>2, <3>1, SumTaken
  <2> HIDE DEF y
  <2>4. x # y
    BY <2>2, <2>3
  <2>5. U \ {y} \notin Odd /\ U \ {x} \notin Odd
    BY <2>1, <2>2, <2>3
  <2>6. SumFunctionOnSet(f, U \ {y}) = f[x] + SumFunctionOnSet(f, (U \ {y}) \ {x})
    BY <2>1, <2>2, <2>4, <2>5
  <2>7. SumFunctionOnSet(f, U \ {x}) = f[y] + SumFunctionOnSet(f, r)
    BY <2>1, <2>3, <2>4, <2>5
  <2>8. SumFunctionOnSet(f, U \ {y}) = f[x] + SumFunctionOnSet(f, r)
    <3>1. (U \ {y}) \ {x} = r
      OBVIOUS
    <3> QED
      BY <2>6, <3>1
  <2>9. SumFunctionOnSet(f, r) \in Int /\ f[x] \in Int /\ f[y] \in Int
    BY <2>1, <2>2, <2>3, SumInt
  <2> HIDE DEF r
  <2>10. SumFunctionOnSet(f, U) = f[x] + SumFunctionOnSet(f, U \ {x})
    BY <2>3, <2>7, <2>8, <2>9
  <2> QED
    BY <2>2, <2>10
<1> QED
  BY <1>1, <1>2
\* A sum of which one summand changes.
LEMMA SumChanged ==
  ASSUME NEW f, NEW g, NEW S, IsFiniteSet(S), NEW e \in S,
         \A x \in S : f[x] \in Int /\ g[x] \in Int,
         \A x \in S : x # e => g[x] = f[x]
  PROVE  SumFunctionOnSet(g, S) = SumFunctionOnSet(f, S) + g[e] - f[e]
<1> DEFINE r == S \ {e}
<1>1. IsFiniteSet(r) /\ \A x \in r : f[x] = g[x] /\ f[x] \in Int
  BY FS_RemoveElement
<1>2. SumFunctionOnSet(f, S) = f[e] + SumFunctionOnSet(f, r)
  BY SumWith
<1>3. SumFunctionOnSet(g, S) = g[e] + SumFunctionOnSet(g, r)
  BY SumWith
<1> HIDE DEF r
<1>4. SumFunctionOnSet(f, r) = SumFunctionOnSet(g, r)
  BY <1>1, SumSame
<1>5. SumFunctionOnSet(f, r) \in Int
  BY <1>1, SumInt
<1> QED
  BY <1>2, <1>3, <1>4, <1>5

-----------------------------------------------------------------------------
(* Statements.                                                             *)

(***************************************************************************)
(* A statement k of account a that shows the balance bal, apart from the   *)
(* variables.                                                              *)
(***************************************************************************)
Own(k, a) == {i \in DOMAIN k : k[i].acct = a}
Shown(k, a, i) ==
  LET earlier == {j \in Own(k, a) : j < i}
  IN  IF earlier = {} THEN Opening[a] ELSE k[Max(earlier)].after
Signed(r) == IF r.dir = "DEBIT" THEN -r.amount ELSE r.amount
Chained(k, a, bal) ==
  /\ \A i \in Own(k, a) : k[i].after = Shown(k, a, i) + Signed(k[i])
  /\ bal = Shown(k, a, Len(k) + 1)

LEMMA ChainIsChained == StatementChain <=> \A a \in Accounts : Chained(journal, a, acct[a].clear)
  BY DEF StatementChain, Chained, Own, Shown, Signed, Entries, BalanceBefore, IsDebit

\* A set of indices has a largest one.
LEMMA Largest ==
  ASSUME NEW n \in Nat, NEW T \in SUBSET (1 .. n), T # {}
  PROVE  /\ Max(T) \in T
         /\ \A y \in T : y <= Max(T)
<1> DEFINE Below == {n - t : t \in T}
           R == {ss \in Nat \X Nat : ss[1] < ss[2]}
<1>1. \A t \in T : t \in Nat /\ n - t \in Nat
  OBVIOUS
<1>2. Below \subseteq Nat
  BY <1>1
<1>3. \E t \in T : n - t \in Below
  OBVIOUS
<1>4. IsWellFoundedOn(R, Nat)
  BY NatLessThanWellFounded DEF OpToRel
<1>5. PICK x \in Below : \A y \in Below : ~(<<y, x>> \in R)
  <2>1. Below # {}
    BY <1>3
  <2> HIDE DEF Below, R
  <2> QED
    BY <1>2, <1>4, <2>1, WFMin
<1>6. PICK t \in T : x = n - t
  BY <1>5
<1>7. \A y \in T : t >= y
  <2> TAKE y \in T
  <2>1. ~(n - y < x)
    BY <1>1, <1>5
  <2> QED
    BY <1>1, <1>6, <2>1
<1> QED
  BY <1>1, <1>7 DEF Max

\* An entry that is appended leaves what was shown before each earlier one.
LEMMA ShownBefore ==
  ASSUME NEW k \in Seq(JournalRows), NEW r \in JournalRows, NEW a \in Accounts,
         NEW i \in 1 .. (Len(k) + 1)
  PROVE  Shown(Append(k, r), a, i) = Shown(k, a, i)
<1> DEFINE K == Append(k, r)
           n == Len(k)
           old == {j \in Own(k, a) : j < i}
           new == {j \in Own(K, a) : j < i}
<1>1. n \in Nat /\ DOMAIN k = 1 .. n /\ DOMAIN K = 1 .. (n + 1) /\ \A j \in 1 .. n : K[j] = k[j]
  OBVIOUS
<1>2. new = old
  <2>1. \A j \in new : j \in old
    BY <1>1 DEF Own
  <2>2. \A j \in old : j \in new
    BY <1>1 DEF Own
  <2> QED
    BY <2>1, <2>2
<1>3. CASE old = {}
  BY <1>2, <1>3 DEF Shown
<1>4. CASE old # {}
  <2>1. old \in SUBSET (1 .. n)
    BY <1>1 DEF Own
  <2> HIDE DEF old
  <2>2. Max(old) \in 1 .. n
    BY <1>1, <1>4, <2>1, Largest
  <2>3. K[Max(old)] = k[Max(old)]
    BY <1>1, <2>2
  <2> QED
    BY <1>2, <1>4, <2>3 DEF Shown, old
<1> QED
  BY <1>3, <1>4

\* After it, its own balance is shown, or for another account what was before.
LEMMA ShownAfter ==
  ASSUME NEW k \in Seq(JournalRows), NEW r \in JournalRows, NEW a \in Accounts
  PROVE  Shown(Append(k, r), a, Len(k) + 2) =
           IF r.acct = a THEN r.after ELSE Shown(k, a, Len(k) + 1)
<1> DEFINE K == Append(k, r)
           n == Len(k)
           new == {j \in Own(K, a) : j < n + 2}
<1>1. /\ n \in Nat /\ DOMAIN k = 1 .. n /\ DOMAIN K = 1 .. (n + 1)
      /\ K[n + 1] = r /\ \A j \in 1 .. n : K[j] = k[j]
  OBVIOUS
<1>2. CASE r.acct = a
  <2>1. n + 1 \in new /\ \A y \in new : n + 1 >= y
    BY <1>1, <1>2 DEF Own
  <2>2. new \in SUBSET (1 .. (n + 1)) /\ n + 1 \in Nat
    BY <1>1 DEF Own
  <2> HIDE DEF new
  <2>3. Max(new) \in new /\ \A y \in new : y <= Max(new)
    BY <2>1, <2>2, Largest
  <2>4. Max(new) = n + 1
    <3>1. Max(new) \in 1 .. (n + 1)
      BY <2>2, <2>3
    <3>2. n + 1 <= Max(new)
      BY <2>1, <2>3
    <3> QED
      BY <1>1, <3>1, <3>2
  <2> QED
    BY <1>1, <1>2, <2>1, <2>4 DEF Shown, new
<1>3. CASE r.acct # a
  <2> DEFINE old == {j \in Own(K, a) : j < n + 1}
  <2>1. \A j \in Own(K, a) : j \in Int /\ j < n + 1 /\ j < n + 2
    BY <1>1, <1>3 DEF Own
  <2>2. new = old
    <3>1. new = Own(K, a)
      BY <2>1
    <3>2. old = Own(K, a)
      BY <2>1
    <3> QED
      BY <3>1, <3>2
  <2>3. Shown(K, a, n + 2) = Shown(K, a, n + 1)
    BY <2>2 DEF Shown
  <2>4. n + 1 \in 1 .. (n + 1)
    BY <1>1
  <2> QED
    BY <1>3, <2>3, <2>4, ShownBefore
<1> QED
  BY <1>2, <1>3

\* A statement is continued by an entry that starts from the balance shown, and
\* is not touched by those of other accounts.
LEMMA ChainGrows ==
  ASSUME NEW k \in Seq(JournalRows), NEW r \in JournalRows, NEW a \in Accounts,
         NEW bal \in Int, Chained(k, a, bal),
         r.acct = a => r.after = bal + Signed(r)
  PROVE  Chained(Append(k, r), a, IF r.acct = a THEN r.after ELSE bal)
<1> DEFINE K == Append(k, r)
           n == Len(k)
<1>1. /\ n \in Nat /\ DOMAIN k = 1 .. n /\ DOMAIN K = 1 .. (n + 1) /\ Len(K) = n + 1
      /\ K[n + 1] = r /\ \A j \in 1 .. n : K[j] = k[j]
  OBVIOUS
<1>2. \A i \in 1 .. (n + 1) : Shown(K, a, i) = Shown(k, a, i)
  BY ShownBefore
<1>3. bal = Shown(k, a, n + 1)
  BY DEF Chained
<1>4. ASSUME NEW i \in Own(K, a) PROVE K[i].after = Shown(K, a, i) + Signed(K[i])
  <2>1. CASE i = n + 1
    <3>1. r.acct = a
      BY <1>1, <1>4, <2>1 DEF Own
    <3> QED
      BY <1>1, <1>2, <1>3, <2>1, <3>1
  <2>2. CASE i # n + 1
    <3>1. i \in 1 .. n /\ i \in Own(k, a)
      BY <1>1, <1>4, <2>2 DEF Own
    <3> QED
      BY <1>1, <1>2, <3>1 DEF Chained
  <2> QED
    BY <2>1, <2>2
<1>5. Shown(K, a, Len(K) + 1) = IF r.acct = a THEN r.after ELSE bal
  <2>1. Len(K) + 1 = n + 2
    BY <1>1
  <2> QED
    BY <1>3, <2>1, ShownAfter
<1> QED
  BY <1>4, <1>5 DEF Chained

(***************************************************************************)
(* Where postings take turns, the balances that one has read are those it  *)
(* writes over, and a settlement account it did not find is not there:     *)
(* nothing else writes a clear balance, and no other posting is between    *)
(* its read and its commit.                                                *)
(***************************************************************************)
Posting(h) == req[h].at \in {"debit", "credit"}
PostingsTakeTurns == \A g, h \in Handlers : Posting(g) /\ Posting(h) => g = h

Fresh(h) ==
  LET r == req[h]
      s == SourceOf(r.on)
  IN
  /\ r.at \in {"debit", "credit"} => r.bal = acct[s].clear
  /\ r.at = "credit" =>
       r.settle = IF s = Settle THEN r.bal - r.amt
                  ELSE IF settleOpen THEN acct[Settle].clear ELSE Absent

LedgerInv ==
  /\ StatementChain
  /\ ~settleOpen => acct[Settle].clear = 0
  /\ \A h \in Handlers : Fresh(h)

LEMMA LedgerInit == Init => LedgerInv
<1> SUFFICES ASSUME Init PROVE LedgerInv
  OBVIOUS
<1>1. journal = << >> /\ Len(journal) = 0 /\ DOMAIN journal = {}
  BY DEF Init
<1>2. \A a \in Accounts : acct[a].clear = Opening[a]
  BY DEF Init
<1>3. \A a \in Accounts : Own(journal, a) = {}
  BY <1>1 DEF Own
<1>4. \A a \in Accounts : Shown(journal, a, Len(journal) + 1) = Opening[a]
  BY <1>3 DEF Shown
<1>5. StatementChain
  BY <1>2, <1>3, <1>4, ChainIsChained DEF Chained
<1>6. acct[Settle].clear = 0
  BY <1>2, DataAssumption
<1>7. \A h \in Handlers : Fresh(h)
  BY DEF Init, Idle, Fresh
<1> QED
  BY <1>5, <1>6, <1>7 DEF LedgerInv

\* Only the commit of a posting changes a clear balance: a hold and its return
\* move holdAmount alone.
LEMMA HoldKeepsClear ==
  ASSUME TypeInv, NEW a \in Accounts, NEW m,
         acct' = [acct EXCEPT ![a] = Reserve(@, m)] \/ acct' = [acct EXCEPT ![a] = Return(@, m)]
  PROVE  \A b \in Accounts : acct'[b].clear = acct[b].clear
  BY DEF TypeInv, TypeOK, AccountRows, Reserve, Return

LEMMA ClearStays ==
  ASSUME TypeInv, NEW h \in Handlers, Step(h) \/ Fail(h), ~PostCommit(h)
  PROVE  /\ UNCHANGED <<settleOpen, journal>>
         /\ \A a \in Accounts : acct'[a].clear = acct[a].clear
<1>1. SourceOf(req[h].on) \in Accounts
  BY StepShape, InFlight
<1>2. CASE HoldCommit(h)
  BY <1>1, <1>2, HoldKeepsClear DEF HoldCommit
<1>3. CASE ReleaseCommit(h) \/ RejectCommit(h)
  BY <1>1, <1>3, HoldKeepsClear DEF ReleaseCommit, RejectCommit, GiveBack
<1>4. CASE Fail(h)
  BY <1>4 DEF Fail, ledgerVars
<1>5. CASE Score(h) \/ Block(h) \/ Freeze(h) \/ OpenCase(h) \/ IssueOtp(h) \/ MarkChallenged(h)
  BY <1>5 DEF Score, Block, Freeze, OpenCase, IssueOtp, MarkChallenged, ledgerVars
<1>6. CASE HoldRead(h) \/ VerifyRead(h) \/ VerifyRefused(h) \/ Consume(h) \/ Dispatch(h)
  BY <1>6 DEF HoldRead, VerifyRead, VerifyRefused, Consume, Dispatch, ledgerVars
<1>7. CASE PostRead(h) \/ SourceRead(h) \/ PostDebit(h) \/ PostConflict(h)
  BY <1>7 DEF PostRead, SourceRead, PostDebit, PostConflict, ledgerVars
<1>8. CASE UpdateWrite(h) \/ Rescore(h) \/ RemoveWrite(h) \/ Approve(h)
  BY <1>8 DEF UpdateWrite, Rescore, RemoveWrite, Approve, ledgerVars
<1> QED
  BY <1>2, <1>3, <1>4, <1>5, <1>6, <1>7, <1>8 DEF Step

\* Where no balance moves, the statements stay as they are.
LEMMA ChainStays ==
  ASSUME StatementChain, UNCHANGED journal, \A a \in Accounts : acct'[a].clear = acct[a].clear
  PROVE  StatementChain'
<1>1. \A a \in Accounts : Chained(journal, a, acct[a].clear)
  BY ChainIsChained
<1>2. \A a \in Accounts : Chained(journal', a, acct'[a].clear)
  BY <1>1
<1> QED
  BY <1>2 DEF StatementChain, Chained, Own, Shown, Signed, Entries, BalanceBefore, IsDebit

\* A step that moves no balance leaves its handler with fresh reads.
LEMMA FreshFlow ==
  ASSUME TypeInv, LedgerInv, NEW h \in Handlers, Step(h) \/ Fail(h), ~PostCommit(h)
  PROVE  Fresh(h)'
<1> DEFINE s == SourceOf(req[h].on)
<1>1. /\ req[h].at # "idle" /\ s \in Accounts /\ LocalShape(h) /\ RowShape(h) /\ Flow(h)
      /\ req[h] \in Locals /\ req[h].on \in Payments
  BY StepShape, StepFlow, InFlight DEF Shape
<1>2. /\ settleOpen' = settleOpen /\ acct'[s].clear = acct[s].clear
      /\ acct'[Settle].clear = acct[Settle].clear
  BY <1>1, ClearStays, DataAssumption
<1>3. CASE req'[h].at \notin {"debit", "credit"}
  BY <1>3 DEF Fresh
<1>4. CASE req'[h].at \in {"debit", "credit"}
  <2>1. req'[h] # Idle /\ req'[h].on = req[h].on /\ pay'[req[h].on].debit = pay[req[h].on].debit
    BY <1>1, <1>4 DEF LocalShape, RowShape, Idle
  <2>2. Step(h)
    BY <2>1, FinishFlow DEF Fail
  <2>3. CASE req'[h].at = "debit"
    <3>1. req[h].at = "source"
      BY <1>1, <2>1, <2>3 DEF Flow, Edges
    <3>2. SourceRead(h) /\ ~Finish(h)
      BY <2>1, <2>2, <3>1, ActionAt, FinishFlow
    <3>3. req' = [req EXCEPT ![h] = [@ EXCEPT !.at = "debit", !.bal = acct[s].clear]]
      BY <3>2 DEF SourceRead
    <3>4. req'[h].bal = acct[s].clear
      BY <1>1, <3>3 DEF TypeInv, TypeOK, Locals
    <3> QED
      BY <1>2, <2>1, <2>3, <3>4 DEF Fresh, SourceOf
  <2>4. CASE req'[h].at = "credit"
    <3> DEFINE x == IF s = Settle THEN req[h].bal - req[h].amt
                    ELSE IF settleOpen THEN acct[Settle].clear ELSE Absent
    <3>1. req[h].at = "debit"
      BY <1>1, <2>1, <2>4 DEF Flow, Edges
    <3>2. PostDebit(h)
      BY <2>2, <3>1, ActionAt
    <3>3. req' = [req EXCEPT ![h] = [@ EXCEPT !.at = "credit", !.settle = x]]
      BY <3>2 DEF PostDebit
    <3>4. req'[h].bal = req[h].bal /\ req'[h].amt = req[h].amt /\ req'[h].settle = x
      BY <1>1, <3>3 DEF TypeInv, TypeOK, Locals
    <3>5. req[h].bal = acct[s].clear
      BY <3>1 DEF LedgerInv, Fresh
    <3> QED
      BY <1>2, <2>1, <2>4, <3>4, <3>5 DEF Fresh, SourceOf
  <2> QED
    BY <1>4, <2>3, <2>4
<1> QED
  BY <1>3, <1>4

\* What a posting writes to the source and to the settlement account.
Debited(h) == req[h].bal - req[h].amt
Credited(h) == (IF req[h].settle = Absent THEN 0 ELSE req[h].settle) + req[h].amt

\* Where its reads are fresh it moves the amount from one to the other, also
\* where both are one account.
LEMMA CommitBalances ==
  ASSUME TypeInv, LedgerInv, NEW h \in Handlers, PostCommit(h)
  PROVE  LET s == SourceOf(req[h].on) IN
         /\ s \in Accounts /\ Settle \in Accounts
         /\ req[h].amt \in Nat /\ Debited(h) \in Int /\ Credited(h) \in Int
         /\ Debited(h) = acct[s].clear - req[h].amt
         /\ s = Settle => Credited(h) = Debited(h) + req[h].amt
         /\ s # Settle => Credited(h) = acct[Settle].clear + req[h].amt
         /\ \A a \in Accounts : acct'[a].clear =
              IF a = Settle THEN Credited(h) ELSE IF a = s THEN Debited(h) ELSE acct[a].clear
<1> DEFINE s == SourceOf(req[h].on)
           m == req[h].amt
<1>1. /\ req[h].at = "credit" /\ ~(req[h].settle = Absent /\ settleOpen)
      /\ acct' = [acct EXCEPT ![s].clear = Debited(h), ![Settle].clear = Credited(h)]
  BY DEF PostCommit, Debited, Credited
<1>2. s \in Accounts /\ Settle \in Accounts /\ Absent \notin Int
  BY <1>1, InFlight, DataAssumption, NoneAssumption
<1>3. m \in Nat /\ req[h].bal \in Int /\ Debited(h) \in Int /\ Credited(h) \in Int
  BY <1>1, InFlight DEF Locals, Debited, Credited
<1>4. \A a \in Accounts : acct[a].clear \in Int
  BY DEF TypeInv, TypeOK, AccountRows
<1>5. req[h].bal = acct[s].clear /\ Debited(h) = acct[s].clear - m
  BY <1>1 DEF LedgerInv, Fresh, Debited
<1>6. ASSUME s = Settle PROVE Credited(h) = Debited(h) + m
  <2>1. req[h].settle = Debited(h)
    BY <1>1, <1>6 DEF LedgerInv, Fresh, Debited
  <2> QED
    BY <1>2, <1>3, <2>1 DEF Credited
<1>7. ASSUME s # Settle, settleOpen PROVE Credited(h) = acct[Settle].clear + m
  <2>1. req[h].settle = acct[Settle].clear
    BY <1>1, <1>7 DEF LedgerInv, Fresh
  <2> QED
    BY <1>2, <1>4, <2>1 DEF Credited
<1>8. ASSUME s # Settle, ~settleOpen PROVE Credited(h) = acct[Settle].clear + m
  <2>1. req[h].settle = Absent /\ acct[Settle].clear = 0
    BY <1>1, <1>8 DEF LedgerInv, Fresh
  <2> QED
    BY <2>1 DEF Credited
<1>9. \A a \in Accounts : acct'[a].clear =
        IF a = Settle THEN Credited(h) ELSE IF a = s THEN Debited(h) ELSE acct[a].clear
  BY <1>1, <1>2 DEF TypeInv, TypeOK, AccountRows
<1> QED
  BY <1>2, <1>3, <1>5, <1>6, <1>7, <1>8, <1>9

(***************************************************************************)
(* The commit of a posting appends an entry to the statement of the        *)
(* source and then one to that of the settlement account, which may be the *)
(* same account.                                                           *)
(***************************************************************************)
LEMMA ChainCommit ==
  ASSUME TypeInv, LedgerInv, NEW h \in Handlers, PostCommit(h)
  PROVE  StatementChain'
<1> DEFINE p == req[h].on
           s == SourceOf(p)
           m == req[h].amt
           debited == Debited(h)
           credited == Credited(h)
           r1 == Row(p, s, "DEBIT", m, debited)
           r2 == Row(p, Settle, "CREDIT", m, credited)
           mid == Append(journal, r1)
<1>1. req[h].at = "credit" /\ journal' = journal \o <<r1, r2>>
  BY DEF PostCommit, Debited, Credited
<1>2. p \in Payments /\ s \in Accounts /\ Settle \in Accounts
  BY <1>1, InFlight, CommitBalances
<1>3. m \in Nat /\ debited \in Int /\ credited \in Int
  BY CommitBalances
<1>4. r1 \in JournalRows /\ r2 \in JournalRows
  BY <1>2, <1>3 DEF Row, JournalRows
<1>5. /\ r1.acct = s /\ r1.after = debited /\ Signed(r1) = -m
      /\ r2.acct = Settle /\ r2.after = credited /\ Signed(r2) = m
  BY DEF Row, Signed
<1>6. journal \in Seq(JournalRows) /\ \A a \in Accounts : acct[a].clear \in Int
  BY DEF TypeInv, TypeOK, AccountRows
<1>7. /\ debited = acct[s].clear - m
      /\ s = Settle => credited = debited + m
      /\ s # Settle => credited = acct[Settle].clear + m
  BY CommitBalances
<1>8. \A a \in Accounts : acct'[a].clear =
        IF a = Settle THEN credited ELSE IF a = s THEN debited ELSE acct[a].clear
  BY CommitBalances
<1> HIDE DEF p, s, m, debited, credited, r1, r2
<1>9. mid \in Seq(JournalRows) /\ journal' = Append(mid, r2)
  BY <1>1, <1>4, <1>6
<1> HIDE DEF mid
<1>10. ASSUME NEW a \in Accounts PROVE Chained(journal', a, acct'[a].clear)
  <2> DEFINE b1 == IF r1.acct = a THEN r1.after ELSE acct[a].clear
             b2 == IF r2.acct = a THEN r2.after ELSE b1
  <2>1. Chained(journal, a, acct[a].clear) /\ acct[a].clear \in Int
    BY <1>6, <1>10, ChainIsChained DEF LedgerInv
  <2>2. r1.acct = a => r1.after = acct[a].clear + Signed(r1)
    BY <1>3, <1>5, <1>7
  <2>3. Chained(mid, a, b1)
    BY <1>4, <1>6, <1>10, <2>1, <2>2, ChainGrows DEF mid
  <2>4. b1 \in Int
    BY <1>3, <1>5, <2>1
  <2>5. r2.acct = a => r2.after = b1 + Signed(r2)
    BY <1>5, <1>7
  <2> HIDE DEF b1
  <2>6. Chained(Append(mid, r2), a, b2)
    BY <1>4, <1>9, <1>10, <2>3, <2>4, <2>5, ChainGrows
  <2>7. acct'[a].clear = b2
    BY <1>5, <1>8, <1>10 DEF b1
  <2> QED
    BY <1>9, <2>6, <2>7
<1>11. \A a \in Accounts : Chained(journal', a, acct'[a].clear)
  BY <1>10
<1> QED
  BY <1>11 DEF StatementChain, Chained, Own, Shown, Signed, Entries, BalanceBefore, IsDebit

\* A handler's step leaves the reads of the others fresh, where those that
\* still need them post nothing meanwhile.
LEMMA OthersFresh ==
  ASSUME PostingsTakeTurns, TypeInv, LedgerInv, NEW h \in Handlers, Step(h) \/ Fail(h),
         NEW g \in Handlers \ {h}
  PROVE  Fresh(g)'
<1> DEFINE s == SourceOf(req[g].on)
<1>1. LocalShape(h) /\ RowShape(h) /\ req[h].on \in Payments /\ req[h].at # "idle"
  BY StepShape, InFlight DEF Shape
<1>2. req'[g] = req[g]
  BY <1>1 DEF LocalShape, TypeInv, TypeOK
<1>3. CASE ~Posting(g)
  BY <1>2, <1>3 DEF Fresh, Posting
<1>4. CASE Posting(g)
  <2>1. req[g].at # "idle" /\ ~Posting(h)
    BY <1>4 DEF Posting, PostingsTakeTurns
  <2>2. ~PostCommit(h)
    BY <2>1 DEF Posting, PostCommit
  <2>3. req[g].on \in Payments /\ s \in Accounts
    BY <2>1, InFlight
  <2>4. /\ settleOpen' = settleOpen /\ acct'[s].clear = acct[s].clear
        /\ acct'[Settle].clear = acct[Settle].clear
    BY <2>2, <2>3, ClearStays, DataAssumption
  <2>5. pay'[req[g].on].debit = pay[req[g].on].debit
    BY <1>1, <2>3 DEF RowShape, TypeInv, TypeOK
  <2>6. Fresh(g)
    BY DEF LedgerInv
  <2> QED
    BY <1>2, <2>4, <2>5, <2>6 DEF Fresh, SourceOf
<1> QED
  BY <1>3, <1>4

LEMMA LedgerStepOne ==
  ASSUME PostingsTakeTurns, TypeInv, LedgerInv, NEW h \in Handlers, Step(h) \/ Fail(h)
  PROVE  LedgerInv'
<1>1. \A g \in Handlers \ {h} : Fresh(g)'
  BY OthersFresh
<1>2. CASE PostCommit(h)
  <2>1. settleOpen' /\ req'[h] = Idle
    BY <1>2, FinishFlow DEF PostCommit
  <2>2. Fresh(h)'
    BY <2>1 DEF Fresh, Idle
  <2> QED
    BY <1>1, <1>2, <2>1, <2>2, ChainCommit DEF LedgerInv
<1>3. CASE ~PostCommit(h)
  <2>1. /\ settleOpen' = settleOpen /\ acct'[Settle].clear = acct[Settle].clear
        /\ StatementChain'
    BY <1>3, ClearStays, ChainStays, DataAssumption DEF LedgerInv
  <2>2. Fresh(h)'
    BY <1>3, FreshFlow
  <2> QED
    BY <1>1, <2>1, <2>2 DEF LedgerInv
<1> QED
  BY <1>2, <1>3

LEMMA LedgerInitiate ==
  ASSUME TypeInv, LedgerInv, NEW p \in Payments, NEW a \in Amounts, NEW s \in Sources,
         Initiate(p, a, s)
  PROVE  LedgerInv'
<1>1. /\ pay[p].status = "ABSENT" /\ UNCHANGED <<req, acct, settleOpen, journal>>
      /\ \A q \in Payments : q # p => pay'[q] = pay[q]
  BY DEF Initiate, ledgerVars, TypeInv, TypeOK
<1>2. \A h \in Handlers : req[h].at # "idle" => req[h].on # p /\ req[h].on \in Payments
  BY <1>1, InFlight
<1>3. \A h \in Handlers : Fresh(h)'
  BY <1>1, <1>2 DEF LedgerInv, Fresh, SourceOf
<1>4. StatementChain'
  BY <1>1, ChainStays DEF LedgerInv
<1> QED
  BY <1>1, <1>3, <1>4 DEF LedgerInv

LEMMA LedgerRequest ==
  ASSUME TypeInv, LedgerInv, NEW h \in Handlers, NEW p \in Payments, Request(h, p)
  PROVE  LedgerInv'
<1>1. /\ UNCHANGED <<pay, acct, settleOpen, journal>>
      /\ req'[h].at \notin {"debit", "credit"}
  BY RequestFrame
<1>2. \A g \in Handlers : g # h => req'[g] = req[g]
  BY RequestFrame DEF TypeInv, TypeOK
<1>3. \A g \in Handlers : Fresh(g)'
  BY <1>1, <1>2 DEF LedgerInv, Fresh, SourceOf
<1>4. StatementChain'
  BY <1>1, ChainStays DEF LedgerInv
<1> QED
  BY <1>1, <1>3, <1>4 DEF LedgerInv

LEMMA LedgerStep == PostingsTakeTurns /\ TypeInv /\ LedgerInv /\ [Next]_vars => LedgerInv'
<1> SUFFICES ASSUME PostingsTakeTurns, TypeInv, LedgerInv, [Next]_vars PROVE LedgerInv'
  OBVIOUS
<1>1. ASSUME NEW h \in Handlers, Step(h) \/ Fail(h) PROVE LedgerInv'
  BY <1>1, LedgerStepOne
<1>2. CASE UNCHANGED vars
  <2>1. UNCHANGED <<pay, acct, settleOpen, journal, req>>
    BY <1>2 DEF vars
  <2>2. StatementChain'
    BY <2>1, ChainStays DEF LedgerInv
  <2>3. \A h \in Handlers : Fresh(h)'
    BY <2>1 DEF LedgerInv, Fresh, SourceOf
  <2> QED
    BY <2>1, <2>2, <2>3 DEF LedgerInv
<1> QED
  BY <1>1, <1>2, LedgerInitiate, LedgerRequest DEF Next

LEMMA LedgerAlways == Spec /\ []PostingsTakeTurns => [](TypeInv /\ LedgerInv)
<1>1. PostingsTakeTurns /\ TypeInv /\ LedgerInv /\ [Next]_vars => LedgerInv'
  BY LedgerStep
<1>2. Spec => []TypeInv
  BY TypeAlways
<1> QED
  BY <1>1, <1>2, LedgerInit, PTL DEF Spec

\* Where no two postings are between their read of the source and their commit
\* at once, the entries of every account chain into its balance, the settlement
\* account's included, whatever dies between the statements of a posting: its
\* debit is written before the settlement account is read and credited.
THEOREM StatementsChain == Spec /\ []PostingsTakeTurns => []StatementChain
<1>1. LedgerInv => StatementChain
  BY DEF LedgerInv
<1> QED
  BY <1>1, LedgerAlways, PTL

-----------------------------------------------------------------------------
(* No money is made or lost.                                               *)

Clear(rows) == [a \in Accounts |-> rows[a].clear]
Total(rows) == SumFunctionOnSet(Clear(rows), Accounts)

LEMMA TotalSame ==
  ASSUME \A a \in Accounts : acct'[a].clear = acct[a].clear
  PROVE  Total(acct') = Total(acct)
<1>1. \A a \in Accounts : Clear(acct)[a] = Clear(acct')[a]
  BY DEF Clear
<1> QED
  BY <1>1, FiniteAssumption, SumSame DEF Total

\* A posting takes from the source what it adds to the settlement account.
LEMMA TotalCommit ==
  ASSUME TypeInv, TypeInv', LedgerInv, NEW h \in Handlers, PostCommit(h)
  PROVE  Total(acct') = Total(acct)
<1> DEFINE s == SourceOf(req[h].on)
           m == req[h].amt
           f == Clear(acct)
           g == Clear(acct')
           mid == [a \in Accounts |-> IF a = s THEN f[a] - m ELSE f[a]]
<1>1. /\ s \in Accounts /\ Settle \in Accounts /\ m \in Nat
      /\ Debited(h) = acct[s].clear - m
      /\ s = Settle => Credited(h) = Debited(h) + m
      /\ s # Settle => Credited(h) = acct[Settle].clear + m
      /\ \A a \in Accounts : acct'[a].clear =
           IF a = Settle THEN Credited(h) ELSE IF a = s THEN Debited(h) ELSE acct[a].clear
  BY CommitBalances
<1>2. \A a \in Accounts : /\ f[a] = acct[a].clear /\ g[a] = acct'[a].clear
                          /\ f[a] \in Int /\ g[a] \in Int
  BY DEF Clear, TypeInv, TypeOK, AccountRows
<1> HIDE DEF f, g, s, m
<1>3. CASE s = Settle
  <2>1. \A a \in Accounts : acct'[a].clear = acct[a].clear
    <3>1. acct'[Settle].clear = acct[Settle].clear
      BY <1>1, <1>2, <1>3
    <3> QED
      BY <1>1, <1>3, <3>1
  <2> QED
    BY <2>1, TotalSame
<1>4. CASE s # Settle
  <2>1. /\ \A a \in Accounts : mid[a] \in Int
        /\ mid[s] = f[s] - m
        /\ \A a \in Accounts : a # s => mid[a] = f[a]
    BY <1>1, <1>2
  <2>2. /\ g[Settle] = mid[Settle] + m
        /\ \A a \in Accounts : a # Settle => g[a] = mid[a]
    <3>1. g[Settle] = f[Settle] + m /\ mid[Settle] = f[Settle]
      BY <1>1, <1>2, <1>4
    <3>2. \A a \in Accounts : a # Settle => g[a] = mid[a]
      BY <1>1, <1>2
    <3> QED
      BY <3>1, <3>2
  <2> HIDE DEF mid
  <2>3. SumFunctionOnSet(mid, Accounts) = SumFunctionOnSet(f, Accounts) + mid[s] - f[s]
    BY <1>1, <1>2, <2>1, FiniteAssumption, SumChanged
  <2>4. SumFunctionOnSet(g, Accounts) = SumFunctionOnSet(mid, Accounts) + g[Settle] - mid[Settle]
    <3>1. \A a \in Accounts : mid[a] \in Int /\ g[a] \in Int
      BY <1>2, <2>1
    <3>2. \A a \in Accounts : a # Settle => g[a] = mid[a]
      BY <2>2
    <3>3. Settle \in Accounts /\ IsFiniteSet(Accounts)
      BY <1>1, FiniteAssumption
    <3> QED
      BY <3>1, <3>2, <3>3, SumChanged
  <2>5. /\ SumFunctionOnSet(f, Accounts) \in Int /\ SumFunctionOnSet(mid, Accounts) \in Int
        /\ f[s] \in Int /\ mid[Settle] \in Int
    BY <1>1, <1>2, <2>1, FiniteAssumption, SumInt
  <2>6. SumFunctionOnSet(g, Accounts) = SumFunctionOnSet(f, Accounts)
    BY <1>1, <2>1, <2>2, <2>3, <2>4, <2>5
  <2> QED
    BY <2>6 DEF f, g, Total
<1> QED
  BY <1>3, <1>4

LEMMA TotalStep == TypeInv /\ TypeInv' /\ LedgerInv /\ [Next]_vars => Total(acct') = Total(acct)
<1> SUFFICES ASSUME TypeInv, TypeInv', LedgerInv, [Next]_vars PROVE Total(acct') = Total(acct)
  OBVIOUS
<1>1. ASSUME NEW h \in Handlers, Step(h) \/ Fail(h) PROVE Total(acct') = Total(acct)
  <2>1. CASE PostCommit(h)
    BY <2>1, TotalCommit
  <2>2. CASE ~PostCommit(h)
    BY <1>1, <2>2, ClearStays, TotalSame
  <2> QED
    BY <2>1, <2>2
<1>2. CASE UNCHANGED vars
  BY <1>2 DEF vars
<1>3. ASSUME NEW p \in Payments, NEW a \in Amounts, NEW s \in Sources, Initiate(p, a, s)
      PROVE  Total(acct') = Total(acct)
  BY <1>3 DEF Initiate, ledgerVars
<1>4. ASSUME NEW h \in Handlers, NEW p \in Payments, Request(h, p)
      PROVE  Total(acct') = Total(acct)
  BY <1>4, RequestFrame
<1> QED
  BY <1>1, <1>2, <1>3, <1>4 DEF Next

\* Where postings take turns, the balances of the customer's accounts and of the
\* settlement account add up to what they opened with, for any number of
\* accounts, also when a request dies between the statements of a posting.
THEOREM MoneyConserved == Spec /\ []PostingsTakeTurns => []Conservation
<1> DEFINE Kept == Total(acct) = SumFunctionOnSet(Opening, Accounts)
<1>1. Init => Kept
  <2> SUFFICES ASSUME Init PROVE Kept
    OBVIOUS
  <2>1. \A a \in Accounts : Clear(acct)[a] = Opening[a]
    BY DEF Init, Clear
  <2> QED
    BY <2>1, FiniteAssumption, SumSame DEF Total
<1>2. Kept /\ TypeInv /\ TypeInv' /\ LedgerInv /\ [Next]_vars => Kept'
  BY TotalStep
<1>3. Kept => Conservation
  BY DEF Total, Clear, Conservation
<1> HIDE DEF Kept
<1> QED
  BY <1>1, <1>2, <1>3, LedgerAlways, PTL DEF Spec

-----------------------------------------------------------------------------
(* Held funds are reserved.  An increment and a decrement of holdAmount    *)
(* are one statement each, so that no lock is needed for them, and what    *)
(* they move is still the amount of the payment.                           *)

Amount(rows) == [p \in Payments |-> rows[p].amount]
HeldRows(rows, a) == {p \in Payments : rows[p].status = "HELD" /\ rows[p].debit = a}
Held(rows, a) == SumFunctionOnSet(Amount(rows), HeldRows(rows, a))

\* What payment p is of the sum.
Share(r, a) == IF r.status = "HELD" /\ r.debit = a THEN r.amount ELSE 0

EditsSpareHolds == \A h \in Handlers : req[h].at = "write" => pay[req[h].on].status # "HELD"

AmountRead == \A h \in Handlers :
  req[h].at \in {"hold", "release", "reject"} => req[h].amt = pay[req[h].on].amount

HoldInv ==
  /\ \A a \in Accounts : acct[a].hold >= Held(pay, a)
  /\ AmountRead

\* The sum, p apart.
LEMMA HeldApart ==
  ASSUME NEW rows \in [Payments -> PaymentRows], NEW a, NEW p \in Payments
  PROVE  /\ Held(rows, a) \in Int
         /\ SumFunctionOnSet(Amount(rows), HeldRows(rows, a) \ {p}) \in Int
         /\ Held(rows, a) =
              Share(rows[p], a) + SumFunctionOnSet(Amount(rows), HeldRows(rows, a) \ {p})
<1> DEFINE S == HeldRows(rows, a)
           f == Amount(rows)
<1>1. IsFiniteSet(S) /\ IsFiniteSet(S \ {p})
  <2>1. S \subseteq Payments
    BY DEF HeldRows
  <2> QED
    BY <2>1, FiniteAssumption, FS_Subset
<1>2. \A x \in S : f[x] \in Int
  BY DEF HeldRows, Amount, PaymentRows
<1>3. SumFunctionOnSet(f, S) \in Int /\ SumFunctionOnSet(f, S \ {p}) \in Int
  BY <1>1, <1>2, SumInt
<1>4. CASE p \in S
  <2>1. Share(rows[p], a) = f[p]
    BY <1>4 DEF Share, HeldRows, Amount
  <2>2. SumFunctionOnSet(f, S) = f[p] + SumFunctionOnSet(f, S \ {p})
    BY <1>1, <1>2, <1>4, SumWith
  <2> QED
    BY <1>3, <2>1, <2>2 DEF Held
<1>5. CASE p \notin S
  <2>1. Share(rows[p], a) = 0
    BY <1>5 DEF Share, HeldRows
  <2>2. S \ {p} = S
    BY <1>5
  <2> HIDE DEF S
  <2>3. SumFunctionOnSet(f, S \ {p}) = SumFunctionOnSet(f, S)
    BY <2>2
  <2>4. SumFunctionOnSet(f, S) = Share(rows[p], a) + SumFunctionOnSet(f, S \ {p})
    BY <1>3, <2>1, <2>3
  <2> QED
    BY <1>3, <2>4 DEF Held, S
<1> QED
  BY <1>4, <1>5

\* Only p's share changes with p's row.
LEMMA HeldMoves ==
  ASSUME NEW old \in [Payments -> PaymentRows], NEW new \in [Payments -> PaymentRows],
         NEW p \in Payments, \A q \in Payments : q # p => new[q] = old[q], NEW a
  PROVE  /\ Held(old, a) \in Int /\ Held(new, a) \in Int
         /\ Held(new, a) = Held(old, a) + Share(new[p], a) - Share(old[p], a)
<1> DEFINE R == HeldRows(old, a) \ {p}
<1>1. HeldRows(new, a) \ {p} = R
  BY DEF HeldRows
<1>2. IsFiniteSet(R) /\ \A x \in R : Amount(new)[x] = Amount(old)[x]
  <2>1. R \subseteq Payments
    BY DEF HeldRows
  <2> QED
    BY <2>1, FiniteAssumption, FS_Subset DEF Amount
<1>3. SumFunctionOnSet(Amount(new), R) = SumFunctionOnSet(Amount(old), R)
  BY <1>2, SumSame
<1>4. Share(new[p], a) \in Int /\ Share(old[p], a) \in Int
  BY DEF Share, PaymentRows
<1> HIDE DEF R
<1>5. /\ Held(new, a) = Share(new[p], a) + SumFunctionOnSet(Amount(new), R)
      /\ Held(new, a) \in Int
  BY <1>1, HeldApart
<1>6. /\ Held(old, a) = Share(old[p], a) + SumFunctionOnSet(Amount(old), R)
      /\ Held(old, a) \in Int /\ SumFunctionOnSet(Amount(old), R) \in Int
  BY HeldApart DEF R
<1> QED
  BY <1>3, <1>4, <1>5, <1>6

\* A hold raises holdAmount by what its handler has read, a release or a reject
\* lowers it by that, and no other step touches it.
LEMMA HoldTaken ==
  ASSUME TypeInv, NEW h \in Handlers, HoldCommit(h), NEW a \in Accounts
  PROVE  acct'[a].hold = acct[a].hold + (IF a = SourceOf(req[h].on) THEN req[h].amt ELSE 0)
<1>1. /\ acct' = [acct EXCEPT ![SourceOf(req[h].on)] = Reserve(@, req[h].amt)]
      /\ SourceOf(req[h].on) \in Accounts
  BY InFlight DEF HoldCommit
<1>2. acct \in [Accounts -> AccountRows] /\ acct[a].hold \in Int
  BY DEF TypeInv, TypeOK, AccountRows
<1>3. CASE a = SourceOf(req[h].on)
  BY <1>1, <1>2, <1>3 DEF Reserve, AccountRows
<1>4. CASE a # SourceOf(req[h].on)
  BY <1>1, <1>2, <1>4
<1> QED
  BY <1>3, <1>4

LEMMA HoldReturned ==
  ASSUME TypeInv, NEW h \in Handlers, ReleaseCommit(h) \/ RejectCommit(h), NEW a \in Accounts
  PROVE  /\ acct'[a].hold = acct[a].hold - (IF a = SourceOf(req[h].on) THEN req[h].amt ELSE 0)
         /\ pay'[req[h].on].status # "HELD"
<1>1. /\ acct' = [acct EXCEPT ![SourceOf(req[h].on)] = Return(@, req[h].amt)]
      /\ req[h].on \in Payments /\ SourceOf(req[h].on) \in Accounts
      /\ pay[req[h].on] \in PaymentRows
  BY InFlight DEF ReleaseCommit, RejectCommit, GiveBack
<1>2. acct \in [Accounts -> AccountRows] /\ acct[a].hold \in Int
  BY DEF TypeInv, TypeOK, AccountRows
<1>3. ASSUME a = SourceOf(req[h].on) PROVE acct'[a].hold = acct[a].hold - req[h].amt
  BY <1>1, <1>2, <1>3 DEF Return, AccountRows
<1>4. ASSUME a # SourceOf(req[h].on) PROVE acct'[a].hold = acct[a].hold
  BY <1>1, <1>2, <1>4
<1>5. pay'[req[h].on].status \in {"NEW", "REJECTED"}
  BY <1>1 DEF ReleaseCommit, RejectCommit, GiveBack, PaymentRows, TypeInv, TypeOK
<1> QED
  BY <1>2, <1>3, <1>4, <1>5

LEMMA HoldStays ==
  ASSUME TypeInv, NEW h \in Handlers, Step(h) \/ Fail(h),
         ~HoldCommit(h), ~ReleaseCommit(h), ~RejectCommit(h), NEW a \in Accounts
  PROVE  acct'[a].hold = acct[a].hold
<1>1. CASE PostCommit(h)
  BY <1>1 DEF PostCommit, TypeInv, TypeOK, AccountRows
<1>2. CASE ~PostCommit(h)
  BY <1>2 DEF Step, Score, Block, Freeze, OpenCase, IssueOtp, MarkChallenged, HoldRead, VerifyRead,
       VerifyRefused, Consume, Dispatch, PostRead, SourceRead, PostDebit, PostConflict, UpdateWrite,
       Rescore, RemoveWrite, Approve, Fail, ledgerVars
<1> QED
  BY <1>1, <1>2

LEMMA AtHold ==
  ASSUME NEW h \in Handlers, Step(h)
  PROVE  /\ req[h].at = "hold" => HoldCommit(h)
         /\ req[h].at = "holdRead" => HoldRead(h)
  BY DEF Step, Score, Block, Freeze, OpenCase, IssueOtp, MarkChallenged, HoldRead, HoldCommit, VerifyRead, VerifyRefused, Consume, Dispatch, PostRead, SourceRead, PostDebit, PostCommit, PostConflict, UpdateWrite, Rescore, RemoveWrite, ReleaseCommit, Approve, RejectCommit

\* The share of a payment grows by no more than what is reserved with the step.
LEMMA ShareCovered ==
  ASSUME LifeInv, HoldInv, EditsSpareHolds, NEW h \in Handlers, Step(h) \/ Fail(h),
         NEW a \in Accounts
  PROVE  Share(pay'[req[h].on], a) - Share(pay[req[h].on], a) <= acct'[a].hold - acct[a].hold
<1> DEFINE p == req[h].on
           old == Share(pay[p], a)
           new == Share(pay'[p], a)
<1>0. TypeInv
  BY DEF LifeInv
<1>1. /\ p \in Payments /\ req[h].at # "idle" /\ req[h].amt \in Nat
      /\ pay[p] \in PaymentRows /\ pay'[p] \in PaymentRows
      /\ pay'[p].debit = pay[p].debit /\ RowFlow(h) /\ Flow(h)
  BY <1>0, StepShape, StepFlow, StepRowFlow, InFlight DEF Shape, RowShape, Locals
<1>2. acct[a].hold \in Int
  BY <1>0 DEF TypeInv, TypeOK, AccountRows
<1>3. old \in Nat /\ new \in Nat
  BY <1>1 DEF Share, PaymentRows
<1>4. req[h].at \in {"hold", "release", "reject"} => req[h].amt = pay[p].amount
  BY DEF HoldInv, AmountRead
<1>5. CASE HoldCommit(h)
  <2>1. req[h].at = "hold" /\ pay'[p].amount = pay[p].amount
    BY <1>1, <1>5 DEF HoldCommit, RowFlow
  <2>2. new <= IF a = SourceOf(p) THEN req[h].amt ELSE 0
    BY <1>1, <1>4, <2>1 DEF Share, SourceOf
  <2>3. acct'[a].hold = acct[a].hold + (IF a = SourceOf(p) THEN req[h].amt ELSE 0)
    BY <1>0, <1>5, HoldTaken
  <2> HIDE DEF p, old, new
  <2>5. new - old <= acct'[a].hold - acct[a].hold
    BY <1>1, <1>2, <1>3, <2>2, <2>3
  <2> QED
    BY <2>5 DEF p, old, new
<1>6. CASE ReleaseCommit(h) \/ RejectCommit(h)
  <2>1. req[h].at \in {"release", "reject"}
    BY <1>6 DEF ReleaseCommit, RejectCommit
  <2>2. pay[p].status = "HELD"
    BY <1>1, <2>1 DEF LifeInv, StageInv, StatusAt
  <2>3. old = IF a = SourceOf(p) THEN req[h].amt ELSE 0
    BY <1>4, <2>1, <2>2 DEF Share, SourceOf
  <2>4. new = 0 /\ acct'[a].hold = acct[a].hold - (IF a = SourceOf(p) THEN req[h].amt ELSE 0)
    BY <1>0, <1>6, HoldReturned DEF Share
  <2> HIDE DEF p, old, new
  <2>5. new - old <= acct'[a].hold - acct[a].hold
    BY <1>1, <1>2, <1>3, <2>3, <2>4
  <2> QED
    BY <2>5 DEF p, old, new
<1>7. CASE ~HoldCommit(h) /\ ~ReleaseCommit(h) /\ ~RejectCommit(h)
  <2>1. acct'[a].hold = acct[a].hold
    BY <1>0, <1>7, HoldStays
  <2>2. pay'[p].status = "HELD" => pay[p].status = "HELD"
    <3>1. CASE Fail(h)
      BY <3>1 DEF Fail
    <3>2. CASE Step(h) /\ req[h].at = "hold"
      BY <1>7, <3>2, AtHold
    <3>3. CASE req[h].at # "hold"
      BY <1>1, <3>3 DEF RowFlow
    <3> QED
      BY <3>1, <3>2, <3>3
  <2>3. pay[p].status = "HELD" => pay'[p].amount = pay[p].amount
    BY <1>1 DEF EditsSpareHolds, RowFlow
  <2>4. new <= old
    BY <1>1, <1>3, <2>2, <2>3 DEF Share
  <2> HIDE DEF p, old, new
  <2>5. new - old <= acct'[a].hold - acct[a].hold
    BY <1>2, <1>3, <2>1, <2>4
  <2> QED
    BY <2>5 DEF p, old, new
<1> QED
  BY <1>5, <1>6, <1>7

\* A handler about to hold has just read the amount.
LEMMA AmountReadFlow ==
  ASSUME LifeInv, AmountRead, NEW h \in Handlers, Step(h) \/ Fail(h)
  PROVE  AmountRead'
<1> DEFINE p == req[h].on
<1>0. TypeInv /\ TurnsInv
  BY DEF LifeInv
<1>1. /\ p \in Payments /\ req[h].at # "idle" /\ Flow(h) /\ RowFlow(h)
      /\ req'[h] = Idle \/ req'[h].on = p
  BY <1>0, StepShape, StepFlow, StepRowFlow, InFlight DEF Shape, LocalShape
<1>2. ASSUME NEW g \in Handlers \ {h}, req'[g].at \in {"hold", "release", "reject"}
      PROVE  req'[g].amt = pay'[req'[g].on].amount
  <2>1. req'[g] = req[g] /\ req[g].on # p
    BY <1>0, TurnsLocal
  <2>2. req[g].on \in Payments
    BY <1>0, <1>2, <2>1, InFlight
  <2> QED
    BY <1>0, <1>2, <2>1, <2>2, TurnsLocal DEF AmountRead
<1>3. ASSUME req'[h].at \in {"hold", "release", "reject"}
      PROVE  req'[h].amt = pay'[req'[h].on].amount
  <2>1. req'[h] # Idle /\ req[h].at = "holdRead" /\ req'[h].on = p
    BY <1>1, <1>3 DEF Flow, Edges, Idle
  <2>2. HoldRead(h)
    BY <2>1, AtHold, <1>0, FinishFlow DEF Fail
  <2>3. req'[h].amt = pay[p].amount /\ pay' = pay
    BY <1>0, <2>2 DEF HoldRead, TypeInv, TypeOK, Locals
  <2> QED
    BY <2>1, <2>3
<1> QED
  BY <1>2, <1>3 DEF AmountRead

LEMMA HoldStep == LifeInv /\ LifeInv' /\ EditsSpareHolds /\ HoldInv /\ [Next]_vars => HoldInv'
<1> SUFFICES ASSUME LifeInv, LifeInv', EditsSpareHolds, HoldInv, [Next]_vars PROVE HoldInv'
  OBVIOUS
<1>0. /\ TypeInv /\ TurnsInv
      /\ pay \in [Payments -> PaymentRows] /\ pay' \in [Payments -> PaymentRows]
      /\ \A a \in Accounts : acct[a].hold \in Int /\ acct'[a].hold \in Int
  BY DEF LifeInv, TypeInv, TypeOK, AccountRows
<1>1. ASSUME NEW h \in Handlers, Step(h) \/ Fail(h) PROVE HoldInv'
  <2>1. AmountRead'
    BY <1>1, AmountReadFlow DEF HoldInv
  <2>2. ASSUME NEW a \in Accounts PROVE acct'[a].hold >= Held(pay', a)
    <3> DEFINE p == req[h].on
               old == Share(pay[p], a)
               new == Share(pay'[p], a)
    <3>1. p \in Payments /\ \A q \in Payments : q # p => pay'[q] = pay[q]
      BY <1>0, <1>1, StepShape, InFlight, TurnsLocal
    <3>2. new - old <= acct'[a].hold - acct[a].hold
      BY <1>1, ShareCovered
    <3>3. old \in Int /\ new \in Int
      BY <1>0, <3>1 DEF Share, PaymentRows
    <3> HIDE DEF p, old, new
    <3>4. /\ Held(pay, a) \in Int /\ Held(pay', a) \in Int
          /\ Held(pay', a) = Held(pay, a) + new - old
      BY <1>0, <3>1, HeldMoves DEF old, new
    <3>5. acct[a].hold >= Held(pay, a)
      BY DEF HoldInv
    <3> QED
      BY <1>0, <3>2, <3>3, <3>4, <3>5
  <2> QED
    BY <2>1, <2>2 DEF HoldInv
<1>2. CASE UNCHANGED vars
  <2>1. UNCHANGED <<pay, acct, req>>
    BY <1>2 DEF vars
  <2> QED
    BY <2>1 DEF HoldInv, AmountRead
<1>3. ASSUME NEW p \in Payments, NEW b \in Amounts, NEW s \in Sources, Initiate(p, b, s)
      PROVE  HoldInv'
  <2>1. /\ pay[p].status = "ABSENT" /\ req' = req /\ acct' = acct /\ pay'[p].status = "NEW"
        /\ \A q \in Payments : q # p => pay'[q] = pay[q]
    BY <1>0, <1>3 DEF Initiate, Draft, NoPayment, ledgerVars
  <2>2. \A h \in Handlers : req[h].at # "idle" => req[h].on # p /\ req[h].on \in Payments
    BY <1>0, <2>1, InFlight
  <2>3. AmountRead'
    BY <2>1, <2>2 DEF HoldInv, AmountRead
  <2>4. ASSUME NEW a \in Accounts PROVE acct'[a].hold >= Held(pay', a)
    <3>1. Share(pay[p], a) = 0 /\ Share(pay'[p], a) = 0
      BY <2>1 DEF Share
    <3>2. Held(pay', a) = Held(pay, a)
      BY <1>0, <2>1, <3>1, HeldMoves
    <3> QED
      BY <2>1, <3>2 DEF HoldInv
  <2> QED
    BY <2>3, <2>4 DEF HoldInv
<1>4. ASSUME NEW h \in Handlers, NEW p \in Payments, Request(h, p)
      PROVE  HoldInv'
  <2>1. /\ req'[h].on = p /\ pay' = pay /\ acct' = acct
        /\ \A g \in Handlers : g # h => req'[g] = req[g]
        /\ req'[h].at \in {"issue", "score", "verify", "write", "delete", "release", "reject"}
    BY <1>0, <1>4, RequestFrame DEF TypeInv, TypeOK
  <2>2. req'[h].at \in {"release", "reject"} => req'[h].amt = pay[p].amount
    BY <1>0, <1>4, ReleaseReads
  <2>3. AmountRead'
    BY <2>1, <2>2 DEF HoldInv, AmountRead
  <2> QED
    BY <2>1, <2>3 DEF HoldInv
<1> QED
  BY <1>1, <1>2, <1>3, <1>4 DEF Next

\* Where a payment has one request at a time, the holdAmount of an account covers
\* its held payments as long as no edit is about to change the amount of one,
\* however many requests about other payments share the account and whatever
\* dies: update writes the amount and leaves holdAmount as it is.
THEOREM HoldsCovered == ASSUME ~Overlap PROVE Spec /\ []EditsSpareHolds => []HeldFundsReserved
<1>1. Init => HoldInv
  <2> SUFFICES ASSUME Init PROVE HoldInv
    OBVIOUS
  <2>1. \A a \in Accounts : HeldRows(pay, a) = {} /\ acct[a].hold = 0
    BY DEF Init, NoPayment, HeldRows
  <2>2. \A a \in Accounts : Held(pay, a) = 0
    BY <2>1, SumEmpty DEF Held
  <2> QED
    BY <2>1, <2>2 DEF HoldInv, AmountRead, Init, Idle
<1>2. LifeInv /\ LifeInv' /\ EditsSpareHolds /\ HoldInv /\ [Next]_vars => HoldInv'
  BY HoldStep
<1>3. Spec => []LifeInv
  BY LifeAlways
<1>4. HoldInv => HeldFundsReserved
  BY DEF HoldInv, Held, HeldRows, Amount, HeldOn, HeldFundsReserved
<1> QED
  BY <1>1, <1>2, <1>3, <1>4, PTL DEF Spec

-----------------------------------------------------------------------------
(* Both hypotheses hold where the clients give no occasion for less.       *)

LEMMA NobodyEdits ==
  ASSUME \A p \in Payments : "update" \notin Ops[p] PROVE Spec => []EditsSpareHolds
<1> DEFINE NoWrite == \A h \in Handlers : req[h].at # "write"
<1>1. Init => NoWrite
  BY DEF Init, Idle
<1>2. NoWrite /\ TypeInv /\ [Next]_vars => NoWrite'
  <2> SUFFICES ASSUME NoWrite, TypeInv, [Next]_vars PROVE NoWrite'
    OBVIOUS
  <2>1. ASSUME NEW h \in Handlers, Step(h) \/ Fail(h) PROVE NoWrite'
    BY <2>1, StepShape DEF Shape, LocalShape, Idle, TypeInv, TypeOK
  <2>2. ASSUME NEW h \in Handlers, NEW p \in Payments, Request(h, p) PROVE NoWrite'
    BY <2>2, RequestFrame, WriteAsked DEF TypeInv, TypeOK
  <2> QED
    BY <2>1, <2>2 DEF Next, Initiate, vars
<1>3. NoWrite => EditsSpareHolds
  BY DEF EditsSpareHolds
<1> HIDE DEF NoWrite
<1> QED
  BY <1>1, <1>2, <1>3, TypeAlways, PTL DEF Spec

\* Where one request is in flight at all and nobody edits, the books are right:
\* the statements chain, no money is made or lost, the held funds are reserved.
THEOREM BooksOfOneHandler ==
  ASSUME \A g, h \in Handlers : g = h, ~Overlap, \A p \in Payments : "update" \notin Ops[p]
  PROVE  Spec => [](StatementChain /\ Conservation /\ HeldFundsReserved)
<1>1. PostingsTakeTurns
  BY DEF PostingsTakeTurns
<1> QED
  BY <1>1, StatementsChain, MoneyConserved, NobodyEdits, HoldsCovered, PTL

=============================================================================
