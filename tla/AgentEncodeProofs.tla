-------------------------- MODULE AgentEncodeProofs --------------------------
(***************************************************************************)
(* The agent's encoder says what it was given, whatever the reports: each  *)
(* trace has a sample of its own, which decodes to the frames of its stack *)
(* and to one label per key.                                               *)
(***************************************************************************)
EXTENDS AgentEncode, FiniteSetTheorems, WellFoundedInduction, TLAPS

LEMMA LeastNumber ==
  ASSUME NEW S \in SUBSET Nat, S # {}
  PROVE  \E m \in S : \A k \in S : m <= k
<1>1. PICK m \in S : \A k \in S : ~ (<<k, m>> \in OpToRel(<, Nat))
  BY NatLessThanWellFounded, WFMin
<1>2. \A k \in S : ~ (k < m)
  BY <1>1 DEF OpToRel
<1> QED BY <1>2

\* Of some finite sets, one has the fewest elements.
LEMMA Smallest ==
  ASSUME NEW B, B # {}, \A S \in B : IsFiniteSet(S)
  PROVE  \E S \in B : \A T : IsFiniteSet(T) /\ Cardinality(T) < Cardinality(S) => T \notin B
<1> DEFINE sizes == {Cardinality(S) : S \in B}
<1>1. sizes \in SUBSET Nat /\ sizes # {}
  BY FS_CardinalityType
<1>2. PICK m \in sizes : \A k \in sizes : m <= k
  <2> HIDE DEF sizes
  <2> QED BY <1>1, LeastNumber
<1>3. PICK S \in B : Cardinality(S) = m
  OBVIOUS
<1>4. ASSUME NEW T, IsFiniteSet(T), Cardinality(T) < Cardinality(S), T \in B PROVE FALSE
  <2>1. Cardinality(T) \in sizes
    BY <1>4
  <2>2. m <= Cardinality(T) /\ m \in Nat /\ Cardinality(T) \in Nat
    BY <1>1, <1>2, <2>1
  <2> QED BY <1>3, <1>4, <2>2
<1> QED BY <1>4

-----------------------------------------------------------------------------
(* The sum of a function over a finite set, one element after another.     *)

Pick(s) == CHOOSE x \in s : TRUE
Recurs(f, S, it) == it = [s \in SUBSET S |-> IF s = {} THEN 0 ELSE f[Pick(s)] + it[s \ {Pick(s)}]]
Total(f, S) == (CHOOSE it : Recurs(f, S, it))[S]

LEMMA PickLess ==
  ASSUME NEW s, IsFiniteSet(s), s # {}
  PROVE  /\ Pick(s) \in s /\ IsFiniteSet(s \ {Pick(s)})
         /\ Cardinality(s \ {Pick(s)}) < Cardinality(s)
<1>1. Pick(s) \in s
  BY DEF Pick
<1>2. IsFiniteSet(s \ {Pick(s)}) /\ Cardinality(s \ {Pick(s)}) = Cardinality(s) - 1 /\ Cardinality(s) \in Nat
  BY <1>1, FS_RemoveElement, FS_CardinalityType
<1> QED BY <1>1, <1>2

LEMMA RecursOnce ==
  ASSUME NEW f, NEW S, IsFiniteSet(S), NEW T \in SUBSET S, NEW it, Recurs(f, S, it),
         NEW jt, Recurs(f, T, jt)
  PROVE  \A s \in SUBSET T : jt[s] = it[s]
<1> DEFINE B == {s \in SUBSET T : jt[s] # it[s]}
<1> SUFFICES ASSUME B # {} PROVE FALSE
  OBVIOUS
<1>1. \A s \in B : IsFiniteSet(s)
  BY FS_Subset
<1>2. PICK s \in B : \A t : IsFiniteSet(t) /\ Cardinality(t) < Cardinality(s) => t \notin B
  <2> HIDE DEF B
  <2> QED BY <1>1, Smallest
<1>3. s \in SUBSET T /\ s \in SUBSET S
  OBVIOUS
<1>4. s # {}
  <2>1. {} \in SUBSET T /\ {} \in SUBSET S
    OBVIOUS
  <2>2. jt[{}] = 0 /\ it[{}] = 0
    BY <2>1 DEF Recurs
  <2> QED BY <2>2
<1> DEFINE rest == s \ {Pick(s)}
<1>5. IsFiniteSet(rest) /\ Cardinality(rest) < Cardinality(s)
  BY <1>1, <1>4, PickLess
<1>6. rest \notin B /\ rest \in SUBSET T
  BY <1>2, <1>5
<1>7. jt[s] = f[Pick(s)] + jt[rest] /\ it[s] = f[Pick(s)] + it[rest]
  BY <1>3, <1>4 DEF Recurs
<1>8. jt[rest] = it[rest]
  BY <1>6
<1> HIDE DEF rest
<1> QED BY <1>7, <1>8

LEMMA RecursAgain ==
  ASSUME NEW f, NEW S, IsFiniteSet(S), \E it : Recurs(f, S, it), NEW s \in SUBSET S,
         \E jt : Recurs(f, s, jt)
  PROVE  (CHOOSE it : Recurs(f, S, it))[s] = Total(f, s)
<1> DEFINE it == CHOOSE i : Recurs(f, S, i)
           jt == CHOOSE j : Recurs(f, s, j)
<1>1. Recurs(f, S, it) /\ Recurs(f, s, jt)
  OBVIOUS
<1>2. Total(f, s) = jt[s]
  BY DEF Total
<1> HIDE DEF it, jt
<1>3. jt[s] = it[s]
  BY <1>1, RecursOnce
<1> QED BY <1>2, <1>3 DEF it

LEMMA RecursExists ==
  ASSUME NEW f, NEW Q, IsFiniteSet(Q)
  PROVE  \A S \in SUBSET Q : \E it : Recurs(f, S, it)
<1> DEFINE B == {S \in SUBSET Q : ~ \E it : Recurs(f, S, it)}
<1> SUFFICES ASSUME B # {} PROVE FALSE
  OBVIOUS
<1>1. \A s \in B : IsFiniteSet(s)
  BY FS_Subset
<1>2. PICK S \in B : \A t : IsFiniteSet(t) /\ Cardinality(t) < Cardinality(S) => t \notin B
  <2> HIDE DEF B
  <2> QED BY <1>1, Smallest
<1>3. S \in SUBSET Q /\ IsFiniteSet(S) /\ ~ \E it : Recurs(f, S, it)
  BY <1>1
<1>4. ASSUME NEW t \in SUBSET S, t # S PROVE IsFiniteSet(t) /\ \E it : Recurs(f, t, it)
  <2>1. IsFiniteSet(t) /\ Cardinality(t) < Cardinality(S)
    <3>1. /\ IsFiniteSet(t) /\ Cardinality(t) <= Cardinality(S) /\ Cardinality(t) # Cardinality(S)
          /\ Cardinality(t) \in Nat /\ Cardinality(S) \in Nat
      BY <1>3, <1>4, FS_Subset, FS_CardinalityType
    <3> QED BY <3>1
  <2>2. t \notin B /\ t \in SUBSET Q
    BY <1>2, <1>3, <2>1
  <2> QED BY <2>1, <2>2
<1> DEFINE it == [s \in SUBSET S |-> IF s = {} THEN 0 ELSE f[Pick(s)] + Total(f, s \ {Pick(s)})]
<1>5. ASSUME NEW t \in SUBSET S, t # S PROVE it[t] = Total(f, t)
  <2> DEFINE jt == CHOOSE j : Recurs(f, t, j)
             rest == t \ {Pick(t)}
  <2>1. Recurs(f, t, jt) /\ Total(f, t) = jt[t]
    BY <1>4, <1>5 DEF Total
  <2> HIDE DEF jt
  <2>2. jt[t] = IF t = {} THEN 0 ELSE f[Pick(t)] + jt[rest]
    BY <2>1 DEF Recurs
  <2>3. CASE t = {}
    BY <2>1, <2>2, <2>3
  <2>4. CASE t # {}
    <3>1. rest \in SUBSET t /\ rest \in SUBSET S /\ rest # S
      BY <1>5
    <3>2. IsFiniteSet(t) /\ \E i : Recurs(f, t, i)
      BY <1>4, <1>5
    <3>3. \E i : Recurs(f, rest, i)
      BY <1>4, <3>1
    <3> HIDE DEF rest
    <3>4. jt[rest] = Total(f, rest)
      BY <3>1, <3>2, <3>3, RecursAgain DEF jt
    <3>5. it[t] = f[Pick(t)] + Total(f, rest)
      BY <2>4 DEF rest
    <3> QED BY <2>1, <2>2, <2>4, <3>4, <3>5
  <2> QED BY <2>3, <2>4
<1>6. ASSUME NEW s \in SUBSET S
      PROVE  it[s] = IF s = {} THEN 0 ELSE f[Pick(s)] + it[s \ {Pick(s)}]
  <2>1. CASE s = {}
    BY <2>1
  <2>2. CASE s # {}
    <3>1. Pick(s) \in s
      BY <2>2 DEF Pick
    <3>2. s \ {Pick(s)} \in SUBSET S /\ s \ {Pick(s)} # S
      BY <3>1
    <3>3. it[s \ {Pick(s)}] = Total(f, s \ {Pick(s)})
      BY <1>5, <3>2
    <3>4. it[s] = f[Pick(s)] + Total(f, s \ {Pick(s)})
      BY <2>2
    <3> HIDE DEF it
    <3> QED BY <2>2, <3>3, <3>4
  <2> QED BY <2>1, <2>2
<1>7. Recurs(f, S, it)
  BY <1>6 DEF Recurs
<1> QED BY <1>3, <1>7

\* The first element that is taken, and the others.
LEMMA TotalStep ==
  ASSUME NEW f, NEW S, IsFiniteSet(S)
  PROVE  Total(f, S) = IF S = {} THEN 0 ELSE f[Pick(S)] + Total(f, S \ {Pick(S)})
<1> DEFINE it == CHOOSE i : Recurs(f, S, i)
           rest == S \ {Pick(S)}
<1>1. \A T \in SUBSET S : \E i : Recurs(f, T, i)
  BY RecursExists
<1>2. S \in SUBSET S /\ rest \in SUBSET S
  OBVIOUS
<1>3. Recurs(f, S, it) /\ Total(f, S) = it[S]
  BY <1>1, <1>2 DEF Total
<1>4. it[rest] = Total(f, rest)
  <2>1. (\E i : Recurs(f, S, i)) /\ (\E j : Recurs(f, rest, j))
    BY <1>1, <1>2
  <2> HIDE DEF rest
  <2> QED BY <1>2, <2>1, RecursAgain
<1> HIDE DEF it
<1>5. it[S] = IF S = {} THEN 0 ELSE f[Pick(S)] + it[rest]
  BY <1>2, <1>3 DEF Recurs
<1> HIDE DEF rest
<1>6. Total(f, S) = IF S = {} THEN 0 ELSE f[Pick(S)] + Total(f, rest)
  BY <1>3, <1>4, <1>5
<1> QED BY <1>6 DEF rest

LEMMA TotalNat ==
  ASSUME NEW f, NEW Q, IsFiniteSet(Q), \A x \in Q : f[x] \in Nat
  PROVE  \A S \in SUBSET Q : Total(f, S) \in Nat
<1> DEFINE B == {S \in SUBSET Q : Total(f, S) \notin Nat}
<1> SUFFICES ASSUME B # {} PROVE FALSE
  OBVIOUS
<1>1. \A s \in B : IsFiniteSet(s)
  BY FS_Subset
<1>2. PICK S \in B : \A t : IsFiniteSet(t) /\ Cardinality(t) < Cardinality(S) => t \notin B
  <2> HIDE DEF B
  <2> QED BY <1>1, Smallest
<1>3. Total(f, S) = IF S = {} THEN 0 ELSE f[Pick(S)] + Total(f, S \ {Pick(S)})
  BY <1>1, TotalStep
<1>4. S # {} /\ S \in SUBSET Q /\ Total(f, S) \notin Nat
  BY <1>3
<1>5. Pick(S) \in S /\ S \ {Pick(S)} \notin B
  BY <1>1, <1>2, <1>4, PickLess
<1>6. f[Pick(S)] \in Nat /\ Total(f, S \ {Pick(S)}) \in Nat
  BY <1>4, <1>5
<1> QED BY <1>3, <1>4, <1>6

\* Any element and the others.
LEMMA TotalAny ==
  ASSUME NEW f, NEW Q, IsFiniteSet(Q), \A x \in Q : f[x] \in Nat
  PROVE  \A S \in SUBSET Q : \A x \in S : Total(f, S) = f[x] + Total(f, S \ {x})
<1> DEFINE Fine(S) == \A x \in S : Total(f, S) = f[x] + Total(f, S \ {x})
           B == {S \in SUBSET Q : ~ Fine(S)}
<1> SUFFICES ASSUME B # {} PROVE FALSE
  OBVIOUS
<1>1. \A s \in B : IsFiniteSet(s)
  BY FS_Subset
<1>2. PICK S \in B : \A t : IsFiniteSet(t) /\ Cardinality(t) < Cardinality(S) => t \notin B
  <2> HIDE DEF B
  <2> QED BY <1>1, Smallest
<1>3. PICK x \in S : Total(f, S) # f[x] + Total(f, S \ {x})
  OBVIOUS
<1>4. S \in SUBSET Q /\ IsFiniteSet(S) /\ S # {}
  BY <1>1
<1> DEFINE p == Pick(S)
<1>5. p \in S /\ Total(f, S) = f[p] + Total(f, S \ {p})
  BY <1>4, TotalStep, PickLess
<1> HIDE DEF p
<1>6. p # x
  BY <1>3, <1>5
<1>7. ASSUME NEW y \in S, NEW z \in S \ {y} PROVE Total(f, S \ {y}) = f[z] + Total(f, (S \ {y}) \ {z})
  <2>1. IsFiniteSet(S \ {y}) /\ Cardinality(S \ {y}) < Cardinality(S)
    <3>1. IsFiniteSet(S \ {y}) /\ Cardinality(S \ {y}) = Cardinality(S) - 1 /\ Cardinality(S) \in Nat
      BY <1>4, FS_RemoveElement, FS_CardinalityType
    <3> QED BY <3>1
  <2>2. S \ {y} \notin B /\ S \ {y} \in SUBSET Q
    BY <1>2, <1>4, <2>1
  <2>3. Fine(S \ {y})
    BY <2>2
  <2> QED BY <1>7, <2>3
<1> HIDE DEF B
<1> DEFINE both == (S \ {p}) \ {x}
<1>8. Total(f, S \ {p}) = f[x] + Total(f, both)
  BY <1>5, <1>6, <1>7
<1>9. Total(f, S \ {x}) = f[p] + Total(f, both)
  <2>1. both = (S \ {x}) \ {p}
    OBVIOUS
  <2>2. Total(f, S \ {x}) = f[p] + Total(f, (S \ {x}) \ {p})
    BY <1>5, <1>6, <1>7
  <2> QED BY <2>1, <2>2
<1>10. f[x] \in Nat /\ f[p] \in Nat /\ Total(f, both) \in Nat
  <2>1. both \in SUBSET Q /\ x \in Q /\ p \in Q
    BY <1>4, <1>5
  <2> HIDE DEF both
  <2> QED BY <2>1, TotalNat
<1> HIDE DEF both
<1> QED BY <1>3, <1>5, <1>8, <1>9, <1>10

\* Two functions whose values correspond, one to one, have the same sum.
LEMMA TotalsCorrespond ==
  ASSUME NEW P, IsFiniteSet(P), NEW Q, IsFiniteSet(Q),
         NEW g, \A x \in P : g[x] \in Q, \A x, y \in P : g[x] = g[y] => x = y,
         NEW c \in Nat, NEW f, NEW h, \A y \in Q : h[y] \in Nat,
         \A x \in P : f[x] = h[g[x]] * c
  PROVE  \A S \in SUBSET P : Total(f, S) = c * Total(h, {g[x] : x \in S})
<1> DEFINE Image(S) == {g[x] : x \in S}
           B == {S \in SUBSET P : Total(f, S) # c * Total(h, Image(S))}
<1> SUFFICES ASSUME B # {} PROVE FALSE
  OBVIOUS
<1>1. \A s \in B : IsFiniteSet(s)
  BY FS_Subset
<1>2. PICK S \in B : \A t : IsFiniteSet(t) /\ Cardinality(t) < Cardinality(S) => t \notin B
  <2> HIDE DEF B
  <2> QED BY <1>1, Smallest
<1>3. S \in SUBSET P /\ IsFiniteSet(S) /\ Total(f, S) # c * Total(h, Image(S))
  BY <1>1
<1>4. Total(h, {}) = 0 /\ Total(f, {}) = 0
  BY FS_EmptySet, TotalStep
<1>5. S # {}
  <2>1. Image({}) = {}
    OBVIOUS
  <2>2. c * 0 = 0
    OBVIOUS
  <2> HIDE DEF Image
  <2> QED BY <1>3, <1>4, <2>1, <2>2
<1>6. PICK x \in S : TRUE
  BY <1>5
<1> DEFINE rest == S \ {x}
<1>7. Total(f, rest) = c * Total(h, Image(rest))
  <2>1. IsFiniteSet(rest) /\ Cardinality(rest) = Cardinality(S) - 1 /\ Cardinality(S) \in Nat
    BY <1>3, <1>6, FS_RemoveElement, FS_CardinalityType
  <2>2. rest \notin B
    BY <1>2, <2>1
  <2> QED BY <1>3, <2>2
<1>8. Image(rest) = Image(S) \ {g[x]} /\ g[x] \in Image(S) /\ Image(S) \in SUBSET Q /\ Image(rest) \in SUBSET Q
  BY <1>3, <1>6
<1>9. Total(f, S) = f[x] + Total(f, rest)
  <2>1. \A y \in P : f[y] \in Nat
    OBVIOUS
  <2> QED BY <1>3, <1>6, <2>1, TotalAny
<1>10. Total(h, Image(S)) = h[g[x]] + Total(h, Image(rest))
  <2> HIDE DEF Image, rest
  <2> QED BY <1>8, TotalAny
<1>11. h[g[x]] \in Nat /\ Total(h, Image(rest)) \in Nat /\ f[x] = h[g[x]] * c
  <2>1. x \in P /\ g[x] \in Q
    BY <1>3, <1>6
  <2> HIDE DEF Image, rest
  <2> QED BY <1>8, <2>1, TotalNat
<1> DEFINE a == Total(h, Image(rest))
           d == h[g[x]]
<1>12. c * (d + a) = d * c + c * a
  <2> HIDE DEF a, d
  <2>1. a \in Nat /\ d \in Nat
    BY <1>11 DEF a, d
  <2> QED BY <2>1
<1> HIDE DEF B, Image, rest
<1> QED BY <1>3, <1>7, <1>9, <1>10, <1>11, <1>12

\* The sums that the model takes.
LEMMA SumOfCounts ==
  ASSUME NEW b, NEW S
  PROVE  MapThenSumSet(LAMBDA e : b[e], S) = Total(b, S)
  BY DEF MapThenSumSet, MapThenFoldSet, Total, Recurs, Pick

LEMMA SumOfValues ==
  ASSUME NEW p, NEW S \in SUBSET DOMAIN p.sample, IsFiniteSet(S)
  PROVE  MapThenSumSet(LAMBDA i : p.sample[i].value, S) =
           Total([i \in DOMAIN p.sample |-> p.sample[i].value], S)
<1> DEFINE v == [i \in DOMAIN p.sample |-> p.sample[i].value]
           Sums(f) == f = [s \in SUBSET S |-> IF s = {} THEN 0
                                             ELSE p.sample[Pick(s)].value + f[s \ {Pick(s)}]]
           iter == CHOOSE f : Sums(f)
           it == CHOOSE i : Recurs(v, S, i)
<1>1. MapThenSumSet(LAMBDA i : p.sample[i].value, S) = iter[S]
  BY DEF MapThenSumSet, MapThenFoldSet, Pick
<1>2. \A s \in SUBSET S : s # {} => v[Pick(s)] = p.sample[Pick(s)].value
  <2>1. \A s \in SUBSET S : s # {} => Pick(s) \in DOMAIN p.sample
    BY DEF Pick
  <2> QED BY <2>1
<1> HIDE DEF v
<1>3. \A f : Recurs(v, S, f) <=> Sums(f)
  <2> SUFFICES ASSUME NEW f PROVE Recurs(v, S, f) <=> Sums(f)
    OBVIOUS
  <2>1. [s \in SUBSET S |-> IF s = {} THEN 0 ELSE v[Pick(s)] + f[s \ {Pick(s)}]] =
        [s \in SUBSET S |-> IF s = {} THEN 0 ELSE p.sample[Pick(s)].value + f[s \ {Pick(s)}]]
    BY <1>2
  <2> QED BY <2>1 DEF Recurs
<1>4. Recurs(v, S, it)
  <2>1. \A T \in SUBSET S : \E i : Recurs(v, T, i)
    BY RecursExists
  <2> QED BY <2>1
<1>5. Recurs(v, S, iter)
  <2>1. Sums(it)
    BY <1>3, <1>4
  <2>2. Sums(iter)
    BY <2>1
  <2> QED BY <1>3, <2>2
<1> HIDE DEF Sums, iter
<1>6. Total(v, S) = it[S]
  BY DEF Total
<1> HIDE DEF it
<1>7. iter[S] = it[S]
  <2>1. S \in SUBSET S
    OBVIOUS
  <2> QED BY <1>4, <1>5, <2>1, RecursOnce
<1> QED BY <1>1, <1>6, <1>7 DEF v

-----------------------------------------------------------------------------
(* Tables.                                                                 *)

IsTable(q) == q \in Seq({q[i] : i \in DOMAIN q})
Distinct(q) == \A i, j \in DOMAIN q : q[i] = q[j] => i = j
Extends(q, r) == \A i \in DOMAIN q : i \in DOMAIN r /\ r[i] = q[i]

LEMMA Appended ==
  ASSUME NEW q, IsTable(q), NEW e
  PROVE  /\ Len(q) \in Nat /\ DOMAIN q = 1..Len(q)
         /\ IsTable(Append(q, e)) /\ DOMAIN Append(q, e) = 1..(Len(q) + 1)
         /\ Len(Append(q, e)) = Len(q) + 1
         /\ \A i \in 1..Len(q) : Append(q, e)[i] = q[i]
         /\ Append(q, e)[Len(q) + 1] = e
<1> DEFINE S == {q[i] : i \in DOMAIN q} \union {e}
           r == Append(q, e)
<1>1. q \in Seq(S) /\ e \in S
  <2>1. {q[i] : i \in DOMAIN q} \subseteq S
    OBVIOUS
  <2> HIDE DEF S
  <2>2. q \in Seq({q[i] : i \in DOMAIN q})
    BY DEF IsTable
  <2>3. q \in Seq(S)
    BY <2>1, <2>2
  <2> QED BY <2>3 DEF S
<1> HIDE DEF S
<1>2. /\ Len(q) \in Nat /\ DOMAIN q = 1..Len(q) /\ r \in Seq(S)
      /\ Len(r) = Len(q) + 1 /\ DOMAIN r = 1..(Len(q) + 1)
      /\ \A i \in 1..Len(q) : r[i] = q[i]
      /\ r[Len(q) + 1] = e
  BY <1>1
<1> HIDE DEF r
<1>3. r \in Seq({r[i] : i \in DOMAIN r})
  BY <1>2
<1> QED BY <1>2, <1>3 DEF r, IsTable

\* What is interned has a place, and what was in the table keeps its own.
LEMMA Interned ==
  ASSUME NEW q, IsTable(q), NEW e
  PROVE  LET r == Intern(q, e)
         IN  /\ IsTable(r) /\ Extends(q, r) /\ (Distinct(q) => Distinct(r))
             /\ Place(r, e) \in DOMAIN r /\ Place(r, e) \in Nat \ {0} /\ r[Place(r, e)] = e
             /\ \A i \in DOMAIN r : r[i] = e \/ (i \in DOMAIN q /\ r[i] = q[i])
<1> DEFINE r == Intern(q, e)
           n == Len(q)
<1>1. n \in Nat /\ DOMAIN q = 1..n
  BY Appended
<1>2. /\ IsTable(r) /\ Extends(q, r) /\ (Distinct(q) => Distinct(r))
      /\ \E i \in DOMAIN r : r[i] = e
      /\ DOMAIN r \subseteq Nat \ {0}
      /\ \A i \in DOMAIN r : r[i] = e \/ (i \in DOMAIN q /\ r[i] = q[i])
  <2>1. CASE Contains(q, e)
    <3>1. r = q
      BY <2>1 DEF Intern
    <3>2. \E i \in DOMAIN q : q[i] = e
      BY <1>1, <2>1 DEF Contains
    <3> QED BY <1>1, <3>1, <3>2 DEF Extends
  <2>2. CASE ~ Contains(q, e)
    <3>1. r = Append(q, e)
      BY <2>2 DEF Intern
    <3> HIDE DEF r
    <3>2. /\ IsTable(r) /\ DOMAIN r = 1..(n + 1)
          /\ \A i \in 1..n : r[i] = q[i]
          /\ r[n + 1] = e
      BY <3>1, Appended
    <3>3. \A i \in 1..n : q[i] # e
      BY <2>2 DEF Contains
    <3> HIDE DEF n
    <3>4. Extends(q, r)
      BY <1>1, <3>2 DEF Extends
    <3>5. Distinct(q) => Distinct(r)
      <4> SUFFICES ASSUME Distinct(q), NEW i \in 1..(n + 1), NEW j \in 1..(n + 1), r[i] = r[j]
                   PROVE  i = j
        BY <3>2 DEF Distinct
      <4>1. CASE i \in 1..n /\ j \in 1..n
        BY <1>1, <3>2, <4>1 DEF Distinct
      <4>2. CASE i = n + 1 \/ j = n + 1
        BY <1>1, <3>2, <3>3, <4>2
      <4> QED BY <1>1, <4>1, <4>2
    <3>6. ASSUME NEW i \in DOMAIN r PROVE r[i] = e \/ (i \in DOMAIN q /\ r[i] = q[i])
      <4>1. i \in 1..n \/ i = n + 1
        BY <1>1, <3>2
      <4> QED BY <1>1, <3>2, <4>1
    <3>7. n + 1 \in DOMAIN r /\ DOMAIN r \subseteq Nat \ {0}
      BY <1>1, <3>2
    <3> QED BY <3>2, <3>4, <3>5, <3>6, <3>7
  <2> QED BY <2>1, <2>2
<1> HIDE DEF r
<1>3. Place(r, e) \in DOMAIN r /\ r[Place(r, e)] = e
  BY <1>2 DEF Place
<1> QED BY <1>2, <1>3 DEF r

LEMMA ExtendsAll == \A q : Extends(q, q)
  BY DEF Extends

LEMMA ExtendsOn == \A q, r, s : Extends(q, r) /\ Extends(r, s) => Extends(q, s)
  BY DEF Extends

-----------------------------------------------------------------------------
(* The builder.                                                            *)

BuilderFields == {"string_table", "function", "location", "sample"}
HasString(b, id) == id \in Nat /\ id + 1 \in DOMAIN b.string_table
IsSample(b, s) ==
  /\ \A i \in DOMAIN s.location_id : s.location_id[i] \in DOMAIN b.location
  /\ \A k \in DOMAIN s.label : HasString(b, k) /\ HasString(b, s.label[k])

\* Every id leads to an entry of its table.
Closed(b) ==
  /\ BuilderFields \subseteq DOMAIN b
  /\ IsTable(b.string_table) /\ Distinct(b.string_table)
  /\ IsTable(b.function) /\ IsTable(b.location) /\ IsTable(b.sample)
  /\ \A i \in DOMAIN b.function :
       HasString(b, b.function[i].name) /\ HasString(b, b.function[i].filename)
  /\ \A i \in DOMAIN b.location : b.location[i].function_id \in DOMAIN b.function
  /\ \A i \in DOMAIN b.sample : IsSample(b, b.sample[i])

\* What ids mean in b, they mean in c.
Keeps(b, c) ==
  Extends(b.string_table, c.string_table) /\ Extends(b.function, c.function) /\ Extends(b.location, c.location)

LEMMA KeepsAll == \A b : Keeps(b, b)
  BY ExtendsAll DEF Keeps

LEMMA KeepsOn == \A b, c, d : Keeps(b, c) /\ Keeps(c, d) => Keeps(b, d)
  BY ExtendsOn DEF Keeps

LEMMA StringStays ==
  ASSUME NEW b, NEW c, Keeps(b, c), NEW id, HasString(b, id)
  PROVE  HasString(c, id) /\ String(c, id) = String(b, id)
  BY DEF Keeps, Extends, HasString, String

LEMMA OneString ==
  ASSUME NEW b, Closed(b), NEW i, HasString(b, i), NEW j, HasString(b, j), String(b, i) = String(b, j)
  PROVE  i = j
<1>1. i \in Nat /\ j \in Nat /\ i + 1 = j + 1
  BY DEF Closed, Distinct, HasString, String
<1> QED BY <1>1

LEMMA FrameStays ==
  ASSUME NEW b, Closed(b), NEW c, Keeps(b, c), NEW id \in DOMAIN b.location
  PROVE  id \in DOMAIN c.location /\ FrameOf(c, id) = FrameOf(b, id)
<1> DEFINE l == b.location[id]
           f == b.function[l.function_id]
<1>1. l.function_id \in DOMAIN b.function
  BY DEF Closed
<1>2. HasString(b, f.name) /\ HasString(b, f.filename)
  BY <1>1 DEF Closed
<1>3. id \in DOMAIN c.location /\ c.location[id] = l /\ c.function[l.function_id] = f
  BY <1>1 DEF Keeps, Extends
<1> HIDE DEF l, f
<1>4. String(c, f.name) = String(b, f.name) /\ String(c, f.filename) = String(b, f.filename)
  BY <1>2, StringStays
<1> QED BY <1>3, <1>4 DEF FrameOf, l, f

LEMMA SampleStays ==
  ASSUME NEW b, Closed(b), NEW c, Keeps(b, c), NEW s, IsSample(b, s)
  PROVE  IsSample(c, s) /\ SampleOf(c, s) = SampleOf(b, s)
<1>1. ASSUME NEW id \in DOMAIN b.location
      PROVE  id \in DOMAIN c.location /\ FrameOf(c, id) = FrameOf(b, id)
  BY FrameStays
<1>2. \A i \in DOMAIN s.location_id :
        /\ s.location_id[i] \in DOMAIN c.location
        /\ FrameOf(c, s.location_id[i]) = FrameOf(b, s.location_id[i])
  BY <1>1 DEF IsSample
<1>3. \A k \in DOMAIN s.label :
        /\ HasString(c, k) /\ String(c, k) = String(b, k)
        /\ HasString(c, s.label[k]) /\ String(c, s.label[k]) = String(b, s.label[k])
  BY StringStays DEF IsSample
<1>4. {<<String(c, k), String(c, s.label[k])>> : k \in DOMAIN s.label} =
      {<<String(b, k), String(b, s.label[k])>> : k \in DOMAIN s.label}
  BY <1>3
<1>5. [i \in DOMAIN s.location_id |-> FrameOf(c, s.location_id[i])] =
      [i \in DOMAIN s.location_id |-> FrameOf(b, s.location_id[i])]
  BY <1>2
<1> QED BY <1>2, <1>3, <1>4, <1>5 DEF IsSample, SampleOf

\* The id of a string, once it has one.
LEMMA IdStays ==
  ASSUME NEW b, Closed(b), NEW id, HasString(b, id)
  PROVE  StringId(b, String(b, id)) = id
<1> DEFINE q == b.string_table
           s == q[id + 1]
           at == Place(q, s)
<1>1. id \in Nat /\ id + 1 \in DOMAIN q
  BY DEF HasString
<1>2. at \in DOMAIN q /\ q[at] = s
  BY <1>1 DEF Place
<1> HIDE DEF at
<1>3. at = id + 1
  BY <1>1, <1>2 DEF Closed, Distinct
<1>4. at - 1 = id
  BY <1>1, <1>3
<1> QED BY <1>4 DEF StringId, String, at

\* add_string(), add_function() and add_location().
LEMMA StringAdded ==
  ASSUME NEW b, Closed(b), NEW string
  PROVE  LET c == add_string(b, string)
         IN  /\ Closed(c) /\ Keeps(b, c) /\ c.sample = b.sample
             /\ HasString(c, StringId(c, string)) /\ String(c, StringId(c, string)) = string
<1> DEFINE c == add_string(b, string)
           r == Intern(b.string_table, string)
           at == Place(r, string)
<1>1. c = [b EXCEPT !.string_table = r]
  BY DEF add_string
<1>2. /\ BuilderFields \subseteq DOMAIN c /\ c.string_table = r
      /\ c.function = b.function /\ c.location = b.location /\ c.sample = b.sample
  BY <1>1 DEF Closed, BuilderFields
<1>3. /\ IsTable(r) /\ Extends(b.string_table, r) /\ Distinct(r)
      /\ at \in DOMAIN r /\ at \in Nat \ {0} /\ r[at] = string
  BY Interned DEF Closed
<1>4. StringId(c, string) = at - 1
  BY <1>2 DEF StringId
<1> HIDE DEF c, r, at
<1>5. Keeps(b, c)
  BY <1>2, <1>3, ExtendsAll DEF Keeps
<1>6. \A id : HasString(b, id) => HasString(c, id)
  BY <1>5, StringStays
<1>7. \A s : IsSample(b, s) => IsSample(c, s)
  BY <1>5, SampleStays
<1>8. Closed(c)
  BY <1>2, <1>3, <1>6, <1>7 DEF Closed
<1>9. HasString(c, at - 1) /\ String(c, at - 1) = string
  <2>1. at - 1 \in Nat /\ (at - 1) + 1 = at
    BY <1>3
  <2> QED BY <1>2, <1>3, <2>1 DEF HasString, String
<1> QED BY <1>2, <1>4, <1>5, <1>8, <1>9 DEF c

LEMMA FunctionAdded ==
  ASSUME NEW b, Closed(b), NEW fm, HasString(b, fm.name), HasString(b, fm.filename)
  PROVE  LET c == add_function(b, fm)
             id == Place(c.function, fm)
         IN  /\ Closed(c) /\ Keeps(b, c) /\ c.sample = b.sample
             /\ id \in DOMAIN c.function /\ c.function[id] = fm
<1> DEFINE c == add_function(b, fm)
           r == Intern(b.function, fm)
<1>1. c = [b EXCEPT !.function = r]
  BY DEF add_function
<1>2. /\ BuilderFields \subseteq DOMAIN c /\ c.function = r
      /\ c.string_table = b.string_table /\ c.location = b.location /\ c.sample = b.sample
  BY <1>1 DEF Closed, BuilderFields
<1>3. /\ IsTable(r) /\ Extends(b.function, r)
      /\ Place(r, fm) \in DOMAIN r /\ r[Place(r, fm)] = fm
      /\ \A i \in DOMAIN r : r[i] = fm \/ (i \in DOMAIN b.function /\ r[i] = b.function[i])
  BY Interned DEF Closed
<1> HIDE DEF c, r
<1>4. Keeps(b, c)
  BY <1>2, <1>3, ExtendsAll DEF Keeps
<1>5. \A id : HasString(b, id) => HasString(c, id)
  BY <1>4, StringStays
<1>6. \A s : IsSample(b, s) => IsSample(c, s)
  BY <1>4, SampleStays
<1>7. \A i \in DOMAIN r : HasString(c, r[i].name) /\ HasString(c, r[i].filename)
  BY <1>3, <1>5 DEF Closed
<1>8. Closed(c)
  BY <1>2, <1>3, <1>6, <1>7 DEF Closed, Extends
<1> QED BY <1>2, <1>3, <1>4, <1>8 DEF c

LEMMA LocationAdded ==
  ASSUME NEW b, Closed(b), NEW lm, lm.function_id \in DOMAIN b.function
  PROVE  LET c == add_location(b, lm)
             id == Place(c.location, lm)
         IN  /\ Closed(c) /\ Keeps(b, c) /\ c.sample = b.sample
             /\ id \in DOMAIN c.location /\ c.location[id] = lm
<1> DEFINE c == add_location(b, lm)
           r == Intern(b.location, lm)
<1>1. c = [b EXCEPT !.location = r]
  BY DEF add_location
<1>2. /\ BuilderFields \subseteq DOMAIN c /\ c.location = r
      /\ c.string_table = b.string_table /\ c.function = b.function /\ c.sample = b.sample
  BY <1>1 DEF Closed, BuilderFields
<1>3. /\ IsTable(r) /\ Extends(b.location, r)
      /\ Place(r, lm) \in DOMAIN r /\ r[Place(r, lm)] = lm
      /\ \A i \in DOMAIN r : r[i] = lm \/ (i \in DOMAIN b.location /\ r[i] = b.location[i])
  BY Interned DEF Closed
<1> HIDE DEF c, r
<1>4. Keeps(b, c)
  BY <1>2, <1>3, ExtendsAll DEF Keeps
<1>5. \A id : HasString(b, id) => HasString(c, id)
  BY <1>4, StringStays
<1>6. \A s : IsSample(b, s) => IsSample(c, s)
  BY <1>4, SampleStays
<1>7. \A i \in DOMAIN r : r[i].function_id \in DOMAIN c.function
  BY <1>2, <1>3 DEF Closed
<1>8. Closed(c)
  BY <1>2, <1>3, <1>5, <1>6, <1>7 DEF Closed
<1> QED BY <1>2, <1>3, <1>4, <1>8 DEF c

-----------------------------------------------------------------------------
(* The frames of a sample.                                                 *)

IsFrame(frame) == frame = [name |-> frame.name, filename |-> frame.filename, line |-> frame.line]

LEMMA FrameAdded ==
  ASSUME NEW acc, Closed(acc.builder), NEW frame, IsFrame(frame)
  PROVE  LET r == AddFrame(acc, frame)
         IN  /\ Closed(r.builder) /\ Keeps(acc.builder, r.builder)
             /\ r.builder.sample = acc.builder.sample
             /\ \E id \in DOMAIN r.builder.location :
                  r.location_id = Append(acc.location_id, id) /\ FrameOf(r.builder, id) = frame
<1> DEFINE b0 == add_string(acc.builder, frame.name)
           b1 == add_string(b0, frame.filename)
           name == StringId(b0, frame.name)
           fm == FunctionMirror(b1, frame)
           b2 == add_function(b1, fm)
           lm == [function_id |-> Place(b2.function, fm), line |-> frame.line]
           b3 == add_location(b2, lm)
           id == Place(b3.location, lm)
<1>1. /\ Closed(b0) /\ Keeps(acc.builder, b0) /\ b0.sample = acc.builder.sample
      /\ HasString(b0, name) /\ String(b0, name) = frame.name
  BY StringAdded
<1>2. /\ Closed(b1) /\ Keeps(b0, b1) /\ b1.sample = b0.sample
      /\ HasString(b1, StringId(b1, frame.filename)) /\ String(b1, StringId(b1, frame.filename)) = frame.filename
  <2> HIDE DEF b0
  <2> QED BY <1>1, StringAdded
<1>3. HasString(b1, StringId(b1, frame.name)) /\ String(b1, StringId(b1, frame.name)) = frame.name
  <2> HIDE DEF b0, b1, name
  <2>1. HasString(b1, name) /\ String(b1, name) = frame.name
    BY <1>1, <1>2, StringStays
  <2>2. StringId(b1, String(b1, name)) = name
    BY <1>2, <2>1, IdStays
  <2> QED BY <2>1, <2>2
<1>4. /\ HasString(b1, fm.name) /\ String(b1, fm.name) = frame.name
      /\ HasString(b1, fm.filename) /\ String(b1, fm.filename) = frame.filename
  <2> HIDE DEF b1
  <2> QED BY <1>2, <1>3 DEF FunctionMirror
<1>5. /\ Closed(b2) /\ Keeps(b1, b2) /\ b2.sample = b1.sample
      /\ Place(b2.function, fm) \in DOMAIN b2.function /\ b2.function[Place(b2.function, fm)] = fm
  <2> HIDE DEF b1, fm
  <2> QED BY <1>2, <1>4, FunctionAdded
<1>6. lm.function_id = Place(b2.function, fm) /\ lm.line = frame.line
  OBVIOUS
<1>7. /\ Closed(b3) /\ Keeps(b2, b3) /\ b3.sample = b2.sample
      /\ id \in DOMAIN b3.location /\ b3.location[id] = lm
  <2> HIDE DEF b2, fm, lm
  <2> QED BY <1>5, <1>6, LocationAdded
<1>8. AddFrame(acc, frame) = [builder |-> b3, location_id |-> Append(acc.location_id, id)]
  BY DEF AddFrame
<1> HIDE DEF b0, b1, b2, b3, fm, lm, id, name
<1>9. FrameOf(b3, id) = frame
  <2>1. lm.function_id \in DOMAIN b2.function /\ b2.function[lm.function_id] = fm
    BY <1>5, <1>6
  <2>2. b3.function[lm.function_id] = fm
    BY <1>7, <2>1 DEF Keeps, Extends
  <2>3. Keeps(b1, b3)
    BY <1>5, <1>7, KeepsOn
  <2>4. String(b3, fm.name) = frame.name /\ String(b3, fm.filename) = frame.filename
    BY <1>4, <2>3, StringStays
  <2>5. FrameOf(b3, id) = [name |-> frame.name, filename |-> frame.filename, line |-> frame.line]
    BY <1>6, <1>7, <2>2, <2>4 DEF FrameOf
  <2> QED BY <2>5 DEF IsFrame
<1>10. Keeps(acc.builder, b3)
  BY <1>1, <1>2, <1>5, <1>7, KeepsOn
<1> QED BY <1>1, <1>2, <1>5, <1>7, <1>8, <1>9, <1>10

-----------------------------------------------------------------------------
(* The encoder's four loops: over frames, tags, traces and reports.        *)

Body(loop, acc, x) ==
  CASE loop = "frames"  -> AddFrame(acc, x)
    [] loop = "tags"    -> AddLabel(acc, x)
    [] loop = "traces"  -> AddSample(acc, x[1], x[2], x[3])
    [] loop = "reports" -> AddReport(acc, x[1], x[2])

Loops(loop, base, args, m, added) ==
  added = [n \in 0..m |-> IF n = 0 THEN base ELSE Body(loop, added[n - 1], args[n])]

LEMMA LoopExists ==
  ASSUME NEW loop, NEW base, NEW args
  PROVE  \A m \in Nat : \E added : Loops(loop, base, args, m, added)
<1> DEFINE bad == {m \in Nat : ~ \E added : Loops(loop, base, args, m, added)}
<1> SUFFICES ASSUME bad # {} PROVE FALSE
  OBVIOUS
<1>1. PICK m \in bad : \A k \in bad : m <= k
  <2> bad \in SUBSET Nat
    OBVIOUS
  <2> HIDE DEF bad
  <2> QED BY LeastNumber
<1>2. m \in Nat /\ ~ \E added : Loops(loop, base, args, m, added)
  OBVIOUS
<1>3. m # 0
  <2> DEFINE added == [n \in 0..0 |-> base]
  <2>1. Loops(loop, base, args, 0, added)
    BY DEF Loops
  <2> QED BY <1>2, <2>1
<1>4. m - 1 \in Nat /\ m - 1 \notin bad
  BY <1>1, <1>2, <1>3
<1>5. PICK before : Loops(loop, base, args, m - 1, before)
  BY <1>4
<1> DEFINE added == [n \in 0..m |-> IF n < m THEN before[n] ELSE Body(loop, before[m - 1], args[m])]
<1>6. ASSUME NEW n \in 0..m
      PROVE  added[n] = IF n = 0 THEN base ELSE Body(loop, added[n - 1], args[n])
  <2>1. CASE n = m
    <3>1. added[n] = Body(loop, before[m - 1], args[m]) /\ added[m - 1] = before[m - 1]
      BY <1>2, <1>3, <2>1
    <3> HIDE DEF added
    <3> QED BY <1>3, <2>1, <3>1
  <2>2. CASE n # m /\ n # 0
    <3>1. n \in 0..(m - 1) /\ n < m /\ n - 1 \in 0..m /\ n - 1 < m
      BY <1>2, <2>2
    <3>2. before[n] = Body(loop, before[n - 1], args[n])
      BY <1>5, <2>2, <3>1 DEF Loops
    <3>3. added[n] = before[n] /\ added[n - 1] = before[n - 1]
      BY <3>1
    <3> HIDE DEF added
    <3> QED BY <2>2, <3>2, <3>3
  <2>3. CASE n # m /\ n = 0
    <3>1. 0 \in 0..(m - 1) /\ 0 < m /\ 0 \in 0..m
      BY <1>2, <1>3
    <3>2. before[0] = base
      BY <1>5, <3>1 DEF Loops
    <3>3. added[0] = before[0]
      BY <3>1
    <3> HIDE DEF added
    <3> QED BY <2>3, <3>2, <3>3
  <2> QED BY <2>1, <2>2, <2>3
<1>7. Loops(loop, base, args, m, added)
  BY <1>6 DEF Loops
<1> QED BY <1>2, <1>7

\* What holds before a loop, and after each turn of it, holds after the loop.
LEMMA LastTurn ==
  ASSUME NEW m \in Nat, NEW S, 0 \in S, \A n \in 1..m : n - 1 \in S => n \in S
  PROVE  m \in S
<1> DEFINE bad == {n \in 0..m : n \notin S}
<1> SUFFICES ASSUME bad # {} PROVE FALSE
  OBVIOUS
<1>1. PICK n \in bad : \A k \in bad : n <= k
  <2> bad \in SUBSET Nat
    OBVIOUS
  <2> HIDE DEF bad
  <2> QED BY LeastNumber
<1>2. n \in 1..m /\ n - 1 \in 0..m
  OBVIOUS
<1>3. n - 1 \notin bad
  BY <1>1, <1>2
<1> QED BY <1>2, <1>3

\* The ids are those of the first n frames.
Spells(b, ids, frames, n) ==
  /\ IsTable(ids) /\ DOMAIN ids = 1..n /\ Len(ids) = n
  /\ \A i \in 1..n : ids[i] \in DOMAIN b.location /\ FrameOf(b, ids[i]) = frames[i]

LEMMA FramesAdded ==
  ASSUME NEW b, Closed(b), NEW frames, IsTable(frames), \A i \in DOMAIN frames : IsFrame(frames[i])
  PROVE  LET acc == AddFrames(b, frames)
         IN  /\ Closed(acc.builder) /\ Keeps(b, acc.builder) /\ acc.builder.sample = b.sample
             /\ Spells(acc.builder, acc.location_id, frames, Len(frames))
<1> DEFINE size == Len(frames)
           base == [builder |-> b, location_id |-> <<>>]
           Turns(f) == f = [n \in 0..size |-> IF n = 0 THEN base ELSE AddFrame(f[n - 1], frames[n])]
           added == CHOOSE f : Turns(f)
<1>1. size \in Nat /\ DOMAIN frames = 1..size
  BY Appended
<1>2. AddFrames(b, frames) = added[size]
  BY DEF AddFrames
<1>3. Turns(added)
  <2>1. PICK f : Loops("frames", base, frames, size, f)
    <3> HIDE DEF base, size
    <3> QED BY <1>1, LoopExists
  <2>2. Turns(f)
    BY <2>1 DEF Loops, Body
  <2> QED BY <2>2
<1> HIDE DEF added, size
<1>4. added[0] = base /\ \A n \in 1..size : added[n] = AddFrame(added[n - 1], frames[n])
  BY <1>1, <1>3
<1> HIDE DEF Turns
<1> DEFINE Good(n) == /\ Closed(added[n].builder) /\ Keeps(b, added[n].builder)
                      /\ added[n].builder.sample = b.sample
                      /\ Spells(added[n].builder, added[n].location_id, frames, n)
<1>5. Good(0)
  <2>1. IsTable(<<>>) /\ DOMAIN <<>> = 1..0 /\ Len(<<>>) = 0
    BY DEF IsTable
  <2> QED BY <1>4, <2>1, KeepsAll DEF Spells
<1>6. ASSUME NEW n \in 1..size, Good(n - 1) PROVE Good(n)
  <2> DEFINE acc == added[n - 1]
             r == added[n]
  <2>1. r = AddFrame(acc, frames[n]) /\ IsFrame(frames[n])
    BY <1>1, <1>4
  <2>2. /\ Closed(acc.builder) /\ Keeps(b, acc.builder) /\ acc.builder.sample = b.sample
        /\ Spells(acc.builder, acc.location_id, frames, n - 1)
    BY <1>6
  <2> HIDE DEF acc, r
  <2>3. /\ Closed(r.builder) /\ Keeps(acc.builder, r.builder) /\ r.builder.sample = acc.builder.sample
    BY <2>1, <2>2, FrameAdded
  <2>4. PICK id \in DOMAIN r.builder.location :
          r.location_id = Append(acc.location_id, id) /\ FrameOf(r.builder, id) = frames[n]
    BY <2>1, <2>2, FrameAdded
  <2>5. Keeps(b, r.builder)
    BY <2>2, <2>3, KeepsOn
  <2>6. /\ IsTable(r.location_id) /\ DOMAIN r.location_id = 1..n /\ Len(r.location_id) = n
        /\ r.location_id[n] = id
        /\ \A i \in 1..(n - 1) : r.location_id[i] = acc.location_id[i]
    <3>1. IsTable(acc.location_id) /\ Len(acc.location_id) = n - 1 /\ (n - 1) + 1 = n
      BY <1>1, <2>2 DEF Spells
    <3> QED BY <2>4, <3>1, Appended
  <2>7. ASSUME NEW i \in 1..n
        PROVE  r.location_id[i] \in DOMAIN r.builder.location /\ FrameOf(r.builder, r.location_id[i]) = frames[i]
    <3>1. CASE i = n
      BY <2>4, <2>6, <3>1
    <3>2. CASE i \in 1..(n - 1)
      <4>1. /\ acc.location_id[i] \in DOMAIN acc.builder.location
            /\ FrameOf(acc.builder, acc.location_id[i]) = frames[i]
        BY <2>2, <3>2 DEF Spells
      <4> QED BY <2>2, <2>3, <2>6, <3>2, <4>1, FrameStays
    <3>3. i = n \/ i \in 1..(n - 1)
      BY <1>1
    <3> QED BY <3>1, <3>2, <3>3
  <2>8. Spells(r.builder, r.location_id, frames, n)
    BY <2>6, <2>7 DEF Spells
  <2> QED BY <2>2, <2>3, <2>5, <2>8 DEF r
<1>7. Good(size)
  <2> DEFINE S == {n \in 0..size : Good(n)}
  <2>1. 0 \in S /\ \A n \in 1..size : n - 1 \in S => n \in S
    <3> HIDE DEF Good
    <3>1. 0 \in S
      BY <1>1, <1>5
    <3>2. \A n \in 1..size : n - 1 \in S => n \in S
      BY <1>1, <1>6
    <3> QED BY <3>1, <3>2
  <2>2. size \in S
    <3> HIDE DEF S
    <3> QED BY <1>1, <2>1, LastTurn
  <2> QED BY <2>2
<1> QED BY <1>2, <1>7 DEF size

-----------------------------------------------------------------------------
(* The labels of a sample.                                                 *)

\* The last of the first n tags with its key.
Latest(q, n, i) == \A j \in 1..n : q[j][1] = q[i][1] => j <= i

Labelled(b, label, q, n) ==
  /\ \A k \in DOMAIN label :
       /\ HasString(b, k) /\ HasString(b, label[k])
       /\ \E i \in 1..n : Latest(q, n, i) /\ q[i][1] = String(b, k) /\ q[i][2] = String(b, label[k])
  /\ \A i \in 1..n : \E k \in DOMAIN label : String(b, k) = q[i][1]

LEMMA LabelAdded ==
  ASSUME NEW acc, Closed(acc.builder), NEW q, NEW n \in Nat \ {0},
         Labelled(acc.builder, acc.label, q, n - 1)
  PROVE  LET r == AddLabel(acc, q[n])
         IN  /\ Closed(r.builder) /\ Keeps(acc.builder, r.builder)
             /\ r.builder.sample = acc.builder.sample
             /\ Labelled(r.builder, r.label, q, n)
<1> DEFINE b0 == acc.builder
           b1 == add_string(b0, q[n][1])
           b2 == add_string(b1, q[n][2])
           key1 == StringId(b1, q[n][1])
           key == StringId(b2, q[n][1])
           val == StringId(b2, q[n][2])
           label == [k \in {key} \union DOMAIN acc.label |-> IF k = key THEN val ELSE acc.label[k]]
<1>1. /\ Closed(b1) /\ Keeps(b0, b1) /\ b1.sample = b0.sample
      /\ HasString(b1, key1) /\ String(b1, key1) = q[n][1]
  BY StringAdded
<1>2. /\ Closed(b2) /\ Keeps(b1, b2) /\ b2.sample = b1.sample
      /\ HasString(b2, val) /\ String(b2, val) = q[n][2]
  <2> HIDE DEF b1
  <2> QED BY <1>1, StringAdded
<1>3. HasString(b2, key) /\ String(b2, key) = q[n][1]
  <2> HIDE DEF b1, b2, key1
  <2>1. HasString(b2, key1) /\ String(b2, key1) = q[n][1]
    BY <1>1, <1>2, StringStays
  <2>2. StringId(b2, String(b2, key1)) = key1
    BY <1>2, <2>1, IdStays
  <2> QED BY <2>1, <2>2
<1>4. AddLabel(acc, q[n]) = [builder |-> b2, label |-> label]
  BY DEF AddLabel
<1>5. Keeps(b0, b2)
  BY <1>1, <1>2, KeepsOn
<1>6. \A k \in DOMAIN acc.label :
        /\ HasString(b2, k) /\ String(b2, k) = String(b0, k)
        /\ HasString(b2, acc.label[k]) /\ String(b2, acc.label[k]) = String(b0, acc.label[k])
  <2> HIDE DEF b2
  <2> QED BY <1>5, StringStays DEF Labelled
<1>7. DOMAIN label = {key} \union DOMAIN acc.label /\ label[key] = val
      /\ \A k \in DOMAIN acc.label : k # key => label[k] = acc.label[k]
  OBVIOUS
<1> HIDE DEF b1, b2, key, key1, val, label
<1>8. \A i \in 1..n : i \in 1..(n - 1) \/ i = n
  OBVIOUS
<1>9. ASSUME NEW k \in DOMAIN label
      PROVE  /\ HasString(b2, k) /\ HasString(b2, label[k])
             /\ \E i \in 1..n : Latest(q, n, i) /\ q[i][1] = String(b2, k) /\ q[i][2] = String(b2, label[k])
  <2>1. CASE k = key
    <3>1. Latest(q, n, n)
      BY DEF Latest
    <3> QED BY <1>2, <1>3, <1>7, <2>1, <3>1
  <2>2. CASE k # key /\ k \in DOMAIN acc.label
    <3>1. PICK i \in 1..(n - 1) :
            /\ Latest(q, n - 1, i) /\ q[i][1] = String(b0, k) /\ q[i][2] = String(b0, acc.label[k])
      BY <2>2 DEF Labelled
    <3>2. q[i][1] = String(b2, k) /\ q[i][2] = String(b2, label[k]) /\ i \in 1..n
      BY <1>6, <1>7, <2>2, <3>1
    <3>3. q[i][1] # q[n][1]
      BY <1>2, <1>3, <1>6, <2>2, <3>2, OneString
    <3>4. Latest(q, n, i)
      BY <1>8, <3>1, <3>3 DEF Latest
    <3> QED BY <1>6, <1>7, <2>2, <3>2, <3>4
  <2> QED BY <1>7, <2>1, <2>2
<1>10. ASSUME NEW i \in 1..n PROVE \E k \in DOMAIN label : String(b2, k) = q[i][1]
  <2>1. CASE i = n
    BY <1>3, <1>7, <2>1
  <2>2. CASE i \in 1..(n - 1)
    <3>1. PICK k \in DOMAIN acc.label : String(b0, k) = q[i][1]
      BY <2>2 DEF Labelled
    <3> QED BY <1>6, <1>7, <3>1
  <2> QED BY <1>8, <2>1, <2>2
<1>11. Labelled(b2, label, q, n)
  BY <1>9, <1>10 DEF Labelled
<1> QED BY <1>1, <1>2, <1>4, <1>5, <1>11

LEMMA LabelsAdded ==
  ASSUME NEW b, Closed(b), NEW q, IsTable(q)
  PROVE  LET acc == AddLabels(b, q)
         IN  /\ Closed(acc.builder) /\ Keeps(b, acc.builder) /\ acc.builder.sample = b.sample
             /\ Labelled(acc.builder, acc.label, q, Len(q))
<1> DEFINE size == Len(q)
           base == [builder |-> b, label |-> [k \in {} |-> 0]]
           Turns(f) == f = [n \in 0..size |-> IF n = 0 THEN base ELSE AddLabel(f[n - 1], q[n])]
           added == CHOOSE f : Turns(f)
<1>1. size \in Nat
  BY Appended
<1>2. AddLabels(b, q) = added[size]
  BY DEF AddLabels
<1>3. Turns(added)
  <2>1. PICK f : Loops("tags", base, q, size, f)
    <3> HIDE DEF base, size
    <3> QED BY <1>1, LoopExists
  <2>2. Turns(f)
    BY <2>1 DEF Loops, Body
  <2> QED BY <2>2
<1> HIDE DEF added, size
<1>4. added[0] = base /\ \A n \in 1..size : added[n] = AddLabel(added[n - 1], q[n])
  BY <1>1, <1>3
<1> HIDE DEF Turns
<1> DEFINE Good(n) == /\ Closed(added[n].builder) /\ Keeps(b, added[n].builder)
                      /\ added[n].builder.sample = b.sample
                      /\ Labelled(added[n].builder, added[n].label, q, n)
<1>5. Good(0)
  BY <1>4, KeepsAll DEF Labelled
<1>6. ASSUME NEW n \in 1..size, Good(n - 1) PROVE Good(n)
  <2> DEFINE acc == added[n - 1]
             r == added[n]
  <2>1. r = AddLabel(acc, q[n]) /\ n \in Nat \ {0}
    BY <1>1, <1>4
  <2>2. /\ Closed(acc.builder) /\ Keeps(b, acc.builder) /\ acc.builder.sample = b.sample
        /\ Labelled(acc.builder, acc.label, q, n - 1)
    BY <1>6
  <2> HIDE DEF acc, r
  <2>3. /\ Closed(r.builder) /\ Keeps(acc.builder, r.builder) /\ r.builder.sample = acc.builder.sample
        /\ Labelled(r.builder, r.label, q, n)
    BY <2>1, <2>2, LabelAdded
  <2> QED BY <2>2, <2>3, KeepsOn DEF r
<1>7. Good(size)
  <2> DEFINE S == {n \in 0..size : Good(n)}
  <2>1. 0 \in S /\ \A n \in 1..size : n - 1 \in S => n \in S
    <3> HIDE DEF Good
    <3>1. 0 \in S
      BY <1>1, <1>5
    <3>2. \A n \in 1..size : n - 1 \in S => n \in S
      BY <1>1, <1>6
    <3> QED BY <3>1, <3>2
  <2>2. size \in S
    <3> HIDE DEF S
    <3> QED BY <1>1, <2>1, LastTurn
  <2> QED BY <2>2
<1> QED BY <1>2, <1>7 DEF size

\* Of each key, the last value.
LEMMA LabelsShown ==
  ASSUME NEW b, NEW label, NEW q, NEW n \in Nat, Labelled(b, label, q, n),
         \A i \in 1..n : q[i] = <<q[i][1], q[i][2]>>
  PROVE  {<<String(b, k), String(b, label[k])>> : k \in DOMAIN label} =
           {q[i] : i \in {j \in 1..n : Latest(q, n, j)}}
<1>1. ASSUME NEW k \in DOMAIN label
      PROVE  \E i \in 1..n : Latest(q, n, i) /\ q[i] = <<String(b, k), String(b, label[k])>>
  <2>1. PICK i \in 1..n : Latest(q, n, i) /\ q[i][1] = String(b, k) /\ q[i][2] = String(b, label[k])
    BY DEF Labelled
  <2> QED BY <2>1
<1>2. ASSUME NEW i \in 1..n, Latest(q, n, i)
      PROVE  \E k \in DOMAIN label : q[i] = <<String(b, k), String(b, label[k])>>
  <2>1. PICK k \in DOMAIN label : String(b, k) = q[i][1]
    BY DEF Labelled
  <2>2. PICK j \in 1..n : Latest(q, n, j) /\ q[j] = <<String(b, k), String(b, label[k])>>
    BY <1>1
  <2>3. q[j][1] = q[i][1]
    BY <2>1, <2>2
  <2>4. j <= i /\ i <= j
    BY <1>2, <2>2, <2>3 DEF Latest
  <2>5. i = j
    BY <2>4
  <2> QED BY <2>2, <2>5
<1> QED BY <1>1, <1>2

-----------------------------------------------------------------------------
(* Sets as sequences.                                                      *)

\* q holds each element of S once.
Lists(q, S) ==
  /\ q \in [1..Cardinality(S) -> S]
  /\ \A i, j \in 1..Cardinality(S) : q[i] = q[j] => i = j

LEMMA ListIsTable ==
  ASSUME NEW S, IsFiniteSet(S), NEW q, Lists(q, S)
  PROVE  /\ IsTable(q) /\ DOMAIN q = 1..Len(q) /\ Len(q) = Cardinality(S) /\ Len(q) \in Nat
         /\ \A x \in S : \E i \in 1..Len(q) : q[i] = x
         /\ \A i \in 1..Len(q) : q[i] \in S
<1> DEFINE n == Cardinality(S)
           D == 1..n
<1>1. n \in Nat /\ IsFiniteSet(D) /\ Cardinality(D) = n
  BY FS_CardinalityType, FS_Interval
<1>2. q \in Injection(D, S)
  BY DEF Lists, Injection, IsInjective
<1>3. q \in Surjection(D, S)
  <2> HIDE DEF D
  <2> QED BY <1>1, <1>2, FS_Injection
<1>4. \A x \in S : \E i \in D : q[i] = x
  BY <1>3 DEF Surjection
<1>5. q \in Seq(S)
  BY <1>1 DEF Lists
<1>6. Len(q) = n /\ DOMAIN q = D
  BY <1>1, <1>5 DEF Lists
<1>7. IsTable(q)
  BY <1>1, <1>6 DEF IsTable, Lists
<1> QED BY <1>1, <1>4, <1>6, <1>7 DEF Lists

LEMMA SetListed ==
  ASSUME NEW S, IsFiniteSet(S)
  PROVE  Lists(SetToSeq(S), S)
<1>1. PICK f : f \in Bijection(1..Cardinality(S), S)
  BY FS_CardinalityType DEF ExistsBijection
<1>2. f \in [1..Cardinality(S) -> S] /\ IsInjective(f)
  BY <1>1 DEF Bijection, Injection
<1>3. SetToSeq(S) \in [1..Cardinality(S) -> S] /\ IsInjective(SetToSeq(S))
  BY <1>2 DEF SetToSeq
<1> QED BY <1>3 DEF Lists, IsInjective

-----------------------------------------------------------------------------
(* The order of the tags.                                                  *)

\* Two tags of one key have values that the order knows.
Tagging(tags) ==
  /\ IsFiniteSet(tags)
  /\ \A t \in tags : t = <<t[1], t[2]>>
  /\ \A t, u \in tags : t # u /\ t[1] = u[1] => t[2] \in ToSet(TagValues)

\* Of each key, the greatest value.
Kept(tags) == {t \in tags : ~ \E u \in tags : u[1] = t[1] /\ Before(t[2], u[2])}

Sorts(q, tags) ==
  Lists(q, tags) /\ \A i, j \in 1..Cardinality(tags) : i < j /\ q[i][1] = q[j][1] => Before(q[i][2], q[j][2])

LEMMA BeforeIsStrict ==
  \A v, w : Before(v, w) => ~ Before(w, v)
<1> SUFFICES ASSUME NEW v, NEW w, Before(v, w), Before(w, v) PROVE FALSE
  OBVIOUS
<1>1. PICK i \in DOMAIN TagValues, j \in DOMAIN TagValues : i < j /\ TagValues[i] = v /\ TagValues[j] = w
  BY DEF Before
<1>2. PICK k \in DOMAIN TagValues, l \in DOMAIN TagValues : k < l /\ TagValues[k] = w /\ TagValues[l] = v
  BY DEF Before
<1>3. i = l /\ j = k
  BY <1>1, <1>2, AgentEncodeAssumption DEF AgentEncodeAssumption, IsInjective
<1>4. DOMAIN TagValues \subseteq Nat
  <2> DEFINE S == ToSet(TagValues)
  <2>1. TagValues \in Seq(S)
    BY AgentEncodeAssumption DEF AgentEncodeAssumption
  <2> HIDE DEF S
  <2> QED BY <2>1
<1> QED BY <1>1, <1>2, <1>3, <1>4

LEMMA GreatestTag ==
  ASSUME NEW tags, Tagging(tags), tags # {}
  PROVE  \E t \in tags : \A u \in tags : u # t /\ u[1] = t[1] => Before(u[2], t[2])
<1> DEFINE S == ToSet(TagValues)
           n == Len(TagValues)
           V == {i \in 1..n : \E u \in tags : u[2] = TagValues[i]}
<1>1. n \in Nat /\ DOMAIN TagValues = 1..n
  <2>1. TagValues \in Seq(S)
    BY AgentEncodeAssumption DEF AgentEncodeAssumption
  <2> HIDE DEF S
  <2> QED BY <2>1
<1>2. ASSUME NEW t \in tags, NEW u \in tags, t # u, t[1] = u[1]
      PROVE  \E i \in V : u[2] = TagValues[i]
  <2>1. u[2] \in ToSet(TagValues)
    BY <1>2 DEF Tagging
  <2>2. PICK i \in 1..n : u[2] = TagValues[i]
    BY <1>1, <2>1 DEF ToSet
  <2> QED BY <2>2
<1>3. CASE V = {}
  <2>1. PICK t \in tags : TRUE
    OBVIOUS
  <2> HIDE DEF V
  <2> QED BY <1>2, <1>3, <2>1
<1>4. CASE V # {}
  <2> DEFINE W == {n - i : i \in V}
  <2>1. W \in SUBSET Nat /\ W # {}
    BY <1>1, <1>4
  <2>2. PICK w \in W : \A x \in W : w <= x
    <3> HIDE DEF W
    <3> QED BY <2>1, LeastNumber
  <2>3. PICK m \in V : w = n - m
    OBVIOUS
  <2>4. \A i \in V : i <= m
    <3> SUFFICES ASSUME NEW i \in V PROVE i <= m
      OBVIOUS
    <3>1. n - i \in W
      OBVIOUS
    <3>2. w <= n - i
      BY <2>2, <3>1
    <3>3. i \in Nat /\ m \in Nat
      OBVIOUS
    <3> QED BY <1>1, <2>3, <3>2, <3>3
  <2>5. PICK t \in tags : t[2] = TagValues[m]
    OBVIOUS
  <2>6. ASSUME NEW u \in tags, u # t, u[1] = t[1] PROVE Before(u[2], t[2])
    <3>1. PICK i \in V : u[2] = TagValues[i]
      BY <1>2, <2>6
    <3>2. u[2] # t[2]
      BY <2>6 DEF Tagging
    <3>3. i # m /\ i <= m /\ i \in DOMAIN TagValues /\ m \in DOMAIN TagValues /\ i \in Nat /\ m \in Nat
      BY <1>1, <2>4, <2>5, <3>1, <3>2
    <3> QED BY <2>5, <3>1, <3>3 DEF Before
  <2> QED BY <2>6
<1> QED BY <1>3, <1>4

LEMMA SomeSort ==
  ASSUME NEW all, Tagging(all)
  PROVE  \A tags \in SUBSET all : \E q : Sorts(q, tags)
<1> DEFINE B == {S \in SUBSET all : ~ \E q : Sorts(q, S)}
<1> SUFFICES ASSUME B # {} PROVE FALSE
  OBVIOUS
<1>1. \A S \in SUBSET all : Tagging(S)
  BY FS_Subset DEF Tagging
<1>2. PICK S \in B : \A T : IsFiniteSet(T) /\ Cardinality(T) < Cardinality(S) => T \notin B
  <2>1. \A T \in B : IsFiniteSet(T)
    BY <1>1 DEF Tagging
  <2> HIDE DEF B
  <2> QED BY <2>1, Smallest
<1>3. S \in SUBSET all /\ Tagging(S) /\ IsFiniteSet(S) /\ ~ \E q : Sorts(q, S)
  BY <1>1 DEF Tagging
<1> DEFINE n == Cardinality(S)
<1>4. n \in Nat
  BY <1>3, FS_CardinalityType
<1>5. S # {}
  <2> SUFFICES ASSUME S = {} PROVE FALSE
    OBVIOUS
  <2> DEFINE q == [i \in 1..0 |-> 0]
  <2>1. Cardinality(S) = 0
    BY FS_EmptySet
  <2>2. q \in [1..0 -> S]
    OBVIOUS
  <2>3. Sorts(q, S)
    <3> HIDE DEF q
    <3> QED BY <2>1, <2>2 DEF Sorts, Lists
  <2> QED BY <1>3, <2>3
<1>6. PICK t \in S : \A u \in S : u # t /\ u[1] = t[1] => Before(u[2], t[2])
  BY <1>3, <1>5, GreatestTag
<1> DEFINE T == S \ {t}
<1>7. IsFiniteSet(T) /\ Cardinality(T) = n - 1
  BY <1>3, FS_RemoveElement
<1>8. PICK p : Sorts(p, T)
  <2>1. T \notin B
    BY <1>2, <1>4, <1>7
  <2> QED BY <1>3, <2>1
<1> HIDE DEF B
<1> DEFINE q == [i \in 1..n |-> IF i = n THEN t ELSE p[i]]
<1>9. /\ \A i \in 1..(n - 1) : p[i] \in T
      /\ \A i, j \in 1..(n - 1) : p[i] = p[j] => i = j
      /\ \A i, j \in 1..(n - 1) : i < j /\ p[i][1] = p[j][1] => Before(p[i][2], p[j][2])
  <2> HIDE DEF T
  <2> QED BY <1>7, <1>8 DEF Sorts, Lists
<1>10. /\ q \in [1..n -> S] /\ q[n] = t
       /\ \A i \in 1..(n - 1) : q[i] = p[i] /\ q[i] \in S /\ q[i] # t
  <2>1. n \in 1..n
    BY <1>3, <1>4, <1>5, FS_EmptySet
  <2>2. \A i \in 1..n : i = n \/ i \in 1..(n - 1)
    BY <1>4
  <2>3. \A i \in 1..(n - 1) : i \in 1..n /\ i # n
    BY <1>4
  <2> HIDE DEF n
  <2> QED BY <1>9, <2>1, <2>2, <2>3
<1> HIDE DEF q, T
<1>11. \A i \in 1..n : i = n \/ i \in 1..(n - 1)
  BY <1>4
<1>12. Lists(q, S)
  BY <1>9, <1>10, <1>11 DEF Lists
<1>13. ASSUME NEW i \in 1..n, NEW j \in 1..n, i < j, q[i][1] = q[j][1] PROVE Before(q[i][2], q[j][2])
  <2>1. i \in 1..(n - 1)
    BY <1>4, <1>13
  <2>2. CASE j = n
    BY <1>6, <1>10, <1>13, <2>1, <2>2
  <2>3. CASE j \in 1..(n - 1)
    BY <1>9, <1>10, <1>13, <2>1, <2>3
  <2> QED BY <1>11, <2>2, <2>3
<1>14. Sorts(q, S)
  BY <1>12, <1>13 DEF Sorts
<1> QED BY <1>3, <1>14

LEMMA TagsInOrder ==
  ASSUME NEW tags, Tagging(tags)
  PROVE  Sorts(InOrder(tags), tags)
<1> DEFINE Sorted(q) == \A i, j \in DOMAIN q : i < j /\ q[i][1] = q[j][1] => Before(q[i][2], q[j][2])
<1>1. \A q : Sorts(q, tags) <=> q \in SetToSeqs(tags) /\ Sorted(q)
  BY DEF Sorts, Lists, SetToSeqs
<1>2. \E q \in SetToSeqs(tags) : Sorted(q)
  BY <1>1, SomeSort
<1>3. InOrder(tags) = CHOOSE q \in SetToSeqs(tags) : Sorted(q)
  BY DEF InOrder
<1> HIDE DEF Sorted
<1>4. InOrder(tags) \in SetToSeqs(tags) /\ Sorted(InOrder(tags))
  BY <1>2, <1>3
<1> QED BY <1>1, <1>4

\* The tags of a trace and those of its report, which are the same.
LEMMA LatestIsGreatest ==
  ASSUME NEW tags, Tagging(tags)
  PROVE  LET q == InOrder(tags) \o InOrder(tags)
         IN  /\ IsTable(q) /\ \A i \in 1..Len(q) : q[i] = <<q[i][1], q[i][2]>>
             /\ {q[i] : i \in {j \in 1..Len(q) : Latest(q, Len(q), j)}} = Kept(tags)
<1> DEFINE p == InOrder(tags)
           n == Len(p)
           q == p \o p
<1>1. /\ Sorts(p, tags) /\ IsFiniteSet(tags) /\ \A t \in tags : t = <<t[1], t[2]>>
  BY TagsInOrder DEF Tagging
<1> HIDE DEF p
<1>2. /\ IsTable(p) /\ DOMAIN p = 1..n /\ n = Cardinality(tags) /\ n \in Nat
      /\ \A x \in tags : \E i \in 1..n : p[i] = x
      /\ \A i \in 1..n : p[i] \in tags
  BY <1>1, ListIsTable DEF Sorts
<1>3. \A i, j \in 1..n : i < j /\ p[i][1] = p[j][1] => Before(p[i][2], p[j][2])
  BY <1>1, <1>2 DEF Sorts
<1>4. /\ q \in Seq(tags) /\ Len(q) = n + n /\ DOMAIN q = 1..(n + n)
      /\ \A i \in 1..n : q[i] = p[i] /\ q[n + i] = p[i]
  <2>1. p \in [1..n -> tags]
    <3> HIDE DEF n
    <3> QED BY <1>1, <1>2 DEF Sorts, Lists
  <2>2. p \in Seq(tags)
    <3> HIDE DEF n
    <3> QED BY <1>2, <2>1
  <2>3. /\ p \o p \in Seq(tags) /\ Len(p \o p) = Len(p) + Len(p)
        /\ \A i \in 1..(Len(p) + Len(p)) : (p \o p)[i] = IF i <= Len(p) THEN p[i] ELSE p[i - Len(p)]
    BY <2>2
  <2>4. \A i \in 1..n : i <= n /\ i \in 1..(n + n) /\ n + i \in 1..(n + n) /\ ~ (n + i <= n) /\ (n + i) - n = i
    <3> HIDE DEF n
    <3> QED BY <1>2
  <2>5. q \in Seq(tags) /\ Len(q) = n + n
    BY <2>3
  <2>6. \A i \in 1..(n + n) : q[i] = IF i <= n THEN p[i] ELSE p[i - n]
    BY <2>3
  <2> HIDE DEF q, n
  <2>7. DOMAIN q = 1..(n + n)
    BY <2>5
  <2> QED BY <2>4, <2>5, <2>6, <2>7
<1> HIDE DEF n, q
<1>5. /\ IsTable(q) /\ \A i \in 1..Len(q) : q[i] = <<q[i][1], q[i][2]>>
  <2>1. \A i \in DOMAIN q : q[i] \in tags
    BY <1>4
  <2>2. IsTable(q)
    BY <1>2, <1>4 DEF IsTable
  <2> QED BY <1>1, <1>4, <2>1, <2>2
<1>6. \A i \in 1..(n + n) : i \in 1..n \/ \E m \in 1..n : i = n + m
  <2> SUFFICES ASSUME NEW i \in 1..(n + n), i \notin 1..n PROVE \E m \in 1..n : i = n + m
    OBVIOUS
  <2>1. i - n \in 1..n /\ i = n + (i - n)
    BY <1>2
  <2> QED BY <2>1
<1>7. \A m \in 1..n : n + m \in 1..(n + n)
  BY <1>2
<1>8. ASSUME NEW i \in 1..(n + n), Latest(q, n + n, i) PROVE q[i] \in Kept(tags)
  <2>1. PICK m \in 1..n : i = n + m
    <3>1. CASE i \in 1..n
      <4>1. n + i \in 1..(n + n) /\ q[n + i][1] = q[i][1]
        BY <1>4, <1>7, <3>1
      <4>2. n + i <= i
        BY <1>8, <4>1 DEF Latest
      <4> QED BY <1>2, <3>1, <4>2
    <3> QED BY <1>6, <3>1
  <2>2. q[i] = p[m] /\ p[m] \in tags
    BY <1>2, <1>4, <2>1
  <2>3. ASSUME NEW u \in tags, u[1] = p[m][1], Before(p[m][2], u[2]) PROVE FALSE
    <3>1. PICK j \in 1..n : p[j] = u
      BY <1>2
    <3>2. n + j \in 1..(n + n) /\ q[n + j][1] = q[i][1]
      BY <1>4, <1>7, <2>2, <2>3, <3>1
    <3>3. n + j <= n + m
      BY <1>8, <2>1, <3>2 DEF Latest
    <3>4. j < m \/ j = m
      BY <1>2, <3>3
    <3>5. ~ Before(u[2], p[m][2])
      BY <2>3, BeforeIsStrict
    <3>6. j # m
      BY <2>3, <3>1, <3>5
    <3> QED BY <1>3, <2>3, <3>1, <3>4, <3>5, <3>6
  <2> QED BY <2>2, <2>3 DEF Kept
<1>9. ASSUME NEW t \in Kept(tags) PROVE \E i \in 1..(n + n) : Latest(q, n + n, i) /\ q[i] = t
  <2>1. t \in tags /\ \A u \in tags : u[1] = t[1] => ~ Before(t[2], u[2])
    BY DEF Kept
  <2>2. PICK m \in 1..n : p[m] = t
    BY <1>2, <2>1
  <2>3. ASSUME NEW j \in 1..(n + n), q[j][1] = t[1] PROVE j <= n + m
    <3>1. CASE j \in 1..n
      BY <1>2, <3>1
    <3>2. ASSUME NEW k \in 1..n, j = n + k PROVE j <= n + m
      <4>1. p[k][1] = t[1] /\ p[k] \in tags
        BY <1>2, <1>4, <2>3, <3>2
      <4>2. ~ (m < k)
        BY <1>3, <2>1, <2>2, <4>1
      <4> QED BY <1>2, <3>2, <4>2
    <3> QED BY <1>6, <3>1, <3>2
  <2>4. n + m \in 1..(n + n) /\ q[n + m] = t
    BY <1>4, <1>7, <2>2
  <2> QED BY <2>3, <2>4 DEF Latest
<1>10. {q[i] : i \in {j \in 1..(n + n) : Latest(q, n + n, j)}} = Kept(tags)
  BY <1>8, <1>9
<1> QED BY <1>4, <1>5, <1>10 DEF q, p

-----------------------------------------------------------------------------
(* Samples, one for each trace.                                            *)

IsTrace(t) ==
  IsTable(t.stack) /\ (\A i \in DOMAIN t.stack : IsFrame(t.stack[i])) /\ Tagging(t.tags)

\* What a reader shall see of a trace.
Shown(t) == [frames |-> t.stack, labels |-> Kept(t.tags)]

\* The i-th sample of b is that of the trace g[i].
Tells(b, g, E, counts, period) ==
  /\ g \in [DOMAIN b.sample -> E]
  /\ \A i, j \in DOMAIN b.sample : g[i] = g[j] => i = j
  /\ \A e \in E : \E i \in DOMAIN b.sample : g[i] = e
  /\ \A i \in DOMAIN b.sample :
       SampleOf(b, b.sample[i]) = Shown(g[i]) /\ b.sample[i].value = counts[g[i]] * period

Told(b, E, counts, period) == \E g : Tells(b, g, E, counts, period)

\* What the samples tell stays told when the tables grow.
LEMMA TellsStill ==
  ASSUME NEW b, Closed(b), NEW c, Keeps(b, c), c.sample = b.sample, NEW g, NEW E, NEW counts, NEW period,
         Tells(b, g, E, counts, period)
  PROVE  Tells(c, g, E, counts, period)
<1>1. \A i \in DOMAIN b.sample : SampleOf(c, b.sample[i]) = SampleOf(b, b.sample[i])
  BY SampleStays DEF Closed
<1> QED BY <1>1 DEF Tells

LEMMA SampleAdded ==
  ASSUME NEW b, Closed(b), NEW trace, IsTrace(trace), NEW E, trace \notin E, NEW counts, NEW period,
         Told(b, E, counts, period)
  PROVE  LET c == AddSample(b, trace, trace.tags, counts[trace] * period)
         IN  Closed(c) /\ Told(c, E \union {trace}, counts, period)
<1> DEFINE framed == AddFrames(b, trace.stack)
           q == InOrder(trace.tags) \o InOrder(trace.tags)
           labelled == AddLabels(framed.builder, q)
           b1 == labelled.builder
           s == [location_id |-> framed.location_id, value |-> counts[trace] * period,
                 label |-> labelled.label]
           c == AddSample(b, trace, trace.tags, counts[trace] * period)
           n == Len(b.sample)
<1>1. c = [b1 EXCEPT !.sample = Append(@, s)]
  BY DEF AddSample
<1>2. /\ Closed(framed.builder) /\ Keeps(b, framed.builder) /\ framed.builder.sample = b.sample
      /\ Spells(framed.builder, framed.location_id, trace.stack, Len(trace.stack))
  BY FramesAdded DEF IsTrace
<1>3. /\ IsTable(q) /\ \A i \in 1..Len(q) : q[i] = <<q[i][1], q[i][2]>>
      /\ {q[i] : i \in {j \in 1..Len(q) : Latest(q, Len(q), j)}} = Kept(trace.tags)
  BY LatestIsGreatest DEF IsTrace
<1> HIDE DEF q
<1>4. /\ Closed(b1) /\ Keeps(framed.builder, b1) /\ b1.sample = framed.builder.sample
      /\ Labelled(b1, labelled.label, q, Len(q))
  <2> HIDE DEF framed
  <2> QED BY <1>2, <1>3, LabelsAdded
<1>5. s.location_id = framed.location_id /\ s.label = labelled.label /\ s.value = counts[trace] * period
  OBVIOUS
<1> HIDE DEF framed, labelled, c, s
<1>6. IsSample(b1, s)
  <2>1. \A i \in DOMAIN s.location_id : s.location_id[i] \in DOMAIN b1.location
    BY <1>2, <1>4, <1>5, FrameStays DEF Spells
  <2> QED BY <1>4, <1>5, <2>1 DEF IsSample, Labelled
<1>7. SampleOf(b1, s) = Shown(trace)
  <2>1. /\ DOMAIN s.location_id = 1..Len(trace.stack)
        /\ \A i \in 1..Len(trace.stack) : FrameOf(b1, s.location_id[i]) = trace.stack[i]
    BY <1>2, <1>4, <1>5, FrameStays DEF Spells
  <2>2. trace.stack = [i \in 1..Len(trace.stack) |-> trace.stack[i]]
    <3> DEFINE stack == trace.stack
               F == {stack[i] : i \in DOMAIN stack}
    <3>1. stack \in Seq(F)
      BY DEF IsTrace, IsTable
    <3> HIDE DEF stack, F
    <3>2. stack = [i \in 1..Len(stack) |-> stack[i]]
      BY <3>1
    <3> QED BY <3>2 DEF stack
  <2>3. [i \in DOMAIN s.location_id |-> FrameOf(b1, s.location_id[i])] = trace.stack
    BY <2>1, <2>2
  <2>4. {<<String(b1, k), String(b1, s.label[k])>> : k \in DOMAIN s.label} = Kept(trace.tags)
    <3>1. Len(q) \in Nat
      BY <1>3, Appended
    <3> QED BY <1>3, <1>4, <1>5, <3>1, LabelsShown
  <2> QED BY <2>3, <2>4 DEF SampleOf, Shown
<1>8. /\ BuilderFields \subseteq DOMAIN c /\ c.sample = Append(b.sample, s)
      /\ c.string_table = b1.string_table /\ c.function = b1.function /\ c.location = b1.location
  BY <1>1, <1>2, <1>4 DEF Closed, BuilderFields
<1>9. /\ n \in Nat /\ DOMAIN b.sample = 1..n /\ IsTable(c.sample) /\ DOMAIN c.sample = 1..(n + 1)
      /\ \A i \in 1..n : c.sample[i] = b.sample[i]
      /\ c.sample[n + 1] = s
  BY <1>8, Appended DEF Closed
<1>10. Keeps(b1, c)
  BY <1>8, ExtendsAll DEF Keeps
<1>11. \A x : IsSample(b1, x) => IsSample(c, x) /\ SampleOf(c, x) = SampleOf(b1, x)
  BY <1>4, <1>10, SampleStays
<1> HIDE DEF n
<1>12. \A i \in 1..(n + 1) : i \in 1..n \/ i = n + 1
  BY <1>9
<1>13. Closed(c)
  <2>1. \A i \in 1..(n + 1) : IsSample(c, c.sample[i])
    <3>1. \A i \in 1..n : IsSample(b1, b.sample[i])
      BY <1>2, <1>4, <1>9 DEF Closed
    <3> QED BY <1>6, <1>9, <1>11, <1>12, <3>1
  <2>2. \A id : HasString(c, id) <=> HasString(b1, id)
    BY <1>8 DEF HasString
  <2> QED BY <1>4, <1>8, <1>9, <2>1, <2>2 DEF Closed
<1>14. PICK g : Tells(b, g, E, counts, period)
  BY DEF Told
<1>15. Tells(b1, g, E, counts, period)
  <2>1. Keeps(b, b1) /\ b1.sample = b.sample
    BY <1>2, <1>4, KeepsOn
  <2> QED BY <1>14, <2>1, TellsStill
<1> DEFINE h == [i \in 1..(n + 1) |-> IF i = n + 1 THEN trace ELSE g[i]]
<1>16. Tells(c, h, E \union {trace}, counts, period)
  <2>1. /\ \A i \in 1..n : g[i] \in E
        /\ \A i, j \in 1..n : g[i] = g[j] => i = j
        /\ \A e \in E : \E i \in 1..n : g[i] = e
        /\ \A i \in 1..n : SampleOf(b1, b.sample[i]) = Shown(g[i]) /\ b.sample[i].value = counts[g[i]] * period
    BY <1>2, <1>4, <1>9, <1>15 DEF Tells
  <2>2. /\ n + 1 \in 1..(n + 1) /\ h[n + 1] = trace
        /\ \A i \in 1..n : i \in 1..(n + 1) /\ h[i] = g[i]
    BY <1>9
  <2>3. h \in [1..(n + 1) -> E \union {trace}]
    BY <1>12, <2>1
  <2> HIDE DEF h
  <2>4. ASSUME NEW i \in 1..(n + 1), NEW j \in 1..(n + 1), h[i] = h[j] PROVE i = j
    BY <1>12, <2>1, <2>2, <2>4
  <2>5. ASSUME NEW e \in E \union {trace} PROVE \E i \in 1..(n + 1) : h[i] = e
    BY <2>1, <2>2
  <2>6. ASSUME NEW i \in 1..(n + 1)
        PROVE  SampleOf(c, c.sample[i]) = Shown(h[i]) /\ c.sample[i].value = counts[h[i]] * period
    <3>1. CASE i = n + 1
      BY <1>5, <1>6, <1>7, <1>9, <1>11, <2>2, <3>1
    <3>2. CASE i \in 1..n
      <4>1. IsSample(b1, b.sample[i])
        BY <1>2, <1>4, <1>9, <3>2 DEF Closed
      <4> QED BY <1>9, <1>11, <2>1, <2>2, <3>2, <4>1
    <3> QED BY <1>12, <3>1, <3>2
  <2> QED BY <1>9, <2>3, <2>4, <2>5, <2>6 DEF Tells
<1> QED BY <1>13, <1>16 DEF Told, c

-----------------------------------------------------------------------------
(* Reports.                                                                *)

\* A report on traces as often as counts has them.
IsReport(r, counts) ==
  /\ IsFiniteSet(DOMAIN r.data)
  /\ \A t \in DOMAIN r.data : IsTrace(t) /\ t.tags = r.metadata /\ r.data[t] = counts[t]

LEMMA ReportAdded ==
  ASSUME NEW b, Closed(b), NEW counts, NEW period, NEW E, Told(b, E, counts, period),
         NEW r, IsReport(r, counts), \A t \in DOMAIN r.data : t \notin E
  PROVE  LET c == AddReport(b, r, period)
         IN  Closed(c) /\ Told(c, E \union DOMAIN r.data, counts, period)
<1> DEFINE traces == SetToSeq(DOMAIN r.data)
           size == Len(traces)
           value(n) == r.data[traces[n]] * period
           args == [n \in 1..size |-> <<traces[n], r.metadata, value(n)>>]
           Turns(f) == f = [n \in 0..size |->
                              IF n = 0 THEN b
                              ELSE AddSample(f[n - 1], traces[n], r.metadata, value(n))]
           added == CHOOSE f : Turns(f)
<1>1. /\ size \in Nat
      /\ \A x \in DOMAIN r.data : \E i \in 1..size : traces[i] = x
      /\ \A i \in 1..size : traces[i] \in DOMAIN r.data
      /\ \A i, j \in 1..size : traces[i] = traces[j] => i = j
  <2> DEFINE S == DOMAIN r.data
  <2>1. IsFiniteSet(S)
    BY DEF IsReport
  <2> HIDE DEF S
  <2>2. Lists(SetToSeq(S), S)
    BY <2>1, SetListed
  <2> DEFINE q == SetToSeq(S)
  <2> HIDE DEF q
  <2>3. /\ Len(q) \in Nat /\ Len(q) = Cardinality(S)
        /\ \A x \in S : \E i \in 1..Len(q) : q[i] = x
        /\ \A i \in 1..Len(q) : q[i] \in S
    BY <2>1, <2>2, ListIsTable DEF q
  <2>4. \A i, j \in 1..Len(q) : q[i] = q[j] => i = j
    BY <2>2, <2>3 DEF Lists, q
  <2> QED BY <2>3, <2>4 DEF q, S
<1>2. AddReport(b, r, period) = added[size]
  BY DEF AddReport
<1> HIDE DEF traces, size, value
<1>3. Turns(added)
  <2>1. PICK f : Loops("traces", b, args, size, f)
    <3> HIDE DEF args
    <3> QED BY <1>1, LoopExists
  <2>2. \A n \in 0..size : n # 0 => args[n] = <<traces[n], r.metadata, value(n)>>
    <3>1. \A n \in 0..size : n # 0 => n \in 1..size
      BY <1>1
    <3> QED BY <3>1
  <2> HIDE DEF args
  <2>3. \A n \in 0..size : n # 0 =>
          Body("traces", f[n - 1], args[n]) = AddSample(f[n - 1], traces[n], r.metadata, value(n))
    BY <2>2 DEF Body
  <2>4. Turns(f)
    BY <2>1, <2>3 DEF Loops
  <2> QED BY <2>4
<1> HIDE DEF added
<1>4. /\ added[0] = b
      /\ \A n \in 1..size : added[n] = AddSample(added[n - 1], traces[n], r.metadata, value(n))
  BY <1>1, <1>3
<1> HIDE DEF Turns
<1> DEFINE Done(n) == E \union {traces[i] : i \in 1..n}
           Good(n) == Closed(added[n]) /\ Told(added[n], Done(n), counts, period)
<1>5. Good(0)
  <2>1. Done(0) = E
    OBVIOUS
  <2> QED BY <1>4, <2>1
<1>6. ASSUME NEW n \in 1..size, Good(n - 1) PROVE Good(n)
  <2> DEFINE t == traces[n]
             before == added[n - 1]
  <2>1. t \in DOMAIN r.data /\ IsTrace(t) /\ t.tags = r.metadata /\ r.data[t] = counts[t]
    BY <1>1 DEF IsReport
  <2>2. t \notin Done(n - 1)
    <3>1. \A i \in 1..(n - 1) : traces[i] # traces[n]
      BY <1>1
    <3> QED BY <2>1, <3>1
  <2>3. Done(n) = Done(n - 1) \union {t}
    <3>1. 1..n = 1..(n - 1) \union {n}
      BY <1>1
    <3> QED BY <3>1
  <2>4. added[n] = AddSample(before, t, t.tags, counts[t] * period)
    <3>1. added[n] = AddSample(added[n - 1], traces[n], r.metadata, value(n))
      BY <1>4
    <3>2. value(n) = counts[t] * period
      BY <2>1 DEF value
    <3> QED BY <2>1, <3>1, <3>2
  <2>5. Closed(before) /\ Told(before, Done(n - 1), counts, period)
    BY <1>6
  <2> HIDE DEF t, before, Done
  <2> DEFINE c == AddSample(before, t, t.tags, counts[t] * period)
  <2>6. Closed(c) /\ Told(c, Done(n - 1) \union {t}, counts, period)
    BY <2>1, <2>2, <2>5, SampleAdded
  <2> HIDE DEF c
  <2>7. added[n] = c
    BY <2>4 DEF c
  <2> QED BY <2>3, <2>6, <2>7
<1>7. Good(size)
  <2> DEFINE S == {n \in 0..size : Good(n)}
  <2>1. 0 \in S /\ \A n \in 1..size : n - 1 \in S => n \in S
    <3> HIDE DEF Good
    <3>1. 0 \in S
      BY <1>1, <1>5
    <3>2. \A n \in 1..size : n - 1 \in S => n \in S
      BY <1>1, <1>6
    <3> QED BY <3>1, <3>2
  <2>2. size \in S
    <3> HIDE DEF S
    <3> QED BY <1>1, <2>1, LastTurn
  <2> QED BY <2>2
<1>8. Done(size) = E \union DOMAIN r.data
  BY <1>1
<1> HIDE DEF Done
<1> QED BY <1>2, <1>7, <1>8 DEF size

LEMMA ReportsEncoded ==
  ASSUME NEW reports, IsFiniteSet(reports), NEW counts, NEW period,
         \A r \in reports : IsReport(r, counts),
         \A r, s \in reports : r # s => \A t \in DOMAIN r.data : t \notin DOMAIN s.data
  PROVE  LET p == encode(reports, period)
         IN  Closed(p) /\ Told(p, UNION {DOMAIN r.data : r \in reports}, counts, period)
<1> DEFINE order == SetToSeq(reports)
           size == Len(order)
           base == [string_table |-> <<"", "cpu", "nanoseconds">>, function |-> <<>>,
                    location |-> <<>>, sample |-> <<>>]
           args == [n \in 1..size |-> <<order[n], period>>]
           Turns(f) == f = [n \in 0..size |-> IF n = 0 THEN base ELSE AddReport(f[n - 1], order[n], period)]
           added == CHOOSE f : Turns(f)
<1>1. /\ size \in Nat
      /\ \A x \in reports : \E i \in 1..size : order[i] = x
      /\ \A i \in 1..size : order[i] \in reports
      /\ \A i, j \in 1..size : order[i] = order[j] => i = j
  <2>1. Lists(order, reports)
    BY SetListed
  <2> HIDE DEF order
  <2> QED BY <2>1, ListIsTable DEF Lists
<1>2. encode(reports, period) = added[size]
  BY DEF encode
<1> HIDE DEF order, size
<1>3. Turns(added)
  <2>1. PICK f : Loops("reports", base, args, size, f)
    <3> HIDE DEF args, base
    <3> QED BY <1>1, LoopExists
  <2>2. \A n \in 0..size : n # 0 => args[n] = <<order[n], period>>
    <3>1. \A n \in 0..size : n # 0 => n \in 1..size
      BY <1>1
    <3> QED BY <3>1
  <2> HIDE DEF args
  <2>3. \A n \in 0..size : n # 0 => Body("reports", f[n - 1], args[n]) = AddReport(f[n - 1], order[n], period)
    BY <2>2 DEF Body
  <2>4. Turns(f)
    <3> HIDE DEF base
    <3> QED BY <2>1, <2>3 DEF Loops
  <2> QED BY <2>4
<1> HIDE DEF added
<1>4. added[0] = base /\ \A n \in 1..size : added[n] = AddReport(added[n - 1], order[n], period)
  <2> HIDE DEF base
  <2> QED BY <1>1, <1>3
<1> HIDE DEF Turns
<1> DEFINE Done(n) == UNION {DOMAIN order[i].data : i \in 1..n}
           Good(n) == Closed(added[n]) /\ Told(added[n], Done(n), counts, period)
<1>5. Good(0)
  <2>1. Done(0) = {}
    OBVIOUS
  <2>2. Closed(base)
    <3>1. IsTable(<<>>) /\ DOMAIN <<>> = {}
      BY DEF IsTable
    <3>2. IsTable(base.string_table) /\ Distinct(base.string_table)
      <4> DEFINE q == <<"", "cpu", "nanoseconds">>
      <4>0. DOMAIN q = 1..3
        OBVIOUS
      <4>1. q[1] = "" /\ q[2] = "cpu" /\ q[3] = "nanoseconds" /\ q \in Seq({q[1], q[2], q[3]})
        OBVIOUS
      <4> HIDE DEF q
      <4>2. \A i \in DOMAIN q : i = 1 \/ i = 2 \/ i = 3
        BY <4>0
      <4>3. {q[1], q[2], q[3]} = {q[i] : i \in DOMAIN q}
        <5>1. 1 \in DOMAIN q /\ 2 \in DOMAIN q /\ 3 \in DOMAIN q
          BY <4>0
        <5> QED BY <4>2, <5>1
      <4>4. IsTable(q)
        BY <4>1, <4>3 DEF IsTable
      <4>5. Distinct(q)
        <5> SUFFICES ASSUME NEW i \in DOMAIN q, NEW j \in DOMAIN q, q[i] = q[j] PROVE i = j
          BY DEF Distinct
        <5>1. "" # "cpu" /\ "" # "nanoseconds" /\ "cpu" # "nanoseconds"
          OBVIOUS
        <5> QED BY <4>1, <4>2, <5>1
      <4> QED BY <4>4, <4>5 DEF q
    <3> QED BY <3>1, <3>2 DEF Closed, BuilderFields
  <2>3. Told(base, {}, counts, period)
    <3> DEFINE g == [i \in {} |-> 0]
    <3>1. Tells(base, g, {}, counts, period)
      BY DEF Tells
    <3> QED BY <3>1 DEF Told
  <2> HIDE DEF Done, base
  <2> QED BY <1>4, <2>1, <2>2, <2>3
<1>6. ASSUME NEW n \in 1..size, Good(n - 1) PROVE Good(n)
  <2> DEFINE r == order[n]
             before == added[n - 1]
  <2>1. r \in reports /\ IsReport(r, counts) /\ added[n] = AddReport(before, r, period)
    BY <1>1, <1>4
  <2>2. \A t \in DOMAIN r.data : t \notin Done(n - 1)
    <3>1. \A i \in 1..(n - 1) : order[i] # order[n] /\ order[i] \in reports
      BY <1>1
    <3> QED BY <2>1, <3>1
  <2>3. Done(n) = Done(n - 1) \union DOMAIN r.data
    <3>1. 1..n = 1..(n - 1) \union {n}
      BY <1>1
    <3> QED BY <3>1
  <2>4. Closed(before) /\ Told(before, Done(n - 1), counts, period)
    BY <1>6
  <2> HIDE DEF r, before, Done
  <2> QED BY <2>1, <2>2, <2>3, <2>4, ReportAdded
<1>7. Good(size)
  <2> DEFINE S == {n \in 0..size : Good(n)}
  <2>1. 0 \in S /\ \A n \in 1..size : n - 1 \in S => n \in S
    <3> HIDE DEF Good
    <3>1. 0 \in S
      BY <1>1, <1>5
    <3>2. \A n \in 1..size : n - 1 \in S => n \in S
      BY <1>1, <1>6
    <3> QED BY <3>1, <3>2
  <2>2. size \in S
    <3> HIDE DEF S
    <3> QED BY <1>1, <2>1, LastTurn
  <2> QED BY <2>2
<1>8. Done(size) = UNION {DOMAIN r.data : r \in reports}
  BY <1>1
<1> HIDE DEF Done
<1> QED BY <1>2, <1>7, <1>8

-----------------------------------------------------------------------------
(* What a reader of the profile sees.                                      *)

\* How often each stack was seen with each set of labels, in time.
TimeOf(E, counts, period) ==
  [k \in {Shown(e) : e \in E} |-> period * Total(counts, {e \in E : Shown(e) = k})]

LEMMA ToldDecodes ==
  ASSUME NEW p, IsTable(p.sample), NEW E, IsFiniteSet(E), NEW counts, \A e \in E : counts[e] \in Nat,
         NEW period \in Nat, Told(p, E, counts, period)
  PROVE  Decode(p) = TimeOf(E, counts, period)
<1> DEFINE D == DOMAIN p.sample
           Seen(i) == SampleOf(p, p.sample[i])
           v == [i \in D |-> p.sample[i].value]
<1>1. PICK g : Tells(p, g, E, counts, period)
  BY DEF Told
<1>2. /\ \A i \in D : g[i] \in E
      /\ \A i, j \in D : g[i] = g[j] => i = j
      /\ \A e \in E : \E i \in D : g[i] = e
      /\ \A i \in D : Seen(i) = Shown(g[i]) /\ v[i] = counts[g[i]] * period
  BY <1>1 DEF Tells
<1>3. IsFiniteSet(D)
  <2>1. Len(p.sample) \in Nat /\ DOMAIN p.sample = 1..Len(p.sample)
    BY Appended
  <2> QED BY <2>1, FS_Interval
<1>4. Decode(p) = [k \in {Seen(i) : i \in D} |->
                     MapThenSumSet(LAMBDA i : p.sample[i].value, {i \in D : Seen(i) = k})]
  BY DEF Decode
<1>5. {Seen(i) : i \in D} = {Shown(e) : e \in E}
  <2> HIDE DEF D, Seen, v
  <2> QED BY <1>2
<1>6. ASSUME NEW k
      PROVE  MapThenSumSet(LAMBDA i : p.sample[i].value, {i \in D : Seen(i) = k}) =
               period * Total(counts, {e \in E : Shown(e) = k})
  <2> DEFINE S == {i \in D : Seen(i) = k}
             T == {e \in E : Shown(e) = k}
  <2>1. T = {g[i] : i \in S}
    <3> HIDE DEF D, Seen, v
    <3> QED BY <1>2
  <2>2. S \in SUBSET D /\ IsFiniteSet(S)
    <3>1. S \in SUBSET D
      OBVIOUS
    <3> HIDE DEF S, D
    <3> QED BY <1>3, <3>1, FS_Subset
  <2>3. MapThenSumSet(LAMBDA i : p.sample[i].value, S) = Total(v, S)
    <3> HIDE DEF S
    <3> QED BY <2>2, SumOfValues
  <2>4. Total(v, S) = period * Total(counts, {g[i] : i \in S})
    <3> HIDE DEF S, D, v, Seen
    <3> QED BY <1>2, <1>3, <2>2, TotalsCorrespond
  <2> HIDE DEF S, T, D, v, Seen
  <2>5. MapThenSumSet(LAMBDA i : p.sample[i].value, S) = period * Total(counts, T)
    BY <2>1, <2>3, <2>4
  <2> QED BY <2>5 DEF S, T
<1> HIDE DEF D, Seen
<1> QED BY <1>4, <1>5, <1>6 DEF TimeOf

TracesOf(reports) == UNION {DOMAIN r.data : r \in reports}

LEMMA EncodeTells ==
  ASSUME NEW reports, IsFiniteSet(reports), NEW E, IsFiniteSet(E), E = TracesOf(reports),
         NEW counts, \A e \in E : counts[e] \in Nat, NEW period \in Nat,
         \A r \in reports : IsReport(r, counts),
         \A r, s \in reports : r # s => \A t \in DOMAIN r.data : t \notin DOMAIN s.data
  PROVE  Decode(encode(reports, period)) = TimeOf(E, counts, period)
<1> DEFINE p == encode(reports, period)
<1>1. Closed(p) /\ Told(p, E, counts, period)
  BY ReportsEncoded DEF TracesOf
<1> HIDE DEF p
<1>2. IsTable(p.sample)
  BY <1>1 DEF Closed
<1>3. Decode(p) = TimeOf(E, counts, period)
  BY <1>1, <1>2, ToldDecodes
<1> QED BY <1>3 DEF p

\* encode(): whatever the traces of the reports share, strings, functions, locations or keys
\* of tags, the profile gives each stack with its frames, the greatest value of each key and
\* the time it was seen.
THEOREM EncodeDecodes ==
  ASSUME NEW reports, IsFiniteSet(reports), NEW E, IsFiniteSet(E), E = TracesOf(reports),
         NEW counts, \A e \in E : counts[e] \in Nat, NEW period \in Nat,
         \A r \in reports : IsReport(r, counts),
         \A r, s \in reports : r # s => \A t \in DOMAIN r.data : t \notin DOMAIN s.data
  PROVE  Decode(encode(reports, period)) =
           [k \in {Shown(e) : e \in E} |->
              period * MapThenSumSet(LAMBDA e : counts[e], {e \in E : Shown(e) = k})]
<1> DEFINE p == encode(reports, period)
<1>1. Decode(p) = TimeOf(E, counts, period)
  BY EncodeTells
<1> HIDE DEF p
<1> DEFINE Sum(k) == MapThenSumSet(LAMBDA e : counts[e], {e \in E : Shown(e) = k})
<1>2. ASSUME NEW k PROVE Sum(k) = Total(counts, {e \in E : Shown(e) = k})
  <2> DEFINE S == {e \in E : Shown(e) = k}
  <2> HIDE DEF S
  <2>1. MapThenSumSet(LAMBDA e : counts[e], S) = Total(counts, S)
    BY SumOfCounts
  <2> QED BY <2>1 DEF S
<1> HIDE DEF Sum
<1>3. Decode(p) = [k \in {Shown(e) : e \in E} |-> period * Sum(k)]
  BY <1>1, <1>2 DEF TimeOf
<1> QED BY <1>3 DEF p, Sum
=============================================================================
