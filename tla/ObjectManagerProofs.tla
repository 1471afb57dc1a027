------------------------ MODULE ObjectManagerProofs ------------------------
(* The object manager keeps the promise of its comments, for every set of  *)
(* threads, objects and sizes.                                             *)
EXTENDS ObjectManager, FiniteSetTheorems, TLAPS

-----------------------------------------------------------------------------
(* Linked lists                                                            *)

\* The links nx lead from first through s, which holds each object of S once.
Visits(nx, first, S, s, n) ==
  /\ \A i, j \in 1 .. n : s[i] = s[j] => i = j
  /\ \A o \in S : \E i \in 1 .. n : s[i] = o
  /\ first = IF n = 0 THEN NULL ELSE s[1]
  /\ \A i \in 1 .. n : nx[s[i]] = IF i = n THEN NULL ELSE s[i + 1]

Rising(sz, s, n) == \A i \in 1 .. n : \A j \in i .. n : sz[s[i]] <= sz[s[j]]

SortedChain(nx, sz, first, S) ==
  \E n \in Nat : \E s \in [1 .. n -> S] : Visits(nx, first, S, s, n) /\ Rising(sz, s, n)

\* A list whose order does not matter.
Level == [o \in Object |-> 0]
Chain(nx, first, S) == SortedChain(nx, Level, first, S)

Links0 == [Object -> Pointer]
Sizes0 == [Object -> Nat]

LEMMA Sizes ==
  /\ Level \in Sizes0
  /\ TypeOK => size \in Sizes0 /\ next \in Links0
BY ManagerAssumption DEF Level, Sizes0, Links0, TypeOK

LEMMA ChainFrame ==
  ASSUME NEW S \in SUBSET Object, NEW nx \in Links0, NEW ny \in Links0,
         NEW sz \in Sizes0, NEW ty \in Sizes0, NEW first,
         \A o \in S : ny[o] = nx[o] /\ ty[o] = sz[o],
         SortedChain(nx, sz, first, S)
  PROVE  SortedChain(ny, ty, first, S)
<1>1. PICK n \in Nat : \E s \in [1 .. n -> S] : Visits(nx, first, S, s, n) /\ Rising(sz, s, n)
  BY DEF SortedChain
<1>2. PICK s \in [1 .. n -> S] : Visits(nx, first, S, s, n) /\ Rising(sz, s, n)
  BY <1>1
<1>3. \A i \in 1 .. n : s[i] \in S
  OBVIOUS
<1>4. Visits(ny, first, S, s, n)
  BY <1>2, <1>3 DEF Visits
<1>5. Rising(ty, s, n)
  BY <1>2, <1>3 DEF Rising
<1> QED
  BY <1>4, <1>5 DEF SortedChain

LEMMA ChainEnds ==
  ASSUME NEW S \in SUBSET Object, NEW nx \in Links0, NEW sz \in Sizes0, NEW first,
         SortedChain(nx, sz, first, S)
  PROVE  /\ first \in S \cup {NULL}
         /\ first = NULL <=> S = {}
         /\ \A o \in S : nx[o] \in S \cup {NULL}
<1>1. PICK n \in Nat : \E s \in [1 .. n -> S] : Visits(nx, first, S, s, n) /\ Rising(sz, s, n)
  BY DEF SortedChain
<1>2. PICK s \in [1 .. n -> S] : Visits(nx, first, S, s, n) /\ Rising(sz, s, n)
  BY <1>1
<1>3. first = IF n = 0 THEN NULL ELSE s[1]
  BY <1>2 DEF Visits
<1>4. n # 0 => s[1] \in S
  OBVIOUS
<1>5. n = 0 => S = {}
  BY <1>2 DEF Visits
<1>6. ASSUME NEW o \in S PROVE nx[o] \in S \cup {NULL}
  <2>1. PICK i \in 1 .. n : s[i] = o
    BY <1>2 DEF Visits
  <2>2. nx[s[i]] = IF i = n THEN NULL ELSE s[i + 1]
    BY <1>2 DEF Visits
  <2> QED
    BY <2>1, <2>2
<1>7. \A o \in S : o # NULL
  BY ManagerAssumption
<1> QED
  BY <1>3, <1>4, <1>5, <1>6, <1>7

LEMMA EmptyChain ==
  ASSUME NEW nx, NEW sz
  PROVE  SortedChain(nx, sz, NULL, {})
<1> DEFINE s == [i \in 1 .. 0 |-> {}]
<1>1. s \in [1 .. 0 -> {}]
  OBVIOUS
<1>2. Visits(nx, NULL, {}, s, 0) /\ Rising(sz, s, 0)
  BY DEF Visits, Rising
<1> QED
  BY <1>1, <1>2 DEF SortedChain

\* The successor of p, the first object if p is NULL.
After(nx, first, p) == IF p = NULL THEN first ELSE nx[p]

\* Where p is in the list: 0 if it is NULL.
LEMMA Position ==
  ASSUME NEW S \in SUBSET Object, NEW n \in Nat, NEW s \in [1 .. n -> S], NEW nx \in Links0,
         NEW first, Visits(nx, first, S, s, n), NEW p \in S \cup {NULL}
  PROVE  \E k \in 0 .. n :
           /\ k = 0 <=> p = NULL
           /\ k # 0 => s[k] = p
           /\ After(nx, first, p) = IF k = n THEN NULL ELSE s[k + 1]
<1>1. CASE p = NULL
  <2>1. first = IF 0 = n THEN NULL ELSE s[0 + 1]
    BY DEF Visits
  <2> QED
    BY <1>1, <2>1 DEF After
<1>2. CASE p # NULL
  <2>1. PICK k \in 1 .. n : s[k] = p
    BY <1>2 DEF Visits
  <2>2. nx[p] = IF k = n THEN NULL ELSE s[k + 1]
    BY <2>1 DEF Visits
  <2> QED
    BY <1>2, <2>1, <2>2 DEF After
<1> QED
  BY <1>1, <1>2

\* Linking o behind p.
LEMMA ChainInsert ==
  ASSUME NEW S \in SUBSET Object, NEW nx \in Links0, NEW ny \in Links0, NEW sz \in Sizes0,
         NEW first, SortedChain(nx, sz, first, S),
         NEW o \in Object \ S, NEW p \in S \cup {NULL}, NEW c, c = After(nx, first, p),
         p # NULL => sz[p] <= sz[o],
         c # NULL => sz[o] <= sz[c],
         \A x \in S : ny[x] = IF x = p THEN o ELSE nx[x],
         ny[o] = c
  PROVE  SortedChain(ny, sz, IF p = NULL THEN o ELSE first, S \cup {o})
<1>1. PICK n \in Nat : \E s \in [1 .. n -> S] : Visits(nx, first, S, s, n) /\ Rising(sz, s, n)
  BY DEF SortedChain
<1>2. PICK s \in [1 .. n -> S] : Visits(nx, first, S, s, n) /\ Rising(sz, s, n)
  BY <1>1
<1>3. PICK k \in 0 .. n : /\ k = 0 <=> p = NULL
                          /\ k # 0 => s[k] = p
                          /\ c = IF k = n THEN NULL ELSE s[k + 1]
  BY <1>2, Position
<1> DEFINE u == [i \in 1 .. n + 1 |-> IF i <= k THEN s[i] ELSE IF i = k + 1 THEN o ELSE s[i - 1]]
           T == S \cup {o}
<1>4. \A i \in 1 .. n : s[i] \in S /\ s[i] # NULL /\ s[i] # o
  BY ManagerAssumption
<1>5. u \in [1 .. n + 1 -> T]
  BY <1>4
<1>6. /\ \A i \in 1 .. k : i \in 1 .. n /\ i \in 1 .. n + 1 /\ u[i] = s[i]
      /\ k + 1 \in 1 .. n + 1 /\ u[k + 1] = o
      /\ \A i \in k + 1 .. n : i \in 1 .. n /\ i + 1 \in 1 .. n + 1 /\ u[i + 1] = s[i]
  OBVIOUS
<1>7. \A i \in 1 .. n + 1 : \/ i \in 1 .. k
                            \/ i = k + 1
                            \/ i - 1 \in k + 1 .. n /\ i = (i - 1) + 1
  OBVIOUS
<1>8. \A i, j \in 1 .. n : s[i] = s[j] => i = j
  BY <1>2 DEF Visits
<1>9. \A i, j \in 1 .. n + 1 : u[i] = u[j] => i = j
  <2> SUFFICES ASSUME NEW i \in 1 .. n + 1, NEW j \in 1 .. n + 1, u[i] = u[j] PROVE i = j
    OBVIOUS
  <2> QED
    BY <1>4, <1>8
<1>10. \A x \in T : \E i \in 1 .. n + 1 : u[i] = x
  <2>1. ASSUME NEW x \in S PROVE \E i \in 1 .. n + 1 : u[i] = x
    <3>1. PICK i \in 1 .. n : s[i] = x
      BY <1>2 DEF Visits
    <3>2. CASE i <= k
      BY <3>1, <3>2, <1>6
    <3>3. CASE i > k
      BY <3>1, <3>3, <1>6
    <3> QED
      BY <3>2, <3>3
  <2> QED
    BY <2>1, <1>6
<1>11. (IF p = NULL THEN o ELSE first) = IF n + 1 = 0 THEN NULL ELSE u[1]
  <2>1. first = IF n = 0 THEN NULL ELSE s[1]
    BY <1>2 DEF Visits
  <2> QED
    BY <2>1, <1>3
<1>12. \A i \in 1 .. n + 1 : ny[u[i]] = IF i = n + 1 THEN NULL ELSE u[i + 1]
  <2> SUFFICES ASSUME NEW i \in 1 .. n + 1
               PROVE ny[u[i]] = IF i = n + 1 THEN NULL ELSE u[i + 1]
    OBVIOUS
  <2>1. \A m \in 1 .. n : nx[s[m]] = IF m = n THEN NULL ELSE s[m + 1]
    BY <1>2 DEF Visits
  <2>2. CASE i < k
    <3>1. s[i] # p
      BY <2>2, <1>3, <1>8
    <3>2. ny[s[i]] = nx[s[i]] /\ i # n
      BY <3>1, <2>2, <1>4
    <3> QED
      BY <3>2, <2>1, <2>2
  <2>3. CASE i = k
    <3>1. s[k] = p /\ p \in S
      BY <2>3, <1>3, <1>4
    <3> QED
      BY <3>1, <2>3
  <2>4. CASE i = k + 1
    <3>1. ny[u[i]] = c
      BY <2>4
    <3> QED
      BY <3>1, <2>4, <1>3
  <2>5. CASE i > k + 1
    <3> DEFINE m == i - 1
    <3>1. m \in 1 .. n /\ u[i] = s[m] /\ m > k
      BY <2>5
    <3>2. s[m] # p
      <4>1. CASE k = 0
        BY <4>1, <3>1, <1>3, <1>4
      <4>2. CASE k # 0
        BY <4>2, <3>1, <1>3, <1>8
      <4> QED
        BY <4>1, <4>2
    <3>3. ny[s[m]] = IF m = n THEN NULL ELSE s[m + 1]
      BY <3>1, <3>2, <2>1, <1>4
    <3> QED
      BY <3>1, <3>3
  <2> QED
    BY <2>2, <2>3, <2>4, <2>5
<1>13. Visits(ny, IF p = NULL THEN o ELSE first, T, u, n + 1)
  <2> HIDE DEF u, T
  <2> QED
    BY <1>9, <1>10, <1>11, <1>12 DEF Visits
<1>14. Rising(sz, u, n + 1)
  <2> SUFFICES ASSUME NEW i \in 1 .. n + 1, NEW j \in i .. n + 1 PROVE sz[u[i]] <= sz[u[j]]
    BY DEF Rising
  <2>1. \A a \in 1 .. n : \A b \in a .. n : sz[s[a]] <= sz[s[b]]
    BY <1>2 DEF Rising
  <2>2. \A a \in 1 .. n : sz[s[a]] \in Nat
    BY <1>4 DEF Sizes0
  <2>3. sz[o] \in Nat
    BY DEF Sizes0
  <2>4. \A a \in 1 .. k : sz[s[a]] <= sz[o]
    <3> SUFFICES ASSUME NEW a \in 1 .. k PROVE sz[s[a]] <= sz[o]
      OBVIOUS
    <3>1. sz[s[a]] <= sz[s[k]]
      BY <2>1
    <3>2. sz[s[k]] <= sz[o]
      BY <1>3
    <3> QED
      BY <3>1, <3>2, <2>2, <2>3
  <2>5. \A a \in k + 1 .. n : sz[o] <= sz[s[a]]
    <3> SUFFICES ASSUME NEW a \in k + 1 .. n PROVE sz[o] <= sz[s[a]]
      OBVIOUS
    <3>1. sz[s[k + 1]] <= sz[s[a]]
      BY <2>1
    <3>2. sz[o] <= sz[s[k + 1]]
      BY <1>3, <1>4
    <3> QED
      BY <3>1, <3>2, <2>2, <2>3
  <2>6. CASE j <= k
    BY <2>6, <2>1
  <2>7. CASE i <= k /\ j = k + 1
    BY <2>7, <2>4
  <2>8. CASE i <= k /\ j > k + 1
    <3>1. i \in 1 .. n /\ j - 1 \in i .. n /\ u[i] = s[i] /\ u[j] = s[j - 1]
      BY <2>8
    <3> QED
      BY <3>1, <2>1
  <2>9. CASE i = k + 1 /\ j = k + 1
    BY <2>9, <2>3
  <2>10. CASE i = k + 1 /\ j > k + 1
    <3>1. j - 1 \in k + 1 .. n /\ u[i] = o /\ u[j] = s[j - 1]
      BY <2>10
    <3> QED
      BY <3>1, <2>5
  <2>11. CASE i > k + 1
    <3>1. i - 1 \in 1 .. n /\ j - 1 \in i - 1 .. n /\ u[i] = s[i - 1] /\ u[j] = s[j - 1]
      BY <2>11
    <3> QED
      BY <3>1, <2>1
  <2> QED
    BY <2>6, <2>7, <2>8, <2>9, <2>10, <2>11
<1> HIDE DEF u
<1> QED
  BY <1>5, <1>13, <1>14 DEF SortedChain

\* Unlinking c, which comes behind p.
LEMMA ChainRemove ==
  ASSUME NEW S \in SUBSET Object, NEW nx \in Links0, NEW ny \in Links0, NEW sz \in Sizes0,
         NEW first, SortedChain(nx, sz, first, S),
         NEW p \in S \cup {NULL}, NEW c, c = After(nx, first, p), c # NULL,
         \A x \in S \ {c} : ny[x] = IF x = p THEN nx[c] ELSE nx[x]
  PROVE  /\ c \in S /\ c # p
         /\ SortedChain(ny, sz, IF p = NULL THEN nx[c] ELSE first, S \ {c})
<1>1. PICK n \in Nat : \E s \in [1 .. n -> S] : Visits(nx, first, S, s, n) /\ Rising(sz, s, n)
  BY DEF SortedChain
<1>2. PICK s \in [1 .. n -> S] : Visits(nx, first, S, s, n) /\ Rising(sz, s, n)
  BY <1>1
<1>3. PICK k \in 0 .. n : /\ k = 0 <=> p = NULL
                          /\ k # 0 => s[k] = p
                          /\ c = IF k = n THEN NULL ELSE s[k + 1]
  BY <1>2, Position
<1>4. k < n /\ k + 1 \in 1 .. n /\ c = s[k + 1] /\ c \in S
  BY <1>3
<1>5. \A i, j \in 1 .. n : s[i] = s[j] => i = j
  BY <1>2 DEF Visits
<1>6. c # p
  <2>1. k # 0 => s[k] # s[k + 1]
    BY <1>4, <1>5
  <2> QED
    BY <2>1, <1>3, <1>4, ManagerAssumption
<1> DEFINE u == [i \in 1 .. n - 1 |-> IF i <= k THEN s[i] ELSE s[i + 1]]
           T == S \ {c}
           m == n - 1
<1>7. m \in Nat /\ n = m + 1
  BY <1>4
<1>8. \A i \in 1 .. m : u[i] = IF i <= k THEN s[i] ELSE s[i + 1]
  OBVIOUS
<1>8a. u = [i \in 1 .. m |-> u[i]]
  OBVIOUS
<1> HIDE DEF u
<1>8b. \A i \in 1 .. m : i \in 1 .. n /\ i + 1 \in 1 .. n /\ u[i] \in S /\ u[i] # c
  BY <1>4, <1>5, <1>7, <1>8
<1>9. u \in [1 .. m -> T]
  <2>2. \A i \in 1 .. m : u[i] \in T
    BY <1>8, <1>8b
  <2> HIDE DEF T, m
  <2> QED
    BY <1>8a, <2>2
<1>10. \A i, j \in 1 .. m : u[i] = u[j] => i = j
  <2> SUFFICES ASSUME NEW i \in 1 .. m, NEW j \in 1 .. m, u[i] = u[j] PROVE i = j
    OBVIOUS
  <2> QED
    BY <1>8, <1>8b, <1>5
<1>11. \A x \in T : \E i \in 1 .. m : u[i] = x
  <2> SUFFICES ASSUME NEW x \in T PROVE \E i \in 1 .. m : u[i] = x
    OBVIOUS
  <2>1. PICK i \in 1 .. n : s[i] = x
    BY <1>2 DEF Visits
  <2>2. i # k + 1
    BY <2>1, <1>4
  <2>3. CASE i <= k
    <3>1. i \in 1 .. m /\ u[i] = s[i]
      BY <2>3, <1>4, <1>8, <1>8b
    <3> QED
      BY <3>1, <2>1
  <2>4. CASE i > k + 1
    <3>1. i - 1 \in 1 .. m /\ i - 1 > k /\ (i - 1) + 1 = i
      BY <2>4, <1>4
    <3>2. u[i - 1] = s[i]
      BY <3>1, <1>8, <1>8b
    <3> QED
      BY <3>1, <3>2, <2>1
  <2> QED
    BY <2>2, <2>3, <2>4
<1>12. \A i \in 1 .. n : nx[s[i]] = IF i = n THEN NULL ELSE s[i + 1]
  BY <1>2 DEF Visits
<1>13. nx[c] = IF k = m THEN NULL ELSE s[k + 2]
  BY <1>12, <1>4
<1>14. (IF p = NULL THEN nx[c] ELSE first) = IF m = 0 THEN NULL ELSE u[1]
  <2>1. first = s[1]
    BY <1>2, <1>4 DEF Visits
  <2>2. CASE k = 0
    BY <2>2, <1>3, <1>13, <1>8, <1>8b, <1>7
  <2>3. CASE k # 0
    BY <2>3, <2>1, <1>3, <1>8, <1>8b, <1>7, <1>4
  <2> QED
    BY <2>2, <2>3
<1>15. \A i \in 1 .. m : ny[u[i]] = IF i = m THEN NULL ELSE u[i + 1]
  <2> SUFFICES ASSUME NEW i \in 1 .. m PROVE ny[u[i]] = IF i = m THEN NULL ELSE u[i + 1]
    OBVIOUS
  <2>1. ny[u[i]] = IF u[i] = p THEN nx[c] ELSE nx[u[i]]
    <3>1. u[i] \in S \ {c}
      BY <1>8, <1>8b
    <3> QED
      BY <3>1
  <2>2. CASE i < k
    <3>1. u[i] = s[i] /\ s[i] # p /\ i + 1 \in 1 .. m /\ u[i + 1] = s[i + 1] /\ i # n
      BY <2>2, <1>8, <1>8b, <1>5, <1>3, <1>4
    <3> QED
      BY <3>1, <2>1, <1>12, <2>2, <1>4
  <2>3. CASE i = k
    <3>1. u[i] = p
      BY <2>3, <1>8, <1>8b, <1>3
    <3>2. i # m => i + 1 \in 1 .. m /\ u[i + 1] = s[k + 2]
      BY <2>3, <1>8, <1>8b
    <3> QED
      BY <3>1, <3>2, <2>1, <1>13, <2>3
  <2>4. CASE i > k
    <3>1. u[i] = s[i + 1] /\ i + 1 \in 1 .. n
      BY <2>4, <1>8, <1>8b
    <3>2. s[i + 1] # p
      <4>1. CASE k = 0
        BY <4>1, <1>3, <3>1, ManagerAssumption
      <4>2. CASE k # 0
        BY <4>2, <1>3, <1>5, <3>1, <2>4
      <4> QED
        BY <4>1, <4>2
    <3>3. i # m => i + 1 \in 1 .. m /\ u[i + 1] = s[i + 2]
      BY <2>4, <1>8, <1>8b
    <3> QED
      BY <3>1, <3>2, <3>3, <2>1, <1>12, <1>7
  <2> QED
    BY <2>2, <2>3, <2>4
<1>16. Visits(ny, IF p = NULL THEN nx[c] ELSE first, T, u, m)
  <2> HIDE DEF u, T, m
  <2> QED
    BY <1>10, <1>11, <1>14, <1>15 DEF Visits
<1>17. Rising(sz, u, m)
  <2> SUFFICES ASSUME NEW i \in 1 .. m, NEW j \in i .. m PROVE sz[u[i]] <= sz[u[j]]
    BY DEF Rising
  <2> DEFINE Old(x) == IF x <= k THEN x ELSE x + 1
  <2>1. Old(i) \in 1 .. n /\ Old(j) \in Old(i) .. n
    BY <1>7
  <2>2. u[i] = s[Old(i)] /\ u[j] = s[Old(j)]
    BY <1>8, <1>8b
  <2>3. \A a \in 1 .. n : \A b \in a .. n : sz[s[a]] <= sz[s[b]]
    BY <1>2 DEF Rising
  <2> HIDE DEF Old
  <2> QED
    BY <2>1, <2>2, <2>3
<1>18. SortedChain(ny, sz, IF p = NULL THEN nx[c] ELSE first, T)
  <2> HIDE DEF u, m
  <2> QED
    BY <1>9, <1>16, <1>17, <1>7 DEF SortedChain
<1> QED
  BY <1>4, <1>6, <1>18

\* Where the search stops is the smallest object that is large enough.
LEMMA ChainSearch ==
  ASSUME NEW S \in SUBSET Object, NEW nx \in Links0, NEW sz \in Sizes0, NEW first,
         SortedChain(nx, sz, first, S), NEW needed \in Nat,
         NEW p \in S \cup {NULL}, NEW c, c = After(nx, first, p),
         p # NULL => sz[p] < needed
  PROVE  /\ c # NULL => \A o \in S : needed <= sz[o] => sz[c] <= sz[o]
         /\ c = NULL => \A o \in S : sz[o] < needed
<1>1. PICK n \in Nat : \E s \in [1 .. n -> S] : Visits(nx, first, S, s, n) /\ Rising(sz, s, n)
  BY DEF SortedChain
<1>2. PICK s \in [1 .. n -> S] : Visits(nx, first, S, s, n) /\ Rising(sz, s, n)
  BY <1>1
<1>3. PICK k \in 0 .. n : /\ k = 0 <=> p = NULL
                          /\ k # 0 => s[k] = p
                          /\ c = IF k = n THEN NULL ELSE s[k + 1]
  BY <1>2, Position
<1>4. \A i \in 1 .. n : sz[s[i]] \in Nat /\ s[i] # NULL
  BY ManagerAssumption DEF Sizes0
<1>5. \A i \in 1 .. n : \A j \in i .. n : sz[s[i]] <= sz[s[j]]
  BY <1>2 DEF Rising
<1>6. \A i \in 1 .. k : sz[s[i]] < needed
  <2> SUFFICES ASSUME NEW i \in 1 .. k PROVE sz[s[i]] < needed
    OBVIOUS
  <2>1. sz[s[i]] <= sz[s[k]] /\ k \in 1 .. n /\ i \in 1 .. n
    BY <1>5
  <2>2. sz[s[k]] < needed
    BY <1>3
  <2> QED
    BY <2>1, <2>2, <1>4
<1>7. ASSUME NEW o \in S, ~ sz[o] < needed, NEW i \in 1 .. n, s[i] = o
      PROVE  k # n /\ sz[s[k + 1]] <= sz[o]
  <2>1. i > k
    BY <1>6, <1>7
  <2> QED
    BY <2>1, <1>5, <1>7
<1>8. \A o \in S : \E i \in 1 .. n : s[i] = o
  BY <1>2 DEF Visits
<1>9. k # n => c = s[k + 1] /\ c # NULL
  BY <1>3, <1>4
<1>10. \A o \in S : sz[o] \in Nat
  BY DEF Sizes0
<1> QED
  BY <1>3, <1>7, <1>8, <1>9, <1>10

\* Linking o in front.
LEMMA ChainAdd ==
  ASSUME NEW S \in SUBSET Object, NEW nx \in Links0, NEW ny \in Links0, NEW first,
         Chain(nx, first, S), NEW o \in Object \ S, ny[o] = first, \A x \in S : ny[x] = nx[x]
  PROVE  Chain(ny, o, S \cup {o})
<1> DEFINE p == NULL
<1>1. SortedChain(nx, Level, first, S) /\ Level \in Sizes0
  BY Sizes DEF Chain
<1>2. p \in S \cup {NULL} /\ first = After(nx, first, p) /\ p = NULL
  BY DEF After
<1>3. \A x \in S : ny[x] = IF x = p THEN o ELSE nx[x]
  BY ManagerAssumption
<1>4. first # NULL => Level[o] <= Level[first]
  BY <1>1, ChainEnds DEF Level
<1> HIDE DEF p
<1>5. p # NULL => Level[p] <= Level[o]
  BY <1>2
<1>6. SortedChain(ny, Level, IF p = NULL THEN o ELSE first, S \cup {o})
  BY <1>1, <1>2, <1>3, <1>4, <1>5, ChainInsert, SMTT(60)
<1> QED
  BY <1>2, <1>6 DEF Chain

\* A list linked anew.
LEMMA ChainRelink ==
  ASSUME NEW S \in SUBSET Object, NEW n \in Nat, NEW s \in [1 .. n -> S], n # 0,
         \A i, j \in 1 .. n : s[i] = s[j] => i = j,
         \A o \in S : \E i \in 1 .. n : s[i] = o,
         NEW ny \in Links0,
         \A i \in 1 .. n : ny[s[i]] = IF i = n THEN NULL ELSE s[i + 1]
  PROVE  Chain(ny, s[1], S)
<1>1. Visits(ny, s[1], S, s, n)
  BY DEF Visits
<1>2. \A i \in 1 .. n : Level[s[i]] = 0
  BY DEF Level
<1>3. Rising(Level, s, n)
  BY <1>2 DEF Rising
<1> QED
  BY <1>1, <1>3 DEF Chain, SortedChain

-----------------------------------------------------------------------------
(* The inductive invariant                                                 *)

\* No two of the places share an object.
Apart ==
  /\ free \cap listed = {}
  /\ \A t \in Thread : held[t] \cap (free \cup listed) = {} /\ chained[t] \cap (free \cup listed) = {}
  /\ \A t, u \in Thread : held[t] \cap chained[u] = {}
  /\ \A t, u \in Thread : t # u => held[t] \cap held[u] = {} /\ chained[t] \cap chained[u] = {}

\* What is left of the list a thread has taken.
Rest(t) == chained[t] \ (IF pc[t] = "placeNext" THEN {obj[t]} ELSE {})

FreeChain  == SortedChain(next, size, head, free)
ListChain  == Chain(next, listHead, listed)
Rests      == \A t \in Thread : Chain(next, chain[t], Rest(t))
LockHolder == \A t \in Thread : lock = t <=> pc[t] # "idle"

\* The two pointers of a walk are neighbours in the free list, and the object
\* before is too small for the search, or not behind the object to be placed.
Walk(t) ==
  /\ pc[t] \in {"search", "place", "placeNext"} =>
       /\ prev[t] \in free \cup {NULL}
       /\ cur[t] = After(next, head, prev[t])
       /\ prev[t] # NULL => IF pc[t] = "search" THEN size[prev[t]] < nbytesNeeded[t]
                                               ELSE size[prev[t]] <= size[obj[t]]
  /\ pc[t] = "search" => nbytesNeeded[t] \in Bytes
  /\ pc[t] = "place" => obj[t] \in held[t]
  /\ pc[t] = "placeNext" => obj[t] \in chained[t]

Walks == \A t \in Thread : Walk(t)
Count == nactive = Cardinality(InUse)

ManagerInv ==
  TypeOK /\ Apart /\ FreeChain /\ ListChain /\ Rests /\ LockHolder /\ Walks /\ Count

LEMMA InUseOf ==
  ASSUME NEW o
  PROVE  o \in InUse <=> \/ o \in listed
                         \/ \E t \in Thread : o \in held[t] \/ o \in chained[t]
BY DEF InUse, HeldBy, ChainedBy

LEMMA InUseFinite == TypeOK => IsFiniteSet(InUse) /\ Cardinality(InUse) \in Nat
<1> SUFFICES ASSUME TypeOK PROVE IsFiniteSet(InUse) /\ Cardinality(InUse) \in Nat
  OBVIOUS
<1>1. InUse \subseteq Object
  BY InUseOf DEF TypeOK
<1> QED
  BY <1>1, ManagerAssumption, FS_Subset, FS_CardinalityType

LEMMA ApartPlaces == ManagerInv => ObjectInOnePlace
<1> SUFFICES ASSUME ManagerInv PROVE ObjectInOnePlace
  OBVIOUS
<1>1. Apart
  BY DEF ManagerInv
<1> QED
  BY <1>1 DEF Apart, ObjectInOnePlace, InUse, HeldBy, ChainedBy

LEMMA InitInv == Init => ManagerInv
<1> SUFFICES ASSUME Init PROVE ManagerInv
  OBVIOUS
<1>1. \A t \in Thread : held[t] = {} /\ chained[t] = {}
  BY DEF Init
<1>2. InUse = {}
  BY <1>1 DEF InUse, HeldBy, ChainedBy, Init
<1>3. Count
  BY <1>2, FS_EmptySet DEF Count, Init
<1>4. TypeOK
  BY ManagerAssumption DEF Init, TypeOK, Pointer
<1>5. FreeChain /\ ListChain
  BY EmptyChain DEF Init, FreeChain, ListChain, Chain
<1>6. Rests
  <2>1. \A t \in Thread : chain[t] = NULL /\ Rest(t) = {}
    BY DEF Init, Rest
  <2> QED
    BY <2>1, EmptyChain DEF Rests, Chain
<1>7. Apart
  BY <1>1 DEF Apart, Init
<1>8. LockHolder /\ Walks
  BY ManagerAssumption DEF LockHolder, Walks, Walk, Init
<1> QED
  BY <1>3, <1>4, <1>5, <1>6, <1>7, <1>8 DEF ManagerInv

-----------------------------------------------------------------------------
(* The steps keep it                                                       *)

\* A step of one thread that touches neither the lists nor the places.
LEMMA SamePlaces ==
  ASSUME ManagerInv, UNCHANGED <<next, size, head, nactive, listHead, places>>,
         NEW t \in Thread,
         \A u \in Thread \ {t} : pc'[u] = pc[u] /\ obj'[u] = obj[u] /\ chain'[u] = chain[u],
         Chain(next, chain'[t], Rest(t)')
  PROVE  Apart' /\ FreeChain' /\ ListChain' /\ Rests' /\ Count'
<1>1. Apart'
  BY DEF ManagerInv, Apart, places
<1>2. FreeChain' /\ ListChain'
  BY DEF ManagerInv, FreeChain, ListChain, places
<1>3. Rests'
  <2>1. \A u \in Thread \ {t} : Rest(u)' = Rest(u)
    BY DEF Rest, places
  <2>2. \A u \in Thread : Chain(next, chain[u], Rest(u))
    BY DEF ManagerInv, Rests
  <2>3. \A u \in Thread \ {t} : Chain(next, chain'[u], Rest(u)')
    BY <2>1, <2>2
  <2> QED
    BY <2>3 DEF Rests
<1>4. Count'
  <2>1. InUse' = InUse
    BY DEF InUse, HeldBy, ChainedBy, places
  <2> QED
    BY <2>1 DEF ManagerInv, Count
<1> QED
  BY <1>1, <1>2, <1>3, <1>4

\* Only the holder of the mutex is in the manager.
LEMMA Alone ==
  ASSUME ManagerInv, NEW t \in Thread, lock = NoOne \/ pc[t] # "idle"
  PROVE  \A u \in Thread \ {t} : pc[u] = "idle"
BY ManagerAssumption DEF ManagerInv, LockHolder

LEMMA RequestInv ==
  ASSUME ManagerInv, NEW t \in Thread, NEW n \in Bytes, Request(t, n) PROVE ManagerInv'
<1>1. /\ UNCHANGED <<mode, type, nbytesactive, next, size, head, nactive, listHead, places, chain, obj>>
      /\ pc' = [pc EXCEPT ![t] = "search"] /\ pc[t] = "idle"
      /\ lock = NoOne /\ lock' = t
      /\ nbytesNeeded' = [nbytesNeeded EXCEPT ![t] = n]
      /\ prev' = [prev EXCEPT ![t] = NULL] /\ cur' = [cur EXCEPT ![t] = head]
  BY DEF Request, Lock, GoTo, StartWalk
<1>2. TypeOK
  BY DEF ManagerInv
<1>3. TypeOK'
  BY <1>1, <1>2 DEF TypeOK, places, Pointer
<1>4. Rest(t)' = Rest(t) /\ chain'[t] = chain[t]
  BY <1>1, <1>2 DEF Rest, TypeOK, places
<1>5. Apart' /\ FreeChain' /\ ListChain' /\ Rests' /\ Count'
  <2>1. Chain(next, chain'[t], Rest(t)')
    BY <1>4 DEF ManagerInv, Rests
  <2>2. \A u \in Thread \ {t} : pc'[u] = pc[u] /\ obj'[u] = obj[u] /\ chain'[u] = chain[u]
    BY <1>1, <1>2 DEF TypeOK
  <2> QED
    BY <1>1, <2>1, <2>2, SamePlaces
<1>6. \A u \in Thread \ {t} : pc[u] = "idle"
  BY <1>1, Alone
<1>7. LockHolder'
  BY <1>1, <1>2, <1>6, ManagerAssumption DEF TypeOK, LockHolder
<1>8. Walks'
  <2>1. \A u \in Thread \ {t} : Walk(u)'
    BY <1>1, <1>2, <1>6 DEF TypeOK, Walk
  <2>2. Walk(t)'
    BY <1>1, <1>2 DEF TypeOK, Walk, After
  <2> QED
    BY <2>1, <2>2 DEF Walks
<1> QED
  BY <1>3, <1>5, <1>7, <1>8 DEF ManagerInv

LEMMA SizeOrder == TypeOK => \A o \in Object : size[o] \in Nat
BY ManagerAssumption DEF TypeOK

LEMMA CursorInList ==
  ASSUME ManagerInv, NEW t \in Thread, pc[t] \in {"search", "place", "placeNext"}
  PROVE  /\ cur[t] \in free \cup {NULL} /\ prev[t] \in free \cup {NULL}
         /\ free \subseteq Object /\ NULL \notin Object
         /\ cur[t] = After(next, head, prev[t])
<1>1. TypeOK /\ FreeChain /\ Walk(t)
  BY DEF ManagerInv, Walks
<1>2. free \in SUBSET Object
  BY <1>1 DEF TypeOK
<1>3. head \in free \cup {NULL} /\ \A o \in free : next[o] \in free \cup {NULL}
  BY <1>1, <1>2, Sizes, ChainEnds DEF FreeChain
<1> QED
  BY <1>1, <1>2, <1>3, ManagerAssumption DEF Walk, After

LEMMA AdvanceInv ==
  ASSUME ManagerInv, NEW t \in Thread, SearchOn(t) \/ PlaceOn(t) PROVE ManagerInv'
<1>1. /\ UNCHANGED <<manager, next, size, pc, nbytesNeeded, obj, chain, listHead, places>>
      /\ prev' = [prev EXCEPT ![t] = cur[t]] /\ cur' = [cur EXCEPT ![t] = next[cur[t]]]
      /\ pc[t] \in {"search", "place", "placeNext"} /\ cur[t] # NULL
  BY DEF SearchOn, PlaceOn, Advance
<1>2. TypeOK
  BY DEF ManagerInv
<1>3. cur[t] \in free /\ cur[t] \in Object /\ next[cur[t]] \in Pointer
  BY <1>1, <1>2, CursorInList DEF TypeOK
<1>4. TypeOK'
  BY <1>1, <1>2, <1>3 DEF TypeOK, places, manager, Pointer
<1>5. Apart' /\ FreeChain' /\ ListChain' /\ Rests' /\ Count'
  <2>1. Rest(t)' = Rest(t)
    BY <1>1 DEF Rest, places
  <2>2. Chain(next, chain'[t], Rest(t)')
    BY <1>1, <2>1 DEF ManagerInv, Rests
  <2> QED
    BY <1>1, <2>2, SamePlaces DEF manager
<1>6. LockHolder'
  BY <1>1 DEF ManagerInv, LockHolder, manager
<1>7. Walk(t)'
  <2>1. pc[t] = "search" => size[cur[t]] < nbytesNeeded[t]
    <3>1. ASSUME pc[t] = "search" PROVE size[cur[t]] < nbytesNeeded[t]
      <4>1. ~Enough(t) /\ nbytesNeeded[t] \in Nat
        BY <3>1, ManagerAssumption DEF SearchOn, PlaceOn, ManagerInv, Walks, Walk
      <4> QED
        BY <4>1, <1>2, <1>3, SizeOrder DEF Enough
    <3> QED
      BY <3>1
  <2>2. pc[t] # "search" => size[cur[t]] <= size[obj[t]]
    <3>1. ASSUME pc[t] # "search" PROVE size[cur[t]] <= size[obj[t]]
      <4>1. ~Beyond(t)
        BY <3>1 DEF SearchOn, PlaceOn
      <4>2. obj[t] \in Object
        BY <3>1, <1>1, <1>2 DEF ManagerInv, Walks, Walk, TypeOK
      <4> QED
        BY <4>1, <4>2, <1>2, <1>3, SizeOrder DEF Beyond
    <3> QED
      BY <3>1
  <2>3. prev'[t] = cur[t] /\ cur'[t] = next[cur[t]]
    BY <1>1, <1>2 DEF TypeOK
  <2>4. cur'[t] = After(next, head, prev'[t])
    BY <2>3, <1>1 DEF After
  <2>5. Walk(t)
    BY DEF ManagerInv, Walks
  <2> QED
    BY <2>1, <2>2, <2>3, <2>4, <2>5, <1>1, <1>3 DEF Walk, places, manager, After
<1>8. Walks'
  <2>1. \A u \in Thread \ {t} : Walk(u)'
    <3>1. \A u \in Thread \ {t} : pc[u] = "idle"
      BY <1>1, Alone
    <3> QED
      BY <3>1, <1>1 DEF Walk
  <2> QED
    BY <2>1, <1>7 DEF Walks
<1> QED
  BY <1>4, <1>5, <1>6, <1>8 DEF ManagerInv

-----------------------------------------------------------------------------
(* Objects given out and released                                          *)

LEMMA GainCount ==
  ASSUME TypeOK, Count, NEW o, o \notin InUse, InUse' = InUse \cup {o}, nactive' = nactive + 1
  PROVE  Count' /\ nactive' \in Nat
<1>1. Cardinality(InUse \cup {o}) = Cardinality(InUse) + 1
  BY InUseFinite, FS_AddElement
<1> QED
  BY <1>1, InUseFinite DEF Count

LEMMA LossCount ==
  ASSUME TypeOK, Count, NEW o, o \in InUse, InUse' = InUse \ {o}, nactive' = nactive - 1
  PROVE  Count' /\ nactive' \in Nat
<1>1. Cardinality(InUse \ {o}) = Cardinality(InUse) - 1 /\ IsFiniteSet(InUse \ {o})
  BY InUseFinite, FS_RemoveElement
<1>2. Cardinality(InUse \ {o}) \in Nat
  BY <1>1, FS_CardinalityType
<1> QED
  BY <1>1, <1>2, InUseFinite DEF Count

LEMMA HandOverUse ==
  ASSUME TypeOK, NEW t \in Thread, NEW o, HandOver(t, o) PROVE InUse' = InUse \cup {o}
<1>1. /\ held' = [held EXCEPT ![t] = @ \cup {o}]
      /\ UNCHANGED <<listed, chained>>
  BY DEF HandOver
<1>2. \A u \in Thread : held'[u] = IF u = t THEN held[u] \cup {o} ELSE held[u]
  BY <1>1 DEF TypeOK
<1>3. HeldBy' = HeldBy \cup {o}
  BY <1>2 DEF HeldBy
<1> QED
  BY <1>1, <1>3 DEF InUse, ChainedBy

LEMMA HandOverInv ==
  ASSUME ManagerInv, NEW t \in Thread, NEW o \in Object, HandOver(t, o),
         o \notin InUse, free' = free \ {o}, pc[t] # "idle", pc[t] # "placeNext",
         head' \in Pointer, next' \in Links0, size' \in [Object -> Bytes],
         nactive' = nactive + 1, nbytesactive' \in Int,
         FreeChain', \A x \in InUse : next'[x] = next[x]
  PROVE  ManagerInv'
<1>1. TypeOK /\ Apart
  BY DEF ManagerInv
<1>2. /\ held' = [held EXCEPT ![t] = @ \cup {o}]
      /\ pc' = [pc EXCEPT ![t] = "idle"]
      /\ lock' = IF lock = t THEN NoOne ELSE lock
      /\ nbytesNeeded' = [nbytesNeeded EXCEPT ![t] = 0]
      /\ prev' = [prev EXCEPT ![t] = NULL] /\ cur' = [cur EXCEPT ![t] = NULL]
      /\ obj' = [obj EXCEPT ![t] = NULL]
      /\ UNCHANGED <<mode, type, chain, listHead, listed, chained>>
  BY DEF HandOver, Return, GoTo, Unlock
<1>3. InUse' = InUse \cup {o}
  BY <1>1, HandOverUse
<1>4. Count' /\ nactive' \in Nat
  BY <1>1, <1>3, GainCount DEF ManagerInv
<1>5. TypeOK'
  BY <1>1, <1>2, <1>4 DEF TypeOK, Pointer, Links0
<1>6. o \notin listed /\ \A u \in Thread : o \notin held[u] /\ o \notin chained[u]
  BY InUseOf
<1>7. Apart'
  <2>1. \A u \in Thread : held'[u] = IF u = t THEN held[u] \cup {o} ELSE held[u]
    BY <1>1, <1>2 DEF TypeOK
  <2> QED
    BY <1>1, <1>2, <1>6, <2>1 DEF Apart
<1>8. ListChain'
  <2>1. listed \in SUBSET Object /\ \A x \in listed : next'[x] = next[x]
    BY <1>1, InUseOf DEF TypeOK
  <2>2. SortedChain(next, Level, listHead, listed)
    BY DEF ManagerInv, ListChain, Chain
  <2>3. SortedChain(next', Level, listHead, listed)
    BY <1>1, <2>1, <2>2, Sizes, ChainFrame
  <2> QED
    BY <2>3, <1>2 DEF ListChain, Chain
<1>9. Rests'
  <2> SUFFICES ASSUME NEW u \in Thread PROVE Chain(next, chain[u], Rest(u))'
    BY DEF Rests
  <2>1. Rest(u)' = Rest(u)
    <3>1. u = t => pc'[t] = "idle" /\ pc[t] # "placeNext"
      BY <1>1, <1>2 DEF TypeOK
    <3>2. u # t => pc'[u] = pc[u] /\ obj'[u] = obj[u]
      BY <1>1, <1>2 DEF TypeOK
    <3> QED
      BY <3>1, <3>2, <1>2 DEF Rest
  <2>2. Rest(u) \in SUBSET Object /\ \A x \in Rest(u) : next'[x] = next[x]
    BY <1>1, InUseOf DEF TypeOK, Rest
  <2>3. SortedChain(next, Level, chain[u], Rest(u))
    BY DEF ManagerInv, Rests, Chain
  <2>4. SortedChain(next', Level, chain[u], Rest(u))
    BY <1>1, <2>2, <2>3, Sizes, ChainFrame
  <2> QED
    BY <2>1, <2>4, <1>2 DEF Chain
<1>10. \A u \in Thread \ {t} : pc[u] = "idle"
  BY Alone
<1>11. LockHolder' /\ Walks'
  <2>1. \A u \in Thread : pc'[u] = "idle"
    BY <1>1, <1>2, <1>10 DEF TypeOK
  <2>2. lock = t
    BY DEF ManagerInv, LockHolder
  <2> QED
    BY <2>1, <2>2, <1>2, ManagerAssumption DEF LockHolder, Walks, Walk
<1> QED
  BY <1>4, <1>5, <1>7, <1>8, <1>9, <1>11 DEF ManagerInv

LEMMA TakeFreeInv ==
  ASSUME ManagerInv, NEW t \in Thread, TakeFree(t) PROVE ManagerInv'
<1>1. /\ pc[t] = "search" /\ cur[t] # NULL /\ Unlink(t) /\ HandOver(t, cur[t])
      /\ nactive' = nactive + 1 /\ nbytesactive' = nbytesactive + size[cur[t]]
      /\ free' = free \ {cur[t]} /\ UNCHANGED size
  BY DEF TakeFree, CountGiven
<1>2. TypeOK /\ Apart
  BY DEF ManagerInv
<1> DEFINE c == cur[t]
           p == prev[t]
<1>3. /\ c \in free /\ p \in free \cup {NULL} /\ c = After(next, head, p)
      /\ free \in SUBSET Object /\ NULL \notin Object
  BY <1>1, CursorInList
<1>4. c \notin InUse
  BY <1>2, <1>3, InUseOf DEF Apart
<1>5. /\ head' = IF p = NULL THEN next[c] ELSE head
      /\ next' = IF p = NULL THEN next ELSE [next EXCEPT ![p] = next[c]]
  BY <1>1 DEF Unlink
<1>6. \A x \in Object : next'[x] = IF x = p THEN next[c] ELSE next[x]
  BY <1>2, <1>3, <1>5 DEF TypeOK
<1>7. next' \in Links0 /\ head' \in Pointer
  BY <1>2, <1>3, <1>5 DEF TypeOK, Links0, Pointer
<1>8. FreeChain'
  <2>1. SortedChain(next, size, head, free)
    BY DEF ManagerInv, FreeChain
  <2>2. \A x \in free \ {c} : next'[x] = IF x = p THEN next[c] ELSE next[x]
    BY <1>3, <1>6
  <2>3. SortedChain(next', size, IF p = NULL THEN next[c] ELSE head, free \ {c})
    <3>1. next \in Links0 /\ size \in Sizes0 /\ c # NULL
      BY <1>1, <1>2, Sizes
    <3> HIDE DEF c, p
    <3> QED
      BY <2>1, <2>2, <3>1, <1>3, <1>7, ChainRemove
  <2> QED
    BY <2>3, <1>1, <1>5 DEF FreeChain
<1>9. \A x \in InUse : next'[x] = next[x]
  <2>1. \A x \in InUse : x \in Object /\ x \notin free
    BY <1>2, InUseOf DEF Apart, TypeOK
  <2> QED
    BY <2>1, <1>3, <1>6
<1>10. nbytesactive' \in Int /\ size' \in [Object -> Bytes] /\ c \in Object
  BY <1>1, <1>2, <1>3, SizeOrder DEF TypeOK
<1> QED
  BY <1>1, <1>3, <1>4, <1>7, <1>8, <1>9, <1>10, HandOverInv

LEMMA TakeNewInv ==
  ASSUME ManagerInv, NEW t \in Thread, TakeNew(t) PROVE ManagerInv'
<1>1. /\ pc[t] = "search" /\ nactive' = nactive + 1
      /\ nbytesactive' = nbytesactive + nbytesNeeded[t] /\ UNCHANGED <<head, free>>
  BY DEF TakeNew, CountGiven
<1>2. PICK o \in Unborn : /\ next' = [next EXCEPT ![o] = NULL]
                          /\ size' = [size EXCEPT ![o] = nbytesNeeded[t]]
                          /\ HandOver(t, o)
  BY DEF TakeNew
<1>3. TypeOK
  BY DEF ManagerInv
<1>4. o \in Object /\ o \notin free /\ o \notin InUse /\ free \in SUBSET Object
  BY <1>3 DEF Unborn, TypeOK
<1>5. nbytesNeeded[t] \in Bytes /\ nbytesNeeded[t] \in Nat
  BY <1>1, ManagerAssumption DEF ManagerInv, Walks, Walk
<1>6. /\ \A x \in Object \ {o} : next'[x] = next[x] /\ size'[x] = size[x]
      /\ next' \in Links0 /\ size' \in [Object -> Bytes] /\ size' \in Sizes0
      /\ head' \in Pointer /\ nbytesactive' \in Int
  <2>1. \A x \in Object \ {o} : next'[x] = next[x] /\ size'[x] = size[x]
    BY <1>2, <1>3 DEF TypeOK
  <2>2. next' \in Links0
    BY <1>2, <1>3 DEF TypeOK, Links0, Pointer
  <2>3. size' \in [Object -> Bytes]
    BY <1>2, <1>3, <1>5 DEF TypeOK
  <2>4. size' \in Sizes0
    BY <2>3, ManagerAssumption DEF Sizes0
  <2> QED
    BY <2>1, <2>2, <2>3, <2>4, <1>1, <1>3, <1>5 DEF TypeOK
<1>7. FreeChain'
  <2>1. SortedChain(next, size, head, free)
    BY DEF ManagerInv, FreeChain
  <2>2. \A x \in free : next'[x] = next[x] /\ size'[x] = size[x]
    BY <1>4, <1>6
  <2>3. SortedChain(next', size', head, free)
    BY <2>1, <2>2, <1>3, <1>4, <1>6, Sizes, ChainFrame
  <2> QED
    BY <2>3, <1>1 DEF FreeChain
<1>8. \A x \in InUse : next'[x] = next[x]
  <2>1. \A x \in InUse : x \in Object
    BY <1>3, InUseOf DEF TypeOK
  <2> QED
    BY <2>1, <1>4, <1>6
<1>9. free' = free \ {o}
  BY <1>1, <1>4
<1> QED
  BY <1>1, <1>2, <1>4, <1>6, <1>7, <1>8, <1>9, HandOverInv

LEMMA Dropped ==
  ASSUME ManagerInv, NEW t \in Thread, NEW o, o \in held[t] \cup chained[t],
         Drop(t, o), CountReleased(o), listed' = listed, free' \in {free, free \cup {o}}
  PROVE  /\ o \in Object /\ o \in InUse /\ o \notin free /\ o \notin listed
         /\ \A u \in Thread : held'[u] = held[u] \ {o} /\ chained'[u] = chained[u] \ {o}
         /\ held' \in [Thread -> SUBSET Object] /\ chained' \in [Thread -> SUBSET Object]
         /\ InUse' = InUse \ {o}
         /\ Count' /\ nactive' \in Nat /\ nbytesactive' \in Int
         /\ Apart'
<1>1. TypeOK /\ Apart
  BY DEF ManagerInv
<1>2. o \in Object /\ o \in InUse /\ o \notin free /\ o \notin listed
  BY <1>1, InUseOf DEF TypeOK, Apart
<1>3. \A u \in Thread \ {t} : o \notin held[u] /\ o \notin chained[u]
  BY <1>1 DEF Apart
<1>4. /\ held' = [held EXCEPT ![t] = held[t] \ {o}]
      /\ chained' = [chained EXCEPT ![t] = chained[t] \ {o}]
  BY DEF Drop
<1>5. \A u \in Thread : held'[u] = held[u] \ {o} /\ chained'[u] = chained[u] \ {o}
  BY <1>1, <1>3, <1>4 DEF TypeOK
<1>6. held' \in [Thread -> SUBSET Object] /\ chained' \in [Thread -> SUBSET Object]
  BY <1>1, <1>4 DEF TypeOK
<1>7. InUse' = InUse \ {o}
  <2>1. HeldBy' = HeldBy \ {o}
    BY <1>5 DEF HeldBy
  <2>2. ChainedBy' = ChainedBy \ {o}
    BY <1>5 DEF ChainedBy
  <2> QED
    BY <2>1, <2>2, <1>2 DEF InUse
<1>8. Count' /\ nactive' \in Nat
  BY <1>1, <1>2, <1>7, LossCount DEF ManagerInv, CountReleased
<1>9. nbytesactive' \in Int
  BY <1>1, <1>2, SizeOrder DEF CountReleased, TypeOK
<1>10. Apart'
  BY <1>1, <1>2, <1>5 DEF Apart
<1> QED
  BY <1>2, <1>5, <1>6, <1>7, <1>8, <1>9, <1>10

\* The chains of a state are those of the state before if the links of their
\* objects are.
LEMMA ChainsKept ==
  ASSUME ManagerInv, next' \in Links0,
         \A x \in InUse : next'[x] = next[x]
  PROVE  /\ UNCHANGED <<listHead, listed>> => ListChain'
         /\ \A u \in Thread : chain'[u] = chain[u] /\ Rest(u)' = Rest(u)
                               => Chain(next, chain[u], Rest(u))'
<1>1. TypeOK
  BY DEF ManagerInv
<1>2. ASSUME UNCHANGED <<listHead, listed>> PROVE ListChain'
  <2>1. listed \in SUBSET Object /\ \A x \in listed : next'[x] = next[x]
    BY <1>1, InUseOf DEF TypeOK
  <2>2. SortedChain(next, Level, listHead, listed)
    BY DEF ManagerInv, ListChain, Chain
  <2>3. SortedChain(next', Level, listHead, listed)
    BY <1>1, <2>1, <2>2, Sizes, ChainFrame
  <2> QED
    BY <2>3, <1>2 DEF ListChain, Chain
<1>3. ASSUME NEW u \in Thread, chain'[u] = chain[u], Rest(u)' = Rest(u)
      PROVE  Chain(next, chain[u], Rest(u))'
  <2>1. Rest(u) \in SUBSET Object /\ \A x \in Rest(u) : next'[x] = next[x]
    BY <1>1, InUseOf DEF TypeOK, Rest
  <2>2. SortedChain(next, Level, chain[u], Rest(u))
    BY DEF ManagerInv, Rests, Chain
  <2>3. SortedChain(next', Level, chain[u], Rest(u))
    BY <1>1, <2>1, <2>2, Sizes, ChainFrame
  <2> QED
    BY <2>3, <1>3 DEF Chain
<1> QED
  BY <1>2, <1>3

LEMMA DiscardOneInv ==
  ASSUME ManagerInv, NEW t \in Thread, NEW o \in Object, DiscardOne(t, o) PROVE ManagerInv'
<1>1. /\ pc[t] = "idle" /\ o \in held[t] /\ lock = NoOne /\ Drop(t, o) /\ CountReleased(o)
      /\ UNCHANGED <<mode, type, head, lock, next, size, locals, listHead, free, listed>>
  BY DEF DiscardOne
<1>2. TypeOK /\ Apart
  BY DEF ManagerInv
<1>3. /\ o \notin free /\ o \notin listed
      /\ \A u \in Thread : held'[u] = held[u] \ {o} /\ chained'[u] = chained[u] \ {o}
      /\ held' \in [Thread -> SUBSET Object] /\ chained' \in [Thread -> SUBSET Object]
      /\ Count' /\ nactive' \in Nat /\ nbytesactive' \in Int /\ Apart'
  BY <1>1, Dropped
<1>4. TypeOK'
  BY <1>1, <1>2, <1>3 DEF TypeOK, locals, Pointer
<1>5. FreeChain'
  BY <1>1 DEF ManagerInv, FreeChain
<1>6. \A u \in Thread : pc[u] = "idle"
  BY <1>1, Alone
<1>7. LockHolder' /\ Walks'
  BY <1>1, <1>6 DEF ManagerInv, LockHolder, Walks, Walk, locals
<1>8. \A u \in Thread : Rest(u)' = Rest(u)
  <2>0. \A u \in Thread : o \notin chained[u]
    BY <1>1, <1>2 DEF Apart
  <2>1. \A u \in Thread : chained'[u] = chained[u]
    BY <2>0, <1>3
  <2> QED
    BY <2>1, <1>1, <1>6 DEF Rest, locals
<1>9. ListChain' /\ Rests'
  <2>1. next' \in Links0 /\ \A x \in InUse : next'[x] = next[x]
    BY <1>1, <1>2, Sizes
  <2>2. \A u \in Thread : chain'[u] = chain[u]
    BY <1>1 DEF locals
  <2> QED
    BY <2>1, <2>2, <1>1, <1>8, ChainsKept DEF Rests
<1> QED
  BY <1>3, <1>4, <1>5, <1>7, <1>9 DEF ManagerInv

LEMMA ReleaseOneInv ==
  ASSUME ManagerInv, NEW t \in Thread, NEW o \in Object, ReleaseOne(t, o) PROVE ManagerInv'
<1>1. /\ UNCHANGED <<mode, type, nbytesactive, next, size, head, nactive, listHead, places, chain,
                     nbytesNeeded>>
      /\ pc' = [pc EXCEPT ![t] = "place"] /\ pc[t] = "idle"
      /\ lock = NoOne /\ lock' = t
      /\ obj' = [obj EXCEPT ![t] = o] /\ o \in held[t]
      /\ prev' = [prev EXCEPT ![t] = NULL] /\ cur' = [cur EXCEPT ![t] = head]
  BY DEF ReleaseOne, Lock, GoTo, StartWalk
<1>2. TypeOK
  BY DEF ManagerInv
<1>3. TypeOK'
  BY <1>1, <1>2 DEF TypeOK, places, Pointer
<1>4. Rest(t)' = Rest(t) /\ chain'[t] = chain[t]
  BY <1>1, <1>2 DEF Rest, TypeOK, places
<1>5. Apart' /\ FreeChain' /\ ListChain' /\ Rests' /\ Count'
  <2>1. Chain(next, chain'[t], Rest(t)')
    BY <1>4 DEF ManagerInv, Rests
  <2>2. \A u \in Thread \ {t} : pc'[u] = pc[u] /\ obj'[u] = obj[u] /\ chain'[u] = chain[u]
    BY <1>1, <1>2 DEF TypeOK
  <2> QED
    BY <1>1, <2>1, <2>2, SamePlaces
<1>6. \A u \in Thread \ {t} : pc[u] = "idle"
  BY <1>1, Alone
<1>7. LockHolder'
  BY <1>1, <1>2, <1>6, ManagerAssumption DEF TypeOK, LockHolder
<1>8. Walks'
  <2>1. \A u \in Thread \ {t} : Walk(u)'
    BY <1>1, <1>2, <1>6 DEF TypeOK, Walk
  <2>2. Walk(t)'
    BY <1>1, <1>2 DEF TypeOK, Walk, After, places
  <2> QED
    BY <2>1, <2>2 DEF Walks
<1> QED
  BY <1>3, <1>5, <1>7, <1>8 DEF ManagerInv

LEMMA ReleaseListInv ==
  ASSUME ManagerInv, NEW t \in Thread, ReleaseList(t) PROVE ManagerInv'
<1>1. /\ UNCHANGED <<mode, type, nbytesactive, next, size, head, nactive, listHead, places, chain,
                     nbytesNeeded, prev, cur, obj>>
      /\ pc' = [pc EXCEPT ![t] = "list"] /\ pc[t] = "idle"
      /\ lock = NoOne /\ lock' = t
  BY DEF ReleaseList, Lock, GoTo
<1>2. TypeOK
  BY DEF ManagerInv
<1>3. TypeOK'
  BY <1>1, <1>2 DEF TypeOK, places, Pointer
<1>4. Rest(t)' = Rest(t) /\ chain'[t] = chain[t]
  BY <1>1, <1>2 DEF Rest, TypeOK, places
<1>5. Apart' /\ FreeChain' /\ ListChain' /\ Rests' /\ Count'
  <2>1. Chain(next, chain'[t], Rest(t)')
    BY <1>4 DEF ManagerInv, Rests
  <2>2. \A u \in Thread \ {t} : pc'[u] = pc[u] /\ obj'[u] = obj[u] /\ chain'[u] = chain[u]
    BY <1>1, <1>2 DEF TypeOK
  <2> QED
    BY <1>1, <2>1, <2>2, SamePlaces
<1>6. \A u \in Thread \ {t} : pc[u] = "idle"
  BY <1>1, Alone
<1>7. LockHolder'
  BY <1>1, <1>2, <1>6, ManagerAssumption DEF TypeOK, LockHolder
<1>8. Walks'
  BY <1>1, <1>2, <1>6 DEF TypeOK, Walk, Walks
<1> QED
  BY <1>3, <1>5, <1>7, <1>8 DEF ManagerInv

LEMMA ListReleasedInv ==
  ASSUME ManagerInv, NEW t \in Thread, ListReleased(t) PROVE ManagerInv'
<1>1. /\ UNCHANGED <<mode, type, head, nactive, nbytesactive, next, size, chain, listHead, places>>
      /\ pc[t] = "list" /\ pc' = [pc EXCEPT ![t] = "idle"]
      /\ lock' = IF lock = t THEN NoOne ELSE lock
      /\ nbytesNeeded' = [nbytesNeeded EXCEPT ![t] = 0]
      /\ prev' = [prev EXCEPT ![t] = NULL] /\ cur' = [cur EXCEPT ![t] = NULL]
      /\ obj' = [obj EXCEPT ![t] = NULL]
  BY DEF ListReleased, Return, GoTo, Unlock
<1>2. TypeOK
  BY DEF ManagerInv
<1>3. TypeOK'
  BY <1>1, <1>2 DEF TypeOK, places, Pointer
<1>4. Rest(t)' = Rest(t) /\ chain'[t] = chain[t]
  BY <1>1, <1>2 DEF Rest, TypeOK, places
<1>5. Apart' /\ FreeChain' /\ ListChain' /\ Rests' /\ Count'
  <2>1. Chain(next, chain'[t], Rest(t)')
    BY <1>4 DEF ManagerInv, Rests
  <2>2. \A u \in Thread \ {t} : pc'[u] = pc[u] /\ obj'[u] = obj[u] /\ chain'[u] = chain[u]
    BY <1>1, <1>2 DEF TypeOK
  <2> QED
    BY <1>1, <2>1, <2>2, SamePlaces
<1>6. \A u \in Thread \ {t} : pc[u] = "idle"
  BY <1>1, Alone
<1>7. LockHolder' /\ Walks'
  <2>1. \A u \in Thread : pc'[u] = "idle"
    BY <1>1, <1>2, <1>6 DEF TypeOK
  <2>2. lock = t
    BY <1>1 DEF ManagerInv, LockHolder
  <2> QED
    BY <2>1, <2>2, <1>1, ManagerAssumption DEF LockHolder, Walks, Walk
<1> QED
  BY <1>3, <1>5, <1>7 DEF ManagerInv

LEMMA Detached ==
  ASSUME ManagerInv, NEW t \in Thread, pc[t] = "list", chain[t] # NULL
  PROVE  /\ chain[t] \in chained[t] /\ chain[t] \in Object
         /\ next[chain[t]] \in Pointer
         /\ Chain(next, next[chain[t]], chained[t] \ {chain[t]})
<1> DEFINE S == chained[t]
           c == chain[t]
<1>1. TypeOK
  BY DEF ManagerInv
<1>2. S \in SUBSET Object /\ Rest(t) = S
  BY <1>1 DEF TypeOK, Rest
<1>3. SortedChain(next, Level, c, S)
  BY <1>2 DEF ManagerInv, Rests, Chain
<1>4. c = After(next, c, NULL)
  BY DEF After
<1>5. c \in S /\ SortedChain(next, Level, IF NULL = NULL THEN next[c] ELSE c, S \ {c})
  <2>1. \A x \in S \ {c} : next[x] = IF x = NULL THEN next[c] ELSE next[x]
    BY <1>2, ManagerAssumption
  <2> HIDE DEF S, c
  <2>2. NULL \in S \cup {NULL}
    OBVIOUS
  <2>3. next \in Links0 /\ Level \in Sizes0 /\ c # NULL
    BY <1>1, Sizes DEF c
  <2> QED
    BY <2>1, <2>2, <2>3, <1>2, <1>3, <1>4, ChainRemove
<1>6. next[c] \in Pointer
  BY <1>1, <1>2, <1>5 DEF TypeOK
<1> QED
  BY <1>2, <1>5, <1>6 DEF Chain

LEMMA DiscardHeadInv ==
  ASSUME ManagerInv, NEW t \in Thread, DiscardHead(t) PROVE ManagerInv'
<1> DEFINE c == chain[t]
<1>1. /\ pc[t] = "list" /\ c # NULL /\ Drop(t, c) /\ CountReleased(c)
      /\ obj' = [obj EXCEPT ![t] = c] /\ chain' = [chain EXCEPT ![t] = next[c]]
      /\ UNCHANGED <<mode, type, head, lock, next, size, pc, nbytesNeeded, prev, cur, listHead,
                     free, listed>>
  BY DEF DiscardHead, DetachHead
<1>2. TypeOK /\ Apart
  BY DEF ManagerInv
<1>3. /\ c \in chained[t] /\ c \in Object /\ next[c] \in Pointer
      /\ Chain(next, next[c], chained[t] \ {c})
  BY <1>1, Detached
<1>4. /\ \A u \in Thread : held'[u] = held[u] \ {c} /\ chained'[u] = chained[u] \ {c}
      /\ held' \in [Thread -> SUBSET Object] /\ chained' \in [Thread -> SUBSET Object]
      /\ Count' /\ nactive' \in Nat /\ nbytesactive' \in Int /\ Apart'
  <2> HIDE DEF c
  <2> QED
    BY <1>1, <1>3, Dropped
<1>5. TypeOK'
  BY <1>1, <1>2, <1>3, <1>4 DEF TypeOK, Pointer
<1>6. FreeChain'
  BY <1>1 DEF ManagerInv, FreeChain
<1>7. \A u \in Thread \ {t} : pc[u] = "idle" /\ c \notin chained[u]
  BY <1>1, <1>2, <1>3, Alone DEF Apart
<1>8. LockHolder'
  BY <1>1 DEF ManagerInv, LockHolder
<1>9. Walks'
  <2>1. \A u \in Thread : pc'[u] \notin {"search", "place", "placeNext"}
    BY <1>1, <1>7
  <2> QED
    BY <2>1 DEF Walks, Walk
<1>10. ListChain' /\ Rests'
  <2>1. next' \in Links0 /\ \A x \in InUse : next'[x] = next[x]
    BY <1>1, <1>2, Sizes
  <2>2. ASSUME NEW u \in Thread \ {t} PROVE Chain(next, chain[u], Rest(u))'
    <3>0. c \notin chained[u]
      BY <1>7
    <3>1. chained'[u] = chained[u]
      <4>1. chained'[u] = chained[u] \ {c}
        BY <1>4
      <4> HIDE DEF c
      <4> QED
        BY <3>0, <4>1
    <3>2. Rest(u)' = Rest(u) /\ chain'[u] = chain[u]
      BY <3>1, <1>1, <1>2, <1>7 DEF Rest, TypeOK
    <3> QED
      BY <2>1, <3>2, ChainsKept
  <2>3. Chain(next, chain[t], Rest(t))'
    <3>1. Rest(t)' = chained[t] \ {c} /\ chain'[t] = next[c] /\ next' = next
      BY <1>1, <1>2, <1>4 DEF Rest, TypeOK
    <3> QED
      BY <3>1, <1>3
  <2>4. ListChain'
    BY <2>1, <1>1, ChainsKept
  <2> QED
    BY <2>2, <2>3, <2>4 DEF Rests
<1> QED
  BY <1>4, <1>5, <1>6, <1>8, <1>9, <1>10 DEF ManagerInv

LEMMA RecycleHeadInv ==
  ASSUME ManagerInv, NEW t \in Thread, RecycleHead(t) PROVE ManagerInv'
<1> DEFINE c == chain[t]
<1>1. /\ pc[t] = "list" /\ c # NULL
      /\ obj' = [obj EXCEPT ![t] = c] /\ chain' = [chain EXCEPT ![t] = next[c]]
      /\ pc' = [pc EXCEPT ![t] = "placeNext"]
      /\ prev' = [prev EXCEPT ![t] = NULL] /\ cur' = [cur EXCEPT ![t] = head]
      /\ UNCHANGED <<manager, next, size, nbytesNeeded, listHead, places>>
  BY DEF RecycleHead, DetachHead, GoTo, StartWalk
<1>2. TypeOK
  BY DEF ManagerInv
<1>3. /\ c \in chained[t] /\ c \in Object /\ next[c] \in Pointer
      /\ Chain(next, next[c], chained[t] \ {c})
  BY <1>1, Detached
<1>4. TypeOK'
  BY <1>1, <1>2, <1>3 DEF TypeOK, manager, places, Pointer
<1>5. Apart' /\ FreeChain' /\ ListChain' /\ Rests' /\ Count'
  <2>1. Chain(next, chain'[t], Rest(t)')
    <3>1. Rest(t)' = chained[t] \ {c} /\ chain'[t] = next[c]
      BY <1>1, <1>2 DEF Rest, TypeOK, places
    <3> QED
      BY <3>1, <1>3
  <2>2. \A u \in Thread \ {t} : pc'[u] = pc[u] /\ obj'[u] = obj[u] /\ chain'[u] = chain[u]
    BY <1>1, <1>2 DEF TypeOK
  <2> QED
    BY <1>1, <2>1, <2>2, SamePlaces DEF manager
<1>6. \A u \in Thread \ {t} : pc[u] = "idle"
  BY <1>1, Alone
<1>7. LockHolder'
  BY <1>1, <1>2 DEF ManagerInv, LockHolder, TypeOK, manager
<1>8. Walks'
  <2>1. \A u \in Thread \ {t} : Walk(u)'
    BY <1>1, <1>2, <1>6 DEF TypeOK, Walk
  <2>2. Walk(t)'
    BY <1>1, <1>2, <1>3 DEF TypeOK, Walk, After, places, manager
  <2> QED
    BY <2>1, <2>2 DEF Walks
<1> QED
  BY <1>4, <1>5, <1>7, <1>8 DEF ManagerInv

LEMMA InsertInv ==
  ASSUME ManagerInv, NEW t \in Thread, Insert(t) PROVE ManagerInv'
<1> DEFINE o == obj[t]
           p == prev[t]
           c == cur[t]
<1>1. /\ pc[t] \in {"place", "placeNext"} /\ (c # NULL => Beyond(t))
      /\ head' = IF p = NULL THEN o ELSE head
      /\ next' = [x \in Object |-> IF x = o THEN c ELSE IF x = p THEN o ELSE next[x]]
      /\ CountReleased(o) /\ Drop(t, o) /\ free' = free \cup {o}
      /\ UNCHANGED <<mode, type, size, chain, listHead, listed>>
  BY DEF Insert, Splice
<1>2. \/ /\ pc[t] = "place" /\ pc' = [pc EXCEPT ![t] = "idle"]
         /\ lock' = IF lock = t THEN NoOne ELSE lock
         /\ nbytesNeeded' = [nbytesNeeded EXCEPT ![t] = 0]
         /\ prev' = [prev EXCEPT ![t] = NULL] /\ cur' = [cur EXCEPT ![t] = NULL]
         /\ obj' = [obj EXCEPT ![t] = NULL]
      \/ /\ pc[t] = "placeNext" /\ pc' = [pc EXCEPT ![t] = "list"]
         /\ UNCHANGED <<lock, nbytesNeeded, prev, cur, obj>>
  BY DEF Insert, Return, GoTo, Unlock
<1>3. TypeOK /\ Apart /\ Walk(t)
  BY DEF ManagerInv, Walks
<1>4. o \in held[t] \cup chained[t]
  BY <1>1, <1>3 DEF Walk
<1>5. /\ o \in Object /\ o \in InUse /\ o \notin free /\ o \notin listed
      /\ \A u \in Thread : held'[u] = held[u] \ {o} /\ chained'[u] = chained[u] \ {o}
      /\ held' \in [Thread -> SUBSET Object] /\ chained' \in [Thread -> SUBSET Object]
      /\ Count' /\ nactive' \in Nat /\ nbytesactive' \in Int /\ Apart'
  <2>1. listed' = listed /\ free' \in {free, free \cup {o}}
    BY <1>1
  <2> HIDE DEF o
  <2> QED
    BY <1>1, <1>4, <2>1, Dropped
<1>6. /\ c \in free \cup {NULL} /\ p \in free \cup {NULL} /\ c = After(next, head, p)
      /\ free \in SUBSET Object /\ NULL \notin Object
  BY <1>1, CursorInList
<1>7. next' \in Links0 /\ head' \in Pointer
  BY <1>1, <1>3, <1>5, <1>6 DEF TypeOK, Links0, Pointer
<1>8. TypeOK'
  <2>1. lock' \in Thread \cup {NoOne}
    BY <1>2, <1>3 DEF TypeOK
  <2>2. pc' \in [Thread -> {"idle", "search", "list", "place", "placeNext"}]
    BY <1>2, <1>3 DEF TypeOK
  <2>3. nbytesNeeded' \in [Thread -> Bytes \cup {0}]
    BY <1>2, <1>3 DEF TypeOK
  <2>4. prev' \in [Thread -> Pointer] /\ cur' \in [Thread -> Pointer] /\ obj' \in [Thread -> Pointer]
    BY <1>2, <1>3 DEF TypeOK, Pointer
  <2>5. next' \in [Object -> Pointer] /\ free' \subseteq Object
    BY <1>1, <1>5, <1>6, <1>7 DEF Links0
  <2> HIDE DEF o, p, c
  <2> QED
    BY <2>1, <2>2, <2>3, <2>4, <2>5, <1>1, <1>3, <1>5, <1>7 DEF TypeOK
<1>9. FreeChain'
  <2>1. SortedChain(next, size, head, free)
    BY DEF ManagerInv, FreeChain
  <2>2. \A x \in free : next'[x] = IF x = p THEN o ELSE next[x]
    BY <1>1, <1>5, <1>6
  <2>3. next'[o] = c
    BY <1>1, <1>5
  <2>4. p # NULL => size[p] <= size[o]
    BY <1>1, <1>3 DEF Walk
  <2>5. c # NULL => size[o] <= size[c]
    <3>1. ASSUME c # NULL PROVE size[o] <= size[c]
      <4>1. Beyond(t) /\ c \in Object
        BY <3>1, <1>1, <1>6
      <4> QED
        BY <4>1, <1>3, <1>5, SizeOrder DEF Beyond
    <3> QED
      BY <3>1
  <2>6. SortedChain(next', size, IF p = NULL THEN o ELSE head, free \cup {o})
    <3>1. o \in Object \ free
      BY <1>5
    <3> HIDE DEF o, p, c
    <3>2. free \in SUBSET Object /\ next \in Links0 /\ next' \in Links0 /\ size \in Sizes0
      BY <1>3, <1>6, <1>7, Sizes
    <3>3. p \in free \cup {NULL} /\ c = After(next, head, p)
      BY <1>3, <1>6, <1>7
    <3> QED
      BY <2>1, <2>2, <2>3, <2>4, <2>5, <3>1, <3>2, <3>3, ChainInsert, SMTT(90)
  <2> QED
    BY <2>6, <1>1 DEF FreeChain
<1>10. \A u \in Thread \ {t} : pc[u] = "idle"
  BY <1>1, Alone
<1>11. LockHolder'
  BY <1>1, <1>2, <1>3, <1>10, ManagerAssumption DEF ManagerInv, LockHolder, TypeOK
<1>12. Walks'
  <2>1. \A u \in Thread : pc'[u] \notin {"search", "place", "placeNext"}
    BY <1>1, <1>2, <1>3, <1>10 DEF TypeOK
  <2> QED
    BY <2>1 DEF Walks, Walk
<1>13. \A x \in InUse \ {o} : next'[x] = next[x]
  <2>1. \A x \in InUse : x \in Object /\ x \notin free
    BY <1>3, InUseOf DEF Apart, TypeOK
  <2> QED
    BY <2>1, <1>1, <1>6
<1>14. ListChain'
  <2>1. listed \in SUBSET Object /\ \A x \in listed : next'[x] = next[x]
    BY <1>3, <1>5, <1>13, InUseOf DEF TypeOK
  <2>2. SortedChain(next, Level, listHead, listed)
    BY DEF ManagerInv, ListChain, Chain
  <2>3. SortedChain(next', Level, listHead, listed)
    BY <1>3, <1>7, <2>1, <2>2, Sizes, ChainFrame
  <2> QED
    BY <2>3, <1>1 DEF ListChain, Chain
<1>15. Rests'
  <2> SUFFICES ASSUME NEW u \in Thread PROVE Chain(next, chain[u], Rest(u))'
    BY DEF Rests
  <2>1. Rest(u)' = Rest(u) /\ o \notin Rest(u)
    <3>1. CASE u # t
      <4>1. o \notin chained[u]
        BY <3>1, <1>3, <1>4 DEF Apart
      <4>2. pc'[u] = "idle" /\ pc[u] = "idle"
        BY <3>1, <1>2, <1>3, <1>10 DEF TypeOK
      <4>3. chained'[u] = chained[u] \ {o}
        BY <1>5
      <4> HIDE DEF o
      <4>4. chained'[u] = chained[u]
        BY <4>1, <4>3
      <4> QED
        BY <4>1, <4>2, <4>4 DEF Rest
    <3>2. CASE u = t /\ pc[t] = "place"
      <4>1. o \notin chained[t]
        BY <3>2, <1>3 DEF Apart, Walk
      <4>2. pc'[t] = "idle"
        BY <3>2, <1>2, <1>3 DEF TypeOK
      <4>3. chained'[t] = chained[t] \ {o}
        BY <1>5
      <4> HIDE DEF o
      <4>4. chained'[t] = chained[t]
        BY <4>1, <4>3
      <4> QED
        BY <3>2, <4>1, <4>2, <4>4 DEF Rest
    <3>3. CASE u = t /\ pc[t] = "placeNext"
      <4>1. chained'[t] = chained[t] \ {o} /\ pc'[t] = "list"
        BY <3>3, <1>2, <1>3, <1>5 DEF TypeOK
      <4> QED
        BY <3>3, <4>1 DEF Rest
    <3> QED
      BY <1>1, <3>1, <3>2, <3>3
  <2>2. Rest(u) \in SUBSET Object /\ \A x \in Rest(u) : next'[x] = next[x]
    <3>1. Rest(u) \subseteq chained[u] /\ chained[u] \subseteq Object
      BY <1>3 DEF Rest, TypeOK
    <3>2. \A x \in Rest(u) : x \in InUse \ {o}
      BY <3>1, <2>1, InUseOf
    <3> QED
      BY <3>1, <3>2, <1>13
  <2>3. SortedChain(next, Level, chain[u], Rest(u))
    BY DEF ManagerInv, Rests, Chain
  <2>4. SortedChain(next', Level, chain[u], Rest(u))
    BY <1>3, <1>7, <2>2, <2>3, Sizes, ChainFrame
  <2> QED
    BY <2>1, <2>4, <1>1 DEF Chain
<1> QED
  BY <1>5, <1>8, <1>9, <1>11, <1>12, <1>14, <1>15 DEF ManagerInv

-----------------------------------------------------------------------------
(* The threads between calls                                               *)

LEMMA AddToListUse ==
  ASSUME TypeOK, NEW t \in Thread, NEW o \in Object, AddToList(t, o) PROVE InUse' = InUse
<1>1. /\ o \in held[t] /\ listed' = listed \cup {o} /\ chained' = chained
      /\ held' = [held EXCEPT ![t] = @ \ {o}]
  BY DEF AddToList
<1>2. \A u \in Thread : held'[u] = IF u = t THEN held[u] \ {o} ELSE held[u]
  BY <1>1 DEF TypeOK
<1>3. \A x : x \in InUse' <=> x \in InUse
  BY <1>1, <1>2 DEF InUse, HeldBy, ChainedBy
<1> QED
  BY <1>3

LEMMA AddToListInv ==
  ASSUME ManagerInv, NEW t \in Thread, NEW o \in Object, AddToList(t, o) PROVE ManagerInv'
<1>1. /\ pc[t] = "idle" /\ o \in held[t]
      /\ next' = [next EXCEPT ![o] = listHead] /\ listHead' = o
      /\ held' = [held EXCEPT ![t] = @ \ {o}] /\ listed' = listed \cup {o}
      /\ UNCHANGED <<manager, size, locals, free, chained>>
  BY DEF AddToList, Link
<1>2. TypeOK /\ Apart
  BY DEF ManagerInv
<1>3. \A u \in Thread : held'[u] = IF u = t THEN held[u] \ {o} ELSE held[u]
  BY <1>1, <1>2 DEF TypeOK
<1>4. /\ o \notin free /\ o \notin listed
      /\ \A u \in Thread : o \notin chained[u] /\ (u # t => o \notin held[u])
  BY <1>1, <1>2 DEF Apart
<1>5. TypeOK'
  BY <1>1, <1>2 DEF TypeOK, manager, locals, Pointer
<1>6. /\ next' \in Links0 /\ next'[o] = listHead
      /\ \A x \in Object \ {o} : next'[x] = next[x]
  BY <1>1, <1>2 DEF TypeOK, Links0
<1>7. Apart'
  BY <1>1, <1>2, <1>3, <1>4 DEF Apart
<1>8. FreeChain'
  <2>1. free \in SUBSET Object /\ \A x \in free : next'[x] = next[x]
    BY <1>2, <1>4, <1>6 DEF TypeOK
  <2>2. SortedChain(next, size, head, free)
    BY DEF ManagerInv, FreeChain
  <2>3. SortedChain(next', size, head, free)
    BY <1>2, <1>6, <2>1, <2>2, Sizes, ChainFrame
  <2> QED
    BY <2>3, <1>1 DEF FreeChain, manager
<1>9. ListChain'
  <2>1. SortedChain(next, Level, listHead, listed) /\ listed \in SUBSET Object
    BY <1>2 DEF ManagerInv, ListChain, Chain, TypeOK
  <2>2. \A x \in listed : next'[x] = next[x]
    BY <2>1, <1>4, <1>6
  <2>3. Chain(next', o, listed \cup {o})
    BY <2>1, <2>2, <1>2, <1>4, <1>6, Sizes, ChainAdd DEF Chain
  <2> QED
    BY <2>3, <1>1 DEF ListChain
<1>10. Rests'
  <2> SUFFICES ASSUME NEW u \in Thread PROVE Chain(next, chain[u], Rest(u))'
    BY DEF Rests
  <2>1. Rest(u)' = Rest(u) /\ chain' = chain
    BY <1>1 DEF Rest, locals
  <2>2. Rest(u) \in SUBSET Object /\ o \notin Rest(u)
    BY <1>2, <1>4 DEF Rest, TypeOK
  <2>3. \A x \in Rest(u) : next'[x] = next[x]
    BY <2>2, <1>6
  <2>4. SortedChain(next, Level, chain[u], Rest(u))
    BY DEF ManagerInv, Rests, Chain
  <2>5. SortedChain(next', Level, chain[u], Rest(u))
    BY <2>2, <2>3, <2>4, <1>2, <1>6, Sizes, ChainFrame
  <2> QED
    BY <2>1, <2>5 DEF Chain
<1>11. LockHolder'
  BY <1>1 DEF ManagerInv, LockHolder, manager, locals
<1>12. Walks'
  <2> SUFFICES ASSUME NEW u \in Thread PROVE Walk(u)'
    BY DEF Walks
  <2>1. Walk(u)
    BY DEF ManagerInv, Walks
  <2>2. CASE u = t
    BY <2>2, <1>1 DEF Walk, locals
  <2>3. CASE u # t
    <3>1. held'[u] = held[u] /\ chained' = chained
      BY <2>3, <1>1, <1>3
    <3>2. ASSUME prev[u] \in free PROVE next'[prev[u]] = next[prev[u]]
      BY <3>2, <1>2, <1>4, <1>6 DEF TypeOK
    <3>3. prev[u] \in free \cup {NULL} => After(next', head, prev[u]) = After(next, head, prev[u])
      BY <3>2 DEF After
    <3>4. UNCHANGED <<pc, nbytesNeeded, prev, cur, obj, size, free, head>>
      BY <1>1 DEF manager, locals
    <3> QED
      BY <2>1, <3>1, <3>3, <3>4 DEF Walk
  <2> QED
    BY <2>2, <2>3
<1>13. Count'
  <2>1. InUse' = InUse
    BY <1>2, AddToListUse
  <2> QED
    BY <2>1, <1>1 DEF ManagerInv, Count, manager
<1> QED
  BY <1>5, <1>7, <1>8, <1>9, <1>10, <1>11, <1>12, <1>13 DEF ManagerInv

LEMMA NothingChained ==
  ASSUME ManagerInv, NEW t \in Thread, pc[t] = "idle", chain[t] = NULL PROVE chained[t] = {}
<1>1. TypeOK
  BY DEF ManagerInv
<1>2. Rest(t) = chained[t] /\ Rest(t) \in SUBSET Object
  BY <1>1 DEF Rest, TypeOK
<1>3. SortedChain(next, Level, chain[t], Rest(t))
  BY DEF ManagerInv, Rests, Chain
<1> QED
  BY <1>1, <1>2, <1>3, Sizes, ChainEnds

LEMMA GetListUse ==
  ASSUME ManagerInv, NEW t \in Thread, GetList(t) PROVE InUse' = InUse
<1>1. /\ pc[t] = "idle" /\ chain[t] = NULL /\ held' = held /\ listed' = {}
      /\ chained' = [chained EXCEPT ![t] = listed]
  BY DEF GetList
<1>2. chained[t] = {}
  BY <1>1, NothingChained
<1>3. \A u \in Thread : chained'[u] = IF u = t THEN listed ELSE chained[u]
  BY <1>1 DEF ManagerInv, TypeOK
<1>4. \A x : x \in InUse' <=> x \in InUse
  BY <1>1, <1>2, <1>3 DEF InUse, HeldBy, ChainedBy
<1> QED
  BY <1>4

LEMMA GetListInv ==
  ASSUME ManagerInv, NEW t \in Thread, GetList(t) PROVE ManagerInv'
<1>1. /\ pc[t] = "idle" /\ chain[t] = NULL
      /\ chain' = [chain EXCEPT ![t] = listHead] /\ listHead' = NULL
      /\ chained' = [chained EXCEPT ![t] = listed] /\ listed' = {}
      /\ UNCHANGED <<manager, next, size, pc, nbytesNeeded, prev, cur, obj, free, held>>
  BY DEF GetList
<1>2. TypeOK /\ Apart
  BY DEF ManagerInv
<1>3. chained[t] = {}
  BY <1>1, NothingChained
<1>4. \A u \in Thread : /\ chained'[u] = IF u = t THEN listed ELSE chained[u]
                        /\ chain'[u] = IF u = t THEN listHead ELSE chain[u]
  BY <1>1, <1>2 DEF TypeOK
<1>5. TypeOK'
  BY <1>1, <1>2 DEF TypeOK, manager, Pointer
<1>6. Apart'
  BY <1>1, <1>2, <1>4 DEF Apart
<1>7. FreeChain' /\ ListChain'
  BY <1>1, EmptyChain DEF ManagerInv, FreeChain, ListChain, Chain, manager
<1>8. Rests'
  <2> SUFFICES ASSUME NEW u \in Thread PROVE Chain(next, chain[u], Rest(u))'
    BY DEF Rests
  <2>1. CASE u = t
    <3>1. Rest(t)' = listed /\ chain'[t] = listHead
      BY <1>1, <1>4 DEF Rest
    <3> QED
      BY <2>1, <3>1, <1>1 DEF ManagerInv, ListChain
  <2>2. CASE u # t
    <3>1. Rest(u)' = Rest(u) /\ chain'[u] = chain[u]
      BY <2>2, <1>1, <1>4 DEF Rest
    <3> QED
      BY <3>1, <1>1 DEF ManagerInv, Rests
  <2> QED
    BY <2>1, <2>2
<1>9. LockHolder'
  BY <1>1 DEF ManagerInv, LockHolder, manager
<1>10. Walks'
  <2> SUFFICES ASSUME NEW u \in Thread PROVE Walk(u)'
    BY DEF Walks
  <2>1. Walk(u) /\ (u # t => chained'[u] = chained[u])
    BY <1>4 DEF ManagerInv, Walks
  <2> QED
    BY <2>1, <1>1 DEF Walk, manager
<1>11. Count'
  <2>1. InUse' = InUse
    BY GetListUse
  <2> QED
    BY <2>1, <1>1 DEF ManagerInv, Count, manager
<1> QED
  BY <1>5, <1>6, <1>7, <1>8, <1>9, <1>10, <1>11 DEF ManagerInv

LEMMA OntoOrder ==
  ASSUME NEW S, IsFiniteSet(S), NEW s \in Orders(S)
  PROVE  /\ Cardinality(S) \in Nat /\ s \in [1 .. Cardinality(S) -> S]
         /\ \A i, j \in 1 .. Cardinality(S) : s[i] = s[j] => i = j
         /\ \A o \in S : \E i \in 1 .. Cardinality(S) : s[i] = o
<1> DEFINE n == Cardinality(S)
           R == {s[i] : i \in 1 .. n}
<1>1. n \in Nat
  BY FS_CardinalityType
<1>2. s \in [1 .. n -> S] /\ \A i, j \in 1 .. n : s[i] = s[j] => i = j
  BY DEF Orders
<1>3. IsFiniteSet(1 .. n) /\ Cardinality(1 .. n) = n
  BY <1>1, FS_Interval
<1>4. R \subseteq S /\ IsFiniteSet(R)
  BY <1>2, FS_Subset
<1>5. s \in Bijection(1 .. n, R)
  BY <1>2 DEF Bijection, Injection, Surjection, IsInjective
<1>6. Cardinality(R) = n
  <2>1. ExistsBijection(1 .. n, R)
    BY <1>5 DEF ExistsBijection
  <2> HIDE DEF n, R
  <2> QED
    BY <2>1, <1>3, <1>4, FS_Bijection
<1>7. R = S
  BY <1>4, <1>6, FS_Subset
<1> QED
  BY <1>1, <1>2, <1>7

LEMMA ReorderInv ==
  ASSUME ManagerInv, NEW t \in Thread, Reorder(t) PROVE ManagerInv'
<1> DEFINE S == chained[t]
           n == Cardinality(S)
<1>1. /\ pc[t] = "idle"
      /\ UNCHANGED <<manager, size, pc, nbytesNeeded, prev, cur, obj, listHead, places>>
  BY DEF Reorder
<1>2. PICK s \in Orders(S) :
        /\ n # 0
        /\ chain' = [chain EXCEPT ![t] = s[1]]
        /\ next' = [o \in Object |->
             IF \E i \in 1 .. n : s[i] = o
               THEN LET i == CHOOSE i \in 1 .. n : s[i] = o IN IF i = n THEN NULL ELSE s[i + 1]
               ELSE next[o]]
  BY DEF Reorder
<1>3. TypeOK /\ Apart
  BY DEF ManagerInv
<1>4. S \in SUBSET Object /\ IsFiniteSet(S)
  BY <1>3, ManagerAssumption, FS_Subset DEF TypeOK
<1>5. /\ n \in Nat /\ s \in [1 .. n -> S]
      /\ \A i, j \in 1 .. n : s[i] = s[j] => i = j
      /\ \A o \in S : \E i \in 1 .. n : s[i] = o
  BY <1>4, OntoOrder
<1> HIDE DEF n
<1>6. \A i \in 1 .. n : s[i] \in S /\ s[i] \in Object
  BY <1>4, <1>5
<1>7. \A i \in 1 .. n : next'[s[i]] = IF i = n THEN NULL ELSE s[i + 1]
  <2> SUFFICES ASSUME NEW i \in 1 .. n PROVE next'[s[i]] = IF i = n THEN NULL ELSE s[i + 1]
    OBVIOUS
  <2> DEFINE k == CHOOSE k \in 1 .. n : s[k] = s[i]
  <2>1. k \in 1 .. n /\ s[k] = s[i]
    OBVIOUS
  <2>2. k = i
    BY <2>1, <1>5
  <2>3. next'[s[i]] = IF k = n THEN NULL ELSE s[k + 1]
    BY <1>2, <1>6
  <2> QED
    BY <2>2, <2>3
<1>8. \A o \in Object \ S : next'[o] = next[o]
  BY <1>2, <1>5, <1>6
<1>9. next' \in Links0
  <2>1. \A o \in S : next'[o] \in Pointer
    <3> SUFFICES ASSUME NEW o \in S PROVE next'[o] \in Pointer
      OBVIOUS
    <3>1. PICK i \in 1 .. n : s[i] = o
      BY <1>5
    <3>2. i # n => i + 1 \in 1 .. n
      BY <1>5
    <3> QED
      BY <3>1, <3>2, <1>6, <1>7 DEF Pointer
  <2>2. \A o \in Object : next'[o] \in Pointer
    BY <2>1, <1>3, <1>8 DEF TypeOK
  <2>3. next' = [o \in Object |-> next'[o]]
    BY <1>2
  <2> QED
    BY <2>2, <2>3 DEF Links0
<1>10. \A u \in Thread : chain'[u] = IF u = t THEN s[1] ELSE chain[u]
  BY <1>2, <1>3 DEF TypeOK
<1>11. TypeOK'
  <2>1. s[1] \in Pointer
    BY <1>2, <1>5, <1>6 DEF Pointer
  <2>2. chain' \in [Thread -> Pointer]
    BY <2>1, <1>2, <1>3 DEF TypeOK
  <2> QED
    BY <2>2, <1>1, <1>3, <1>9 DEF TypeOK, Links0, manager, places
<1>12. Apart' /\ Count'
  BY <1>1 DEF ManagerInv, Apart, Count, InUse, HeldBy, ChainedBy, manager, places
<1>13. /\ free \in SUBSET Object /\ listed \in SUBSET Object
       /\ \A x \in free \cup listed : next'[x] = next[x]
  BY <1>3, <1>8 DEF Apart, TypeOK
<1>14. FreeChain'
  <2>1. SortedChain(next, size, head, free)
    BY DEF ManagerInv, FreeChain
  <2>2. SortedChain(next', size, head, free)
    BY <2>1, <1>3, <1>9, <1>13, Sizes, ChainFrame
  <2> QED
    BY <2>2, <1>1 DEF FreeChain, manager, places
<1>15. ListChain'
  <2>1. SortedChain(next, Level, listHead, listed)
    BY DEF ManagerInv, ListChain, Chain
  <2>2. SortedChain(next', Level, listHead, listed)
    BY <2>1, <1>3, <1>9, <1>13, Sizes, ChainFrame
  <2> QED
    BY <2>2, <1>1 DEF ListChain, Chain, places
<1>16. Rests'
  <2> SUFFICES ASSUME NEW u \in Thread PROVE Chain(next, chain[u], Rest(u))'
    BY DEF Rests
  <2>1. Rest(u)' = Rest(u)
    BY <1>1 DEF Rest, places
  <2>2. CASE u = t
    <3>1. Chain(next', s[1], S)
      <4> HIDE DEF S
      <4> QED
        BY <1>2, <1>4, <1>5, <1>7, <1>9, ChainRelink
    <3>2. Rest(t) = S
      BY <1>1 DEF Rest
    <3> QED
      BY <2>1, <2>2, <3>1, <3>2, <1>10
  <2>3. CASE u # t
    <3>1. Rest(u) \in SUBSET Object /\ \A x \in Rest(u) : next'[x] = next[x]
      BY <2>3, <1>3, <1>8 DEF Rest, TypeOK, Apart
    <3>2. SortedChain(next, Level, chain[u], Rest(u))
      BY DEF ManagerInv, Rests, Chain
    <3>3. SortedChain(next', Level, chain[u], Rest(u))
      BY <3>1, <3>2, <1>3, <1>9, Sizes, ChainFrame
    <3> QED
      BY <2>1, <2>3, <3>3, <1>10 DEF Chain
  <2> QED
    BY <2>2, <2>3
<1>17. LockHolder'
  BY <1>1 DEF ManagerInv, LockHolder, manager
<1>18. Walks'
  <2> SUFFICES ASSUME NEW u \in Thread PROVE Walk(u)'
    BY DEF Walks
  <2>1. Walk(u)
    BY DEF ManagerInv, Walks
  <2>2. prev[u] \in free \cup {NULL} => After(next', head, prev[u]) = After(next, head, prev[u])
    BY <1>13 DEF After
  <2>3. UNCHANGED <<pc, nbytesNeeded, prev, cur, obj, size, free, head, held, chained>>
    BY <1>1 DEF manager, places
  <2> QED
    BY <2>1, <2>2, <2>3 DEF Walk
<1> QED
  BY <1>11, <1>12, <1>14, <1>15, <1>16, <1>17, <1>18 DEF ManagerInv

LEMMA ClearDataInv ==
  ASSUME ManagerInv, ClearData PROVE ManagerInv'
<1>1. /\ \A t \in Thread : pc[t] = "idle"
      /\ InUse = {} /\ head' = NULL /\ nactive' = 0 /\ nbytesactive' = 0 /\ free' = {}
      /\ UNCHANGED <<mode, type, lock, next, size, locals, listHead, listed, held, chained>>
  BY DEF ClearData
<1>2. TypeOK'
  BY <1>1 DEF ManagerInv, TypeOK, locals, Pointer
<1>3. Apart'
  BY <1>1 DEF ManagerInv, Apart
<1>4. FreeChain'
  BY <1>1, EmptyChain DEF FreeChain
<1>5. ListChain' /\ Rests'
  BY <1>1 DEF ManagerInv, ListChain, Rests, Rest, locals
<1>6. LockHolder' /\ Walks'
  BY <1>1 DEF ManagerInv, LockHolder, Walks, Walk, locals
<1>7. Count'
  <2>1. InUse' = {}
    BY <1>1 DEF InUse, HeldBy, ChainedBy
  <2> QED
    BY <2>1, <1>1, FS_EmptySet DEF Count
<1> QED
  BY <1>2, <1>3, <1>4, <1>5, <1>6, <1>7 DEF ManagerInv

LEMMA StutterInv == ManagerInv /\ UNCHANGED vars => ManagerInv'
BY DEF ManagerInv, TypeOK, Apart, FreeChain, ListChain, Rests, Rest, LockHolder, Walks, Walk,
       Count, InUse, HeldBy, ChainedBy, vars, manager, locals, places, Pointer

LEMMA StepInv == ManagerInv /\ [Next]_vars => ManagerInv'
<1> SUFFICES ASSUME ManagerInv, [Next]_vars PROVE ManagerInv'
  OBVIOUS
<1>1. CASE UNCHANGED vars
  BY <1>1, StutterInv
<1>2. CASE ClearData
  BY <1>2, ClearDataInv
<1>3. ASSUME NEW t \in Thread, Inside(t) PROVE ManagerInv'
  BY <1>3, AdvanceInv, TakeFreeInv, TakeNewInv, DiscardHeadInv, RecycleHeadInv, InsertInv,
     ListReleasedInv DEF Inside
<1>4. ASSUME NEW t \in Thread, Between(t) PROVE ManagerInv'
  BY <1>4, RequestInv, DiscardOneInv, ReleaseOneInv, AddToListInv, ReleaseListInv, GetListInv,
     ReorderInv DEF Between
<1> QED
  BY <1>1, <1>2, <1>3, <1>4 DEF Next

LEMMA SpecInv == Spec => []ManagerInv
BY InitInv, StepInv, PTL DEF Spec

-----------------------------------------------------------------------------
(* What the runs check, for every set of threads, objects and sizes        *)

\* The pointers of the managers and of the threads are objects or NULL, and
\* the count of active objects never goes below 0.
THEOREM TypeCorrect == Spec => []TypeOK
<1>1. ManagerInv => TypeOK
  BY DEF ManagerInv
<1> QED
  BY <1>1, SpecInv, PTL

\* No object is given out twice, or free and given out at the same time.
THEOREM OnePlaceCorrect == Spec => []ObjectInOnePlace
BY SpecInv, ApartPlaces, PTL

LEMMA ChainOrder ==
  ASSUME NEW S, IsFiniteSet(S), NEW nx, NEW sz, NEW first, SortedChain(nx, sz, first, S)
  PROVE  \E s \in Orders(S) :
           /\ first = IF Cardinality(S) = 0 THEN NULL ELSE s[1]
           /\ \A i \in 1 .. Cardinality(S) :
                nx[s[i]] = IF i = Cardinality(S) THEN NULL ELSE s[i + 1]
           /\ Rising(sz, s, Cardinality(S))
<1>1. PICK n \in Nat : \E s \in [1 .. n -> S] : Visits(nx, first, S, s, n) /\ Rising(sz, s, n)
  BY DEF SortedChain
<1>2. PICK s \in [1 .. n -> S] : Visits(nx, first, S, s, n) /\ Rising(sz, s, n)
  BY <1>1
<1>3. IsFiniteSet(1 .. n) /\ Cardinality(1 .. n) = n
  BY FS_Interval
<1>4. /\ \A i, j \in 1 .. n : s[i] = s[j] => i = j
      /\ \A o \in S : \E i \in 1 .. n : s[i] = o
  BY <1>2 DEF Visits
<1>5. s \in Bijection(1 .. n, S)
  BY <1>4 DEF Bijection, Injection, Surjection, IsInjective
<1>6. n = Cardinality(S)
  <2>1. ExistsBijection(1 .. n, S)
    BY <1>5 DEF ExistsBijection
  <2> QED
    BY <2>1, <1>3, FS_Bijection
<1>7. s \in Orders(S)
  BY <1>4, <1>6 DEF Orders
<1> QED
  BY <1>2, <1>6, <1>7 DEF Visits

LEMMA FreeListRight == ManagerInv => FreeListSorted
<1> SUFFICES ASSUME ManagerInv PROVE FreeListSorted
  OBVIOUS
<1>1. IsFiniteSet(free)
  BY ManagerAssumption, FS_Subset DEF ManagerInv, TypeOK
<1>2. SortedChain(next, size, head, free)
  BY DEF ManagerInv, FreeChain
<1> QED
  BY <1>1, <1>2, ChainOrder DEF FreeListSorted, Links, Ascending, Rising

\* The free list is in ascending order and holds what was released, each once.
THEOREM FreeListCorrect == Spec => []FreeListSorted
BY SpecInv, FreeListRight, PTL

LEMMA ListRight ==
  ASSUME ManagerInv, NEW S \in SUBSET Object, NEW first, Chain(next, first, S)
  PROVE  ListIs(first, S)
<1>1. IsFiniteSet(S)
  BY ManagerAssumption, FS_Subset
<1> QED
  BY <1>1, ChainOrder DEF Chain, ListIs, Links

LEMMA ListsRight == ManagerInv => ListsIntact
<1> SUFFICES ASSUME ManagerInv PROVE ListsIntact
  OBVIOUS
<1>1. ListIs(listHead, listed)
  BY ListRight DEF ManagerInv, ListChain, TypeOK
<1>2. ASSUME NEW t \in Thread PROVE ListIs(chain[t], Rest(t))
  BY ListRight DEF ManagerInv, Rests, TypeOK, Rest
<1> QED
  BY <1>1, <1>2 DEF ListsIntact, Rest

\* What the manager does to the links never breaks a list of a thread.
THEOREM ListsCorrect == Spec => []ListsIntact
BY SpecInv, ListsRight, PTL

-----------------------------------------------------------------------------
(* The manager implements the pool                                         *)

LEMMA PoolInitial == Init => Pool!PoolInit
BY ManagerAssumption DEF Init, Pool!PoolInit, InUse, HeldBy, ChainedBy

LEMMA BestFit ==
  ASSUME ManagerInv, NEW t \in Thread, pc[t] = "search"
  PROVE  /\ nbytesNeeded[t] \in Bytes
         /\ cur[t] # NULL =>
              \A o \in free : nbytesNeeded[t] <= size[o] => size[cur[t]] <= size[o]
         /\ cur[t] = NULL => \A o \in free : size[o] < nbytesNeeded[t]
<1> DEFINE needed == nbytesNeeded[t]
           p == prev[t]
           c == cur[t]
<1>1. TypeOK /\ Walk(t) /\ SortedChain(next, size, head, free)
  BY DEF ManagerInv, Walks, FreeChain
<1>2. needed \in Bytes /\ needed \in Nat /\ (p # NULL => size[p] < needed)
  BY <1>1, ManagerAssumption DEF Walk
<1>3. p \in free \cup {NULL} /\ c = After(next, head, p) /\ free \in SUBSET Object
  BY CursorInList
<1>4. next \in Links0 /\ size \in Sizes0
  BY <1>1, Sizes
<1> HIDE DEF needed, p, c
<1>5. /\ c # NULL => \A o \in free : needed <= size[o] => size[c] <= size[o]
      /\ c = NULL => \A o \in free : size[o] < needed
  BY <1>1, <1>2, <1>3, <1>4, ChainSearch
<1> QED
  BY <1>2, <1>5 DEF needed, p, c

LEMMA TakeFreePool ==
  ASSUME ManagerInv, NEW t \in Thread, TakeFree(t) PROVE Pool!PoolNext
<1>1. /\ pc[t] = "search" /\ cur[t] # NULL /\ Enough(t) /\ HandOver(t, cur[t])
      /\ free' = free \ {cur[t]} /\ UNCHANGED size
  BY DEF TakeFree
<1>2. cur[t] \in free /\ cur[t] \in Object
  BY <1>1, CursorInList
<1>3. InUse' = InUse \cup {cur[t]}
  BY <1>1, HandOverUse DEF ManagerInv
<1>4. nbytesNeeded[t] \in Bytes
      /\ \A o \in free : nbytesNeeded[t] <= size[o] => size[cur[t]] <= size[o]
  BY <1>1, BestFit
<1>5. Pool!Reuse(cur[t], nbytesNeeded[t])
  BY <1>1, <1>2, <1>3, <1>4 DEF Pool!Reuse, Pool!Fits, Enough
<1> QED
  BY <1>2, <1>4, <1>5 DEF Pool!PoolNext

LEMMA TakeNewPool ==
  ASSUME ManagerInv, NEW t \in Thread, TakeNew(t) PROVE Pool!PoolNext
<1>1. pc[t] = "search" /\ cur[t] = NULL /\ free' = free
  BY DEF TakeNew
<1>2. PICK o \in Unborn : size' = [size EXCEPT ![o] = nbytesNeeded[t]] /\ HandOver(t, o)
  BY DEF TakeNew
<1>3. o \in Object /\ o \notin free \cup InUse
  BY <1>2 DEF Unborn
<1>4. InUse' = InUse \cup {o}
  BY <1>2, HandOverUse DEF ManagerInv
<1>5. nbytesNeeded[t] \in Bytes /\ \A x \in free : size[x] < nbytesNeeded[t]
  BY <1>1, BestFit
<1>6. \A x \in free : ~ nbytesNeeded[t] <= size[x]
  <2>1. \A x \in free : size[x] \in Nat
    BY SizeOrder DEF ManagerInv, TypeOK
  <2>2. nbytesNeeded[t] \in Nat
    BY <1>5, ManagerAssumption
  <2> QED
    BY <1>5, <2>1, <2>2
<1>7. Pool!Allocate(o, nbytesNeeded[t])
  BY <1>1, <1>2, <1>3, <1>4, <1>6 DEF Pool!Allocate, Pool!Fits
<1> QED
  BY <1>3, <1>5, <1>7 DEF Pool!PoolNext

LEMMA DiscardPool ==
  ASSUME ManagerInv, NEW t \in Thread, DiscardHead(t) \/ \E o \in Object : DiscardOne(t, o)
  PROVE  Pool!PoolNext
<1>1. PICK o : /\ o \in held[t] \cup chained[t] /\ Drop(t, o) /\ CountReleased(o)
               /\ listed' = listed /\ free' = free /\ size' = size
  <2>1. CASE DiscardHead(t)
    BY <2>1, Detached DEF DiscardHead
  <2>2. CASE \E o \in Object : DiscardOne(t, o)
    BY <2>2 DEF DiscardOne
  <2> QED
    BY <2>1, <2>2
<1>2. o \in Object /\ o \in InUse /\ InUse' = InUse \ {o}
  BY <1>1, Dropped
<1>3. Pool!Discard(o)
  BY <1>1, <1>2 DEF Pool!Discard
<1> QED
  BY <1>2, <1>3 DEF Pool!PoolNext

LEMMA InsertPool ==
  ASSUME ManagerInv, NEW t \in Thread, Insert(t) PROVE Pool!PoolNext
<1> DEFINE o == obj[t]
<1>1. /\ pc[t] \in {"place", "placeNext"} /\ CountReleased(o) /\ Drop(t, o)
      /\ free' = free \cup {o} /\ listed' = listed /\ size' = size
  BY DEF Insert
<1>2. o \in held[t] \cup chained[t]
  BY <1>1 DEF ManagerInv, Walks, Walk
<1> HIDE DEF o
<1>3. o \in Object /\ o \in InUse /\ InUse' = InUse \ {o}
  BY <1>1, <1>2, Dropped
<1>4. Pool!Recycle(o)
  BY <1>1, <1>3 DEF Pool!Recycle
<1> QED
  BY <1>3, <1>4 DEF Pool!PoolNext

LEMMA PoolStep == ManagerInv /\ [Next]_vars => [Pool!PoolNext]_(Pool!poolVars)
<1> SUFFICES ASSUME ManagerInv, [Next]_vars PROVE [Pool!PoolNext]_(Pool!poolVars)
  OBVIOUS
<1>0. ASSUME UNCHANGED <<size, places>> PROVE UNCHANGED Pool!poolVars
  BY <1>0 DEF places, Pool!poolVars, InUse, HeldBy, ChainedBy
<1>1. CASE UNCHANGED vars
  BY <1>0, <1>1 DEF vars
<1>2. CASE ClearData
  <2>1. /\ InUse = {} /\ free' = {}
        /\ UNCHANGED <<size, listed, held, chained>>
    BY <1>2 DEF ClearData
  <2>2. InUse' = InUse
    BY <2>1 DEF InUse, HeldBy, ChainedBy
  <2> QED
    BY <2>1, <2>2 DEF Pool!PoolNext, Pool!Empty
<1>3. ASSUME NEW t \in Thread, Inside(t) PROVE [Pool!PoolNext]_(Pool!poolVars)
  <2>1. CASE SearchOn(t) \/ PlaceOn(t) \/ RecycleHead(t) \/ ListReleased(t)
    <3>1. UNCHANGED <<size, places>>
      BY <2>1 DEF SearchOn, PlaceOn, Advance, RecycleHead, ListReleased
    <3> QED
      BY <3>1, <1>0
  <2>2. CASE TakeFree(t) \/ TakeNew(t) \/ DiscardHead(t) \/ Insert(t)
    BY <2>2, TakeFreePool, TakeNewPool, DiscardPool, InsertPool
  <2> QED
    BY <1>3, <2>1, <2>2 DEF Inside
<1>4. ASSUME NEW t \in Thread, Between(t) PROVE [Pool!PoolNext]_(Pool!poolVars)
  <2>1. CASE \/ \E n \in Bytes : Request(t, n)
             \/ \E o \in Object : ReleaseOne(t, o)
             \/ ReleaseList(t) \/ Reorder(t)
    <3>1. UNCHANGED <<size, places>>
      BY <2>1 DEF Request, ReleaseOne, ReleaseList, Reorder
    <3> QED
      BY <3>1, <1>0
  <2>2. CASE \E o \in Object : DiscardOne(t, o)
    BY <2>2, DiscardPool
  <2>3. CASE \E o \in Object : AddToList(t, o)
    <3>1. PICK o \in Object : AddToList(t, o)
      BY <2>3
    <3>2. InUse' = InUse /\ UNCHANGED <<free, size>>
      BY <3>1, AddToListUse DEF ManagerInv, AddToList
    <3> QED
      BY <3>2 DEF Pool!poolVars
  <2>4. CASE GetList(t)
    <3>1. InUse' = InUse /\ UNCHANGED <<free, size>>
      BY <2>4, GetListUse DEF GetList
    <3> QED
      BY <3>1 DEF Pool!poolVars
  <2> QED
    BY <1>4, <2>1, <2>2, <2>3, <2>4 DEF Between
<1> QED
  BY <1>1, <1>2, <1>3, <1>4 DEF Next

\* Whatever the threads do, the smallest free object that is large enough is
\* given out, a new one only when there is none, and none to two threads.
THEOREM PromiseKept == Spec => KeepsPromise
<1>1. Spec => Pool!PoolInit /\ [][Pool!PoolNext]_(Pool!poolVars)
  BY PoolInitial, PoolStep, SpecInv, PTL DEF Spec
<1> QED
  BY <1>1 DEF KeepsPromise, Pool!PoolSpec
=============================================================================
