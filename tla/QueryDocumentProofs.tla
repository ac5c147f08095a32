------------------------- MODULE QueryDocumentProofs -------------------------
(***************************************************************************)
(* The compaction of a batch of findOne queries answers every query as if  *)
(* it had been asked alone, for batches of any length and keys of any      *)
(* number of columns.                                                      *)
(***************************************************************************)
EXTENDS QueryDocument, Integers, FiniteSetTheorems, SequenceTheorems, WellFoundedInduction, TLAPS

USE ZenonT(60)

-----------------------------------------------------------------------------
(* Induction over an interval, and the recursive functions of the model.   *)

\* A set that holds zero and, with a number below the bound, its successor, holds
\* every number up to the bound.
LEMMA IntervalInduction ==
    ASSUME NEW N \in Nat, NEW S, 0 \in S,
           \A n \in 0..N : n < N /\ n \in S => n + 1 \in S
    PROVE  0..N \subseteq S
<1> DEFINE T == (0..N) \ S
<1> SUFFICES ASSUME T # {} PROVE FALSE
  OBVIOUS
<1>1. T \subseteq Nat
  BY SMTT(60)
<1>2. PICK x \in T : \A y \in T : ~ (<<y, x>> \in OpToRel(<, Nat))
  BY <1>1, NatLessThanWellFounded, WFMin
<1>3. x \in Nat /\ x # 0 /\ x <= N /\ x - 1 \in Nat /\ x - 1 < x /\ x - 1 \in 0..N
  BY <1>1, SMTT(60)
<1>4. x - 1 \notin T
  BY <1>1, <1>2, <1>3 DEF OpToRel
<1> HIDE DEF T
<1>5. x - 1 \in S
  BY <1>3, <1>4 DEF T
<1>6. x \in S
  <2>1. x - 1 < N
    BY <1>3, SMTT(60)
  <2>2. (x - 1) + 1 \in S
    BY <1>3, <1>5, <2>1
  <2> QED
    BY <1>3, <2>2, SMTT(60)
<1> QED
  BY <1>6, <1>2 DEF T

\* The recursive function of PushAll exists, so that PushAll is what pushing the
\* pairs one after the other comes to.
LEMMA PushAllUnfolds ==
    ASSUME NEW set, NEW pairs, Len(pairs) \in Nat
    PROVE  \E f : /\ f[0] = set
                  /\ \A n \in 1..Len(pairs) : f[n] = push(f[n - 1], pairs[n])
                  /\ PushAll(set, pairs) = f[Len(pairs)]
<1> DEFINE N == Len(pairs)
           Is(f, k) == f = [n \in 0..k |-> IF n = 0 THEN set ELSE push(f[n - 1], pairs[n])]
           S == {k \in 0..N : \E f : Is(f, k)}
<1>1. 0 \in S
  <2> DEFINE f == [n \in 0..0 |-> set]
  <2>1. Is(f, 0)
    BY SMTT(60)
  <2> HIDE DEF f
  <2> QED
    BY <2>1, SMTT(60)
<1>2. ASSUME NEW k \in 0..N, k < N, k \in S PROVE k + 1 \in S
  <2>1. PICK f : Is(f, k)
    BY <1>2
  <2> DEFINE g == [n \in 0..(k + 1) |-> IF n <= k THEN f[n] ELSE push(f[k], pairs[k + 1])]
  <2>2. ASSUME NEW n \in 0..(k + 1)
        PROVE  g[n] = IF n = 0 THEN set ELSE push(g[n - 1], pairs[n])
    <3>1. CASE n = 0
      BY <2>1, <3>1, SMTT(60)
    <3>2. CASE n # 0 /\ n <= k
      BY <2>1, <3>2, SMTT(60)
    <3>3. CASE n = k + 1
      <4>1. g[n] = push(f[k], pairs[n]) /\ g[n - 1] = f[k]
        BY <3>3, SMTT(60)
      <4> QED
        BY <3>3, <4>1, SMTT(60)
    <3> QED
      BY <3>1, <3>2, <3>3, SMTT(60)
  <2>3. Is(g, k + 1)
    BY <2>2
  <2> HIDE DEF g
  <2> QED
    BY <1>2, <2>3, SMTT(60)
<1>3. N \in S
  <2>1. \A n \in 0..N : n < N /\ n \in S => n + 1 \in S
    BY <1>2
  <2>2. N \in 0..N
    BY SMTT(60)
  <2> HIDE DEF S, N
  <2>3. 0..N \subseteq S
    BY <1>1, <2>1, IntervalInduction DEF N
  <2> QED
    BY <2>2, <2>3
<1>4. PICK h : Is(h, N)
  BY <1>3
<1> DEFINE pushed == CHOOSE f : Is(f, N)
<1>5. Is(pushed, N)
  BY <1>4
<1>6. PushAll(set, pairs) = pushed[N]
  BY DEF PushAll
<1> HIDE DEF pushed
<1>7. pushed[0] = set /\ \A n \in 1..N : pushed[n] = push(pushed[n - 1], pairs[n])
  BY <1>5, SMTT(60)
<1> QED
  BY <1>6, <1>7

\* The same for selection_set: the pairs of the operations are pushed one operation
\* after the other.
LEMMA SelectionSetUnfolds ==
    ASSUME NEW ops, Len(ops) \in Nat
    PROVE  \E f : /\ f[0] = EmptySelectionSet
                  /\ \A n \in 1..Len(ops) : f[n] = PushAll(f[n - 1], ops[n].where.pairs)
                  /\ selection_set(ops) = f[Len(ops)]
<1> DEFINE N == Len(ops)
           Is(f, k) == f = [n \in 0..k |-> IF n = 0 THEN EmptySelectionSet ELSE PushAll(f[n - 1], ops[n].where.pairs)]
           S == {k \in 0..N : \E f : Is(f, k)}
<1>1. 0 \in S
  <2> DEFINE f == [n \in 0..0 |-> EmptySelectionSet]
  <2>1. Is(f, 0)
    BY SMTT(60)
  <2> HIDE DEF f
  <2> QED
    BY <2>1, SMTT(60)
<1>2. ASSUME NEW k \in 0..N, k < N, k \in S PROVE k + 1 \in S
  <2>1. PICK f : Is(f, k)
    BY <1>2
  <2> DEFINE g == [n \in 0..(k + 1) |-> IF n <= k THEN f[n] ELSE PushAll(f[k], ops[k + 1].where.pairs)]
  <2>2. ASSUME NEW n \in 0..(k + 1)
        PROVE  g[n] = IF n = 0 THEN EmptySelectionSet ELSE PushAll(g[n - 1], ops[n].where.pairs)
    <3>1. CASE n = 0
      BY <2>1, <3>1, SMTT(60)
    <3>2. CASE n # 0 /\ n <= k
      BY <2>1, <3>2, SMTT(60)
    <3>3. CASE n = k + 1
      <4>1. g[n] = PushAll(f[k], ops[n].where.pairs) /\ g[n - 1] = f[k]
        BY <3>3, SMTT(60)
      <4> QED
        BY <3>3, <4>1, SMTT(60)
    <3> QED
      BY <3>1, <3>2, <3>3, SMTT(60)
  <2>3. Is(g, k + 1)
    BY <2>2
  <2> HIDE DEF g
  <2> QED
    BY <1>2, <2>3, SMTT(60)
<1>3. N \in S
  <2>1. \A n \in 0..N : n < N /\ n \in S => n + 1 \in S
    BY <1>2
  <2>2. N \in 0..N
    BY SMTT(60)
  <2> HIDE DEF S, N
  <2>3. 0..N \subseteq S
    BY <1>1, <2>1, IntervalInduction DEF N
  <2> QED
    BY <2>2, <2>3
<1>4. PICK h : Is(h, N)
  BY <1>3
<1> DEFINE after == CHOOSE f : Is(f, N)
<1>5. Is(after, N)
  BY <1>4
<1>6. selection_set(ops) = after[N]
  BY DEF selection_set
<1> HIDE DEF after
<1>7. after[0] = EmptySelectionSet /\ \A n \in 1..N : after[n] = PushAll(after[n - 1], ops[n].where.pairs)
  BY <1>5, SMTT(60)
<1> QED
  BY <1>6, <1>7

\* What one turn of the loops of dedup and with_more does.
select(nested, s) == IF s.name \in Names(nested) THEN nested ELSE Append(nested, s)

\* The same for AddMissing: the selections are looked at one after the other.
LEMMA AddMissingUnfolds ==
    ASSUME NEW nested, NEW more, Len(more) \in Nat
    PROVE  \E f : /\ f[0] = nested
                  /\ \A n \in 1..Len(more) : f[n] = select(f[n - 1], more[n])
                  /\ AddMissing(nested, more) = f[Len(more)]
<1> DEFINE N == Len(more)
           Is(f, k) == f = [n \in 0..k |-> IF n = 0 THEN nested ELSE select(f[n - 1], more[n])]
           S == {k \in 0..N : \E f : Is(f, k)}
<1>1. 0 \in S
  <2> DEFINE f == [n \in 0..0 |-> nested]
  <2>1. Is(f, 0)
    BY SMTT(60)
  <2> HIDE DEF f
  <2> QED
    BY <2>1, SMTT(60)
<1>2. ASSUME NEW k \in 0..N, k < N, k \in S PROVE k + 1 \in S
  <2>1. PICK f : Is(f, k)
    BY <1>2
  <2> DEFINE g == [n \in 0..(k + 1) |-> IF n <= k THEN f[n] ELSE select(f[k], more[k + 1])]
  <2>2. ASSUME NEW n \in 0..(k + 1)
        PROVE  g[n] = IF n = 0 THEN nested ELSE select(g[n - 1], more[n])
    <3>1. CASE n = 0
      BY <2>1, <3>1, SMTT(60)
    <3>2. CASE n # 0 /\ n <= k
      BY <2>1, <3>2, SMTT(60)
    <3>3. CASE n = k + 1
      <4>1. g[n] = select(f[k], more[n]) /\ g[n - 1] = f[k]
        BY <3>3, SMTT(60)
      <4> QED
        BY <3>3, <4>1, SMTT(60)
    <3> QED
      BY <3>1, <3>2, <3>3, SMTT(60)
  <2>3. Is(g, k + 1)
    BY <2>2
  <2> HIDE DEF g
  <2> QED
    BY <1>2, <2>3, SMTT(60)
<1>3. N \in S
  <2>1. \A n \in 0..N : n < N /\ n \in S => n + 1 \in S
    BY <1>2
  <2>2. N \in 0..N
    BY SMTT(60)
  <2> HIDE DEF S, N
  <2>3. 0..N \subseteq S
    BY <1>1, <2>1, IntervalInduction DEF N
  <2> QED
    BY <2>2, <2>3
<1>4. PICK h : Is(h, N)
  BY <1>3
<1> DEFINE selected == CHOOSE f : Is(f, N)
<1>5. Is(selected, N)
  BY <1>4
<1>6. AddMissing(nested, more) = selected[N]
  BY DEF AddMissing, select
<1> HIDE DEF selected
<1>7. selected[0] = nested /\ \A n \in 1..N : selected[n] = select(selected[n - 1], more[n])
  BY <1>5, SMTT(60)
<1> QED
  BY <1>6, <1>7

-----------------------------------------------------------------------------
(* Pushing the keys of queries that have the same columns: K are the       *)
(* columns, m of them, and V[g][n] is the value of the n-th column in the  *)
(* g-th query.                                                             *)

Prefix(s, n) == [k \in 1..n |-> s[k]]

\* A prefix that is appended to becomes the next longer one.
LEMMA AppendPrefix ==
    ASSUME NEW s, NEW n \in Nat
    PROVE  /\ Len(Prefix(s, n)) = n
           /\ Append(Prefix(s, n), s[n + 1]) = Prefix(s, n + 1)
<1> DEFINE S == {s[k] : k \in 1..(n + 1)}
           p == Prefix(s, n)
           q == Prefix(s, n + 1)
<1>1. p \in Seq(S) /\ q \in Seq(S) /\ s[n + 1] \in S
  BY SMTT(60) DEF Prefix
<1>2. Len(p) = n /\ Len(q) = n + 1
  BY <1>1, LenProperties, SMTT(60) DEF Prefix
<1> HIDE DEF S, p, q
<1>3. /\ Append(p, s[n + 1]) \in Seq(S)
      /\ Len(Append(p, s[n + 1])) = n + 1
      /\ \A k \in 1..n : Append(p, s[n + 1])[k] = p[k]
      /\ Append(p, s[n + 1])[n + 1] = s[n + 1]
  BY <1>1, <1>2, AppendProperties, SMTT(60)
<1>4. \A k \in 1..(n + 1) : Append(p, s[n + 1])[k] = q[k]
  BY <1>3, SMTT(60) DEF Prefix, p, q
<1>5. Append(p, s[n + 1]) = q
  BY <1>1, <1>2, <1>3, <1>4, SeqEqual
<1> QED
  BY <1>2, <1>5 DEF p, q

\* The selection set after i queries, the last of them pushed up to column n.
Grouping(K, V, m, i, n) ==
    [kind |-> IF i = 1 /\ n = 1 THEN "Single" ELSE "Multi",
     keys |-> [g \in 1..i |-> Prefix(K, IF g < i THEN m ELSE n)],
     vals |-> [g \in 1..i |-> Prefix(V[g], IF g < i THEN m ELSE n)]]

Distinct(K, m) == \A j, k \in 1..m : K[j] = K[k] => j = k

\* The pairs of one query.
Pairs(pairs, K, values, m) ==
    Len(pairs) = m /\ \A n \in 1..m : pairs[n][1] = K[n] /\ pairs[n][2] = values[n]

\* The first pair of all.
LEMMA PushFirst ==
    ASSUME NEW K, NEW V, NEW m, NEW pair, pair[1] = K[1], pair[2] = V[1][1]
    PROVE  push(EmptySelectionSet, pair) = Grouping(K, V, m, 1, 1)
<1>1. Prefix(K, 1) = <<pair[1]>> /\ Prefix(V[1], 1) = <<pair[2]>>
  BY SMTT(60) DEF Prefix
<1>2. /\ <<<<pair[1]>>>> = [g \in 1..1 |-> Prefix(K, IF g < 1 THEN m ELSE 1)]
      /\ <<<<pair[2]>>>> = [g \in 1..1 |-> Prefix(V[g], IF g < 1 THEN m ELSE 1)]
  BY <1>1, SMTT(60)
<1> QED
  BY <1>2 DEF push, EmptySelectionSet, Grouping

\* A pair with another column than those of the last group.
LEMMA PushNext ==
    ASSUME NEW K, NEW V, NEW m \in Nat, NEW i \in Nat \ {0}, NEW n \in 1..(m - 1),
           Distinct(K, m), NEW pair, pair[1] = K[n + 1], pair[2] = V[i][n + 1]
    PROVE  push(Grouping(K, V, m, i, n), pair) = Grouping(K, V, m, i, n + 1)
<1> DEFINE set == Grouping(K, V, m, i, n)
<1>1. /\ set.keys = [g \in 1..i |-> Prefix(K, IF g < i THEN m ELSE n)]
      /\ set.vals = [g \in 1..i |-> Prefix(V[g], IF g < i THEN m ELSE n)]
      /\ set.kind = IF i = 1 /\ n = 1 THEN "Single" ELSE "Multi"
  BY DEF Grouping
<1> HIDE DEF set
<1>2. Len(set.keys) = i /\ Len(set.vals) = i
  <2>1. set.keys = Prefix(set.keys, i) /\ set.vals = Prefix(set.vals, i)
    BY <1>1 DEF Prefix
  <2> QED
    BY <2>1, AppendPrefix, i \in Nat
<1>3. set.keys[i] = Prefix(K, n) /\ set.vals[i] = Prefix(V[i], n)
  BY <1>1, SMTT(60)
<1>4. K[n + 1] \notin Range(Prefix(K, n))
  BY SMTT(60) DEF Prefix, Range, Distinct
<1>5. ~ (set.kind = "Single" /\ set.keys[1] = <<pair[1]>>)
  BY <1>1, <1>3, SMTT(60) DEF Prefix, Distinct
<1>6. /\ [set.keys EXCEPT ![i] = Append(@, pair[1])]
            = [g \in 1..i |-> Prefix(K, IF g < i THEN m ELSE n + 1)]
      /\ [set.vals EXCEPT ![i] = Append(@, pair[2])]
            = [g \in 1..i |-> Prefix(V[g], IF g < i THEN m ELSE n + 1)]
  <2>1. n \in Nat
    BY SMTT(60)
  <2>2. Append(set.keys[i], pair[1]) = Prefix(K, n + 1) /\ Append(set.vals[i], pair[2]) = Prefix(V[i], n + 1)
    BY <1>3, <2>1, AppendPrefix
  <2>3. DOMAIN set.keys = 1..i /\ DOMAIN set.vals = 1..i
    BY <1>1
  <2>4. /\ [set.keys EXCEPT ![i] = Append(@, pair[1])]
              = [g \in 1..i |-> IF g = i THEN Prefix(K, n + 1) ELSE set.keys[g]]
        /\ [set.vals EXCEPT ![i] = Append(@, pair[2])]
              = [g \in 1..i |-> IF g = i THEN Prefix(V[i], n + 1) ELSE set.vals[g]]
    BY <2>2, <2>3
  <2>5. /\ \A g \in 1..i : (IF g = i THEN Prefix(K, n + 1) ELSE set.keys[g])
                              = Prefix(K, IF g < i THEN m ELSE n + 1)
        /\ \A g \in 1..i : (IF g = i THEN Prefix(V[i], n + 1) ELSE set.vals[g])
                              = Prefix(V[g], IF g < i THEN m ELSE n + 1)
    BY <1>1, SMTT(60)
  <2> QED
    BY <2>4, <2>5
<1>7. push(set, pair) = [kind |-> "Multi", keys |-> [set.keys EXCEPT ![i] = Append(@, pair[1])],
                                           vals |-> [set.vals EXCEPT ![i] = Append(@, pair[2])]]
  BY <1>1, <1>2, <1>3, <1>4, <1>5 DEF push
<1>8. n + 1 # 1
  BY SMTT(60)
<1> QED
  BY <1>6, <1>7, <1>8 DEF Grouping, set

\* A pair with a column of the last group starts another group.
LEMMA PushGroup ==
    ASSUME NEW K, NEW V, NEW m \in Nat, m > 1, NEW i \in Nat \ {0},
           NEW pair, pair[1] = K[1], pair[2] = V[i + 1][1]
    PROVE  push(Grouping(K, V, m, i, m), pair) = Grouping(K, V, m, i + 1, 1)
<1> DEFINE set == Grouping(K, V, m, i, m)
           keys == [g \in 1..(i + 1) |-> Prefix(K, IF g < i + 1 THEN m ELSE 1)]
           vals == [g \in 1..(i + 1) |-> Prefix(V[g], IF g < i + 1 THEN m ELSE 1)]
<1>1. /\ set.keys = [g \in 1..i |-> Prefix(K, m)]
      /\ set.vals = [g \in 1..i |-> Prefix(V[g], m)]
      /\ set.kind = "Multi"
  BY SMTT(60) DEF Grouping
<1> HIDE DEF set
<1>2. set.keys = Prefix(keys, i) /\ set.vals = Prefix(vals, i)
  <2>1. \A g \in 1..i : keys[g] = Prefix(K, m) /\ vals[g] = Prefix(V[g], m)
    BY SMTT(60)
  <2> HIDE DEF keys, vals
  <2> QED
    BY <1>1, <2>1 DEF Prefix
<1>3. Prefix(K, 1) = <<pair[1]>> /\ Prefix(V[i + 1], 1) = <<pair[2]>>
  BY SMTT(60) DEF Prefix
<1>4. keys[i + 1] = <<pair[1]>> /\ vals[i + 1] = <<pair[2]>>
  BY <1>3, SMTT(60)
<1>5. Prefix(keys, i + 1) = keys /\ Prefix(vals, i + 1) = vals
  BY DEF Prefix
<1> HIDE DEF keys, vals
<1>6. Len(set.keys) = i /\ Append(set.keys, <<pair[1]>>) = keys /\ Append(set.vals, <<pair[2]>>) = vals
  BY <1>2, <1>4, <1>5, AppendPrefix, i \in Nat
<1>7. K[1] \in Range(set.keys[i])
  <2>1. set.keys[i] = Prefix(K, m) /\ 1 \in 1..m
    BY <1>1, SMTT(60)
  <2> QED
    BY <2>1 DEF Prefix, Range
<1>8. push(set, pair) = [kind |-> "Multi", keys |-> keys, vals |-> vals]
  BY <1>1, <1>6, <1>7 DEF push
<1>9. (IF i + 1 = 1 /\ 1 = 1 THEN "Single" ELSE "Multi") = "Multi"
  BY SMTT(60)
<1>10. Grouping(K, V, m, i + 1, 1) = [kind |-> "Multi", keys |-> keys, vals |-> vals]
  BY <1>9 DEF Grouping, keys, vals
<1> QED
  BY <1>8, <1>10 DEF set

\* The pairs of one query, once the first of them has opened its group.
LEMMA PushAllGroup ==
    ASSUME NEW K, NEW V, NEW m \in Nat \ {0}, NEW i \in Nat \ {0},
           Distinct(K, m), NEW pairs, Pairs(pairs, K, V[i], m),
           NEW set, push(set, pairs[1]) = Grouping(K, V, m, i, 1)
    PROVE  PushAll(set, pairs) = Grouping(K, V, m, i, m)
<1> m = Len(pairs) /\ Len(pairs) \in Nat
  BY DEF Pairs
<1>1. PICK f : /\ f[0] = set
               /\ \A n \in 1..m : f[n] = push(f[n - 1], pairs[n])
               /\ PushAll(set, pairs) = f[m]
  BY PushAllUnfolds, SMTT(60)
<1> DEFINE S == {n \in 0..m : n = 0 \/ f[n] = Grouping(K, V, m, i, n)}
<1>2. ASSUME NEW n \in 0..m, n < m, n \in S PROVE n + 1 \in S
  <2>1. n + 1 \in 1..m /\ (n + 1) - 1 = n
    BY <1>2, SMTT(60)
  <2>2. f[n + 1] = push(f[n], pairs[n + 1])
    BY <1>1, <2>1
  <2>3. CASE n = 0
    BY <1>1, <2>1, <2>2, <2>3, SMTT(60)
  <2>4. CASE n # 0
    <3>1. n \in 1..(m - 1) /\ m \in Nat
      BY <1>2, <2>4, SMTT(60)
    <3>2. f[n] = Grouping(K, V, m, i, n)
      BY <1>2, <2>4
    <3>3. pairs[n + 1][1] = K[n + 1] /\ pairs[n + 1][2] = V[i][n + 1]
      BY <2>1 DEF Pairs
    <3>4. push(Grouping(K, V, m, i, n), pairs[n + 1]) = Grouping(K, V, m, i, n + 1)
      BY <3>1, <3>3, PushNext, SMTT(60)
    <3> QED
      BY <2>1, <2>2, <3>2, <3>4, SMTT(60)
  <2> QED
    BY <2>3, <2>4
<1>3. 0 \in S /\ m \in 0..m
  BY SMTT(60)
<1>4. \A n \in 0..m : n < m /\ n \in S => n + 1 \in S
  BY <1>2
<1>5. m \in S
  <2> HIDE DEF S
  <2> QED
    BY <1>3, <1>4, IntervalInduction
<1> QED
  BY <1>1, <1>5

\* The selection set after i queries by one and the same column.
OneColumn(K, V, i) ==
    [kind |-> "Single", keys |-> <<<<K[1]>>>>, vals |-> <<[g \in 1..i |-> V[g][1]]>>]

\* The pair of a query by one column.
LEMMA PushOneColumn ==
    ASSUME NEW K, NEW V, NEW i \in Nat \ {0},
           NEW pair, pair[1] = K[1], pair[2] = V[i + 1][1]
    PROVE  push(OneColumn(K, V, i), pair) = OneColumn(K, V, i + 1)
<1> DEFINE vals == [g \in 1..(i + 1) |-> V[g][1]]
           before == [g \in 1..i |-> V[g][1]]
<1>1. before = Prefix(vals, i) /\ vals = Prefix(vals, i + 1) /\ vals[i + 1] = pair[2]
  BY SMTT(60) DEF Prefix
<1> HIDE DEF vals, before
<1>2. Append(before, pair[2]) = vals
  BY <1>1, AppendPrefix, i \in Nat
<1> DEFINE set == [kind |-> "Single", keys |-> <<<<K[1]>>>>, vals |-> <<before>>]
<1>3. push(set, pair) = [set EXCEPT !.vals[1] = Append(@, pair[2])]
  BY DEF push
<1>4. OneColumn(K, V, i) = set
  BY DEF OneColumn, before
<1>5. [<<before>> EXCEPT ![1] = Append(@, pair[2])] = <<vals>>
  BY <1>2, SMTT(60)
<1>6. [set EXCEPT !.vals[1] = Append(@, pair[2])]
        = [set EXCEPT !.vals = [<<before>> EXCEPT ![1] = Append(@, pair[2])]]
  OBVIOUS
<1> QED
  BY <1>3, <1>4, <1>5, <1>6 DEF OneColumn, vals

\* The operations have the columns K for their keys, and the values V.
HaveKeys(ops, K, V, m) ==
    \A i \in 1..Len(ops) :
        /\ Len(ops[i].where.pairs) = m
        /\ \A n \in 1..m : /\ Column(ops[i].where.pairs[n]) = K[n]
                           /\ Value(ops[i].where.pairs[n]) = V[i][n]

\* What the keys of all queries are pushed to.
LEMMA SelectionSetIsGrouped ==
    ASSUME NEW ops, Len(ops) \in Nat \ {0}, NEW K, NEW V, NEW m \in Nat \ {0},
           HaveKeys(ops, K, V, m), Distinct(K, m)
    PROVE  selection_set(ops) =
               IF m = 1 THEN OneColumn(K, V, Len(ops)) ELSE Grouping(K, V, m, Len(ops), m)
<1> DEFINE N == Len(ops)
           After(i) == IF m = 1 THEN OneColumn(K, V, i) ELSE Grouping(K, V, m, i, m)
<1>1. PICK f : /\ f[0] = EmptySelectionSet
               /\ \A i \in 1..N : f[i] = PushAll(f[i - 1], ops[i].where.pairs)
               /\ selection_set(ops) = f[N]
  BY SelectionSetUnfolds
<1> DEFINE S == {i \in 0..N : i = 0 \/ f[i] = After(i)}
<1>2. ASSUME NEW i \in 0..N, i < N, i \in S PROVE i + 1 \in S
  <2> DEFINE pairs == ops[i + 1].where.pairs
  <2>1. i + 1 \in 1..N /\ (i + 1) - 1 = i
    BY <1>2, SMTT(60)
  <2>2. f[i + 1] = PushAll(f[i], pairs)
    BY <1>1, <2>1
  <2>3. Pairs(pairs, K, V[i + 1], m)
    BY <2>1 DEF HaveKeys, Pairs, Column, Value
  <2> HIDE DEF pairs
  <2>4. pairs[1][1] = K[1] /\ pairs[1][2] = V[i + 1][1]
    BY <2>3, SMTT(60) DEF Pairs
  <2>5. CASE i = 0
    <3>1. push(f[i], pairs[1]) = Grouping(K, V, m, 1, 1)
      BY <1>1, <2>4, <2>5, PushFirst, SMTT(60)
    <3>2. f[i + 1] = Grouping(K, V, m, 1, m)
      <4>1. 1 \in Nat \ {0} /\ i + 1 = 1
        BY <2>5, SMTT(60)
      <4>2. Pairs(pairs, K, V[1], m)
        BY <2>3, <4>1
      <4>3. PushAll(f[i], pairs) = Grouping(K, V, m, 1, m)
        BY <3>1, <4>1, <4>2, PushAllGroup, SMTT(60)
      <4> QED
        BY <2>2, <4>3
    <3>3. ASSUME m = 1 PROVE Grouping(K, V, m, 1, m) = OneColumn(K, V, 1)
      <4>1. Prefix(K, 1) = <<K[1]>> /\ Prefix(V[1], 1) = [g \in 1..1 |-> V[g][1]]
        BY SMTT(60) DEF Prefix
      <4>2. /\ [g \in 1..1 |-> Prefix(K, IF g < 1 THEN m ELSE 1)] = <<<<K[1]>>>>
            /\ [g \in 1..1 |-> Prefix(V[g], IF g < 1 THEN m ELSE 1)] = <<[g \in 1..1 |-> V[g][1]]>>
        BY <4>1, SMTT(60)
      <4> QED
        BY <3>3, <4>2 DEF Grouping, OneColumn
    <3> QED
      BY <2>1, <2>5, <3>2, <3>3, SMTT(60)
  <2>6. CASE i # 0 /\ m = 1
    <3>1. f[i] = OneColumn(K, V, i) /\ i \in Nat \ {0}
      BY <1>2, <2>6, SMTT(60)
    <3>2. PICK p : p[0] = f[i] /\ p[1] = push(p[0], pairs[1]) /\ PushAll(f[i], pairs) = p[1]
      BY <2>3, <2>6, PushAllUnfolds, SMTT(60) DEF Pairs
    <3>3. push(f[i], pairs[1]) = OneColumn(K, V, i + 1)
      BY <2>4, <3>1, PushOneColumn
    <3> QED
      BY <2>1, <2>2, <2>6, <3>2, <3>3, SMTT(60)
  <2>7. CASE i # 0 /\ m # 1
    <3>1. f[i] = Grouping(K, V, m, i, m) /\ i \in Nat \ {0} /\ m > 1 /\ i + 1 \in Nat \ {0}
      BY <1>2, <2>7, SMTT(60)
    <3>2. push(f[i], pairs[1]) = Grouping(K, V, m, i + 1, 1)
      BY <2>4, <3>1, PushGroup, SMTT(60)
    <3>3. PushAll(f[i], pairs) = Grouping(K, V, m, i + 1, m)
      BY <2>3, <3>1, <3>2, PushAllGroup, SMTT(60)
    <3> QED
      BY <2>1, <2>2, <2>7, <3>3, SMTT(60)
  <2> QED
    BY <2>5, <2>6, <2>7
<1>3. 0 \in S /\ N \in 0..N
  BY SMTT(60)
<1>4. \A i \in 0..N : i < N /\ i \in S => i + 1 \in S
  BY <1>2
<1>5. N \in S
  <2> HIDE DEF S, N
  <2> QED
    BY <1>3, <1>4, IntervalInduction DEF N
<1> QED
  BY <1>1, <1>5

\* The filter of the compacted query is the conjunctions of the queries, and the
\* unique columns are found in its first group.
LEMMA FilterOfCompacted ==
    ASSUME NEW ops, Len(ops) \in Nat \ {0}, NEW K, NEW V, NEW m \in Nat \ {0},
           HaveKeys(ops, K, V, m), Distinct(K, m)
    PROVE  /\ In(selection_set(ops)) = {[n \in 1..m |-> <<K[n], V[i][n]>>] : i \in 1..Len(ops)}
           /\ selection_set(ops).keys[1] = Prefix(K, m)
<1> DEFINE N == Len(ops)
           conjunction(i) == [n \in 1..m |-> <<K[n], V[i][n]>>]
<1>1. CASE m = 1
  <2>1. selection_set(ops) = OneColumn(K, V, N)
    BY <1>1, SelectionSetIsGrouped
  <2>2. /\ OneColumn(K, V, N).kind = "Single"
        /\ OneColumn(K, V, N).keys[1] = <<K[1]>>
        /\ OneColumn(K, V, N).vals[1] = [g \in 1..N |-> V[g][1]]
    BY DEF OneColumn
  <2>3. \A i : conjunction(i) = <<<<K[1], V[i][1]>>>>
    BY <1>1, SMTT(60)
  <2>4. In(OneColumn(K, V, N)) = {<<<<K[1], v>>>> : v \in Range([g \in 1..N |-> V[g][1]])}
    BY <2>2, SMTT(60) DEF In
  <2>5. In(OneColumn(K, V, N)) = {conjunction(i) : i \in 1..N}
    <3>1. Range([g \in 1..N |-> V[g][1]]) = {V[g][1] : g \in 1..N}
      BY DEF Range
    <3> HIDE DEF conjunction
    <3> QED
      BY <2>3, <2>4, <3>1
  <2>6. Prefix(K, 1) = <<K[1]>>
    BY SMTT(60) DEF Prefix
  <2> QED
    BY <1>1, <2>1, <2>2, <2>5, <2>6
<1>2. CASE m # 1
  <2> DEFINE set == Grouping(K, V, m, N, m)
  <2>1. selection_set(ops) = set
    BY <1>2, SelectionSetIsGrouped
  <2>2. set.kind = "Multi" /\ DOMAIN set.keys = 1..N
    BY <1>2 DEF Grouping
  <2>3. \A g \in 1..N : set.keys[g] = Prefix(K, m) /\ set.vals[g] = Prefix(V[g], m)
    BY DEF Grouping
  <2> HIDE DEF set
  <2> DEFINE zip(g) == [n \in DOMAIN set.keys[g] |-> <<set.keys[g][n], set.vals[g][n]>>]
  <2>4. ASSUME NEW g \in 1..N PROVE zip(g) = conjunction(g)
    BY <2>3 DEF Prefix
  <2>5. In(set) = {zip(g) : g \in 1..N}
    BY <2>2 DEF In
  <2>6. In(set) = {conjunction(g) : g \in 1..N}
    <3> HIDE DEF conjunction, zip
    <3> QED
      BY <2>4, <2>5
  <2> QED
    BY <1>2, <2>1, <2>3, <2>6, SMTT(60)
<1> QED
  BY <1>1, <1>2

-----------------------------------------------------------------------------
(* What is selected.                                                       *)

\* Two sequences without repetition that have the same length and of which one
\* holds all that the other holds, hold the same.
LEMMA SameRange ==
    ASSUME NEW s, NEW t, s \in Seq(Range(s)), t \in Seq(Range(t)), IsInjective(s), IsInjective(t),
           Len(s) = Len(t), Range(s) \subseteq Range(t)
    PROVE  Range(s) = Range(t)
<1> DEFINE n == Len(s)
<1>1. n \in Nat /\ DOMAIN s = 1..n /\ DOMAIN t = 1..n
  BY LenProperties
<1>2. s \in [1..n -> Range(s)] /\ t \in [1..n -> Range(t)]
  BY <1>1, SMTT(60) DEF Range
<1>3. s \in Bijection(1..n, Range(s)) /\ t \in Bijection(1..n, Range(t))
  BY <1>1, <1>2 DEF Bijection, Injection, Surjection, Range
<1>4. ExistsBijection(1..n, Range(s)) /\ ExistsBijection(1..n, Range(t))
  BY <1>3 DEF ExistsBijection
<1>5. IsFiniteSet(1..n)
  BY <1>1, FS_Interval, SMTT(60)
<1>6. IsFiniteSet(Range(t)) /\ Cardinality(Range(s)) = n /\ Cardinality(Range(t)) = n
  BY <1>1, <1>4, <1>5, FS_Bijection, FS_CountingElements
<1> QED
  BY <1>6, FS_Subset

\* The names of a selection tell its members apart.
DistinctNames(nested) ==
    /\ nested \in Seq(Range(nested))
    /\ \A m, n \in DOMAIN nested : nested[m].name = nested[n].name => m = n
    /\ \A s \in Range(nested) : s.nested \in Seq(Range(s.nested)) /\ IsInjective(s.nested)

\* What is chosen by its name is the one member that has it.
LEMMA ChosenByName ==
    ASSUME NEW nested, NEW s \in Range(nested),
           \A t \in Range(nested) : t.name = s.name => t = s
    PROVE  (CHOOSE t \in Range(nested) : t.name = s.name) = s
  OBVIOUS

\* Selections that can be compacted have the same names, and the same is selected
\* below every relation.
LEMMA SameSelection ==
    ASSUME NEW p, NEW q, DistinctNames(p), DistinctNames(q), Len(p) = Len(q),
           \A s \in Range(p) : \E o \in Range(q) : Selection_eq(o, s)
    PROVE  /\ Names(p) = Names(q)
           /\ \A s \in Range(p) : \E o \in Range(q) :
                 /\ o.name = s.name /\ Range(o.nested) = Range(s.nested)
                 /\ o.nested = <<>> <=> s.nested = <<>>
<1> DEFINE n == Len(p)
           P == [k \in 1..n |-> p[k].name]
           Q == [k \in 1..n |-> q[k].name]
<1>1. n \in Nat /\ DOMAIN p = 1..n /\ DOMAIN q = 1..n
  BY LenProperties DEF DistinctNames
<1>2. Range(P) = Names(p) /\ Range(Q) = Names(q)
  BY <1>1 DEF Names, Range
<1>3. P \in Seq(Range(P)) /\ Q \in Seq(Range(Q)) /\ Len(P) = n /\ Len(Q) = n
  BY <1>1, IsASeq, LenProperties, SMTT(60) DEF Range
<1>4. IsInjective(P) /\ IsInjective(Q)
  BY <1>1 DEF IsInjective, DistinctNames
<1>5. Range(P) \subseteq Range(Q)
  <2> SUFFICES Names(p) \subseteq Names(q)
    BY <1>2
  <2> QED
    BY SMTT(60) DEF Names, Selection_eq
<1> HIDE DEF P, Q
<1>6. Names(p) = Names(q)
  BY <1>2, <1>3, <1>4, <1>5, SameRange
<1>7. ASSUME NEW s \in Range(p)
      PROVE  \E o \in Range(q) : /\ o.name = s.name /\ Range(o.nested) = Range(s.nested)
                                 /\ o.nested = <<>> <=> s.nested = <<>>
  <2>1. PICK o \in Range(q) : Selection_eq(o, s)
    OBVIOUS
  <2>2. /\ o.nested \in Seq(Range(o.nested)) /\ IsInjective(o.nested)
        /\ s.nested \in Seq(Range(s.nested)) /\ IsInjective(s.nested)
    BY DEF DistinctNames
  <2>3. o.name = s.name /\ Len(o.nested) = Len(s.nested) /\ Range(o.nested) \subseteq Range(s.nested)
    BY <2>1 DEF Selection_eq
  <2>4. Range(o.nested) = Range(s.nested)
    BY <2>2, <2>3, SameRange
  <2>5. o.nested = <<>> <=> s.nested = <<>>
    BY <2>2, <2>3, EmptySeq
  <2> QED
    BY <2>3, <2>4, <2>5
<1> QED
  BY <1>6, <1>7

\* No name is selected twice.
Once(nested) == \A m, n \in DOMAIN nested : nested[m].name = nested[n].name => m = n

\* Adding what is missing keeps what is selected, adds no second member of a name,
\* and leaves no name out.
LEMMA AddMissingAdds ==
    ASSUME NEW p, NEW more, p \in Seq(Range(p)), more \in Seq(Range(more))
    PROVE  /\ Range(p) \subseteq Range(AddMissing(p, more))
           /\ \A s \in Range(AddMissing(p, more)) : s \in Range(p) \/ s.name \notin Names(p)
           /\ AddMissing(p, more) \in Seq(Range(p) \cup Range(more))
           /\ Once(p) => Once(AddMissing(p, more))
           /\ Names(AddMissing(p, more)) = Names(p) \cup Names(more)
<1> DEFINE N == Len(more)
           T == Range(p) \cup Range(more)
           Kept(nested) == /\ nested \in Seq(T) /\ Range(p) \subseteq Range(nested)
                           /\ \A s \in Range(nested) : s \in Range(p) \/ s.name \notin Names(p)
           Good(nested, n) == /\ Kept(nested) /\ (Once(p) => Once(nested))
                              /\ Names(nested) = Names(p) \cup {more[k].name : k \in 1..n}
<1>0. N \in Nat /\ DOMAIN more = 1..N
  BY LenProperties
<1>1. PICK f : /\ f[0] = p
               /\ \A n \in 1..N : f[n] = select(f[n - 1], more[n])
               /\ AddMissing(p, more) = f[N]
  BY <1>0, AddMissingUnfolds, SMTT(60)
<1> DEFINE S == {n \in 0..N : Good(f[n], n)}
<1>2. 0 \in S
  <2>1. p \in Seq(T)
    BY SeqMonotonic
  <2>2. {more[k].name : k \in 1..0} = {}
    BY SMTT(60)
  <2>3. 0 \in 0..N
    BY <1>0, SMTT(60)
  <2> QED
    BY <1>1, <2>1, <2>2, <2>3
<1>3. ASSUME NEW n \in 0..N, n < N, n \in S PROVE n + 1 \in S
  <2> DEFINE nested == f[n]
             s == more[n + 1]
             longer == Append(nested, s)
  <2>1. n + 1 \in 1..N /\ (n + 1) - 1 = n /\ n + 1 \in 0..N
    BY <1>0, <1>3, SMTT(60)
  <2>2. f[n + 1] = select(nested, s)
    BY <1>1, <2>1
  <2>3. Good(nested, n)
    BY <1>3
  <2>4. {more[k].name : k \in 1..(n + 1)} = {more[k].name : k \in 1..n} \cup {s.name}
    <3>1. \A k : k \in 1..(n + 1) <=> k \in 1..n \/ k = n + 1
      BY <2>1, SMTT(60)
    <3> QED
      BY <3>1
  <2>5. CASE s.name \in Names(nested)
    <3>1. f[n + 1] = nested
      BY <2>2, <2>5 DEF select
    <3>2. Names(nested) = Names(p) \cup {more[k].name : k \in 1..(n + 1)}
      BY <2>3, <2>4, <2>5
    <3> QED
      BY <2>1, <2>3, <3>1, <3>2
  <2>6. CASE s.name \notin Names(nested)
    <3>1. f[n + 1] = longer
      BY <2>2, <2>6 DEF select
    <3>2. s \in T
      BY <1>0, <2>1 DEF Range
    <3>3. /\ longer \in Seq(T) /\ Len(longer) = Len(nested) + 1 /\ Len(nested) \in Nat
          /\ \A k \in 1..Len(nested) : longer[k] = nested[k]
          /\ longer[Len(nested) + 1] = s
      BY <2>3, <3>2, AppendProperties, LenProperties, SMTT(60)
    <3>4. DOMAIN longer = 1..(Len(nested) + 1) /\ DOMAIN nested = 1..Len(nested)
      BY <2>3, <3>3, LenProperties
    <3>5. /\ \A k \in DOMAIN longer : k \in DOMAIN nested \/ k = Len(nested) + 1
          /\ Len(nested) + 1 \in DOMAIN longer /\ \A k \in DOMAIN nested : k \in DOMAIN longer
      BY <3>3, <3>4, SMTT(60)
    <3>6. \A k \in DOMAIN nested : longer[k] = nested[k]
      BY <3>3, <3>4
    <3> HIDE DEF longer, nested, s
    <3>7. Range(longer) = Range(nested) \cup {s}
      BY <3>3, <3>5, <3>6 DEF Range
    <3>8. s.name \notin Names(p)
      BY <2>3, <2>6 DEF Names
    <3>9. Names(longer) = Names(nested) \cup {s.name}
      BY <3>7 DEF Names
    <3>10. \A k \in DOMAIN nested : nested[k].name # s.name
      BY <2>6 DEF Names, Range
    <3>11. Once(nested) => Once(longer)
      BY <3>3, <3>5, <3>6, <3>10 DEF Once
    <3>12. Kept(longer)
      BY <2>3, <3>3, <3>7, <3>8
    <3>13. Names(longer) = Names(p) \cup {more[k].name : k \in 1..(n + 1)}
      BY <2>3, <2>4, <3>9
    <3> QED
      BY <2>1, <2>3, <3>1, <3>11, <3>12, <3>13
  <2> QED
    BY <2>5, <2>6
<1>4. \A n \in 0..N : n < N /\ n \in S => n + 1 \in S
  BY <1>3
<1>5. N \in S
  <2>1. N \in 0..N
    BY <1>0, SMTT(60)
  <2> HIDE DEF S, N
  <2> QED
    BY <1>0, <1>2, <1>4, <2>1, IntervalInduction DEF N
<1>6. Names(more) = {more[k].name : k \in 1..N}
  BY <1>0 DEF Names, Range
<1> QED
  BY <1>1, <1>5, <1>6

\* What convert does to the selection of an operation: Selection::dedup leaves every
\* name once and none out.
LEMMA DedupSelectsOnce ==
    ASSUME NEW nested, nested \in Seq(Range(nested))
    PROVE  /\ Once(dedup(nested)) /\ Names(dedup(nested)) = Names(nested)
           /\ dedup(nested) \in Seq(Range(nested))
<1>1. << >> \in Seq(Range(<< >>)) /\ Range(<< >>) = {} /\ Names(<< >>) = {} /\ Once(<< >>)
  <2>1. DOMAIN << >> = {} /\ << >> \in Seq({})
    BY SMTT(60)
  <2> QED
    BY <2>1 DEF Range, Names, Once
<1>2. /\ AddMissing(<< >>, nested) \in Seq(Range(<< >>) \cup Range(nested))
      /\ Once(AddMissing(<< >>, nested)) /\ Names(AddMissing(<< >>, nested)) = Names(<< >>) \cup Names(nested)
  BY <1>1, AddMissingAdds
<1>3. {} \cup Range(nested) = Range(nested) /\ {} \cup Names(nested) = Names(nested)
  OBVIOUS
<1> QED
  BY <1>1, <1>2, <1>3 DEF dedup

\* A record handed out of a compacted answer shows what the record shows that was
\* asked for alone.
LEMMA SameItem ==
    ASSUME NEW p, NEW q, DistinctNames(p), DistinctNames(q), Len(p) = Len(q),
           \A s \in Range(p) : \E o \in Range(q) : Selection_eq(o, s),
           NEW keys, NEW k \in Nat, DOMAIN keys = 1..k, NEW row
    PROVE  [name \in Names(p) |-> Item(row, with_keys(p, keys))[name]] = Item(row, q)
<1> DEFINE w == with_keys(p, keys)
           Shown(nested, name) ==
               LET s == CHOOSE s \in Range(nested) : s.name = name
               IN  IF s.nested = <<>> THEN row[name] ELSE Range(s.nested)
<1>1. /\ Range(p) \subseteq Range(w)
      /\ \A s \in Range(w) : s \in Range(p) \/ s.name \notin Names(p)
  <2> DEFINE more == [n \in DOMAIN keys |-> Scalar(keys[n])]
  <2>1. more \in Seq(Range(more))
    <3> DEFINE T == {Scalar(keys[n]) : n \in 1..k}
    <3>1. more = [n \in 1..k |-> Scalar(keys[n])]
      OBVIOUS
    <3>2. more \in [1..k -> T]
      BY <3>1
    <3>3. Range(more) = T
      BY <3>1 DEF Range
    <3> HIDE DEF more, T
    <3>4. more \in Seq(T)
      BY <3>2, SMTT(60)
    <3> QED
      BY <3>3, <3>4
  <2> QED
    BY <2>1, AddMissingAdds DEF DistinctNames, with_keys
<1>2. /\ Names(p) = Names(q)
      /\ \A s \in Range(p) : \E o \in Range(q) :
            /\ o.name = s.name /\ Range(o.nested) = Range(s.nested)
            /\ o.nested = <<>> <=> s.nested = <<>>
  BY SameSelection
<1> HIDE DEF w
<1>3. Names(p) \subseteq Names(w)
  BY <1>1 DEF Names
<1>4. /\ \A s, t \in Range(p) : t.name = s.name => t = s
      /\ \A s, t \in Range(q) : t.name = s.name => t = s
  BY DEF DistinctNames, Range
<1>5. ASSUME NEW name \in Names(p) PROVE Shown(w, name) = Shown(q, name)
  <2>1. PICK s \in Range(p) : s.name = name
    BY DEF Names
  <2>2. PICK o \in Range(q) : /\ o.name = s.name /\ Range(o.nested) = Range(s.nested)
                              /\ o.nested = <<>> <=> s.nested = <<>>
    BY <1>2
  <2>3. s \in Range(w) /\ \A t \in Range(w) : t.name = s.name => t = s
    BY <1>1, <1>4, <2>1
  <2>4. (CHOOSE t \in Range(w) : t.name = name) = s
    BY <2>1, <2>3, ChosenByName
  <2>5. (CHOOSE t \in Range(q) : t.name = name) = o
    BY <1>4, <2>1, <2>2, ChosenByName
  <2> QED
    BY <2>2, <2>4, <2>5
<1>6. Item(row, w) = [name \in Names(w) |-> Shown(w, name)] /\ Item(row, q) = [name \in Names(q) |-> Shown(q, name)]
  BY DEF Item
<1> HIDE DEF Shown
<1>7. [name \in Names(p) |-> Item(row, w)[name]] = [name \in Names(q) |-> Shown(q, name)]
  BY <1>2, <1>3, <1>5, <1>6
<1> QED
  BY <1>6, <1>7 DEF w

\* The adapter hands on what the compaction needs: whatever a document selects twice,
\* GraphQLProtocolAdapter::convert leaves an operation that is well formed.
THEOREM ConvertedIsWellFormed ==
    ASSUME NEW query, convert(query) # ConversionError,
           Parsed(popped(query)), {"name", "where", "nested"} \subseteq DOMAIN popped(query)
    PROVE  WellFormed(convert(query)) /\ Names(convert(query).nested) = Names(popped(query).nested)
<1> DEFINE op == popped(query)
           n == dedup(op.nested)
           c == [op EXCEPT !.nested = n]
<1>1. Parsed(op) /\ {"name", "where", "nested"} \subseteq DOMAIN op /\ convert(query) = c
  BY DEF convert
<1> HIDE DEF op, n
<1>2. c.name = op.name /\ c.where = op.where /\ c.nested = n
  BY <1>1, SMTT(60)
<1> HIDE DEF c
<1>3. op.nested \in Seq(Range(op.nested)) /\ \A s \in Range(op.nested) : s.nested \in Seq(Range(s.nested))
  BY <1>1 DEF Parsed
<1>4. Once(n) /\ Names(n) = Names(op.nested) /\ n \in Seq(Range(op.nested))
  BY <1>3, DedupSelectsOnce DEF n
<1>5. Range(n) \subseteq Range(op.nested)
  BY <1>4, ElementOfSeq, LenProperties, SMTT(60) DEF Range
<1>6. n \in Seq(Range(n))
  <2>1. n = [k \in 1..Len(n) |-> n[k]] /\ Len(n) \in Nat /\ DOMAIN n = 1..Len(n)
    BY <1>4, LenProperties
  <2>2. \A k \in 1..Len(n) : n[k] \in Range(n)
    BY <2>1 DEF Range
  <2> QED
    BY <2>1, <2>2, SMTT(60)
<1>7. Parsed(c)
  <2>1. \A s \in Range(n) : s.nested \in Seq(Range(s.nested))
    BY <1>3, <1>5
  <2> DEFINE Name(name) == name = <<name[1], name[2]>>
             ObjectOf(pairs) ==
                 /\ pairs \in Seq(Range(pairs))
                 /\ \A j, k \in DOMAIN pairs : Column(pairs[j]) = Column(pairs[k]) => j = k
                 /\ \A k \in DOMAIN pairs :
                       LET v == Value(pairs[k]) IN v = [type |-> v.type, form |-> v.form, value |-> v.value]
  <2>2. Name(op.name) /\ ObjectOf(op.where.pairs)
    BY <1>1 DEF Parsed
  <2> HIDE DEF Name, ObjectOf
  <2>3. Name(c.name) /\ ObjectOf(c.where.pairs)
    BY <1>2, <2>2
  <2>4. c.nested \in Seq(Range(c.nested)) /\ \A s \in Range(c.nested) : s.nested \in Seq(Range(s.nested))
    BY <1>2, <1>6, <2>1
  <2> QED
    BY <2>3, <2>4 DEF Parsed, Name, ObjectOf
<1> QED
  BY <1>1, <1>2, <1>4, <1>7 DEF WellFormed, Once, op

-----------------------------------------------------------------------------
(* The answers.                                                            *)

\* Every query of a compacted batch is answered as if it had been asked alone, for
\* batches of any length, keys of any number of columns and tables of any content:
\* CompactedDocument::from and handle_compacted are transparent to plain queries.
THEOREM CompactionAnswersAlone ==
    ASSUME NEW ops, ops \in Seq(Range(ops)), can_compact(ops), ~ compact_panics(ops),
           \A i \in DOMAIN ops : WellFormed(ops[i]), Plain(ops), builds(compact(ops)), NEW rows
    PROVE  CompactedAsAlone(ops, compact(ops), rows)
<1> DEFINE N == Len(ops)
           m == Len(ops[1].where.pairs)
           K == [n \in 1..m |-> Column(ops[1].where.pairs[n])]
           V == [i \in 1..N |-> [n \in 1..m |-> Value(ops[i].where.pairs[n])]]
           c == compact(ops)
<1>1. N \in Nat \ {0} /\ DOMAIN ops = 1..N /\ 1 \in DOMAIN ops
  BY LenProperties, EmptySeq, SMTT(60) DEF can_compact
<1>2. ASSUME NEW i \in 1..N
      PROVE  /\ is_find_one(ops[i]) /\ ops[i].name = ops[1].name
             /\ Len(ops[i].nested) = Len(ops[1].nested)
             /\ DistinctNames(ops[i].nested)
             /\ DOMAIN ops[i].where.pairs = 1..m
             /\ \A s \in Range(ops[1].nested) : \E o \in Range(ops[i].nested) : Selection_eq(o, s)
  <2>1. i \in DOMAIN ops /\ WellFormed(ops[i])
    BY <1>1
  <2>2. DistinctNames(ops[i].nested)
    BY <2>1 DEF DistinctNames, WellFormed, Parsed, Plain
  <2>3. DOMAIN ops[i].where.pairs = 1..m
    BY <2>1, LenProperties, SMTT(60) DEF WellFormed, Parsed, Plain
  <2>4. \A s \in Range(ops[1].nested) : Selection_eq(s, s)
    BY DEF Selection_eq
  <2>5. CASE i = 1
    BY <2>2, <2>3, <2>4, <2>5 DEF can_compact
  <2>6. CASE i # 1
    <3>1. i \in 2..Len(ops)
      BY <1>1, <2>6, SMTT(60)
    <3> QED
      BY <2>2, <2>3, <3>1 DEF can_compact
  <2> QED
    BY <2>5, <2>6
<1>3. m \in Nat \ {0}
  <2>1. ops[1].where.pairs \in Seq(Range(ops[1].where.pairs)) /\ ops[1].where.pairs # <<>>
    BY <1>1 DEF WellFormed, Parsed, compact_panics
  <2> QED
    BY <2>1, LenProperties, EmptySeq
<1>4. Distinct(K, m)
  <2>1. \A j, k \in 1..m : Column(ops[1].where.pairs[j]) = Column(ops[1].where.pairs[k]) => j = k
    BY <1>1, <1>2, SMTT(60) DEF WellFormed, Parsed
  <2> QED
    BY <2>1 DEF Distinct
<1>5. HaveKeys(ops, K, V, m)
  <2>1. ASSUME NEW i \in 1..N
        PROVE  /\ Len(ops[i].where.pairs) = m
               /\ \A n \in 1..m : Column(ops[i].where.pairs[n]) = Column(ops[1].where.pairs[n])
    BY <1>1, <1>2 DEF Plain
  <2> QED
    BY <2>1 DEF HaveKeys
<1>6. /\ c.filter = {[n \in 1..m |-> <<K[n], V[i][n]>>] : i \in 1..N}
      /\ c.nested = with_keys(ops[1].nested, Prefix(K, m))
  <2>1. /\ In(selection_set(ops)) = {[n \in 1..m |-> <<K[n], V[i][n]>>] : i \in 1..N}
        /\ selection_set(ops).keys[1] = Prefix(K, m)
    <3> HIDE DEF K, V, m
    <3> QED
      BY <1>1, <1>3, <1>4, <1>5, FilterOfCompacted
  <2> QED
    BY <2>1 DEF compact, Compacted
<1>7. /\ c.name = <<"findMany", ops[1].name[2]>> /\ c.nested_selection = Names(ops[1].nested)
      /\ c.type = "Read" /\ DOMAIN c.arguments = 1..N
  BY <1>1 DEF compact, Compacted
<1>8. c.keys = K /\ DOMAIN K = 1..m
  BY <1>1, <1>2 DEF compact, Compacted
<1>9. \A i \in 1..N : c.arguments[i] = V[i] /\ DOMAIN V[i] = 1..m
  BY <1>1, <1>2 DEF compact, Compacted
<1> DEFINE conj(i) == [n \in 1..m |-> <<K[n], V[i][n]>>]
<1>10. \A i \in 1..N : \A n \in 1..m : /\ K[n] = Column(ops[i].where.pairs[n])
                                       /\ V[i][n] = Value(ops[i].where.pairs[n])
  BY <1>5 DEF HaveKeys
<1> HIDE DEF K, V, m, c, conj
<1>11. c.filter = {conj(i) : i \in 1..N}
  BY <1>6 DEF conj
<1>12. ASSUME NEW i \in 1..N, NEW n \in 1..m
       PROVE  V[i][n] = [type |-> ColumnType[K[n]], form |-> "canonical", value |-> V[i][n].value]
  <2>1. ~ is_find_one(c)
    BY <1>7, SMTT(60) DEF is_find_one
  <2>2. conj(i) \in FilterOf(c) /\ n \in DOMAIN conj(i)
    BY <1>11, <2>1 DEF FilterOf, conj
  <2>3. parses(conj(i)[n])
    BY <2>2 DEF builds, c
  <2>4. conj(i)[n] = <<K[n], V[i][n]>>
    BY DEF conj
  <2>5. V[i][n].type = ColumnType[K[n]]
    BY <2>3, <2>4, SMTT(60) DEF parses, Column, Value
  <2>6. i \in DOMAIN ops /\ n \in DOMAIN ops[i].where.pairs
    BY <1>1, <1>2
  <2>7. LET v == V[i][n] IN v = [type |-> v.type, form |-> v.form, value |-> v.value]
    BY <1>10, <2>6, SMTT(60) DEF WellFormed, Parsed
  <2>8. V[i][n].form = "canonical"
    BY <1>10, <2>6, SMTT(60) DEF Plain
  <2> QED
    BY <2>5, <2>7, <2>8
<1>13. ASSUME NEW i \in 1..N, NEW row
       PROVE  /\ index_key(row, c.keys) = c.arguments[i] <=> \A n \in 1..m : row[K[n]] = V[i][n].value
              /\ matches(row, conj(i)) <=> \A n \in 1..m : row[K[n]] = V[i][n].value
              /\ matches(row, ops[i].where.pairs) <=> \A n \in 1..m : row[K[n]] = V[i][n].value
  <2>1. index_key(row, c.keys) = [n \in 1..m |-> QueryValue_from(K[n], row[K[n]])]
    BY <1>8 DEF index_key
  <2>2. V[i] = [n \in 1..m |-> V[i][n]]
    BY <1>9 DEF V
  <2>3. \A n \in 1..m : QueryValue_from(K[n], row[K[n]]) = V[i][n] <=> row[K[n]] = V[i][n].value
    BY <1>12, SMTT(60) DEF QueryValue_from
  <2>4. index_key(row, c.keys) = c.arguments[i] <=> \A n \in 1..m : row[K[n]] = V[i][n].value
    <3> DEFINE key == index_key(row, c.keys)
    <3>1. key = [n \in 1..m |-> key[n]] /\ \A n \in 1..m : key[n] = QueryValue_from(K[n], row[K[n]])
      BY <2>1
    <3> HIDE DEF key
    <3>2. key = V[i] <=> \A n \in 1..m : key[n] = V[i][n]
      BY <2>2, <3>1
    <3> QED
      BY <1>9, <2>3, <3>1, <3>2 DEF key
  <2>5. matches(row, conj(i)) <=> \A n \in 1..m : row[K[n]] = V[i][n].value
    BY DEF matches, conj, Column, Value
  <2>6. matches(row, ops[i].where.pairs) <=> \A n \in 1..m : row[K[n]] = V[i][n].value
    BY <1>2, <1>10 DEF matches
  <2> QED
    BY <2>4, <2>5, <2>6
<1>14. ASSUME NEW i \in 1..N
       PROVE  {row \in find_many(c.filter, rows) : index_key(row, c.keys) = c.arguments[i]}
                = find_many(FilterOf(ops[i]), rows)
  <2>1. FilterOf(ops[i]) = {ops[i].where.pairs}
    BY <1>2 DEF FilterOf
  <2>2. ASSUME NEW row \in rows
        PROVE  (\E f \in c.filter : matches(row, f)) /\ index_key(row, c.keys) = c.arguments[i]
                  <=> matches(row, ops[i].where.pairs)
    <3>1. matches(row, ops[i].where.pairs) => \E f \in c.filter : matches(row, f)
      BY <1>11, <1>13
    <3>2. index_key(row, c.keys) = c.arguments[i] <=> matches(row, ops[i].where.pairs)
      BY <1>13
    <3> QED
      BY <3>1, <3>2
  <2> QED
    BY <2>1, <2>2 DEF find_many
<1>15. ASSUME NEW i \in 1..N, NEW row
       PROVE  [name \in c.nested_selection |-> Item(row, c.nested)[name]] = Item(row, ops[i].nested)
  <2>1. DOMAIN Prefix(K, m) = 1..m /\ m \in Nat
    BY <1>3 DEF Prefix
  <2>2. DistinctNames(ops[1].nested)
    BY <1>1, <1>2
  <2> QED
    BY <1>2, <1>6, <1>7, <2>1, <2>2, SameItem, SMTT(60)
<1>16. ASSUME NEW i \in 1..N PROVE <<"findOne", c.name[2]>> = ResponseKey(ops[i])
  <2>1. ops[i].name = <<ops[i].name[1], ops[i].name[2]>> /\ ops[i].alias = NoAlias
    BY <1>1 DEF WellFormed, Parsed, Plain
  <2>2. ops[i].name[1] = "findOne" /\ ops[i].name[2] = c.name[2]
    BY <1>2, <1>7, SMTT(60) DEF is_find_one
  <2> QED
    BY <2>1, <2>2 DEF ResponseKey
<1>17. ASSUME NEW i \in 1..N PROVE handle_compacted(c, rows)[i] = find_one(ops[i], rows)
  <2> DEFINE found == find_many(FilterOf(ops[i]), rows)
             row == CHOOSE row \in found : TRUE
  <2>1. handle_compacted(c, rows)[i] = [key |-> <<"findOne", c.name[2]>>, item |-> Found(found, c)]
    BY <1>7, <1>14 DEF handle_compacted
  <2>2. find_one(ops[i], rows)
          = [key |-> ResponseKey(ops[i]), item |-> IF found = {} THEN Null ELSE Item(row, ops[i].nested)]
    BY DEF find_one
  <2>3. Found(found, c) = IF found = {} THEN Null ELSE [name \in c.nested_selection |-> Item(row, c.nested)[name]]
    BY DEF Found
  <2> HIDE DEF found, row
  <2> QED
    BY <1>15, <1>16, <2>1, <2>2, <2>3
<1>18. /\ DOMAIN handle_compacted(c, rows) = 1..N
       /\ handle_compacted(c, rows) = [i \in 1..N |-> handle_compacted(c, rows)[i]]
  BY <1>7 DEF handle_compacted
<1> QED
  BY <1>1, <1>17, <1>18 DEF CompactedAsAlone, c

=============================================================================
