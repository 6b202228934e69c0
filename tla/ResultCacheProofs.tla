-------------------------- MODULE ResultCacheProofs --------------------------
(***************************************************************************)
(* What the executor's cache of results keeps and what it drops, for any   *)
(* limit: the facts about ResultCache that NativeExecutorProofs and        *)
(* ExecutorSystemProofs rest on.                                           *)
(***************************************************************************)
EXTENDS ResultCache, SequenceTheorems, FiniteSetTheorems, TLAPS

(* The order s of a cache of commands of S, with what entered it after each *)
(* of them: no command has two entries, and those that stand after one     *)
(* entered after it.                                                       *)
CacheOK(s, newer, S, limit) ==
  /\ s \in Seq(S) /\ Len(s) <= limit
  /\ \A i, j \in DOMAIN s : s[i] = s[j] => i = j
  /\ newer \in [S -> SUBSET S]
  /\ \A c \in S : IsFiniteSet(newer[c])
  /\ \A i, j \in DOMAIN s : i < j => s[j] \in newer[s[i]]

(* What the cache holds after a command without an entry is appended and   *)
(* the cache trimmed: its first entry is gone when it was full.            *)
LEMMA TrimmedAppend ==
  ASSUME NEW S, NEW limit \in Nat \ {0}, NEW cache \in Seq(S), Len(cache) <= limit,
         NEW c \in S
  PROVE  LET s == Trimmed(Append(cache, c), limit)
             k == IF Len(cache) < limit THEN 0 ELSE 1
         IN  /\ s \in Seq(S) /\ Len(s) = Len(cache) + 1 - k /\ Len(s) <= limit
             /\ DOMAIN s = 1..(Len(cache) + 1 - k)
             /\ \A i \in DOMAIN s : s[i] = IF i + k <= Len(cache) THEN cache[i + k] ELSE c
<1> DEFINE a == Append(cache, c)
           n == Len(cache)
<1>1. limit \in Nat /\ limit >= 1
  OBVIOUS
<1>2. cache \in Seq(S) /\ n \in Nat /\ n <= limit
  OBVIOUS
<1>3. /\ a \in Seq(S) /\ Len(a) = n + 1 /\ DOMAIN a = 1..(n + 1)
      /\ \A i \in 1..n : a[i] = cache[i]
      /\ a[n + 1] = c
  BY <1>2, AppendProperties
<1>4. CASE n < limit
  <2>1. Trimmed(a, limit) = a
    BY <1>1, <1>2, <1>3, <1>4 DEF Trimmed
  <2> HIDE DEF a
  <2> QED
    BY <1>1, <1>2, <1>3, <1>4, <2>1 DEF a
<1>5. CASE n = limit
  <2>1. Trimmed(a, limit) = SubSeq(a, 2, n + 1)
    BY <1>1, <1>2, <1>3, <1>5 DEF Trimmed
  <2>2. /\ SubSeq(a, 2, n + 1) \in Seq(S) /\ Len(SubSeq(a, 2, n + 1)) = n
        /\ \A i \in 1..n : SubSeq(a, 2, n + 1)[i] = a[i + 1]
    <3>1. \A i \in 2..(n + 1) : a[i] \in S
      BY <1>2, <1>3
    <3> HIDE DEF a, n
    <3> QED
      BY <1>1, <1>2, <1>5, <3>1, SubSeqProperties
  <2> HIDE DEF a
  <2>3. DOMAIN Trimmed(a, limit) = 1..n
    BY <1>2, <2>1, <2>2
  <2> QED
    BY <1>1, <1>2, <1>3, <1>5, <2>1, <2>2, <2>3 DEF a
<1> QED
  BY <1>1, <1>2, <1>4, <1>5

(* A result that is cached: its command is the one that may gain an entry, *)
(* and has one afterwards; what loses its entry has seen a whole cache of  *)
(* others enter.                                                           *)
LEMMA CacheStep ==
  ASSUME NEW S, NEW limit \in Nat \ {0}, NEW s, NEW newer, CacheOK(s, newer, S, limit),
         NEW c \in S
  PROVE  LET t == WithEntry(s, c, limit)
             after == NewerWith(newer, s, c)
         IN  /\ CacheOK(t, after, S, limit)
             /\ c \in EntriesOf(t) /\ EntriesOf(t) \subseteq EntriesOf(s) \union {c}
             /\ \A d \in S : d \in EntriesOf(s) /\ d \notin EntriesOf(t) =>
                  Cardinality(after[d]) >= limit
             /\ \A d \in S : d \notin EntriesOf(s) /\ d /= c =>
                  Cardinality(after[d]) >= Cardinality(newer[d])
<1> DEFINE t == WithEntry(s, c, limit)
           after == NewerWith(newer, s, c)
<1>0. limit \in Nat /\ limit >= 1 /\ s \in Seq(S) /\ Len(s) \in Nat
      /\ Len(s) <= limit /\ DOMAIN s = 1..Len(s) /\ newer \in [S -> SUBSET S]
  BY DEF CacheOK
<1>1. CASE c \in EntriesOf(s)
  <2>1. t = s /\ after = newer
    BY <1>1 DEF WithEntry, NewerWith
  <2>2. \A d \in S : Cardinality(newer[d]) \in Nat
    BY FS_CardinalityType DEF CacheOK
  <2> HIDE DEF t, after
  <2>3. CacheOK(t, after, S, limit)
    BY <2>1
  <2>4. \A d \in S : Cardinality(after[d]) >= Cardinality(newer[d])
    BY <2>1, <2>2
  <2> QED
    BY <1>1, <2>1, <2>3, <2>4 DEF t, after
<1>2. CASE c \notin EntriesOf(s)
  <2> DEFINE n == Len(s)
             k == IF n < limit THEN 0 ELSE 1
  <2>1. /\ t \in Seq(S) /\ Len(t) <= limit /\ DOMAIN t = 1..(n + 1 - k)
        /\ \A i \in DOMAIN t : t[i] = IF i + k <= n THEN s[i + k] ELSE c
    <3>1. t = Trimmed(Append(s, c), limit)
      BY <1>2 DEF WithEntry
    <3> DEFINE u == Trimmed(Append(s, c), limit)
    <3>2. /\ u \in Seq(S) /\ Len(u) = n + 1 - k /\ Len(u) <= limit
          /\ DOMAIN u = 1..(n + 1 - k)
          /\ \A i \in DOMAIN u : u[i] = IF i + k <= n THEN s[i + k] ELSE c
      <4>1. s \in Seq(S) /\ Len(s) <= limit /\ c \in S /\ limit \in Nat \ {0}
        BY <1>0
      <4> QED
        BY <4>1, TrimmedAppend
    <3> HIDE DEF t, u, n, k
    <3> QED
      BY <3>1, <3>2 DEF u
  <2>2. after = [d \in S |-> IF d = c THEN {} ELSE newer[d] \union {c}]
    BY <1>0, <1>2 DEF NewerWith
  <2>3. k \in {0, 1} /\ (k = 1 => n = limit) /\ n \in Nat
    <3>1. n \in Nat /\ n <= limit /\ limit \in Nat
      BY <1>0
    <3> HIDE DEF n
    <3> QED
      BY <3>1
  <2>4. \A i \in 1..n : s[i] /= c /\ s[i] \in S
    BY <1>0, <1>2 DEF EntriesOf
  <2> HIDE DEF n, k, t, after
  <2>5. \A i, j \in DOMAIN t : t[i] = t[j] => i = j
    <3> SUFFICES ASSUME NEW i \in DOMAIN t, NEW j \in DOMAIN t, t[i] = t[j]
                 PROVE  i = j
      OBVIOUS
    <3>1. i + k \in 1..(n + 1) /\ j + k \in 1..(n + 1) /\ i \in Nat /\ j \in Nat
      BY <2>1, <2>3
    <3>2. CASE i + k <= n /\ j + k <= n
      <4>1. s[i + k] = s[j + k] /\ i + k \in DOMAIN s /\ j + k \in DOMAIN s
        BY <1>0, <2>1, <3>1, <3>2 DEF n
      <4>2. i + k = j + k
        BY <4>1 DEF CacheOK
      <4> QED
        BY <2>3, <3>1, <4>2
    <3>3. CASE ~(i + k <= n) /\ ~(j + k <= n)
      BY <2>3, <3>1, <3>3
    <3> QED
      BY <2>1, <2>4, <3>1, <3>2, <3>3
  <2>6. after \in [S -> SUBSET S]
    BY <1>0, <2>2
  <2>7. \A i, j \in DOMAIN t : i < j => t[j] \in after[t[i]]
    <3> SUFFICES ASSUME NEW i \in DOMAIN t, NEW j \in DOMAIN t, i < j
                 PROVE  t[j] \in after[t[i]]
      OBVIOUS
    <3>1. i + k \in 1..n /\ j + k \in 1..(n + 1) /\ i + k < j + k
      BY <2>1, <2>3
    <3>2. t[i] = s[i + k] /\ after[t[i]] = newer[s[i + k]] \union {c}
      BY <2>1, <2>2, <2>4, <3>1
    <3>3. CASE j + k <= n
      BY <1>0, <2>1, <3>1, <3>2, <3>3 DEF CacheOK, n
    <3>4. CASE ~(j + k <= n)
      BY <2>1, <3>2, <3>4
    <3> QED
      BY <3>3, <3>4
  <2>8. \A d \in S : IsFiniteSet(after[d])
    BY <2>2, FS_AddElement, FS_EmptySet DEF CacheOK
  <2>9. c \in EntriesOf(t)
    <3>1. n + 1 - k \in 1..(n + 1 - k) /\ ~((n + 1 - k) + k <= n)
      BY <2>3
    <3>2. n + 1 - k \in DOMAIN t /\ t[n + 1 - k] = c
      BY <2>1, <3>1
    <3> QED
      BY <3>2 DEF EntriesOf
  <2>10. EntriesOf(t) \subseteq EntriesOf(s) \union {c}
    <3> SUFFICES ASSUME NEW i \in DOMAIN t, t[i] /= c
                 PROVE  t[i] \in EntriesOf(s)
      BY DEF EntriesOf
    <3>1. i + k <= n /\ i + k \in 1..n
      BY <2>1, <2>3
    <3> QED
      BY <1>0, <2>1, <3>1 DEF EntriesOf, n
  <2>11. ASSUME NEW d \in S, d \in EntriesOf(s), d \notin EntriesOf(t)
         PROVE  Cardinality(after[d]) >= limit
    <3>1. k = 1 /\ n = limit /\ d = s[1]
      <4>1. PICK i \in 1..n : d = s[i]
        BY <1>0, <2>11 DEF EntriesOf, n
      <4>2. i - k \notin DOMAIN t
        <5>1. i - k \in DOMAIN t => t[i - k] = d
          BY <2>1, <2>3, <4>1
        <5> QED
          BY <2>11, <5>1 DEF EntriesOf
      <4> QED
        BY <2>1, <2>3, <4>1, <4>2
    <3>2. after[d] = newer[d] \union {c}
      BY <1>2, <2>2, <2>11
    <3> DEFINE f == [i \in 1..limit |-> IF i < limit THEN s[i + 1] ELSE c]
    <3>3. ASSUME NEW i \in 1..limit
          PROVE  f[i] \in after[d]
      BY <1>0, <3>1, <3>2 DEF CacheOK, n
    <3>4. ASSUME NEW i \in 1..limit, NEW j \in 1..limit, f[i] = f[j]
          PROVE  i = j
      <4>1. CASE i < limit /\ j < limit
        <5>1. s[i + 1] = s[j + 1] /\ i + 1 \in DOMAIN s /\ j + 1 \in DOMAIN s
          BY <1>0, <3>1, <3>4, <4>1 DEF n
        <5> QED
          BY <1>0, <5>1 DEF CacheOK
      <4>2. CASE i = limit /\ j = limit
        BY <4>2
      <4>3. CASE i < limit /\ j = limit
        BY <1>0, <2>4, <3>1, <3>4, <4>3
      <4>4. CASE i = limit /\ j < limit
        BY <1>0, <2>4, <3>1, <3>4, <4>4
      <4> QED
        BY <1>0, <4>1, <4>2, <4>3, <4>4
    <3>5. f \in Injection(1..limit, after[d])
      BY <3>3, <3>4 DEF Injection, IsInjective
    <3>6. IsFiniteSet(after[d])
      BY <2>8
    <3> HIDE DEF f
    <3>7. Cardinality(1..limit) <= Cardinality(after[d])
      BY <3>5, <3>6, FS_Injection
    <3>8. Cardinality(1..limit) = limit /\ Cardinality(after[d]) \in Nat
      BY <1>0, <3>6, FS_Interval, FS_CardinalityType
    <3> QED
      BY <1>0, <3>7, <3>8
  <2>12. ASSUME NEW d \in S, d /= c
         PROVE  Cardinality(after[d]) >= Cardinality(newer[d])
    <3>1. IsFiniteSet(newer[d]) /\ Cardinality(newer[d]) \in Nat
      BY FS_CardinalityType DEF CacheOK
    <3>2. after[d] = newer[d] \union {c}
      BY <2>2, <2>12
    <3>3. \/ Cardinality(newer[d] \union {c}) = Cardinality(newer[d])
          \/ Cardinality(newer[d] \union {c}) = Cardinality(newer[d]) + 1
      BY <3>1, FS_AddElement
    <3> QED
      BY <3>1, <3>2, <3>3
  <2>13. CacheOK(t, after, S, limit)
    BY <2>1, <2>5, <2>6, <2>7, <2>8 DEF CacheOK
  <2> QED
    BY <2>9, <2>11, <2>12, <2>13, <2>10 DEF t, after
<1> QED
  BY <1>1, <1>2
=============================================================================
